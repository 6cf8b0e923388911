-------------------------- MODULE MillicoinsProofs --------------------------
(***************************************************************************)
(* The facts about sums of amounts that the ledger's proofs need: a sum is *)
(* a natural number, the sum over a disjoint union is the sum of the sums, *)
(* and renaming the members changes nothing.                               *)
(***************************************************************************)
EXTENDS Millicoins, FiniteSetTheorems, TLAPS

\* A finite family of amounts.
Family(f) == IsFiniteSet(DOMAIN f) /\ \A x \in DOMAIN f : f[x] \in Nat

\* The coins of a family are finitely many, so its total is a number.
LEMMA TotalIsNat ==
  ASSUME NEW f, Family(f)
  PROVE  IsFiniteSet(Coins(f)) /\ Total(f) \in Nat
<1> DEFINE part == [x \in DOMAIN f |-> {x} \X (1..f[x])]
           parts == {part[x] : x \in DOMAIN f}
<1>1. part \in Surjection(DOMAIN f, parts)
  BY DEF Surjection
<1>2. IsFiniteSet(parts)
  <2>1. IsFiniteSet(DOMAIN f)
    BY DEF Family
  <2> HIDE DEF part, parts
  <2> QED
    BY <1>1, <2>1, FS_Surjection
<1>3. ASSUME NEW x \in DOMAIN f
      PROVE  IsFiniteSet({x} \X (1..f[x]))
  <2>1. IsFiniteSet({x}) /\ IsFiniteSet(1..f[x])
    <3>1. f[x] \in Int
      BY DEF Family
    <3>2. IsFiniteSet({x})
      BY FS_Singleton, Zenon
    <3> HIDE DEF part, parts
    <3> QED
      BY <3>1, <3>2, FS_Interval
  <2> QED
    BY <2>1, FS_Product, Zenon
<1>4. \A T \in parts : IsFiniteSet(T)
  BY <1>3
<1>5. Coins(f) = UNION parts
  BY DEF Coins
<1>6. IsFiniteSet(Coins(f))
  <2> HIDE DEF parts
  <2> QED
    BY <1>2, <1>4, <1>5, FS_UNION
<1> QED
  BY <1>6, FS_CardinalityType DEF Total

\* Summing part by part: coins of disjoint parts are different coins.
LEMMA TotalOfUnion ==
  ASSUME NEW f, Family(f),
         NEW A, NEW B, DOMAIN f = A \cup B, A \cap B = {}
  PROVE  Total(f) = Total([x \in A |-> f[x]]) + Total([x \in B |-> f[x]])
<1> DEFINE a == [x \in A |-> f[x]]
           b == [x \in B |-> f[x]]
<1>1. IsFiniteSet(A) /\ IsFiniteSet(B)
  BY FS_Subset DEF Family
<1>2. Family(a) /\ Family(b)
  BY <1>1 DEF Family
<1>3. IsFiniteSet(Coins(a)) /\ IsFiniteSet(Coins(b))
  BY <1>2, TotalIsNat
<1>4. Coins(f) = Coins(a) \cup Coins(b)
  BY DEF Coins
<1>5. Coins(a) \cap Coins(b) = {}
  BY DEF Coins
<1>6. Cardinality(Coins(a) \cup Coins(b))
        = Cardinality(Coins(a)) + Cardinality(Coins(b))
            - Cardinality(Coins(a) \cap Coins(b))
  BY <1>3, FS_Union
<1>7. Cardinality(Coins(a) \cap Coins(b)) = 0
  BY <1>5, FS_EmptySet
<1>8. Cardinality(Coins(a)) \in Nat /\ Cardinality(Coins(b)) \in Nat
  BY <1>3, FS_CardinalityType
<1> QED
  BY <1>4, <1>6, <1>7, <1>8 DEF Total

\* A one-to-one renaming of the members keeps the total.
LEMMA TotalOfRenaming ==
  ASSUME NEW f, Family(f), NEW g, NEW m \in [DOMAIN f -> DOMAIN g],
         \A x, y \in DOMAIN f : m[x] = m[y] => x = y,
         \A y \in DOMAIN g : \E x \in DOMAIN f : m[x] = y,
         \A x \in DOMAIN f : g[m[x]] = f[x]
  PROVE  Total(g) = Total(f)
<1> DEFINE F == Coins(f)
           G == Coins(g)
           b == [c \in F |-> <<m[c[1]], c[2]>>]
<1>1. \A c \in F : c = <<c[1], c[2]>> /\ c[1] \in DOMAIN f /\ c[2] \in 1..f[c[1]]
  BY DEF Coins
<1>2. \A x \in DOMAIN g : \A k \in 1..g[x] : <<x, k>> \in G
  BY DEF Coins
<1>3. b \in [F -> G]
  BY <1>1, <1>2
<1>4. \A c, d \in F : b[c] = b[d] => c = d
  <2> SUFFICES ASSUME NEW c \in F, NEW d \in F, b[c] = b[d] PROVE c = d
    OBVIOUS
  <2>1. m[c[1]] = m[d[1]] /\ c[2] = d[2]
    OBVIOUS
  <2> QED
    BY <2>1, <1>1
<1>5. \A d \in G : \E c \in F : b[c] = d
  <2> SUFFICES ASSUME NEW d \in G PROVE \E c \in F : b[c] = d
    OBVIOUS
  <2>1. d = <<d[1], d[2]>> /\ d[1] \in DOMAIN g /\ d[2] \in 1..g[d[1]]
    BY DEF Coins
  <2>2. PICK x \in DOMAIN f : m[x] = d[1]
    BY <2>1
  <2>3. <<x, d[2]>> \in F
    BY <2>1, <2>2 DEF Coins
  <2>4. b[<<x, d[2]>>] = <<m[x], d[2]>>
    BY <2>3
  <2> QED
    BY <2>1, <2>2, <2>3, <2>4
<1>6. b \in Bijection(F, G)
  BY <1>3, <1>4, <1>5, Zenon DEF Bijection, Injection, Surjection, IsInjective
<1>7. IsFiniteSet(F)
  BY TotalIsNat
<1> QED
  BY <1>6, <1>7, FS_Bijection DEF ExistsBijection, Total

\* A family with no members is worth nothing.
LEMMA TotalOfNothing ==
  ASSUME NEW f, DOMAIN f = {}
  PROVE  Total(f) = 0
BY FS_EmptySet DEF Total, Coins

\* A family with one member is worth what the member is.
LEMMA TotalOfOne ==
  ASSUME NEW x, NEW n \in Nat
  PROVE  Total([y \in {x} |-> n]) = n
<1> DEFINE F == Coins([y \in {x} |-> n])
           b == [k \in 1..n |-> <<x, k>>]
<1>1. F = {x} \X (1..n)
  BY DEF Coins
<1>2. b \in [1..n -> F] /\ \A k, l \in 1..n : b[k] = b[l] => k = l
  BY <1>1
<1>3. ASSUME NEW c \in F PROVE \E k \in 1..n : b[k] = c
  <2>1. c[2] \in 1..n /\ c = <<x, c[2]>>
    BY <1>1
  <2> QED
    BY <2>1
<1>4. b \in Bijection(1..n, F)
  BY <1>2, <1>3, Zenon DEF Bijection, Injection, Surjection, IsInjective
<1>5. IsFiniteSet(1..n) /\ Cardinality(1..n) = n
  BY FS_Interval
<1> HIDE DEF F, b
<1>6. Cardinality(F) = n
  BY <1>4, <1>5, FS_Bijection DEF ExistsBijection
<1> QED
  BY <1>6 DEF Total, F

\* Taking one member out.
LEMMA TotalOfRest ==
  ASSUME NEW f, Family(f), NEW x \in DOMAIN f
  PROVE  /\ Total(f) = Total([y \in DOMAIN f \ {x} |-> f[y]]) + f[x]
         /\ Total([y \in DOMAIN f \ {x} |-> f[y]]) \in Nat
<1> DEFINE rest == [y \in DOMAIN f \ {x} |-> f[y]]
<1>1. Total(f) = Total(rest) + Total([y \in {x} |-> f[y]])
  BY TotalOfUnion
<1>2. [y \in {x} |-> f[y]] = [y \in {x} |-> f[x]]
  OBVIOUS
<1>3. f[x] \in Nat
  BY DEF Family
<1>4. Total([y \in {x} |-> f[x]]) = f[x]
  BY <1>3, TotalOfOne
<1>5. IsFiniteSet(DOMAIN f \ {x})
  BY FS_Difference DEF Family
<1>6. Family(rest)
  BY <1>5 DEF Family
<1> QED
  BY <1>1, <1>2, <1>4, <1>6, TotalIsNat

\* Changing one member changes the total by as much.
LEMMA TotalOfChange ==
  ASSUME NEW f, Family(f), NEW g, DOMAIN g = DOMAIN f, NEW x \in DOMAIN f,
         g[x] \in Nat, \A y \in DOMAIN f \ {x} : g[y] = f[y]
  PROVE  Family(g) /\ Total(g) = Total(f) - f[x] + g[x]
<1>1. Family(g)
  BY DEF Family
<1>2. [y \in DOMAIN g \ {x} |-> g[y]] = [y \in DOMAIN f \ {x} |-> f[y]]
  OBVIOUS
<1>3. PICK r \in Nat : Total(f) = r + f[x] /\ Total(g) = r + g[x]
  BY <1>1, <1>2, TotalOfRest
<1>4. f[x] \in Nat
  BY DEF Family
<1> QED
  BY <1>1, <1>3, <1>4

\* A part is worth no more than the whole.
LEMMA TotalOfPart ==
  ASSUME NEW f, Family(f), NEW A \in SUBSET DOMAIN f
  PROVE  /\ Family([x \in A |-> f[x]])
         /\ Total([x \in A |-> f[x]]) \in Nat
         /\ Total([x \in A |-> f[x]]) <= Total(f)
<1> DEFINE B == DOMAIN f \ A
<1>1. Total(f) = Total([x \in A |-> f[x]]) + Total([x \in B |-> f[x]])
  BY TotalOfUnion
<1>2. IsFiniteSet(A) /\ IsFiniteSet(B)
  BY FS_Subset DEF Family
<1>3. Family([x \in A |-> f[x]]) /\ Family([x \in B |-> f[x]])
  BY <1>2 DEF Family
<1>4. /\ Total([x \in A |-> f[x]]) \in Nat
      /\ Total([x \in B |-> f[x]]) \in Nat
  BY <1>3, TotalIsNat
<1> QED
  BY <1>1, <1>3, <1>4

\* Amounts that are all nothing add up to nothing.
LEMMA TotalOfZeros ==
  ASSUME NEW f, \A x \in DOMAIN f : f[x] = 0
  PROVE  Total(f) = 0
<1>1. Coins(f) = {}
  BY DEF Coins
<1> QED
  BY <1>1, FS_EmptySet DEF Total
\* What one member gives another stays in the family.
LEMMA TotalOfMove ==
  ASSUME NEW f, Family(f), NEW a \in DOMAIN f, NEW b \in DOMAIN f, a # b,
         NEW n \in Nat, n <= f[a], NEW g, DOMAIN g = DOMAIN f,
         g[a] = f[a] - n, g[b] = f[b] + n,
         \A x \in DOMAIN f : x # a /\ x # b => g[x] = f[x]
  PROVE  Total(g) = Total(f)
<1>1. PICK mid : mid = [f EXCEPT ![a] = f[a] - n]
  OBVIOUS
<1>2. f[a] \in Nat /\ f[b] \in Nat /\ f[a] - n \in Nat
  BY DEF Family
<1>3. /\ DOMAIN mid = DOMAIN f /\ mid[a] = f[a] - n /\ mid[b] = f[b]
      /\ \A x \in DOMAIN f \ {a} : mid[x] = f[x]
  BY <1>1
<1>4. Family(mid) /\ Total(mid) = Total(f) - f[a] + (f[a] - n)
  <2>1. mid[a] \in Nat
    BY <1>2, <1>3
  <2> QED
    BY <1>3, <2>1, TotalOfChange
<1>5. Total(g) = Total(mid) - f[b] + (f[b] + n)
  <2>1. g[b] \in Nat /\ DOMAIN g = DOMAIN mid /\ b \in DOMAIN mid
    BY <1>2, <1>3
  <2>2. \A y \in DOMAIN mid \ {b} : g[y] = mid[y]
    BY <1>3
  <2>3. Total(g) = Total(mid) - mid[b] + g[b]
    BY <1>4, <2>1, <2>2, TotalOfChange
  <2> QED
    BY <1>3, <2>3
<1>6. Total(f) \in Nat
  BY TotalIsNat
<1> QED
  BY <1>2, <1>4, <1>5, <1>6
=============================================================================
