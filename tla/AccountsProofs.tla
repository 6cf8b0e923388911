--------------------------- MODULE AccountsProofs ---------------------------
(***************************************************************************)
(* Theorems about the custodial books (Accounts) under the bridge that     *)
(* posts deposits and withdrawals to them (Supervision), for every fleet,  *)
(* journal, custody table and schedule of crashes and failures: the stored *)
(* balances are what the lines add up to, the mint holds what its books    *)
(* say, and no grant pays more in a trailing day than it allows.           *)
(***************************************************************************)
EXTENDS Supervision, MillicoinsProofs, SequenceTheorems

Policy == INSTANCE BurnCalcProofs

-----------------------------------------------------------------------------
\* Sums of journal lines.

Kinds == CREDIT_KINDS \cup DEBIT_KINDS

\* The total of some cells of a journal.
SumOf(lines, S) == Total([c \in S |-> lines[c]])
CreditsOf(lines, a, T) == SumOf(lines, {a} \X T \X CREDIT_KINDS)
DebitsOf(lines, a, T) == SumOf(lines, {a} \X T \X DEBIT_KINDS)
AllCredits(lines) == SumOf(lines, Agent \X Time \X CREDIT_KINDS)
AllDebits(lines) == SumOf(lines, Agent \X Time \X DEBIT_KINDS)

LEMMA FiniteTriples ==
  ASSUME NEW A, IsFiniteSet(A), NEW B, IsFiniteSet(B), NEW C, IsFiniteSet(C)
  PROVE  IsFiniteSet(A \X B \X C)
<1> DEFINE P == (A \X B) \X C
           m == [p \in P |-> <<p[1][1], p[1][2], p[2]>>]
<1>1. IsFiniteSet(A \X B)
  BY FS_Product
<1>2. IsFiniteSet(P)
  BY <1>1, FS_Product
<1>3. m \in [P -> A \X B \X C]
  OBVIOUS
<1>4. ASSUME NEW c \in A \X B \X C PROVE \E p \in P : m[p] = c
  <2>1. PICK x \in A, y \in B, z \in C : c = <<x, y, z>>
    OBVIOUS
  <2>2. <<<<x, y>>, z>> \in P /\ m[<<<<x, y>>, z>>] = c
    BY <2>1
  <2> QED
    BY <2>2
<1>5. m \in Surjection(P, A \X B \X C)
  BY <1>3, <1>4, Zenon DEF Surjection
<1> HIDE DEF P, m
<1> QED
  BY <1>2, <1>5, FS_Surjection

LEMMA KindsFinite == IsFiniteSet(CREDIT_KINDS) /\ IsFiniteSet(DEBIT_KINDS) /\ IsFiniteSet(Kinds)
<1>1. \A x, y : IsFiniteSet({x, y})
  <2> SUFFICES ASSUME NEW x, NEW y PROVE IsFiniteSet({x, y})
    OBVIOUS
  <2>1. IsFiniteSet({x}) /\ IsFiniteSet({y})
    BY FS_Singleton, Zenon
  <2>2. {x, y} = {x} \cup {y}
    OBVIOUS
  <2> QED
    BY <2>1, <2>2, FS_Union
<1>2. CREDIT_KINDS = {"deposit", "credit"} \cup {"pull_in", "pull_in"}
  BY DEF CREDIT_KINDS
<1>3. DEBIT_KINDS = {"debit", "pull_out"} \cup {"withdrawal", "burn"}
  BY DEF DEBIT_KINDS
<1>4. IsFiniteSet(CREDIT_KINDS) /\ IsFiniteSet(DEBIT_KINDS)
  BY <1>1, <1>2, <1>3, FS_Union
<1> QED
  BY <1>4, FS_Union DEF Kinds

LEMMA CellsFinite == IsFiniteSet(Time) /\ IsFiniteSet(Cell)
<1>1. IsFiniteSet(Time)
  BY WindowAssumption, FS_Interval DEF Time
<1> QED
  BY <1>1, KindsFinite, FleetAssumption, FiniteTriples DEF Cell, Kinds

\* A set of cells of a journal is a family of amounts.
LEMMA SumOfCells ==
  ASSUME NEW lines \in [Cell -> Nat], NEW S \in SUBSET Cell
  PROVE  Family([c \in S |-> lines[c]]) /\ SumOf(lines, S) \in Nat
<1>1. IsFiniteSet(S)
  BY CellsFinite, FS_Subset
<1>2. Family([c \in S |-> lines[c]])
  BY <1>1 DEF Family
<1> QED
  BY <1>2, TotalIsNat DEF SumOf

\* The cells of one agent's lines, and of all.
LEMMA AgentCells ==
  ASSUME NEW a \in Agent, NEW T \in SUBSET Time
  PROVE  /\ {a} \X T \X CREDIT_KINDS \in SUBSET Cell
         /\ {a} \X T \X DEBIT_KINDS \in SUBSET Cell
         /\ Agent \X Time \X CREDIT_KINDS \in SUBSET Cell
         /\ Agent \X Time \X DEBIT_KINDS \in SUBSET Cell
BY DEF Cell

\* A posted line adds its amount to every sum it is in.
LEMMA PostedSum ==
  ASSUME NEW lines \in [Cell -> Nat], NEW a \in Agent, NEW t \in Time,
         NEW kind \in Kinds, NEW n \in Nat,
         NEW new, new = Post(lines, a, t, kind, n)
  PROVE  /\ new \in [Cell -> Nat]
         /\ \A c \in Cell : c[1] # a => new[c] = lines[c]
         /\ \A S \in SUBSET Cell :
              SumOf(new, S) = SumOf(lines, S) + IF <<a, t, kind>> \in S THEN n ELSE 0
<1> DEFINE cell == <<a, t, kind>>
<1>1. cell \in Cell
  BY DEF Cell, Kinds
<1>2. lines[cell] \in Nat
  BY <1>1
<1>3. /\ new \in [Cell -> Nat]
      /\ new[cell] = lines[cell] + n
      /\ \A c \in Cell : c # cell => new[c] = lines[c]
  <2> HIDE DEF cell
  <2> QED
    BY <1>1, <1>2 DEF Post, cell
<1>4. ASSUME NEW S \in SUBSET Cell
      PROVE  SumOf(new, S) = SumOf(lines, S) + IF cell \in S THEN n ELSE 0
  <2> DEFINE f == [c \in S |-> lines[c]]
             g == [c \in S |-> new[c]]
  <2>1. Family(f) /\ Total(f) \in Nat
    BY SumOfCells DEF SumOf
  <2>2. CASE cell \in S
    <3>1. /\ DOMAIN g = DOMAIN f /\ cell \in DOMAIN f
          /\ g[cell] = f[cell] + n /\ f[cell] \in Nat /\ g[cell] \in Nat
          /\ \A y \in DOMAIN f \ {cell} : g[y] = f[y]
      BY <1>2, <1>3, <2>2
    <3> HIDE DEF f, g, cell
    <3>2. Total(g) = Total(f) - f[cell] + g[cell]
      BY <2>1, <3>1, TotalOfChange
    <3>3. Total(g) = Total(f) + n
      BY <2>1, <3>1, <3>2
    <3> QED
      BY <2>2, <3>3 DEF SumOf, f, g
  <2>3. CASE cell \notin S
    <3>1. \A c \in S : new[c] = lines[c]
      BY <1>3, <2>3
    <3>2. g = f
      BY <3>1
    <3> QED
      BY <2>1, <2>3, <3>2 DEF SumOf
  <2> QED
    BY <2>2, <2>3
<1>5. \A c \in Cell : c[1] # a => c # cell
  OBVIOUS
<1> QED
  BY <1>3, <1>4, <1>5

\* A credit line raises its agent's credits, and all credits, and no debits.
LEMMA PostedCredit ==
  ASSUME NEW lines \in [Cell -> Nat], NEW a \in Agent, NEW t \in Time,
         NEW kind \in CREDIT_KINDS, NEW n \in Nat,
         NEW new, new = Post(lines, a, t, kind, n)
  PROVE  /\ new \in [Cell -> Nat]
         /\ \A c \in Cell : c[1] # a => new[c] = lines[c]
         /\ \A b \in Agent, T \in SUBSET Time :
              /\ CreditsOf(new, b, T)
                   = CreditsOf(lines, b, T) + IF b = a /\ t \in T THEN n ELSE 0
              /\ DebitsOf(new, b, T) = DebitsOf(lines, b, T)
         /\ AllCredits(new)
              = AllCredits(lines) + n
         /\ AllDebits(new)
              = AllDebits(lines)
<1> DEFINE cell == <<a, t, kind>>
<1>1. kind \in Kinds /\ kind \notin DEBIT_KINDS
  BY DEF Kinds, CREDIT_KINDS, DEBIT_KINDS
<1>2. /\ new \in [Cell -> Nat]
      /\ \A c \in Cell : c[1] # a => new[c] = lines[c]
      /\ \A S \in SUBSET Cell :
           SumOf(new, S) = SumOf(lines, S) + IF cell \in S THEN n ELSE 0
  BY <1>1, PostedSum
<1>3. ASSUME NEW b \in Agent, NEW T \in SUBSET Time
      PROVE  /\ CreditsOf(new, b, T)
                  = CreditsOf(lines, b, T) + IF b = a /\ t \in T THEN n ELSE 0
             /\ DebitsOf(new, b, T) = DebitsOf(lines, b, T)
  <2>1. cell \in {b} \X T \X CREDIT_KINDS <=> b = a /\ t \in T
    OBVIOUS
  <2>2. cell \notin {b} \X T \X DEBIT_KINDS
    BY <1>1
  <2>3. SumOf(lines, {b} \X T \X DEBIT_KINDS) \in Nat
    BY AgentCells, SumOfCells
  <2> HIDE DEF cell
  <2> QED
    BY <1>2, <2>1, <2>2, <2>3, AgentCells DEF CreditsOf, DebitsOf
<1>4. /\ AllCredits(new)
           = AllCredits(lines) + n
      /\ AllDebits(new)
           = AllDebits(lines)
  <2>1. cell \in Agent \X Time \X CREDIT_KINDS /\ cell \notin Agent \X Time \X DEBIT_KINDS
    BY <1>1
  <2>2. AllDebits(lines) \in Nat
    BY AgentCells, SumOfCells DEF AllCredits, AllDebits
  <2> HIDE DEF cell
  <2> QED
    BY <1>2, <2>1, <2>2, AgentCells DEF AllCredits, AllDebits
<1> QED
  BY <1>2, <1>3, <1>4

\* A debit line raises its agent's debits, and all debits, and no credits.
LEMMA PostedDebit ==
  ASSUME NEW lines \in [Cell -> Nat], NEW a \in Agent, NEW t \in Time,
         NEW kind \in DEBIT_KINDS, NEW n \in Nat,
         NEW new, new = Post(lines, a, t, kind, n)
  PROVE  /\ new \in [Cell -> Nat]
         /\ \A c \in Cell : c[1] # a => new[c] = lines[c]
         /\ \A b \in Agent, T \in SUBSET Time :
              /\ DebitsOf(new, b, T)
                   = DebitsOf(lines, b, T) + IF b = a /\ t \in T THEN n ELSE 0
              /\ CreditsOf(new, b, T) = CreditsOf(lines, b, T)
         /\ AllDebits(new)
              = AllDebits(lines) + n
         /\ AllCredits(new)
              = AllCredits(lines)
<1> DEFINE cell == <<a, t, kind>>
<1>1. kind \in Kinds /\ kind \notin CREDIT_KINDS
  BY DEF Kinds, CREDIT_KINDS, DEBIT_KINDS
<1>2. /\ new \in [Cell -> Nat]
      /\ \A c \in Cell : c[1] # a => new[c] = lines[c]
      /\ \A S \in SUBSET Cell :
           SumOf(new, S) = SumOf(lines, S) + IF cell \in S THEN n ELSE 0
  BY <1>1, PostedSum
<1>3. ASSUME NEW b \in Agent, NEW T \in SUBSET Time
      PROVE  /\ DebitsOf(new, b, T)
                  = DebitsOf(lines, b, T) + IF b = a /\ t \in T THEN n ELSE 0
             /\ CreditsOf(new, b, T) = CreditsOf(lines, b, T)
  <2>1. cell \in {b} \X T \X DEBIT_KINDS <=> b = a /\ t \in T
    OBVIOUS
  <2>2. cell \notin {b} \X T \X CREDIT_KINDS
    BY <1>1
  <2>3. SumOf(lines, {b} \X T \X CREDIT_KINDS) \in Nat
    BY AgentCells, SumOfCells
  <2> HIDE DEF cell
  <2> QED
    BY <1>2, <2>1, <2>2, <2>3, AgentCells DEF CreditsOf, DebitsOf
<1>4. /\ AllDebits(new)
           = AllDebits(lines) + n
      /\ AllCredits(new)
           = AllCredits(lines)
  <2>1. cell \in Agent \X Time \X DEBIT_KINDS /\ cell \notin Agent \X Time \X CREDIT_KINDS
    BY <1>1
  <2>2. AllCredits(lines) \in Nat
    BY AgentCells, SumOfCells DEF AllCredits, AllDebits
  <2> HIDE DEF cell
  <2> QED
    BY <1>2, <2>1, <2>2, AgentCells DEF AllCredits, AllDebits
<1> QED
  BY <1>2, <1>3, <1>4

\* What the queries of Accounts read.
LEMMA QueriesAreSums ==
  /\ Sum(Agent \X Time \X CREDIT_KINDS) = AllCredits(journal)
  /\ Sum(Agent \X Time \X DEBIT_KINDS) = AllDebits(journal)
  /\ \A S : Sum(S) = SumOf(journal, S)
  /\ \A a, T : Credits(a, T) = CreditsOf(journal, a, T)
  /\ \A a, T : Debits(a, T) = DebitsOf(journal, a, T)
  /\ \A a, T : BalanceFromLines(a, T) = CreditsOf(journal, a, T) - DebitsOf(journal, a, T)
BY DEF Sum, SumOf, AllCredits, AllDebits, Credits, CreditsOf, Debits, DebitsOf, BalanceFromLines

-----------------------------------------------------------------------------
\* The custody rows.

States == {"pending", "unspent", "reserved", "spent"}
RowsOK(rows) ==
  DOMAIN rows \subseteq CustodyKey /\ \A h \in DOMAIN rows : rows[h] \in Row
HeldIn(rows) == {h \in DOMAIN rows : rows[h].state \in {"unspent", "reserved"}}
WorthOf(rows, S) == Total([h \in S |-> rows[h].amount])

LEMMA HeldRows == Held = HeldIn(custody)
BY DEF Held, InState, HeldIn

LEMMA RowFields ==
  ASSUME NEW rows, RowsOK(rows), NEW h \in DOMAIN rows
  PROVE  /\ rows[h].amount \in Nat /\ rows[h].state \in States
         /\ h \in CustodyKey /\ h # NULL
BY BridgeAssumption DEF RowsOK, Row, States

\* Some rows are a family of amounts.
LEMMA WorthOfRows ==
  ASSUME NEW rows, RowsOK(rows), NEW S \in SUBSET DOMAIN rows
  PROVE  /\ IsFiniteSet(S)
         /\ Family([h \in S |-> rows[h].amount])
         /\ WorthOf(rows, S) \in Nat
<1>1. IsFiniteSet(S)
  BY BridgeAssumption, FS_Subset DEF RowsOK
<1>2. Family([h \in S |-> rows[h].amount])
  BY <1>1, RowFields DEF Family
<1> QED
  BY <1>1, <1>2, TotalIsNat DEF WorthOf

LEMMA AddedRows ==
  ASSUME NEW rows, RowsOK(rows), NEW key \in CustodyKey, key \notin DOMAIN rows, NEW n \in Nat,
         NEW new, new = Added(rows, key, n)
  PROVE  /\ RowsOK(new)
         /\ \A h : h \in DOMAIN new <=> h \in DOMAIN rows \/ h = key
         /\ new[key].amount = n /\ new[key].state = "pending"
         /\ \A h \in DOMAIN rows : new[h] = rows[h]
BY DEF RowsOK, Added, Row

LEMMA MarkedRows ==
  ASSUME NEW rows, RowsOK(rows), NEW keys, NEW from \in States, NEW to \in States,
         NEW new, new = Marked(rows, keys, from, to)
  PROVE  /\ RowsOK(new)
         /\ DOMAIN new = DOMAIN rows
         /\ \A h \in DOMAIN rows :
              /\ new[h].amount = rows[h].amount
              /\ h \in keys /\ rows[h].state = from => new[h].state = to
              /\ h \notin keys \/ rows[h].state # from => new[h] = rows[h]
<1>1. DOMAIN new = DOMAIN rows
  BY DEF Marked
<1>2. ASSUME NEW h \in DOMAIN rows
      PROVE  /\ new[h] \in Row
             /\ new[h].amount = rows[h].amount
             /\ h \in keys /\ rows[h].state = from => new[h].state = to
             /\ h \notin keys \/ rows[h].state # from => new[h] = rows[h]
  <2>1. rows[h] \in Row
    BY DEF RowsOK
  <2>2. CASE h \in keys /\ rows[h].state = from
    <3>1. new[h] = [rows[h] EXCEPT !.state = to]
      BY <2>2 DEF Marked
    <3> QED
      BY <2>1, <2>2, <3>1 DEF Row, States
  <2>3. CASE ~(h \in keys /\ rows[h].state = from)
    <3>1. new[h] = rows[h]
      BY <2>3, Zenon DEF Marked
    <3> QED
      BY <2>1, <2>3, <3>1
  <2> QED
    BY <2>2, <2>3
<1>3. RowsOK(new)
  BY <1>1, <1>2 DEF RowsOK
<1> QED
  BY <1>1, <1>2, <1>3, Zenon

LEMMA DroppedRows ==
  ASSUME NEW rows, RowsOK(rows), NEW key,
         NEW new, new = Dropped(rows, key)
  PROVE  /\ RowsOK(new)
         /\ DOMAIN new \subseteq DOMAIN rows
         /\ key \in DOMAIN new => rows[key].state # "pending"
         /\ \A h \in DOMAIN rows \ {key} : h \in DOMAIN new
         /\ \A h \in DOMAIN rows : rows[h].state # "pending" => h \in DOMAIN new
         /\ \A h \in DOMAIN new : new[h] = rows[h]
BY DEF RowsOK, Dropped

\* Two tables that hold the same rows hold the same amount.
LEMMA SameWorth ==
  ASSUME NEW rows, NEW new, NEW S, \A h \in S : new[h].amount = rows[h].amount
  PROVE  WorthOf(new, S) = WorthOf(rows, S)
<1>1. [h \in S |-> new[h].amount] = [h \in S |-> rows[h].amount]
  OBVIOUS
<1> QED
  BY <1>1, Zenon DEF WorthOf

\* Rows that leave a set and a row that joins it change what it is worth.
LEMMA WorthWithout ==
  ASSUME NEW rows, RowsOK(rows), NEW S \in SUBSET DOMAIN rows, NEW R \in SUBSET S
  PROVE  WorthOf(rows, S) = WorthOf(rows, S \ R) + WorthOf(rows, R)
<1> DEFINE f == [h \in S |-> rows[h].amount]
<1>1. Family(f) /\ DOMAIN f = (S \ R) \cup R /\ (S \ R) \cap R = {}
  BY WorthOfRows
<1>2. [h \in S \ R |-> f[h]] = [h \in S \ R |-> rows[h].amount]
  OBVIOUS
<1>3. [h \in R |-> f[h]] = [h \in R |-> rows[h].amount]
  OBVIOUS
<1> HIDE DEF f
<1>4. Total(f) = Total([h \in S \ R |-> f[h]]) + Total([h \in R |-> f[h]])
  BY <1>1, TotalOfUnion
<1>5. Total(f) = WorthOf(rows, S \ R) + WorthOf(rows, R)
  BY <1>2, <1>3, <1>4 DEF WorthOf
<1> QED
  BY <1>5 DEF WorthOf, f

LEMMA WorthWith ==
  ASSUME NEW rows, RowsOK(rows), NEW S \in SUBSET DOMAIN rows, NEW k \in DOMAIN rows \ S
  PROVE  WorthOf(rows, S \cup {k}) = WorthOf(rows, S) + rows[k].amount
<1>1. WorthOf(rows, S \cup {k}) = WorthOf(rows, (S \cup {k}) \ {k}) + WorthOf(rows, {k})
  BY WorthWithout
<1>2. (S \cup {k}) \ {k} = S
  OBVIOUS
<1>3. WorthOf(rows, {k}) = rows[k].amount
  <2>1. [h \in {k} |-> rows[h].amount] = [h \in {k} |-> rows[k].amount]
    OBVIOUS
  <2>2. rows[k].amount \in Nat
    BY RowFields
  <2> QED
    BY <2>1, <2>2, TotalOfOne DEF WorthOf
<1> QED
  BY <1>1, <1>2, <1>3

-----------------------------------------------------------------------------
(***************************************************************************)
(* What the books rest on, whatever crashes and fails.  A staged record    *)
(* names a pending custody row for what it will add, has reserved what it  *)
(* will consume, and its figures add up; and no two of them have a row in  *)
(* common.                                                                 *)
(***************************************************************************)
Change(op) == IF op.key = NULL THEN 0 ELSE custody[op.key].amount
Reserved(op) == IF op.kind = "withdraw" THEN Keys(op.inputs) ELSE {}
Touched(op) == (IF op.key = NULL THEN {} ELSE {op.key}) \cup Reserved(op)

StagedOp(op) ==
  /\ op.kind \in {"deposit", "withdraw"}
  /\ op.agent \in DOMAIN agents /\ op.t \in 0..clock
  /\ op.total \in Nat /\ op.burn \in Nat /\ op.absorbed \in Nat
  /\ op.key # NULL => op.key \in DOMAIN custody /\ custody[op.key].state = "pending"
  /\ op.kind = "deposit" => /\ op.key # NULL /\ custody[op.key].amount = op.total
                            /\ op.burn = 0 /\ op.absorbed = 0
  /\ \A h \in Reserved(op) : h \in DOMAIN custody /\ custody[h].state = "reserved"
  /\ op.kind = "withdraw" =>
       WorthOf(custody, Keys(op.inputs)) = op.total + op.burn + op.absorbed + Change(op)
  /\ \A c \in op.outputs : c.amount \in Nat

Apart(p, q) == Touched(p) \cap Touched(q) = {}

LedgerOK ==
  \A h \in DOMAIN ledger :
    ledger[h] \in [amount : Nat, spent_at : 0..clock \cup {NULL}]

Booked ==
  /\ BooksTypeOK
  /\ RowsOK(custody) /\ absorbed \in Nat
  /\ \A op \in staged : StagedOp(op)
  /\ \A p, q \in staged : p # q => Apart(p, q)
  /\ LedgerOK
  /\ running # Idle => running.op \in staged /\ mode = "up"
  /\ mode \in {"up", "recovering", "down"}
  /\ \A c \in Cell : c[1] \notin DOMAIN agents => journal[c] = 0
  /\ \A u \in (1..MaxAuths) \X Time : u[1] > Len(auths) => pulled[u] = 0

\* A staged record stands while its rows do.
LEMMA StagedKept ==
  ASSUME NEW op, StagedOp(op), clock \in Nat, clock' \in Nat, clock <= clock',
         DOMAIN agents \subseteq DOMAIN agents',
         \A h \in Touched(op) : h \in DOMAIN custody' /\ custody'[h] = custody[h]
  PROVE  StagedOp(op)'
<1>1. \A h \in Reserved(op) : h \in DOMAIN custody' /\ custody'[h] = custody[h]
  BY DEF Touched
<1>2. op.key # NULL => op.key \in DOMAIN custody' /\ custody'[op.key] = custody[op.key]
  BY DEF Touched
<1>3. Change(op)' = Change(op)
  BY <1>2, Zenon DEF Change
<1>4. op.kind = "withdraw" =>
        WorthOf(custody', Keys(op.inputs)) = WorthOf(custody, Keys(op.inputs))
  <2> SUFFICES ASSUME op.kind = "withdraw"
               PROVE  WorthOf(custody', Keys(op.inputs)) = WorthOf(custody, Keys(op.inputs))
    OBVIOUS
  <2>1. \A h \in Keys(op.inputs) : custody'[h].amount = custody[h].amount
    BY <1>1, Zenon DEF Reserved
  <2> QED
    BY <2>1, SameWorth
<1>5. op.t \in 0..clock'
  <2>1. op.t \in 0..clock
    BY DEF StagedOp
  <2> QED
    BY <2>1
<1>6. Reserved(op)' = Reserved(op)
  BY Zenon DEF Reserved, Keys
<1>7. op.kind = "withdraw" =>
        WorthOf(custody', Keys(op.inputs)) = op.total + op.burn + op.absorbed + Change(op)'
  BY <1>3, <1>4, Zenon DEF StagedOp
<1>8. op.agent \in DOMAIN agents'
  BY DEF StagedOp
<1> QED
  BY <1>1, <1>2, <1>5, <1>6, <1>7, <1>8, Zenon DEF StagedOp, Keys, WorthOf

-----------------------------------------------------------------------------
\* Moves between agents.

LEMMA AgentRows ==
  ASSUME BooksTypeOK, NEW a \in DOMAIN agents
  PROVE  /\ a \in Agent /\ agents[a] \in AgentRow /\ agents[a].balance_mc \in Int
         /\ DOMAIN agents \subseteq Agent
<1>1. PICK known \in SUBSET Agent : agents \in [known -> AgentRow]
  BY DEF BooksTypeOK
<1>2. agents[a] \in AgentRow /\ a \in Agent
  BY <1>1
<1> QED
  BY <1>1, <1>2 DEF AgentRow

\* Two rows are alike but for the balance.
Alike(r, s) ==
  /\ r.operator_id = s.operator_id /\ r.frozen = s.frozen
  /\ r.no_bearer_withdrawal = s.no_bearer_withdrawal /\ r.caps = s.caps

\* A balance that changes leaves the rest of the row and the other rows alone.
LEMMA PaidRow ==
  ASSUME BooksTypeOK, NEW a \in DOMAIN agents, NEW n \in Int
  PROVE  LET new == [agents EXCEPT ![a].balance_mc = n]
         IN  /\ DOMAIN new = DOMAIN agents
             /\ \E known \in SUBSET Agent : new \in [known -> AgentRow]
             /\ new[a].balance_mc = n
             /\ \A b \in DOMAIN agents : b # a => new[b] = agents[b]
             /\ \A b \in DOMAIN agents : new[b] \in AgentRow /\ Alike(new[b], agents[b])
<1> DEFINE new == [agents EXCEPT ![a].balance_mc = n]
<1>1. PICK known \in SUBSET Agent : agents \in [known -> AgentRow]
  BY DEF BooksTypeOK
<1>2. agents[a] \in AgentRow /\ DOMAIN agents = known
  BY <1>1
<1>3. /\ [agents[a] EXCEPT !.balance_mc = n] \in AgentRow
      /\ [agents[a] EXCEPT !.balance_mc = n].balance_mc = n
      /\ Alike([agents[a] EXCEPT !.balance_mc = n], agents[a])
  BY <1>2 DEF AgentRow, Alike
<1>4. new[a] = [agents[a] EXCEPT !.balance_mc = n]
  BY <1>1
<1>5. \A b \in DOMAIN agents : b # a => new[b] = agents[b]
  BY <1>1
<1>6. ASSUME NEW b \in DOMAIN agents PROVE new[b] \in AgentRow /\ Alike(new[b], agents[b])
  <2>1. CASE b = a
    BY <1>3, <1>4, <2>1, Zenon
  <2>2. CASE b # a
    <3>1. agents[b] \in AgentRow
      BY <1>1
    <3> QED
      BY <1>5, <2>2, <3>1, Zenon DEF Alike
  <2> QED
    BY <2>1, <2>2
<1>7. DOMAIN new = DOMAIN agents
  OBVIOUS
<1>8. new \in [known -> AgentRow]
  <2>1. new = [b \in known |-> new[b]]
    BY <1>2
  <2> HIDE DEF new
  <2> QED
    BY <1>2, <1>6, <2>1
<1>9. new[a].balance_mc = n
  BY <1>3, <1>4, Zenon
<1> HIDE DEF new
<1> QED
  BY <1>5, <1>6, <1>7, <1>8, <1>9 DEF new

\* A move pays the one what it takes from the other, who may be the same.
LEMMA MovedRows ==
  ASSUME BooksTypeOK, NEW a \in DOMAIN agents, NEW b \in DOMAIN agents, NEW n \in Nat
  PROVE  LET new == Move(a, b, n)
         IN  /\ DOMAIN new = DOMAIN agents
             /\ \E known \in SUBSET Agent : new \in [known -> AgentRow]
             /\ \A x \in DOMAIN agents :
                  /\ new[x].balance_mc = agents[x].balance_mc
                       - (IF x = a THEN n ELSE 0) + (IF x = b THEN n ELSE 0)
                  /\ new[x] \in AgentRow /\ Alike(new[x], agents[x])
<1> DEFINE mid == [agents EXCEPT ![a].balance_mc = @ - n]
           new == Move(a, b, n)
<1>1. PICK known \in SUBSET Agent : agents \in [known -> AgentRow]
  BY DEF BooksTypeOK
<1>2. \A x \in DOMAIN agents : agents[x] \in AgentRow /\ agents[x].balance_mc \in Int
  BY AgentRows
<1>3. agents[a].balance_mc - n \in Int
  BY <1>2
<1>4. /\ DOMAIN mid = DOMAIN agents
      /\ \E k \in SUBSET Agent : mid \in [k -> AgentRow]
      /\ mid[a].balance_mc = agents[a].balance_mc - n
      /\ \A x \in DOMAIN agents : x # a => mid[x] = agents[x]
      /\ \A x \in DOMAIN agents : mid[x] \in AgentRow /\ Alike(mid[x], agents[x])
  BY <1>3, PaidRow
<1>5. new = [mid EXCEPT ![b].balance_mc = mid[b].balance_mc + n]
  BY DEF Move
<1>6. PICK k \in SUBSET Agent : mid \in [k -> AgentRow]
  BY <1>4
<1> HIDE DEF mid
<1>7. mid[b].balance_mc \in Int
  BY <1>4 DEF AgentRow
<1>8. /\ [mid[b] EXCEPT !.balance_mc = mid[b].balance_mc + n] \in AgentRow
      /\ [mid[b] EXCEPT !.balance_mc = mid[b].balance_mc + n].balance_mc = mid[b].balance_mc + n
      /\ Alike([mid[b] EXCEPT !.balance_mc = mid[b].balance_mc + n], mid[b])
  <2>1. mid[b] \in AgentRow /\ mid[b].balance_mc + n \in Int
    BY <1>4, <1>7
  <2> QED
    BY <2>1 DEF AgentRow, Alike
<1>9. /\ new[b] = [mid[b] EXCEPT !.balance_mc = mid[b].balance_mc + n]
      /\ \A x \in DOMAIN agents : x # b => new[x] = mid[x]
      /\ DOMAIN new = DOMAIN agents
  <2> HIDE DEF new
  <2> QED
    BY <1>4, <1>5, <1>6
<1>10. /\ new[b].balance_mc = mid[b].balance_mc + n
       /\ new[b] \in AgentRow
       /\ Alike(new[b], mid[b])
  BY <1>8, <1>9, Zenon
<1> HIDE DEF new
<1>11. ASSUME NEW x \in DOMAIN agents
       PROVE  /\ new[x].balance_mc = agents[x].balance_mc
                   - (IF x = a THEN n ELSE 0) + (IF x = b THEN n ELSE 0)
              /\ new[x] \in AgentRow /\ Alike(new[x], agents[x])
  <2>1. mid[x].balance_mc = agents[x].balance_mc - (IF x = a THEN n ELSE 0)
    BY <1>2, <1>4
  <2>2. CASE x = b
    <3>1. new[x].balance_mc = mid[x].balance_mc + n
      BY <1>10, <2>2, Zenon
    <3>2. new[x] \in AgentRow /\ Alike(new[x], agents[x])
      BY <1>4, <1>10, <2>2, Zenon DEF Alike
    <3> QED
      BY <1>2, <2>1, <2>2, <3>1, <3>2
  <2>3. CASE x # b
    <3>1. new[x] = mid[x]
      BY <1>9, <2>3
    <3>2. new[x] \in AgentRow /\ Alike(new[x], agents[x])
      BY <1>4, <3>1, Zenon
    <3> QED
      BY <1>2, <2>1, <2>3, <3>1, <3>2
  <2> QED
    BY <2>2, <2>3
<1>12. new \in [DOMAIN agents -> AgentRow]
  <2>1. new = [x \in DOMAIN agents |-> new[x]]
    BY <1>5, <1>6, <1>9
  <2> QED
    BY <1>11, <2>1
<1>13. DOMAIN agents \in SUBSET Agent
  BY <1>1
<1> QED
  BY <1>9, <1>11, <1>12, <1>13 DEF new

\* The two lines of a move.
LEMMA MovedLines ==
  ASSUME NEW lines \in [Cell -> Nat], NEW a \in Agent, NEW b \in Agent, NEW t \in Time,
         NEW dr \in DEBIT_KINDS, NEW cr \in CREDIT_KINDS, NEW n \in Nat,
         NEW new, new = Post(Post(lines, a, t, dr, n), b, t, cr, n)
  PROVE  /\ new \in [Cell -> Nat]
         /\ \A x \in Agent, T \in SUBSET Time :
              /\ DebitsOf(new, x, T)
                   = DebitsOf(lines, x, T) + IF x = a /\ t \in T THEN n ELSE 0
              /\ CreditsOf(new, x, T)
                   = CreditsOf(lines, x, T) + IF x = b /\ t \in T THEN n ELSE 0
         /\ AllDebits(new)
              = AllDebits(lines) + n
         /\ AllCredits(new)
              = AllCredits(lines) + n
         /\ \A c \in Cell : c[1] \notin {a, b} => new[c] = lines[c]
<1> PICK mid : mid = Post(lines, a, t, dr, n)
  OBVIOUS
<1> new = Post(mid, b, t, cr, n)
  OBVIOUS
<1>1. mid \in [Cell -> Nat] /\ \A c \in Cell : c[1] # a => mid[c] = lines[c]
  BY PostedDebit
<1>2. /\ \A x \in Agent, T \in SUBSET Time :
           /\ DebitsOf(mid, x, T) = DebitsOf(lines, x, T) + IF x = a /\ t \in T THEN n ELSE 0
           /\ CreditsOf(mid, x, T) = CreditsOf(lines, x, T)
      /\ AllDebits(mid)
           = AllDebits(lines) + n
      /\ AllCredits(mid)
           = AllCredits(lines)
  BY PostedDebit
<1>3. new \in [Cell -> Nat] /\ \A c \in Cell : c[1] # b => new[c] = mid[c]
  BY <1>1, PostedCredit
<1>4. /\ \A x \in Agent, T \in SUBSET Time :
           /\ CreditsOf(new, x, T) = CreditsOf(mid, x, T) + IF x = b /\ t \in T THEN n ELSE 0
           /\ DebitsOf(new, x, T) = DebitsOf(mid, x, T)
      /\ AllCredits(new)
           = AllCredits(mid) + n
      /\ AllDebits(new)
           = AllDebits(mid)
  BY <1>1, PostedCredit
<1>5. \A c \in Cell : c[1] \notin {a, b} => new[c] = lines[c]
  BY <1>1, <1>3
<1>6. \A x \in Agent, T \in SUBSET Time :
        /\ DebitsOf(new, x, T) = DebitsOf(lines, x, T) + IF x = a /\ t \in T THEN n ELSE 0
        /\ CreditsOf(new, x, T) = CreditsOf(lines, x, T) + IF x = b /\ t \in T THEN n ELSE 0
  BY <1>2, <1>4
<1>7. /\ AllDebits(new)
           = AllDebits(lines) + n
      /\ AllCredits(new)
           = AllCredits(lines) + n
  BY <1>2, <1>4
<1> QED
  BY <1>3, <1>5, <1>6, <1>7

-----------------------------------------------------------------------------
(***************************************************************************)
(* The three claims about the books, each over the state as it stands.     *)
(***************************************************************************)
Agree ==
  \A a \in DOMAIN agents :
    agents[a].balance_mc = CreditsOf(journal, a, Time) - DebitsOf(journal, a, Time)

Accounted ==
  WorthOf(custody, HeldIn(custody)) + absorbed + AllDebits(journal) = AllCredits(journal)

LEMMA ClaimsAreSums ==
  /\ JournalAgrees <=> Agree
  /\ CustodyAccounted <=> Accounted
BY QueriesAreSums, HeldRows
   DEF JournalAgrees, Agree, CustodyAccounted, Accounted, WorthOf

\* Every sum of lines is a number.
LEMMA SumsAreNumbers ==
  ASSUME BooksTypeOK
  PROVE  /\ \A a \in Agent, T \in SUBSET Time :
              CreditsOf(journal, a, T) \in Nat /\ DebitsOf(journal, a, T) \in Nat
         /\ AllCredits(journal) \in Nat /\ AllDebits(journal) \in Nat
<1>1. journal \in [Cell -> Nat]
  BY DEF BooksTypeOK
<1>2. \A S \in SUBSET Cell : SumOf(journal, S) \in Nat
  BY <1>1, SumOfCells
<1> QED
  BY <1>2, AgentCells DEF CreditsOf, DebitsOf, AllCredits, AllDebits

\* What the books keep of Booked, and of the claims, in a step that leaves
\* the custody table alone.
AgentsOK == \E known \in SUBSET Agent : agents \in [known -> AgentRow]
Unlisted == \A c \in Cell : c[1] \notin DOMAIN agents => journal[c] = 0
GrantsOK ==
  /\ auths \in Seq(Auth) /\ Len(auths) <= MaxAuths
  /\ \A i \in DOMAIN auths :
       {auths[i].granter, auths[i].payee} \subseteq DOMAIN agents
  /\ pulled \in [(1..MaxAuths) \X Time -> Nat]
Unpulled == \A u \in (1..MaxAuths) \X Time : u[1] > Len(auths) => pulled[u] = 0

LEMMA BooksParts ==
  BooksTypeOK <=> clock \in Time /\ AgentsOK /\ journal \in [Cell -> Nat] /\ GrantsOK
BY DEF BooksTypeOK, AgentsOK, GrantsOK

LinesKept ==
  /\ AgentsOK' /\ journal' \in [Cell -> Nat] /\ Unlisted'
  /\ DOMAIN agents \subseteq DOMAIN agents'
  /\ Agree => Agree'
  /\ AllDebits(journal') + AllCredits(journal) = AllDebits(journal) + AllCredits(journal')

\* A move posts a debit and a credit of one amount.
LEMMA MoveStep ==
  ASSUME BooksTypeOK, Unlisted,
         NEW a \in DOMAIN agents, NEW b \in DOMAIN agents, NEW n \in Nat,
         NEW dr \in DEBIT_KINDS, NEW cr \in CREDIT_KINDS, agents' = Move(a, b, n),
         journal' = Post(Post(journal, a, clock, dr, n), b, clock, cr, n)
  PROVE  LinesKept /\ DOMAIN agents' = DOMAIN agents
<1>1. journal \in [Cell -> Nat] /\ clock \in Time
  BY DEF BooksTypeOK
<1>2. a \in Agent /\ b \in Agent /\ DOMAIN agents \subseteq Agent
  BY AgentRows
<1>3. /\ DOMAIN agents' = DOMAIN agents
      /\ AgentsOK'
      /\ \A x \in DOMAIN agents :
           agents'[x].balance_mc = agents[x].balance_mc
             - (IF x = a THEN n ELSE 0) + (IF x = b THEN n ELSE 0)
  BY MovedRows DEF AgentsOK
<1>4. /\ journal' \in [Cell -> Nat]
      /\ \A x \in Agent, T \in SUBSET Time :
           /\ DebitsOf(journal', x, T)
                = DebitsOf(journal, x, T) + IF x = a /\ clock \in T THEN n ELSE 0
           /\ CreditsOf(journal', x, T)
                = CreditsOf(journal, x, T) + IF x = b /\ clock \in T THEN n ELSE 0
      /\ AllDebits(journal') = AllDebits(journal) + n
      /\ AllCredits(journal') = AllCredits(journal) + n
      /\ \A c \in Cell : c[1] \notin {a, b} => journal'[c] = journal[c]
  BY <1>1, <1>2, MovedLines
<1>5. Unlisted'
  BY <1>3, <1>4 DEF Unlisted
<1>6. ASSUME Agree PROVE Agree'
  <2> SUFFICES ASSUME NEW x \in DOMAIN agents
               PROVE  agents'[x].balance_mc
                        = CreditsOf(journal', x, Time) - DebitsOf(journal', x, Time)
    BY <1>3 DEF Agree
  <2>1. agents[x].balance_mc = CreditsOf(journal, x, Time) - DebitsOf(journal, x, Time)
    BY <1>6 DEF Agree
  <2>2. x \in Agent /\ agents[x].balance_mc \in Int
    BY AgentRows
  <2>3. CreditsOf(journal, x, Time) \in Nat /\ DebitsOf(journal, x, Time) \in Nat
    BY <2>2, SumsAreNumbers
  <2>4. /\ DebitsOf(journal', x, Time) = DebitsOf(journal, x, Time) + IF x = a THEN n ELSE 0
        /\ CreditsOf(journal', x, Time) = CreditsOf(journal, x, Time) + IF x = b THEN n ELSE 0
    BY <1>1, <1>4, <2>2
  <2> QED
    BY <1>3, <2>1, <2>2, <2>3, <2>4
<1>7. AllDebits(journal') + AllCredits(journal) = AllDebits(journal) + AllCredits(journal')
  BY <1>4, SumsAreNumbers
<1> QED
  BY <1>3, <1>4, <1>5, <1>6, <1>7 DEF LinesKept

\* A step that posts nothing and moves nothing.
LEMMA QuietStep ==
  ASSUME BooksTypeOK, Unlisted, AgentsOK', journal' = journal,
         DOMAIN agents' = DOMAIN agents,
         \A a \in DOMAIN agents : agents'[a].balance_mc = agents[a].balance_mc
  PROVE  LinesKept
<1>1. journal \in [Cell -> Nat] /\ AllDebits(journal) \in Nat /\ AllCredits(journal) \in Nat
  BY SumsAreNumbers DEF BooksTypeOK
<1> QED
  BY <1>1 DEF LinesKept, Unlisted, Agree

\* A new agent has no lines and nothing in the books.
LEMMA RegisterStep ==
  ASSUME BooksTypeOK, Unlisted, NEW op \in Operator, NEW a \in Agent, RegisterAgent(op, a)
  PROVE  LinesKept
<1> DEFINE row == [operator_id |-> op, balance_mc |-> 0, frozen |-> FALSE,
                   no_bearer_withdrawal |-> FALSE, caps |-> Uncapped]
<1>1. row \in AgentRow /\ row.balance_mc = 0
  BY DEF AgentRow
<1> HIDE DEF row
<1>2. PICK known \in SUBSET Agent : agents \in [known -> AgentRow]
  BY DEF BooksTypeOK
<1>3. agents' = [b \in DOMAIN agents \cup {a} |-> IF b = a THEN row ELSE agents[b]]
  BY DEF RegisterAgent, row
<1>4. a \notin DOMAIN agents /\ journal' = journal /\ journal \in [Cell -> Nat]
  BY DEF RegisterAgent, BooksTypeOK
<1>5. /\ DOMAIN agents' = DOMAIN agents \cup {a} /\ agents'[a] = row
      /\ \A b \in DOMAIN agents : agents'[b] = agents[b]
  BY <1>3, <1>4
<1>6. AgentsOK'
  <2>1. known \cup {a} \in SUBSET Agent /\ agents' \in [known \cup {a} -> AgentRow]
    BY <1>1, <1>2, <1>3
  <2> QED
    BY <2>1 DEF AgentsOK
<1>7. Unlisted'
  BY <1>4, <1>5 DEF Unlisted
<1>8. CreditsOf(journal, a, Time) = 0 /\ DebitsOf(journal, a, Time) = 0
  <2>1. ASSUME NEW S \in SUBSET Cell, \A c \in S : c[1] = a
        PROVE  SumOf(journal, S) = 0
    <3>1. \A c \in S : journal[c] = 0
      BY <1>4, <2>1 DEF Unlisted
    <3>2. \A c \in DOMAIN [d \in S |-> journal[d]] : [d \in S |-> journal[d]][c] = 0
      BY <3>1
    <3> QED
      BY <3>2, TotalOfZeros DEF SumOf
  <2>2. /\ {a} \X Time \X CREDIT_KINDS \in SUBSET Cell
        /\ {a} \X Time \X DEBIT_KINDS \in SUBSET Cell
    BY AgentCells
  <2>3. /\ \A c \in {a} \X Time \X CREDIT_KINDS : c[1] = a
        /\ \A c \in {a} \X Time \X DEBIT_KINDS : c[1] = a
    OBVIOUS
  <2>4. SumOf(journal, {a} \X Time \X CREDIT_KINDS) = 0
    BY <2>1, <2>2, <2>3, Zenon
  <2>5. SumOf(journal, {a} \X Time \X DEBIT_KINDS) = 0
    BY <2>1, <2>2, <2>3, Zenon
  <2> QED
    BY <2>4, <2>5, Zenon DEF CreditsOf, DebitsOf
<1>9. ASSUME Agree PROVE Agree'
  <2> SUFFICES ASSUME NEW x \in DOMAIN agents'
               PROVE  agents'[x].balance_mc
                        = CreditsOf(journal, x, Time) - DebitsOf(journal, x, Time)
    BY <1>4 DEF Agree
  <2>1. CASE x = a
    BY <1>1, <1>5, <1>8, <2>1
  <2>2. CASE x \in DOMAIN agents
    BY <1>5, <1>9, <2>2 DEF Agree
  <2> QED
    BY <1>5, <2>1, <2>2
<1>10. AllDebits(journal) \in Nat /\ AllCredits(journal) \in Nat
  BY SumsAreNumbers
<1> QED
  BY <1>4, <1>5, <1>6, <1>7, <1>9, <1>10 DEF LinesKept

-----------------------------------------------------------------------------
\* The operations of the books.

\* An authorisation, and what was pulled on it.
LEMMA GrantFields ==
  ASSUME BooksTypeOK, NEW i \in DOMAIN auths
  PROVE  /\ i \in 1..MaxAuths /\ auths[i] \in Auth
         /\ auths[i].granter \in DOMAIN agents /\ auths[i].payee \in DOMAIN agents
         /\ auths[i].bounds.cap_mc_per_day \in Nat
<1>1. auths \in Seq(Auth) /\ Len(auths) <= MaxAuths
  BY DEF BooksTypeOK
<1>2. auths[i] \in Auth
  BY <1>1
<1>3. auths[i].bounds \in Grant
  BY <1>2 DEF Auth
<1>4. auths[i].bounds.cap_mc_per_day \in Nat
  BY <1>3, GrantAssumption
<1>5. i \in 1..MaxAuths
  <2>1. i \in 1..Len(auths)
    BY <1>1
  <2> QED
    BY <1>1, <2>1, WindowAssumption
<1>6. auths[i].granter \in DOMAIN agents /\ auths[i].payee \in DOMAIN agents
  BY DEF BooksTypeOK
<1> QED
  BY <1>2, <1>4, <1>5, <1>6

\* What grants keep of Booked.
GrantsKept == GrantsOK' /\ Unpulled' /\ (PullBound => PullBound')

\* A step that gives no grant and pulls nothing.
LEMMA GrantsUntouched ==
  ASSUME GrantsOK, Unpulled, auths' = auths, pulled' = pulled,
         DOMAIN agents \subseteq DOMAIN agents'
  PROVE  GrantsKept
<1>1. GrantsOK'
  BY DEF GrantsOK
<1>2. Unpulled'
  BY DEF Unpulled
<1>3. PullBound => PullBound'
  BY DEF PullBound
<1> QED
  BY <1>1, <1>2, <1>3 DEF GrantsKept

LEMMA AuthorizeStep ==
  ASSUME BooksTypeOK, GrantsOK, Unpulled, NEW a \in Agent, NEW b \in Agent,
         NEW bounds \in Grant, AuthorizePull(a, b, bounds)
  PROVE  GrantsKept
<1> DEFINE new == [granter |-> a, payee |-> b, bounds |-> bounds, revoked |-> FALSE]
<1>1. /\ auths \in Seq(Auth) /\ Len(auths) < MaxAuths /\ auths' = Append(auths, new)
      /\ pulled' = pulled /\ agents' = agents /\ {a, b} \subseteq DOMAIN agents
  BY DEF AuthorizePull, GrantsOK
<1>2. new \in Auth
  BY DEF Auth
<1>3. new.granter = a /\ new.payee = b /\ new.bounds = bounds
  OBVIOUS
<1> HIDE DEF new
<1>4. /\ auths' \in Seq(Auth) /\ Len(auths') = Len(auths) + 1
      /\ auths'[Len(auths) + 1] = new
      /\ DOMAIN auths' = DOMAIN auths \cup {Len(auths) + 1}
      /\ \A i \in DOMAIN auths : auths'[i] = auths[i]
  BY <1>1, <1>2
<1>5. GrantsOK'
  <2>1. Len(auths') <= MaxAuths
    BY <1>1, <1>4, WindowAssumption
  <2>2. \A i \in DOMAIN auths' :
          {auths'[i].granter, auths'[i].payee} \subseteq DOMAIN agents'
    BY <1>1, <1>3, <1>4 DEF GrantsOK
  <2> QED
    BY <1>1, <1>4, <2>1, <2>2 DEF GrantsOK
<1>6. Unpulled'
  <2> SUFFICES ASSUME NEW u \in (1..MaxAuths) \X Time, u[1] > Len(auths) + 1
               PROVE  pulled[u] = 0
    BY <1>1, <1>4 DEF Unpulled
  <2>1. u[1] > Len(auths)
    BY <1>1
  <2> QED
    BY <2>1 DEF Unpulled
<1>7. ASSUME PullBound PROVE PullBound'
  <2> SUFFICES ASSUME NEW i \in DOMAIN auths', NEW now \in Time,
                      NEW day, day = {t \in Time : now - DAY_MS < t /\ t <= now}
               PROVE  Total([t \in day |-> pulled[<<i, t>>]]) <= auths'[i].bounds.cap_mc_per_day
    BY <1>1 DEF PullBound
  <2>1. CASE i \in DOMAIN auths
    BY <1>4, <1>7, <2>1 DEF PullBound
  <2>2. CASE i = Len(auths) + 1
    <3>1. \A t \in day : pulled[<<i, t>>] = 0
      <4> SUFFICES ASSUME NEW t \in day PROVE pulled[<<i, t>>] = 0
        OBVIOUS
      <4>1. i \in 1..MaxAuths /\ i > Len(auths)
        BY <1>1, <2>2, WindowAssumption
      <4>2. t \in Time
        OBVIOUS
      <4>3. PICK u : u = <<i, t>>
        OBVIOUS
      <4>4. u \in (1..MaxAuths) \X Time /\ u[1] = i
        BY <4>1, <4>2, <4>3
      <4>5. pulled[u] = 0
        BY <4>1, <4>4 DEF Unpulled
      <4> QED
        BY <4>3, <4>5
    <3>2. Total([t \in day |-> pulled[<<i, t>>]]) = 0
      BY <3>1, TotalOfZeros
    <3>3. auths'[i].bounds.cap_mc_per_day \in Nat
      <4>1. auths'[i].bounds \in Grant
        BY <1>3, <1>4, <2>2
      <4> QED
        BY <4>1, GrantAssumption
    <3> QED
      BY <3>2, <3>3
  <2> QED
    BY <1>4, <2>1, <2>2
<1> QED
  BY <1>5, <1>6, <1>7 DEF GrantsKept

LEMMA RevokeStep ==
  ASSUME GrantsOK, Unpulled, NEW i, RevokePull(i)
  PROVE  GrantsKept
<1>1. /\ i \in DOMAIN auths /\ auths \in Seq(Auth) /\ auths' = [auths EXCEPT ![i].revoked = TRUE]
      /\ pulled' = pulled /\ agents' = agents
  BY DEF RevokePull, GrantsOK
<1>2. auths[i] \in Auth
  BY <1>1
<1>3. PICK new : new = [auths[i] EXCEPT !.revoked = TRUE]
  OBVIOUS
<1>4. /\ new \in Auth /\ new.granter = auths[i].granter /\ new.payee = auths[i].payee
      /\ new.bounds = auths[i].bounds
  BY <1>2, <1>3 DEF Auth
<1>5. auths' = [auths EXCEPT ![i] = new]
  BY <1>1, <1>3
<1>6. /\ auths' \in Seq(Auth) /\ Len(auths') = Len(auths) /\ DOMAIN auths' = DOMAIN auths
      /\ auths'[i] = new /\ \A j \in DOMAIN auths : j # i => auths'[j] = auths[j]
  <2>1. i \in 1..Len(auths) /\ new \in Auth /\ auths \in Seq(Auth)
    BY <1>1, <1>4
  <2>2. auths' \in Seq(Auth) /\ Len(auths') = Len(auths)
    BY <1>5, <2>1, ExceptSeq
  <2> QED
    BY <1>1, <1>5, <2>1, <2>2
<1>7. \A j \in DOMAIN auths :
        /\ auths'[j].granter = auths[j].granter /\ auths'[j].payee = auths[j].payee
        /\ auths'[j].bounds = auths[j].bounds
  BY <1>4, <1>6
<1>8. GrantsOK'
  BY <1>1, <1>6, <1>7 DEF GrantsOK
<1>9. Unpulled'
  BY <1>1, <1>6 DEF Unpulled
<1>10. PullBound => PullBound'
  <2> SUFFICES ASSUME PullBound, NEW j \in DOMAIN auths, NEW now \in Time,
                      NEW day, day = {t \in Time : now - DAY_MS < t /\ t <= now}
               PROVE  Total([t \in day |-> pulled[<<j, t>>]]) <= auths'[j].bounds.cap_mc_per_day
    BY <1>1, <1>6 DEF PullBound
  <2>1. Total([t \in day |-> pulled[<<j, t>>]]) <= auths[j].bounds.cap_mc_per_day
    BY DEF PullBound
  <2> QED
    BY <1>7, <2>1
<1> QED
  BY <1>8, <1>9, <1>10 DEF GrantsKept

\* A pull is compared with a window that holds every day it can fall in.
LEMMA PullStep ==
  ASSUME BooksTypeOK, GrantsOK, Unpulled, NEW i, NEW n \in Nat, Pull(i, n),
         DOMAIN agents \subseteq DOMAIN agents'
  PROVE  GrantsKept
<1> DEFINE since == clock - DAY_MS
           window == {t \in Time : t > since}
<1>1. /\ i \in DOMAIN auths /\ auths' = auths
      /\ pulled' = [pulled EXCEPT ![<<i, clock>>] = @ + n]
      /\ Total([t \in window |-> pulled[<<i, t>>]]) + n <= auths[i].bounds.cap_mc_per_day
  BY DEF Pull, PulledSince
<1>2. /\ pulled \in [(1..MaxAuths) \X Time -> Nat] /\ clock \in Time
      /\ clock \in Nat /\ DAY_MS \in Nat
  BY WindowAssumption DEF BooksTypeOK, Time
<1>3. i \in 1..MaxAuths /\ i \in 1..Len(auths)
  BY <1>1, GrantFields DEF GrantsOK
<1>4. PICK cell : cell = <<i, clock>>
  OBVIOUS
<1>5. cell \in (1..MaxAuths) \X Time /\ cell[1] = i /\ pulled[cell] \in Nat
  BY <1>2, <1>3, <1>4
<1>6. /\ pulled' \in [(1..MaxAuths) \X Time -> Nat]
      /\ pulled'[cell] = pulled[cell] + n
      /\ \A u \in (1..MaxAuths) \X Time : u # cell => pulled'[u] = pulled[u]
  BY <1>1, <1>2, <1>4, <1>5
<1>7. \A j \in 1..MaxAuths, t \in Time :
        pulled'[<<j, t>>] = pulled[<<j, t>>] + IF j = i /\ t = clock THEN n ELSE 0
  <2> SUFFICES ASSUME NEW j \in 1..MaxAuths, NEW t \in Time
               PROVE  pulled'[<<j, t>>]
                        = pulled[<<j, t>>] + IF j = i /\ t = clock THEN n ELSE 0
    OBVIOUS
  <2>1. PICK u : u = <<j, t>>
    OBVIOUS
  <2>2. u \in (1..MaxAuths) \X Time /\ (u = cell <=> j = i /\ t = clock)
    BY <1>4, <2>1
  <2>3. pulled[u] \in Nat
    BY <1>2, <2>2
  <2>4. pulled'[u] = pulled[u] + IF j = i /\ t = clock THEN n ELSE 0
    BY <1>6, <2>2, <2>3
  <2> QED
    BY <2>1, <2>4
<1>8. GrantsOK'
  BY <1>1, <1>6 DEF GrantsOK
<1>9. Unpulled'
  <2> SUFFICES ASSUME NEW u \in (1..MaxAuths) \X Time, u[1] > Len(auths)
               PROVE  pulled'[u] = 0
    BY <1>1 DEF Unpulled
  <2>1. u # cell
    BY <1>3, <1>5
  <2> QED
    BY <1>6, <2>1 DEF Unpulled
<1>10. ASSUME PullBound PROVE PullBound'
  <2> SUFFICES ASSUME NEW j \in DOMAIN auths, NEW now \in Time,
                      NEW day, day = {t \in Time : now - DAY_MS < t /\ t <= now}
               PROVE  Total([t \in day |-> pulled'[<<j, t>>]]) <= auths[j].bounds.cap_mc_per_day
    BY <1>1 DEF PullBound
  <2>1. Total([t \in day |-> pulled[<<j, t>>]]) <= auths[j].bounds.cap_mc_per_day
    BY <1>10 DEF PullBound
  <2>2. j \in 1..MaxAuths
    BY GrantFields
  <2> DEFINE f == [t \in day |-> pulled[<<j, t>>]]
             g == [t \in day |-> pulled'[<<j, t>>]]
  <2>3. CASE ~(j = i /\ clock \in day)
    <3>1. \A t \in day : pulled'[<<j, t>>] = pulled[<<j, t>>]
      <4> SUFFICES ASSUME NEW t \in day PROVE pulled'[<<j, t>>] = pulled[<<j, t>>]
        OBVIOUS
      <4>1. t \in Time /\ ~(j = i /\ t = clock)
        BY <2>3
      <4>2. PICK u : u = <<j, t>>
        OBVIOUS
      <4>3. u \in (1..MaxAuths) \X Time /\ u # cell
        BY <1>4, <2>2, <4>1, <4>2
      <4> QED
        BY <1>6, <4>2, <4>3
    <3>2. g = f
      BY <3>1
    <3> QED
      BY <2>1, <3>2
  <2>4. CASE j = i /\ clock \in day
    <3>1. day \in SUBSET window /\ clock \in day
      <4>1. now \in Nat /\ now >= clock
        BY <2>4, WindowAssumption DEF Time
      <4>2. \A t \in day : t \in Time /\ t \in Nat /\ now - DAY_MS < t
        BY WindowAssumption DEF Time
      <4> QED
        <5>1. ASSUME NEW t \in day PROVE t > clock - DAY_MS
          <6>1. t \in Nat /\ now - DAY_MS < t
            BY <4>2
          <6> QED
            BY <1>2, <4>1, <6>1
        <5>2. \A t \in day : t \in window
          BY <4>2, <5>1
        <5> QED
          BY <2>4, <5>2
    <3> DEFINE w == [t \in window |-> pulled[<<i, t>>]]
    <3>2. Family(w) /\ DOMAIN w = window
      <4>1. IsFiniteSet(window)
        BY CellsFinite, FS_Subset
      <4>2. \A t \in window : pulled[<<i, t>>] \in Nat
        BY <1>2, <1>3
      <4> QED
        BY <4>1, <4>2 DEF Family
    <3>3. [t \in day |-> w[t]] = f
      BY <2>4, <3>1
    <3> HIDE DEF w, window
    <3>4. Family(f) /\ Total(f) \in Nat /\ Total(f) <= Total(w) /\ Total(w) \in Nat
      <4>1. /\ Family([t \in day |-> w[t]]) /\ Total([t \in day |-> w[t]]) \in Nat
            /\ Total([t \in day |-> w[t]]) <= Total(w)
        BY <3>1, <3>2, TotalOfPart
      <4> HIDE DEF f
      <4> QED
        BY <3>2, <3>3, <4>1, TotalIsNat
    <3>5. /\ DOMAIN f = day /\ DOMAIN g = day
          /\ f[clock] = pulled[cell] /\ g[clock] = pulled[cell] + n
      BY <1>4, <1>6, <2>4
    <3>6. \A t \in day \ {clock} : g[t] = f[t]
      <4> SUFFICES ASSUME NEW t \in day \ {clock} PROVE pulled'[<<j, t>>] = pulled[<<j, t>>]
        OBVIOUS
      <4>1. PICK u : u = <<j, t>>
        OBVIOUS
      <4>2. u \in (1..MaxAuths) \X Time /\ u # cell
        BY <1>4, <2>2, <4>1
      <4> QED
        BY <1>6, <4>1, <4>2
    <3> HIDE DEF f, g
    <3>7. Total(g) = Total(f) - f[clock] + g[clock]
      <4>1. g[clock] \in Nat
        BY <1>5, <3>5
      <4> QED
        BY <3>1, <3>4, <3>5, <3>6, <4>1, TotalOfChange
    <3>8. Total(g) <= Total(w) + n
      BY <1>5, <3>4, <3>5, <3>7
    <3>9. Total(w) + n <= auths[j].bounds.cap_mc_per_day
      BY <1>1, <2>4 DEF w, window
    <3>10. auths[j].bounds.cap_mc_per_day \in Nat
      BY GrantFields
    <3>11. Total(g) <= auths[j].bounds.cap_mc_per_day
      <4>1. Total(g) \in Nat
        BY <1>5, <3>4, <3>5, <3>7
      <4> QED
        BY <3>4, <3>8, <3>9, <3>10, <4>1
    <3> QED
      BY <3>11 DEF g
  <2> QED
    BY <2>3, <2>4
<1> QED
  BY <1>8, <1>9, <1>10 DEF GrantsKept

\* A control that is set leaves every balance alone.
LEMMA ControlStep ==
  ASSUME BooksTypeOK, NEW a \in DOMAIN agents, NEW row \in AgentRow,
         row.balance_mc = agents[a].balance_mc, agents' = [agents EXCEPT ![a] = row]
  PROVE  /\ AgentsOK' /\ DOMAIN agents' = DOMAIN agents
         /\ \A b \in DOMAIN agents : agents'[b].balance_mc = agents[b].balance_mc
<1>1. PICK known \in SUBSET Agent : agents \in [known -> AgentRow]
  BY DEF BooksTypeOK
<1>2. agents' \in [known -> AgentRow]
  BY <1>1
<1> QED
  BY <1>1, <1>2 DEF AgentsOK

LEMMA SetCapsStep ==
  ASSUME BooksTypeOK, Unlisted, NEW a \in Agent, NEW caps \in Caps, SetCaps(a, caps)
  PROVE  LinesKept
<1>1. /\ a \in DOMAIN agents /\ journal' = journal
      /\ agents' = [agents EXCEPT ![a].caps = caps]
  BY DEF SetCaps
<1>2. agents[a] \in AgentRow
  BY <1>1, AgentRows
<1>3. PICK row : row = [agents[a] EXCEPT !.caps = caps]
  OBVIOUS
<1>4. row \in AgentRow /\ row.balance_mc = agents[a].balance_mc
  BY <1>2, <1>3 DEF AgentRow
<1> QED
  BY <1>1, <1>3, <1>4, ControlStep, QuietStep

LEMMA SetFlagStep ==
  ASSUME BooksTypeOK, Unlisted, NEW a \in Agent, NEW flag \in Flags, SetFlag(a, flag)
  PROVE  LinesKept
<1>1. /\ a \in DOMAIN agents /\ journal' = journal
      /\ agents' = [agents EXCEPT ![a].no_bearer_withdrawal = flag]
  BY DEF SetFlag
<1>2. agents[a] \in AgentRow /\ flag \in BOOLEAN
  BY <1>1, AgentRows, ControlAssumption
<1>3. PICK row : row = [agents[a] EXCEPT !.no_bearer_withdrawal = flag]
  OBVIOUS
<1>4. row \in AgentRow /\ row.balance_mc = agents[a].balance_mc
  BY <1>2, <1>3 DEF AgentRow
<1> QED
  BY <1>1, <1>3, <1>4, ControlStep, QuietStep

LEMMA SetFrozenStep ==
  ASSUME BooksTypeOK, Unlisted, NEW S, NEW frozen \in Freezes, SetFrozen(S, frozen)
  PROVE  LinesKept
<1>1. PICK known \in SUBSET Agent : agents \in [known -> AgentRow]
  BY DEF BooksTypeOK
<1>2. /\ journal' = journal
      /\ agents' = [a \in DOMAIN agents |->
                      IF a \in S THEN [agents[a] EXCEPT !.frozen = frozen] ELSE agents[a]]
  BY DEF SetFrozen
<1>3. ASSUME NEW a \in DOMAIN agents
      PROVE  agents'[a] \in AgentRow /\ agents'[a].balance_mc = agents[a].balance_mc
  <2>1. agents[a] \in AgentRow /\ frozen \in BOOLEAN
    BY <1>1, ControlAssumption
  <2>2. /\ [agents[a] EXCEPT !.frozen = frozen] \in AgentRow
        /\ [agents[a] EXCEPT !.frozen = frozen].balance_mc = agents[a].balance_mc
    BY <2>1 DEF AgentRow
  <2> QED
    BY <1>2, <2>1, <2>2
<1>4. DOMAIN agents' = DOMAIN agents
  BY <1>2
<1>5. agents' \in [known -> AgentRow]
  <2>1. agents' = [a \in known |-> agents'[a]]
    BY <1>1, <1>2
  <2> QED
    BY <1>1, <1>3, <2>1
<1> QED
  BY <1>2, <1>3, <1>4, <1>5, QuietStep DEF AgentsOK

\* Each operation of the books keeps what they rest on and what they claim.
LEMMA BooksStep ==
  ASSUME BooksTypeOK, Unlisted, Unpulled, BooksNext
  PROVE  LinesKept /\ GrantsKept
<1>1. GrantsOK
  BY BooksParts
<1>2. Amount \subseteq Nat
  BY AmountAssumption
<1>3. CASE \E op \in Operator, a \in Agent : RegisterAgent(op, a)
  <2>1. PICK op \in Operator, a \in Agent : RegisterAgent(op, a)
    BY <1>3
  <2>2. LinesKept
    BY <2>1, RegisterStep
  <2>3. auths' = auths /\ pulled' = pulled
    BY <2>1 DEF RegisterAgent
  <2> QED
    BY <1>1, <2>2, <2>3, GrantsUntouched DEF LinesKept
<1>4. CASE \E a \in Agent, caps \in Caps : SetCaps(a, caps)
  <2>1. LinesKept
    BY <1>4, SetCapsStep
  <2>2. auths' = auths /\ pulled' = pulled
    BY <1>4 DEF SetCaps
  <2> QED
    BY <1>1, <2>1, <2>2, GrantsUntouched DEF LinesKept
<1>5. CASE \E S \in SUBSET Agent, frozen \in Freezes : SetFrozen(S, frozen)
  <2>1. LinesKept
    BY <1>5, SetFrozenStep
  <2>2. auths' = auths /\ pulled' = pulled
    BY <1>5 DEF SetFrozen
  <2> QED
    BY <1>1, <2>1, <2>2, GrantsUntouched DEF LinesKept
<1>6. CASE \E a \in Agent, flag \in Flags : SetFlag(a, flag)
  <2>1. LinesKept
    BY <1>6, SetFlagStep
  <2>2. auths' = auths /\ pulled' = pulled
    BY <1>6 DEF SetFlag
  <2> QED
    BY <1>1, <2>1, <2>2, GrantsUntouched DEF LinesKept
<1>7. AgentsOK
  BY BooksParts
<1>8. ASSUME agents' = agents, journal' = journal
      PROVE  LinesKept
  <2>1. AgentsOK'
    BY <1>7, <1>8 DEF AgentsOK
  <2> QED
    BY <1>8, <2>1, QuietStep
<1>9. CASE \E a, b \in Agent, bounds \in Grant : AuthorizePull(a, b, bounds)
  <2>1. GrantsKept
    BY <1>1, <1>9, AuthorizeStep
  <2> QED
    BY <1>8, <1>9, <2>1 DEF AuthorizePull
<1>10. CASE \E i \in 1..MaxAuths : RevokePull(i)
  <2>1. GrantsKept
    BY <1>1, <1>10, RevokeStep
  <2> QED
    BY <1>8, <1>10, <2>1 DEF RevokePull
<1>11. CASE \E i \in 1..MaxAuths, n \in Amount : Pull(i, n)
  <2>1. PICK i, n \in Nat : Pull(i, n)
    BY <1>2, <1>11
  <2>2. i \in DOMAIN auths
    BY <2>1 DEF Pull
  <2>3. PICK a \in DOMAIN agents, b \in DOMAIN agents :
          a = auths[i].granter /\ b = auths[i].payee
    BY <2>2, GrantFields
  <2>4. /\ agents' = Move(a, b, n)
        /\ journal' = Post(Post(journal, a, clock, "pull_out", n), b, clock, "pull_in", n)
    BY <2>1, <2>3 DEF Pull
  <2>5. "pull_out" \in DEBIT_KINDS /\ "pull_in" \in CREDIT_KINDS
    BY DEF DEBIT_KINDS, CREDIT_KINDS
  <2>6. LinesKept
    BY <2>4, <2>5, MoveStep
  <2>7. GrantsKept
    BY <1>1, <2>1, <2>6, PullStep DEF LinesKept
  <2> QED
    BY <2>6, <2>7
<1>12. CASE \E a, b \in Agent, n \in Amount : Transfer(a, b, n)
  <2>1. PICK a \in Agent, b \in Agent, n \in Amount : Transfer(a, b, n)
    BY <1>12
  <2>2. a \in DOMAIN agents /\ b \in DOMAIN agents
    BY <2>1 DEF Transfer
  <2>3. /\ agents' = Move(a, b, n) /\ auths' = auths /\ pulled' = pulled
        /\ journal' = Post(Post(journal, a, clock, "debit", n), b, clock, "credit", n)
    BY <2>1 DEF Transfer
  <2>4. "debit" \in DEBIT_KINDS /\ "credit" \in CREDIT_KINDS
    BY DEF DEBIT_KINDS, CREDIT_KINDS
  <2>5. LinesKept
    BY <1>2, <2>2, <2>3, <2>4, MoveStep
  <2> QED
    BY <1>1, <2>3, <2>5, GrantsUntouched DEF LinesKept
<1>13. CASE \E a \in Agent, to \in Time : Statement(a, to)
  <2>1. agents' = agents /\ journal' = journal /\ auths' = auths /\ pulled' = pulled
    BY <1>13 DEF Statement
  <2> QED
    BY <1>1, <1>8, <2>1, GrantsUntouched
<1> QED
  BY <1>3, <1>4, <1>5, <1>6, <1>9, <1>10, <1>11, <1>12, <1>13, Zenon DEF BooksNext

-----------------------------------------------------------------------------
\* Sets of coins, and what an exchange of them burns.

LEMMA PolicyInForce ==
  ASSUME NEW now
  PROVE  PolicyAt(now) \in Policy!BurnPolicy
<1>1. /\ Policy!MaxRatePpm = MaxRatePpm
      /\ Policy!MinExemptBelow = MinExemptBelow
  BY DEF Policy!MaxRatePpm, MaxRatePpm, Policy!MinExemptBelow, MinExemptBelow
<1>2. Policy!BurnPolicy = BurnPolicy
  BY <1>1, Zenon DEF Policy!BurnPolicy, BurnPolicy
<1>3. CASE burn_policy_next # NULL /\ now >= burn_policy_next.effective_at
  <2>1. PolicyAt(now) = burn_policy_next.policy
    BY <1>3, Zenon DEF PolicyAt, EffectivePolicy
  <2> QED
    BY <1>2, <1>3, <2>1, BridgeAssumption, Zenon
<1>4. CASE ~(burn_policy_next # NULL /\ now >= burn_policy_next.effective_at)
  <2>1. PolicyAt(now) = burn_policy
    BY <1>4, Zenon DEF PolicyAt, EffectivePolicy
  <2> QED
    BY <1>2, <2>1, BridgeAssumption, Zenon
<1> QED
  BY <1>3, <1>4

LEMMA SameBurn == \A s, p : Policy!ComputeBurn(s, p) = ComputeBurn(s, p)
<1>1. Policy!PPM = PPM
  BY DEF Policy!PPM, PPM
<1> QED
  BY <1>1, Zenon DEF Policy!ComputeBurn, ComputeBurn

\* A burn is no more than the sum it is taken from, and grows with it.
LEMMA BurnOfCoins ==
  ASSUME NEW coins, Value(coins) \in Nat, NEW now
  PROVE  /\ BurnOf(coins, now) \in Nat /\ BurnOf(coins, now) <= Value(coins)
         /\ \A more : /\ Value(more) \in Nat /\ Value(coins) <= Value(more)
                      => BurnOf(coins, now) <= BurnOf(more, now)
<1>1. PICK p : p = PolicyAt(now) /\ p \in Policy!BurnPolicy
  BY PolicyInForce
<1>2. \A c : BurnOf(c, now) = Policy!ComputeBurn(Value(c), p)
  BY <1>1, SameBurn, Zenon DEF BurnOf
<1>3. Policy!ComputeBurn(Value(coins), p) \in 0..Value(coins)
  BY <1>1, Policy!BurnWithinSum
<1>4. BurnOf(coins, now) \in Nat /\ BurnOf(coins, now) <= Value(coins)
  <2>1. \A n \in 0..Value(coins) : n \in Nat /\ n <= Value(coins)
    OBVIOUS
  <2> QED
    BY <1>2, <1>3, <2>1, Zenon
<1>5. ASSUME NEW more, Value(more) \in Nat, Value(coins) <= Value(more)
      PROVE  BurnOf(coins, now) <= BurnOf(more, now)
  <2>1. Policy!ComputeBurn(Value(coins), p) <= Policy!ComputeBurn(Value(more), p)
    BY <1>1, <1>5, Policy!BurnMonotone
  <2>2. /\ BurnOf(coins, now) = Policy!ComputeBurn(Value(coins), p)
        /\ BurnOf(more, now) = Policy!ComputeBurn(Value(more), p)
    BY <1>2, Zenon
  <2> QED
    BY <2>1, <2>2
<1> QED
  BY <1>4, <1>5

\* What agents present and ask for is worth a number.
LEMMA PresentedCoins ==
  ASSUME NEW S \in Deposits \cup Withdrawals
  PROVE  Value(S) \in Nat
<1>1. IsFiniteSet(S) /\ \A c \in S : c.amount \in Nat
  BY BridgeAssumption
<1>2. Family([c \in S |-> c.amount])
  BY <1>1 DEF Family
<1> QED
  BY <1>2, TotalIsNat DEF Value

\* Coins picked from the custody rows are worth what the rows are.
LEMMA PickedCoins ==
  ASSUME NEW rows, RowsOK(rows), NEW S \in SUBSET DOMAIN rows,
         NEW coins, coins = {[hash |-> h, amount |-> rows[h].amount] : h \in S}
  PROVE  Keys(coins) = S /\ Value(coins) = WorthOf(rows, S)
<1>1. Keys(coins) = S
  <2>1. \A c \in coins : c.hash \in S
    OBVIOUS
  <2>2. ASSUME NEW h \in S PROVE \E c \in coins : h = c.hash
    <3>1. [hash |-> h, amount |-> rows[h].amount] \in coins
      OBVIOUS
    <3>2. [hash |-> h, amount |-> rows[h].amount].hash = h
      OBVIOUS
    <3> QED
      BY <3>1, <3>2, Zenon
  <2> QED
    BY <2>1, <2>2, ZenonT(60) DEF Keys
<1> DEFINE f == [h \in S |-> rows[h].amount]
           g == [c \in coins |-> c.amount]
           m == [h \in S |-> [hash |-> h, amount |-> rows[h].amount]]
<1>2. Family(f) /\ DOMAIN f = S
  BY WorthOfRows
<1>3. m \in [DOMAIN f -> DOMAIN g]
  OBVIOUS
<1>4. \A x, y \in DOMAIN f : m[x] = m[y] => x = y
  OBVIOUS
<1>5. \A c \in DOMAIN g : \E x \in DOMAIN f : m[x] = c
  OBVIOUS
<1>6. \A x \in DOMAIN f : g[m[x]] = f[x]
  OBVIOUS
<1> HIDE DEF f, g, m
<1>7. Total(g) = Total(f)
  BY <1>2, <1>3, <1>4, <1>5, <1>6, TotalOfRenaming
<1> QED
  BY <1>1, <1>7 DEF Value, WorthOf, f, g

-----------------------------------------------------------------------------
\* Staging.

\* The rows a staged record touches are pending or reserved.
LEMMA TouchedRows ==
  ASSUME NEW op, StagedOp(op), NEW h \in Touched(op)
  PROVE  /\ h \in DOMAIN custody /\ custody[h].state \in {"pending", "reserved"}
         /\ h \in Reserved(op) => custody[h].state = "reserved"
         /\ h \notin Reserved(op) => h = op.key /\ custody[h].state = "pending"
BY DEF Touched, StagedOp

LEMMA FreshIsFresh ==
  ASSUME FreshKeys # {}
  PROVE  FreshKey \in CustodyKey /\ FreshKey \notin DOMAIN custody
         /\ FreshKey \notin DOMAIN ledger /\ FreshKey # NULL
<1>1. FreshKey \in FreshKeys
  BY DEF FreshKey
<1> QED
  BY <1>1, BridgeAssumption DEF FreshKeys

BooksStand == UNCHANGED <<clock, agents, journal, auths, pulled>>

\* A record joins the staged ones when it has rows of its own.
LEMMA StageStep ==
  ASSUME Booked, Serving, NEW op, Stage(op), RowsOK(custody'), StagedOp(op)',
         \A h \in Touched(op) : h \in DOMAIN custody => custody[h].state = "unspent",
         \A h \in DOMAIN custody :
           h \in DOMAIN custody'
             /\ (custody[h].state # "unspent" => custody'[h] = custody[h])
  PROVE  Booked' /\ BooksStand
<1>1. /\ staged' = staged \cup {op} /\ running'.op = op /\ mode' = mode
      /\ clock' = clock /\ agents' = agents /\ journal' = journal /\ auths' = auths
      /\ pulled' = pulled /\ absorbed' = absorbed /\ ledger' = ledger /\ mode = "up"
  BY DEF Stage, Serving, books
<1>2. BooksTypeOK' /\ clock \in Nat
  BY <1>1, WindowAssumption DEF Booked, BooksTypeOK, Time
<1>3. ASSUME NEW p \in staged PROVE StagedOp(p)' /\ Apart(p, op) /\ Apart(op, p)
  <2>1. StagedOp(p)
    BY DEF Booked
  <2>2. \A h \in Touched(p) : h \in DOMAIN custody /\ custody[h].state # "unspent"
    BY <2>1, TouchedRows
  <2>3. StagedOp(p)'
    BY <1>1, <1>2, <2>1, <2>2, StagedKept
  <2>4. Touched(p) \cap Touched(op) = {}
    BY <2>2
  <2> QED
    BY <2>3, <2>4 DEF Apart
<1>4. \A p \in staged' : StagedOp(p)'
  BY <1>1, <1>3
<1>5. \A p, q \in staged' : p # q => Apart(p, q)
  BY <1>1, <1>3 DEF Booked
<1>6. \A p, q \in staged' : p # q => Apart(p, q)'
  BY <1>5, Zenon DEF Apart, Touched, Reserved, Keys
<1>7. LedgerOK'
  BY <1>1 DEF Booked, LedgerOK
<1>8. Booked'
  BY <1>1, <1>2, <1>4, <1>6, <1>7 DEF Booked
<1> QED
  BY <1>1, <1>8 DEF BooksStand

LEMMA StageDepositStep ==
  ASSUME Booked, NEW a \in Agent, NEW tokens \in Deposits, StageDeposit(a, tokens)
  PROVE  Booked' /\ BooksStand /\ (Accounted => Accounted')
<1>1. RowsOK(custody) /\ clock \in Nat /\ DOMAIN agents \subseteq Agent
  BY WindowAssumption DEF Booked, BooksTypeOK, Time
<1>2. Value(tokens) \in Nat
  BY PresentedCoins
<1>3. PICK net \in Nat : net = Value(tokens) - BurnOf(tokens, clock)
  BY <1>2, BurnOfCoins
<1>4. PICK key : key = FreshKey
  OBVIOUS
<1>5. PICK op : op = [kind |-> "deposit", agent |-> a, t |-> clock,
                      probe |-> key, key |-> key, inputs |-> tokens,
                      outputs |-> {[hash |-> key, amount |-> net]},
                      total |-> net, burn |-> 0, absorbed |-> 0]
  OBVIOUS
<1>6. /\ Serving /\ a \in DOMAIN agents /\ FreshKeys # {}
      /\ custody' = Added(custody, key, net) /\ Stage(op)
  BY <1>3, <1>4, <1>5 DEF StageDeposit
<1>7. /\ op.kind = "deposit" /\ op.agent = a /\ op.t = clock /\ op.key = key
      /\ op.total = net /\ op.burn = 0 /\ op.absorbed = 0
  BY <1>5
<1>8. key \in CustodyKey /\ key \notin DOMAIN custody /\ key # NULL
  BY <1>4, <1>6, FreshIsFresh
<1>9. /\ RowsOK(custody') /\ \A h : h \in DOMAIN custody' <=> h \in DOMAIN custody \/ h = key
      /\ custody'[key].amount = net /\ custody'[key].state = "pending"
      /\ \A h \in DOMAIN custody : custody'[h] = custody[h]
  BY <1>1, <1>6, <1>8, AddedRows
<1>10. Reserved(op) = {} /\ Touched(op) = {key}
  BY <1>7, <1>8 DEF Touched, Reserved
<1>11. StagedOp(op)'
  <2>1. agents' = agents /\ clock' = clock
    BY <1>6 DEF Stage, books
  <2>2. Reserved(op)' = {}
    BY <1>7 DEF Reserved
  <2>3. op.t \in 0..clock
    BY <1>1, <1>7
  <2>4. \A c \in op.outputs : c.amount \in Nat
    BY <1>5
  <2> QED
    BY <1>6, <1>7, <1>8, <1>9, <2>1, <2>2, <2>3, <2>4 DEF StagedOp
<1>12. Booked' /\ BooksStand
  BY <1>6, <1>8, <1>9, <1>10, <1>11, StageStep
<1>13. ASSUME Accounted PROVE Accounted'
  <2>1. HeldIn(custody') = HeldIn(custody)
    BY <1>8, <1>9 DEF HeldIn
  <2>2. \A h \in HeldIn(custody) : custody'[h].amount = custody[h].amount
    BY <1>9 DEF HeldIn
  <2>3. WorthOf(custody', HeldIn(custody)) = WorthOf(custody, HeldIn(custody))
    BY <2>2, SameWorth
  <2>4. absorbed' = absorbed /\ journal' = journal
    BY <1>6 DEF Stage, books
  <2> QED
    BY <1>13, <2>1, <2>3, <2>4 DEF Accounted
<1> QED
  BY <1>12, <1>13

\* What a withdrawal consumes covers what it pays, with the burn of both.
LEMMA PickedCovers ==
  ASSUME Booked, NEW outputs \in Withdrawals, NEW S \in Selections(Value(outputs)),
         NEW coins, coins = CustodyCoins(S)
  PROVE  /\ S \in SUBSET InState("unspent") /\ S # {}
         /\ Keys(coins) = S /\ Value(coins) = WorthOf(custody, S)
         /\ Value(coins) \in Nat /\ Value(outputs) \in Nat
         /\ BurnOf(coins, clock) \in Nat /\ BurnOf(outputs, clock) \in Nat
         /\ BurnOf(outputs, clock) <= BurnOf(coins, clock)
         /\ Value(outputs) + BurnOf(coins, clock) <= Value(coins)
<1>1. S \in SUBSET InState("unspent") /\ Covers(S, Value(outputs))
  BY DEF Selections, SmallestFirst
<1>2. S # {} /\ Value(coins) - BurnOf(coins, clock) >= Value(outputs)
  BY <1>1 DEF Covers
<1>3. S \in SUBSET DOMAIN custody /\ RowsOK(custody)
  BY <1>1 DEF InState, Booked
<1>4. coins = {[hash |-> h, amount |-> custody[h].amount] : h \in S}
  BY DEF CustodyCoins
<1>5. Keys(coins) = S /\ Value(coins) = WorthOf(custody, S)
  BY <1>3, <1>4, PickedCoins
<1>6. Value(coins) \in Nat
  BY <1>3, <1>5, WorthOfRows
<1>7. Value(outputs) \in Nat
  BY PresentedCoins
<1>8. BurnOf(coins, clock) \in Nat /\ BurnOf(outputs, clock) \in Nat
  BY <1>6, <1>7, BurnOfCoins
<1>9. Value(outputs) + BurnOf(coins, clock) <= Value(coins)
  BY <1>2, <1>6, <1>7, <1>8
<1>10. Value(outputs) <= Value(coins)
  BY <1>6, <1>7, <1>8, <1>9
<1>11. BurnOf(outputs, clock) <= BurnOf(coins, clock)
  BY <1>6, <1>7, <1>10, BurnOfCoins
<1> QED
  BY <1>1, <1>2, <1>5, <1>6, <1>7, <1>8, <1>9, <1>11

\* What a withdrawal stages: a record of coins that cover what it pays, which
\* it reserves, and of a row for its change.
Withdrawal(op, a, outputs, change) ==
  /\ op.kind = "withdraw" /\ op.agent = a /\ op.t = clock
  /\ op.inputs = CustodyCoins(Keys(op.inputs)) /\ op.probe \in Keys(op.inputs)
  /\ op.outputs = outputs \cup
       (IF op.key = NULL THEN {} ELSE {[hash |-> op.key, amount |-> change]})
  /\ op.total = Value(outputs) /\ op.burn = BurnOf(outputs, clock)
  /\ op.total \in Nat /\ op.burn \in Nat /\ op.absorbed \in Nat /\ change \in Nat
  /\ WorthOf(custody, Keys(op.inputs)) = op.total + op.burn + op.absorbed + change
  /\ \A h \in Keys(op.inputs) : h \in DOMAIN custody /\ custody[h].state = "unspent"
  /\ op.key = NULL => change = 0
  /\ op.key # NULL => /\ op.key \in CustodyKey \ DOMAIN custody
                      /\ op.key \notin DOMAIN ledger
  /\ RowsOK(custody')
  /\ \A h : h \in DOMAIN custody' <=> h \in DOMAIN custody \/ (op.key # NULL /\ h = op.key)
  /\ \A h \in DOMAIN custody :
       /\ custody'[h].amount = custody[h].amount
       /\ h \in Keys(op.inputs) => custody'[h].state = "reserved"
       /\ h \notin Keys(op.inputs) => custody'[h] = custody[h]
  /\ op.key # NULL => custody'[op.key].amount = change /\ custody'[op.key].state = "pending"

LEMMA WithdrawalStaged ==
  ASSUME Booked, NEW a \in Agent, NEW outputs \in Withdrawals, StageWithdraw(a, outputs)
  PROVE  \E op, change : Stage(op) /\ Withdrawal(op, a, outputs, change)
<1>1. RowsOK(custody) /\ clock \in Nat
  BY WindowAssumption DEF Booked, BooksTypeOK, Time
<1>2. PICK total, burn : total = Value(outputs) /\ burn = BurnOf(outputs, clock)
  OBVIOUS
<1>3a. PICK S \in Selections(total) :
       \E probe \in {h \in S : \A g \in S : custody[h].amount <= custody[g].amount} :
         LET coins == CustodyCoins(S)
             ledger_burn == BurnOf(coins, clock)
             change == Value(coins) - total - ledger_burn
             key == IF change > 0 THEN FreshKey ELSE NULL
             reserved == Marked(custody, S, "unspent", "reserved")
         IN  /\ custody' = IF key = NULL THEN reserved ELSE Added(reserved, key, change)
             /\ Stage([kind |-> "withdraw", agent |-> a, t |-> clock,
                       probe |-> probe, key |-> key, inputs |-> coins,
                       outputs |-> outputs \cup
                         (IF key = NULL THEN {}
                          ELSE {[hash |-> key, amount |-> change]}),
                       total |-> total, burn |-> burn,
                       absorbed |-> ledger_burn - burn])
  BY <1>2, Zenon DEF StageWithdraw
<1>3. PICK probe \in {h \in S : \A g \in S : custody[h].amount <= custody[g].amount} :
        LET coins == CustodyCoins(S)
            ledger_burn == BurnOf(coins, clock)
            change == Value(coins) - total - ledger_burn
            key == IF change > 0 THEN FreshKey ELSE NULL
            reserved == Marked(custody, S, "unspent", "reserved")
        IN  /\ custody' = IF key = NULL THEN reserved ELSE Added(reserved, key, change)
            /\ Stage([kind |-> "withdraw", agent |-> a, t |-> clock,
                      probe |-> probe, key |-> key, inputs |-> coins,
                      outputs |-> outputs \cup
                        (IF key = NULL THEN {}
                         ELSE {[hash |-> key, amount |-> change]}),
                      total |-> total, burn |-> burn,
                      absorbed |-> ledger_burn - burn])
  BY <1>3a, Zenon
<1>4. PICK coins, lb, change, key, reserved :
        /\ coins = CustodyCoins(S) /\ lb = BurnOf(coins, clock)
        /\ change = Value(coins) - total - lb
        /\ key = IF change > 0 THEN FreshKey ELSE NULL
        /\ reserved = Marked(custody, S, "unspent", "reserved")
  OBVIOUS
<1>5. PICK op :
        op = [kind |-> "withdraw", agent |-> a, t |-> clock,
              probe |-> probe, key |-> key, inputs |-> coins,
              outputs |-> outputs \cup
                (IF key = NULL THEN {} ELSE {[hash |-> key, amount |-> change]}),
              total |-> total, burn |-> burn, absorbed |-> lb - burn]
  OBVIOUS
<1>6. /\ custody' = IF key = NULL THEN reserved ELSE Added(reserved, key, change)
      /\ Stage(op)
  BY <1>3, <1>4, <1>5, Zenon
<1>7. /\ op.kind = "withdraw" /\ op.agent = a /\ op.t = clock /\ op.key = key
      /\ op.inputs = coins /\ op.total = total /\ op.burn = burn /\ op.absorbed = lb - burn
  BY <1>5
<1>8. /\ S \in SUBSET InState("unspent")
      /\ Keys(coins) = S /\ Value(coins) = WorthOf(custody, S)
      /\ Value(coins) \in Nat /\ total \in Nat /\ lb \in Nat /\ burn \in Nat
      /\ burn <= lb /\ total + lb <= Value(coins)
  BY <1>2, <1>4, PickedCovers
<1>9. /\ change \in Nat /\ lb - burn \in Nat
      /\ Value(coins) = total + burn + (lb - burn) + change
  BY <1>4, <1>8
<1>10. Serving /\ a \in DOMAIN agents /\ FreshKeys # {}
  BY DEF StageWithdraw
<1>11. /\ FreshKey \in CustodyKey /\ FreshKey \notin DOMAIN custody /\ FreshKey # NULL
       /\ FreshKey \notin DOMAIN ledger
  BY <1>10, FreshIsFresh
<1>12. /\ key # NULL => key \in CustodyKey \ DOMAIN custody /\ key \notin DOMAIN ledger
       /\ key = NULL => change = 0
  BY <1>4, <1>9, <1>11
<1>13. "unspent" \in States /\ "reserved" \in States
  BY DEF States
<1>14. /\ RowsOK(reserved) /\ DOMAIN reserved = DOMAIN custody
       /\ \A h \in DOMAIN custody :
            /\ reserved[h].amount = custody[h].amount
            /\ h \in S /\ custody[h].state = "unspent" => reserved[h].state = "reserved"
            /\ h \notin S \/ custody[h].state # "unspent" => reserved[h] = custody[h]
  BY <1>1, <1>4, <1>13, MarkedRows
<1>15. /\ RowsOK(custody')
       /\ DOMAIN custody' = DOMAIN custody \cup (IF key = NULL THEN {} ELSE {key})
       /\ \A h \in DOMAIN custody : custody'[h] = reserved[h]
       /\ key # NULL => custody'[key].amount = change /\ custody'[key].state = "pending"
  <2>1. CASE key = NULL
    BY <1>6, <1>14, <2>1
  <2>2. CASE key # NULL
    <3>1. custody' = Added(reserved, key, change)
      BY <1>6, <2>2
    <3>2. key \in CustodyKey /\ key \notin DOMAIN reserved
      BY <1>12, <1>14, <2>2
    <3>3. /\ RowsOK(custody')
          /\ \A h : h \in DOMAIN custody' <=> h \in DOMAIN reserved \/ h = key
          /\ custody'[key].amount = change /\ custody'[key].state = "pending"
          /\ \A h \in DOMAIN reserved : custody'[h] = reserved[h]
      BY <1>9, <1>14, <3>1, <3>2, AddedRows
    <3> QED
      BY <1>14, <2>2, <3>3
  <2> QED
    BY <2>1, <2>2
<1>16. \A h \in S : h \in DOMAIN custody /\ custody[h].state = "unspent"
  BY <1>8 DEF InState
<1>17. /\ op.probe \in S
       /\ op.outputs = outputs \cup
            (IF key = NULL THEN {} ELSE {[hash |-> key, amount |-> change]})
  BY <1>5
<1>18. op.inputs = CustodyCoins(S) /\ Keys(op.inputs) = S
  BY <1>4, <1>7, <1>8
<1>19. /\ op.total = Value(outputs) /\ op.burn = BurnOf(outputs, clock)
       /\ op.total \in Nat /\ op.burn \in Nat /\ op.absorbed \in Nat
  BY <1>2, <1>7, <1>8, <1>9
<1>20. WorthOf(custody, S) = op.total + op.burn + op.absorbed + change
  BY <1>7, <1>8, <1>9
<1>21. \A h : h \in DOMAIN custody' <=> h \in DOMAIN custody \/ (key # NULL /\ h = key)
  BY <1>15
<1>22. \A h \in DOMAIN custody :
         /\ custody'[h].amount = custody[h].amount
         /\ h \in S => custody'[h].state = "reserved"
         /\ h \notin S => custody'[h] = custody[h]
  BY <1>14, <1>15, <1>16
<1>23. Withdrawal(op, a, outputs, change)
  BY <1>7, <1>9, <1>12, <1>15, <1>16, <1>17, <1>18, <1>19, <1>20, <1>21, <1>22, Zenon
     DEF Withdrawal
<1> QED
  BY <1>6, <1>23

LEMMA StageWithdrawStep ==
  ASSUME Booked, NEW a \in Agent, NEW outputs \in Withdrawals, StageWithdraw(a, outputs)
  PROVE  Booked' /\ BooksStand /\ (Accounted => Accounted')
<1>1. clock \in Nat
  BY WindowAssumption DEF Booked, BooksTypeOK, Time
<1>2. PICK op, change : Stage(op) /\ Withdrawal(op, a, outputs, change)
  BY WithdrawalStaged
<1>3. PICK S : S = Keys(op.inputs)
  OBVIOUS
<1>4. Serving /\ a \in DOMAIN agents
  BY DEF StageWithdraw
<1>5. Reserved(op) = S /\ Touched(op) = S \cup (IF op.key = NULL THEN {} ELSE {op.key})
  BY <1>2, <1>3 DEF Touched, Reserved, Withdrawal
<1>6. \A h \in DOMAIN custody :
        /\ custody'[h].amount = custody[h].amount
        /\ h \in S => custody'[h].state = "reserved" /\ custody[h].state = "unspent"
        /\ h \notin S => custody'[h] = custody[h]
  BY <1>2, <1>3 DEF Withdrawal
<1>7. StagedOp(op)'
  <2>1. agents' = agents /\ clock' = clock
    BY <1>2 DEF Stage, books
  <2>2. Reserved(op)' = S
    BY <1>2, <1>3 DEF Reserved, Keys, Withdrawal
  <2>3. op.t \in 0..clock' /\ op.agent \in DOMAIN agents' /\ op.kind = "withdraw"
    BY <1>1, <1>2, <1>4, <2>1 DEF Withdrawal
  <2>4. \A h \in S : h \in DOMAIN custody' /\ custody'[h].state = "reserved"
    BY <1>2, <1>3 DEF Withdrawal
  <2>5. Change(op)' = change
    BY <1>2 DEF Change, Withdrawal
  <2>6. WorthOf(custody', S) = WorthOf(custody, S)
    <3>1. \A h \in S : custody'[h].amount = custody[h].amount
      BY <1>2, <1>3 DEF Withdrawal
    <3> QED
      BY <3>1, SameWorth
  <2>7. WorthOf(custody', Keys(op.inputs)) = op.total + op.burn + op.absorbed + Change(op)'
    BY <1>2, <1>3, <2>5, <2>6 DEF Withdrawal
  <2>8. op.total \in Nat /\ op.burn \in Nat /\ op.absorbed \in Nat
    BY <1>2 DEF Withdrawal
  <2>9. op.key # NULL => op.key \in DOMAIN custody' /\ custody'[op.key].state = "pending"
    BY <1>2 DEF Withdrawal
  <2>10. \A c \in op.outputs : c.amount \in Nat
    <3>1. \A c \in outputs : c.amount \in Nat
      BY BridgeAssumption
    <3>2. change \in Nat /\ op.outputs = outputs \cup
            (IF op.key = NULL THEN {} ELSE {[hash |-> op.key, amount |-> change]})
      BY <1>2 DEF Withdrawal
    <3> QED
      BY <3>1, <3>2
  <2> QED
    BY <2>2, <2>3, <2>4, <2>7, <2>8, <2>9, <2>10 DEF StagedOp, Keys, WorthOf
<1>8. Booked' /\ BooksStand
  <2>1. \A h \in Touched(op) : h \in DOMAIN custody => custody[h].state = "unspent"
    BY <1>2, <1>5, <1>6 DEF Withdrawal
  <2>2. \A h \in DOMAIN custody :
          /\ h \in DOMAIN custody'
          /\ custody[h].state # "unspent" => custody'[h] = custody[h]
    BY <1>2, <1>6 DEF Withdrawal
  <2>3. RowsOK(custody')
    BY <1>2 DEF Withdrawal
  <2> QED
    BY <1>2, <1>4, <1>7, <2>1, <2>2, <2>3, StageStep
<1>9. ASSUME Accounted PROVE Accounted'
  <2>1. \A h \in DOMAIN custody :
          custody'[h].state \in {"unspent", "reserved"}
            <=> custody[h].state \in {"unspent", "reserved"}
    BY <1>6
  <2>2. HeldIn(custody') = HeldIn(custody)
    BY <1>2, <2>1 DEF HeldIn, Withdrawal
  <2>3. WorthOf(custody', HeldIn(custody)) = WorthOf(custody, HeldIn(custody))
    <3>1. \A h \in HeldIn(custody) : custody'[h].amount = custody[h].amount
      BY <1>6 DEF HeldIn
    <3> QED
      BY <3>1, SameWorth
  <2>4. absorbed' = absorbed /\ journal' = journal
    BY <1>2 DEF Stage, books
  <2> QED
    BY <1>9, <2>2, <2>3, <2>4 DEF Accounted
<1> QED
  BY <1>8, <1>9

-----------------------------------------------------------------------------
\* Settling: what is left of Booked when a staged record is done with.

SettleFrame(op) ==
  /\ staged' = staged \ {op} /\ running' = Idle /\ mode' = mode
  /\ clock' = clock /\ ledger' = ledger /\ auths' = auths /\ pulled' = pulled

LEMMA SettleStep ==
  ASSUME Booked, NEW op \in staged, SettleFrame(op),
         RowsOK(custody'), absorbed' \in Nat, AgentsOK', DOMAIN agents' = DOMAIN agents,
         journal' \in [Cell -> Nat], Unlisted',
         \A h \in DOMAIN custody \ Touched(op) :
           h \in DOMAIN custody' /\ custody'[h] = custody[h]
  PROVE  Booked'
<1>1. clock \in Nat
  BY WindowAssumption DEF Booked, BooksTypeOK, Time
<1>2. BooksTypeOK'
  <2>1. clock \in Time /\ GrantsOK
    BY BooksParts DEF Booked
  <2>2. clock' \in Time
    BY <2>1 DEF SettleFrame, Time
  <2>3. GrantsOK'
    BY <2>1 DEF SettleFrame, GrantsOK
  <2> QED
    BY <2>2, <2>3 DEF BooksTypeOK, AgentsOK, GrantsOK
<1>3. ASSUME NEW p \in staged' PROVE StagedOp(p)'
  <2>1. p \in staged /\ p # op
    BY DEF SettleFrame
  <2>2. StagedOp(p) /\ Touched(p) \cap Touched(op) = {}
    BY <2>1 DEF Booked, Apart
  <2>3. \A h \in Touched(p) : h \in DOMAIN custody \ Touched(op)
    BY <2>2, TouchedRows
  <2> QED
    BY <1>1, <2>2, <2>3, StagedKept DEF SettleFrame
<1>4. \A p, q \in staged' : p # q => Apart(p, q)
  BY DEF SettleFrame, Booked
<1>5. \A p, q \in staged' : p # q => Apart(p, q)'
  BY <1>4, Zenon DEF Apart, Touched, Reserved, Keys
<1>6. LedgerOK'
  BY DEF Booked, LedgerOK, SettleFrame
<1>7. Unpulled'
  BY DEF Booked, Unpulled, SettleFrame
<1>8. running' = Idle /\ mode' \in {"up", "recovering", "down"}
  BY DEF SettleFrame, Booked
<1> QED
  BY <1>2, <1>3, <1>5, <1>6, <1>7, <1>8 DEF Booked, Unlisted, Unpulled

\* An operation that did not commit gives back what it reserved.
LEMMA UnwindStep ==
  ASSUME Booked, NEW op \in staged, Unwind(op), SettleFrame(op)
  PROVE  Booked' /\ (Accounted => Accounted') /\ (Agree => Agree')
<1>1. StagedOp(op) /\ RowsOK(custody)
  BY DEF Booked
<1>2. PICK mid : mid = IF op.kind = "withdraw"
                       THEN Marked(custody, Keys(op.inputs), "reserved", "unspent")
                       ELSE custody
  OBVIOUS
<1>3. /\ RowsOK(mid) /\ DOMAIN mid = DOMAIN custody
      /\ \A h \in DOMAIN custody :
           /\ mid[h].amount = custody[h].amount
           /\ mid[h].state \in {"unspent", "reserved"}
                <=> custody[h].state \in {"unspent", "reserved"}
           /\ mid[h].state = "pending" <=> custody[h].state = "pending"
           /\ h \notin Reserved(op) => mid[h] = custody[h]
  <2>1. CASE op.kind = "withdraw"
    <3>1. Reserved(op) = Keys(op.inputs)
      BY <2>1 DEF Reserved
    <3>2. mid = Marked(custody, Keys(op.inputs), "reserved", "unspent")
      BY <1>2, <2>1
    <3>3. "reserved" \in States /\ "unspent" \in States
      BY DEF States
    <3>4. /\ RowsOK(mid) /\ DOMAIN mid = DOMAIN custody
          /\ \A h \in DOMAIN custody :
               /\ mid[h].amount = custody[h].amount
               /\ h \in Keys(op.inputs) /\ custody[h].state = "reserved"
                    => mid[h].state = "unspent"
               /\ h \notin Keys(op.inputs) \/ custody[h].state # "reserved"
                    => mid[h] = custody[h]
      BY <1>1, <3>2, <3>3, MarkedRows
    <3> QED
      BY <3>1, <3>4
  <2>2. CASE op.kind # "withdraw"
    BY <1>1, <1>2, <2>2
  <2> QED
    BY <2>1, <2>2
<1>4. custody' = Dropped(mid, op.key)
  BY <1>2 DEF Unwind
<1>5. /\ RowsOK(custody')
      /\ DOMAIN custody' \subseteq DOMAIN mid
      /\ \A h \in DOMAIN mid \ {op.key} : h \in DOMAIN custody'
      /\ \A h \in DOMAIN mid : mid[h].state # "pending" => h \in DOMAIN custody'
      /\ \A h \in DOMAIN custody' : custody'[h] = mid[h]
  BY <1>3, <1>4, DroppedRows
<1>6. agents' = agents /\ journal' = journal /\ absorbed' = absorbed
  BY DEF Unwind, books
<1>7. \A h \in DOMAIN custody \ Touched(op) : h \in DOMAIN custody' /\ custody'[h] = custody[h]
  <2> SUFFICES ASSUME NEW h \in DOMAIN custody \ Touched(op)
               PROVE  h \in DOMAIN custody' /\ custody'[h] = custody[h]
    OBVIOUS
  <2>1. h # NULL
    BY <1>1, RowFields
  <2>2. h # op.key /\ h \notin Reserved(op)
    BY <2>1 DEF Touched
  <2> QED
    BY <1>3, <1>5, <2>2
<1>8. Booked'
  <2>1. AgentsOK' /\ journal' \in [Cell -> Nat] /\ absorbed' \in Nat /\ Unlisted'
    BY <1>6 DEF Booked, BooksTypeOK, AgentsOK, Unlisted
  <2> QED
    BY <1>5, <1>6, <1>7, <2>1, SettleStep
<1>9. ASSUME Accounted PROVE Accounted'
  <2>1. HeldIn(custody') = HeldIn(custody)
    <3>1. \A h \in HeldIn(custody') : h \in HeldIn(custody)
      BY <1>3, <1>5 DEF HeldIn
    <3>2. \A h \in HeldIn(custody) : h \in HeldIn(custody')
      BY <1>3, <1>5 DEF HeldIn
    <3> QED
      BY <3>1, <3>2
  <2>2. \A h \in HeldIn(custody) : custody'[h].amount = custody[h].amount
    BY <1>3, <1>5, <2>1 DEF HeldIn
  <2>3. WorthOf(custody', HeldIn(custody)) = WorthOf(custody, HeldIn(custody))
    BY <2>2, SameWorth
  <2> QED
    BY <1>6, <1>9, <2>1, <2>3 DEF Accounted
<1>10. Agree => Agree'
  BY <1>6 DEF Agree
<1> QED
  BY <1>8, <1>9, <1>10

\* The account that a settled operation is posted to.
Paid(a, n) == [agents EXCEPT ![a].balance_mc = n]

LEMMA SettledAccount ==
  ASSUME BooksTypeOK, Unlisted, NEW a \in DOMAIN agents, NEW dr \in Nat, NEW cr \in Nat,
         NEW n \in Int, n = agents[a].balance_mc + cr - dr,
         agents' = Paid(a, n), journal' \in [Cell -> Nat],
         \A c \in Cell : c[1] # a => journal'[c] = journal[c],
         \A x \in Agent :
           /\ CreditsOf(journal', x, Time) = CreditsOf(journal, x, Time) + IF x = a THEN cr ELSE 0
           /\ DebitsOf(journal', x, Time) = DebitsOf(journal, x, Time) + IF x = a THEN dr ELSE 0
  PROVE  /\ AgentsOK' /\ DOMAIN agents' = DOMAIN agents /\ Unlisted'
         /\ Agree => Agree'
<1>1. \A x \in DOMAIN agents : x \in Agent /\ agents[x].balance_mc \in Int
  BY AgentRows
<1>4. /\ DOMAIN agents' = DOMAIN agents
      /\ \E known \in SUBSET Agent : agents' \in [known -> AgentRow]
      /\ agents'[a].balance_mc = n
      /\ \A b \in DOMAIN agents : b # a => agents'[b] = agents[b]
  BY PaidRow DEF Paid
<1>5. AgentsOK' /\ Unlisted'
  BY <1>4 DEF AgentsOK, Unlisted
<1>6. ASSUME Agree PROVE Agree'
  <2> SUFFICES ASSUME NEW x \in DOMAIN agents
               PROVE  agents'[x].balance_mc
                        = CreditsOf(journal', x, Time) - DebitsOf(journal', x, Time)
    BY <1>4 DEF Agree
  <2>1. agents[x].balance_mc = CreditsOf(journal, x, Time) - DebitsOf(journal, x, Time)
    BY <1>6 DEF Agree
  <2>2. CreditsOf(journal, x, Time) \in Nat /\ DebitsOf(journal, x, Time) \in Nat
    BY <1>1, SumsAreNumbers
  <2> QED
    BY <1>1, <1>4, <2>1, <2>2
<1> QED
  BY <1>4, <1>5, <1>6

\* A deposit that committed adds its row and credits its agent.
LEMMA FinalizeDepositStep ==
  ASSUME Booked, NEW op \in staged, FinalizeDeposit(op), SettleFrame(op)
  PROVE  Booked' /\ (Accounted => Accounted') /\ (Agree => Agree')
<1>1. StagedOp(op) /\ RowsOK(custody) /\ BooksTypeOK /\ Unlisted
  BY DEF Booked, Unlisted
<1>2. /\ op.kind = "deposit" /\ op.key \in DOMAIN custody /\ op.key # NULL
      /\ custody[op.key].state = "pending" /\ custody[op.key].amount = op.total
      /\ op.agent \in DOMAIN agents /\ op.total \in Nat /\ op.t \in 0..clock
  BY <1>1 DEF FinalizeDeposit, StagedOp
<1>3. op.t \in Time /\ op.agent \in Agent /\ journal \in [Cell -> Nat] /\ absorbed \in Nat
      /\ agents[op.agent].balance_mc \in Int
  <2>1. clock \in Time /\ journal \in [Cell -> Nat]
    BY <1>1 DEF BooksTypeOK
  <2>2. op.t \in Time
    BY <1>2, <2>1, WindowAssumption DEF Time
  <2>3. op.agent \in Agent /\ agents[op.agent].balance_mc \in Int
    BY <1>1, <1>2, AgentRows
  <2>4. absorbed \in Nat
    BY DEF Booked
  <2> QED
    BY <2>1, <2>2, <2>3, <2>4
<1>4. /\ custody' = Marked(custody, {op.key}, "pending", "unspent")
      /\ agents' = [agents EXCEPT ![op.agent].balance_mc = @ + op.total]
      /\ journal' = Post(journal, op.agent, op.t, "deposit", op.total)
      /\ absorbed' = absorbed
  BY DEF FinalizeDeposit
<1>5. /\ RowsOK(custody') /\ DOMAIN custody' = DOMAIN custody
      /\ \A h \in DOMAIN custody :
           /\ custody'[h].amount = custody[h].amount
           /\ h = op.key => custody'[h].state = "unspent"
           /\ h # op.key => custody'[h] = custody[h]
  <2>1. "pending" \in States /\ "unspent" \in States
    BY DEF States
  <2>2. /\ RowsOK(custody') /\ DOMAIN custody' = DOMAIN custody
        /\ \A h \in DOMAIN custody :
             /\ custody'[h].amount = custody[h].amount
             /\ h \in {op.key} /\ custody[h].state = "pending" => custody'[h].state = "unspent"
             /\ h \notin {op.key} \/ custody[h].state # "pending" => custody'[h] = custody[h]
    BY <1>1, <1>4, <2>1, MarkedRows
  <2> QED
    BY <1>2, <2>2
<1>6. /\ journal' \in [Cell -> Nat]
      /\ \A c \in Cell : c[1] # op.agent => journal'[c] = journal[c]
      /\ \A b \in Agent, T \in SUBSET Time :
           /\ CreditsOf(journal', b, T)
                = CreditsOf(journal, b, T) + IF b = op.agent /\ op.t \in T THEN op.total ELSE 0
           /\ DebitsOf(journal', b, T) = DebitsOf(journal, b, T)
      /\ AllCredits(journal') = AllCredits(journal) + op.total
      /\ AllDebits(journal') = AllDebits(journal)
  <2>1. "deposit" \in CREDIT_KINDS
    BY DEF CREDIT_KINDS
  <2> QED
    BY <1>2, <1>3, <1>4, <2>1, PostedCredit
<1>7. /\ AgentsOK' /\ DOMAIN agents' = DOMAIN agents /\ Unlisted'
      /\ Agree => Agree'
  <2>1. PICK n \in Int : n = agents[op.agent].balance_mc + op.total
    BY <1>2, <1>3
  <2>3. agents' = [agents EXCEPT ![op.agent].balance_mc = n]
    BY <1>4, <2>1
  <2>0. PICK dr \in Nat, a \in DOMAIN agents, cr \in Nat :
          dr = 0 /\ a = op.agent /\ cr = op.total
    BY <1>2
  <2>4. n = agents[a].balance_mc + cr - dr
    BY <1>2, <1>3, <2>0, <2>1
  <2>2. \A x \in Agent :
          /\ CreditsOf(journal', x, Time)
               = CreditsOf(journal, x, Time) + IF x = op.agent THEN op.total ELSE 0
          /\ DebitsOf(journal', x, Time)
               = DebitsOf(journal, x, Time) + IF x = op.agent THEN 0 ELSE 0
    <3>1. \A x \in Agent : DebitsOf(journal, x, Time) \in Nat
      BY <1>1, SumsAreNumbers
    <3> QED
      BY <1>3, <1>6, <3>1
  <2>5. agents' = Paid(a, n)
    BY <2>0, <2>3 DEF Paid
  <2>6. \A x \in Agent :
          /\ CreditsOf(journal', x, Time) = CreditsOf(journal, x, Time) + IF x = a THEN cr ELSE 0
          /\ DebitsOf(journal', x, Time) = DebitsOf(journal, x, Time) + IF x = a THEN dr ELSE 0
    BY <2>0, <2>2
  <2>7. \A c \in Cell : c[1] # a => journal'[c] = journal[c]
    BY <1>6, <2>0
  <2> QED
    BY SMTT(30), <1>1, <1>6, <2>4, <2>5, <2>6, <2>7, SettledAccount
<1>8. Booked'
  <2>1. op.key \in Touched(op)
    BY <1>2 DEF Touched
  <2>2. \A h \in DOMAIN custody \ Touched(op) :
          h \in DOMAIN custody' /\ custody'[h] = custody[h]
    BY <1>5, <2>1
  <2>3. absorbed' \in Nat
    BY <1>3, <1>4
  <2> QED
    BY <1>5, <1>6, <1>7, <2>2, <2>3, SettleStep
<1>9. ASSUME Accounted PROVE Accounted'
  <2>1. HeldIn(custody') = HeldIn(custody) \cup {op.key} /\ op.key \notin HeldIn(custody)
    BY <1>2, <1>5 DEF HeldIn
  <2>2. HeldIn(custody) \in SUBSET DOMAIN custody' /\ op.key \in DOMAIN custody'
    BY <1>2, <1>5 DEF HeldIn
  <2>3. WorthOf(custody', HeldIn(custody) \cup {op.key})
          = WorthOf(custody', HeldIn(custody)) + custody'[op.key].amount
    BY <1>5, <2>1, <2>2, WorthWith
  <2>4. \A h \in HeldIn(custody) : custody'[h].amount = custody[h].amount
    BY <1>5 DEF HeldIn
  <2>5. WorthOf(custody', HeldIn(custody)) = WorthOf(custody, HeldIn(custody))
    BY <2>4, SameWorth
  <2>6. WorthOf(custody, HeldIn(custody)) \in Nat
    BY <1>1, WorthOfRows DEF HeldIn
  <2>7. custody'[op.key].amount = op.total
    BY <1>2, <1>5
  <2>8. WorthOf(custody', HeldIn(custody')) = WorthOf(custody, HeldIn(custody)) + op.total
    BY <2>1, <2>3, <2>5, <2>7
  <2>9. AllDebits(journal) \in Nat /\ AllCredits(journal) \in Nat
    BY <1>1, SumsAreNumbers
  <2>10. WorthOf(custody, HeldIn(custody)) + absorbed + AllDebits(journal) = AllCredits(journal)
    BY <1>9 DEF Accounted
  <2>11. WorthOf(custody', HeldIn(custody')) + absorbed' + AllDebits(journal')
           = AllCredits(journal')
    BY <1>2, <1>3, <1>4, <1>6, <2>6, <2>8, <2>9, <2>10
  <2> QED
    BY <2>11 DEF Accounted
<1> QED
  BY <1>7, <1>8, <1>9

\* The two lines of a withdrawal.
Withdrawn(lines, a, t, total, burn) ==
  Post(Post(lines, a, t, "withdrawal", total), a, t, "burn", burn)

LEMMA WithdrawnLines ==
  ASSUME NEW lines \in [Cell -> Nat], NEW a \in Agent, NEW t \in Time,
         NEW total \in Nat, NEW burn \in Nat,
         NEW new, new = Withdrawn(lines, a, t, total, burn)
  PROVE  /\ new \in [Cell -> Nat]
         /\ \A c \in Cell : c[1] # a => new[c] = lines[c]
         /\ \A x \in Agent, T \in SUBSET Time :
              /\ DebitsOf(new, x, T)
                   = DebitsOf(lines, x, T) + IF x = a /\ t \in T THEN total + burn ELSE 0
              /\ CreditsOf(new, x, T) = CreditsOf(lines, x, T)
         /\ AllDebits(new) = AllDebits(lines) + total + burn
         /\ AllCredits(new) = AllCredits(lines)
<1> PICK mid : mid = Post(lines, a, t, "withdrawal", total)
  OBVIOUS
<1> new = Post(mid, a, t, "burn", burn)
  BY DEF Withdrawn
<1>1. "withdrawal" \in DEBIT_KINDS /\ "burn" \in DEBIT_KINDS
  BY DEF DEBIT_KINDS
<1>2. /\ mid \in [Cell -> Nat]
      /\ \A c \in Cell : c[1] # a => mid[c] = lines[c]
      /\ \A x \in Agent, T \in SUBSET Time :
           /\ DebitsOf(mid, x, T) = DebitsOf(lines, x, T) + IF x = a /\ t \in T THEN total ELSE 0
           /\ CreditsOf(mid, x, T) = CreditsOf(lines, x, T)
      /\ AllDebits(mid) = AllDebits(lines) + total
      /\ AllCredits(mid) = AllCredits(lines)
  BY <1>1, PostedDebit
<1>3. /\ new \in [Cell -> Nat]
      /\ \A c \in Cell : c[1] # a => new[c] = mid[c]
      /\ \A x \in Agent, T \in SUBSET Time :
           /\ DebitsOf(new, x, T) = DebitsOf(mid, x, T) + IF x = a /\ t \in T THEN burn ELSE 0
           /\ CreditsOf(new, x, T) = CreditsOf(mid, x, T)
      /\ AllDebits(new) = AllDebits(mid) + burn
      /\ AllCredits(new) = AllCredits(mid)
  BY <1>1, <1>2, PostedDebit
<1>4. ASSUME NEW x \in Agent, NEW T \in SUBSET Time
      PROVE  DebitsOf(new, x, T)
               = DebitsOf(lines, x, T) + IF x = a /\ t \in T THEN total + burn ELSE 0
  <2>1. DebitsOf(lines, x, T) \in Nat
    BY AgentCells, SumOfCells DEF DebitsOf
  <2>2. /\ DebitsOf(mid, x, T) = DebitsOf(lines, x, T) + IF x = a /\ t \in T THEN total ELSE 0
        /\ DebitsOf(new, x, T) = DebitsOf(mid, x, T) + IF x = a /\ t \in T THEN burn ELSE 0
    BY <1>2, <1>3
  <2> QED
    BY <2>1, <2>2
<1>5. \A x \in Agent, T \in SUBSET Time : CreditsOf(new, x, T) = CreditsOf(lines, x, T)
  BY <1>2, <1>3
<1>6. \A c \in Cell : c[1] # a => new[c] = lines[c]
  BY <1>2, <1>3
<1>7. AllDebits(new) = AllDebits(lines) + total + burn /\ AllCredits(new) = AllCredits(lines)
  <2>1. AllDebits(lines) \in Nat
    BY AgentCells, SumOfCells DEF AllDebits
  <2> QED
    BY <1>2, <1>3, <2>1
<1> QED
  BY <1>3, <1>4, <1>5, <1>6, <1>7

\* A withdrawal's custody rows: what it reserved is spent, its change is free.
LEMMA ConsumedRows ==
  ASSUME Booked, NEW op \in staged, op.kind = "withdraw", NEW new, new = Consumed(op)
  PROVE  /\ RowsOK(new) /\ DOMAIN new = DOMAIN custody
         /\ \A h \in DOMAIN custody :
              /\ new[h].amount = custody[h].amount
              /\ h \in Reserved(op) => new[h].state = "spent"
              /\ h = op.key => new[h].state = "unspent"
              /\ h \notin Touched(op) => new[h] = custody[h]
<1>1. StagedOp(op) /\ RowsOK(custody)
  BY DEF Booked
<1>2. "pending" \in States /\ "unspent" \in States /\ "reserved" \in States /\ "spent" \in States
  BY DEF States
<1>3. Reserved(op) = Keys(op.inputs)
  BY DEF Reserved
<1>4. PICK mid : mid = Marked(custody, Keys(op.inputs), "reserved", "spent")
  OBVIOUS
<1>5. /\ RowsOK(mid) /\ DOMAIN mid = DOMAIN custody
      /\ \A h \in DOMAIN custody :
           /\ mid[h].amount = custody[h].amount
           /\ h \in Keys(op.inputs) /\ custody[h].state = "reserved" => mid[h].state = "spent"
           /\ h \notin Keys(op.inputs) \/ custody[h].state # "reserved" => mid[h] = custody[h]
  BY <1>1, <1>2, <1>4, MarkedRows
<1>6. new = Marked(mid, {op.key}, "pending", "unspent")
  BY <1>4 DEF Consumed
<1>7. /\ RowsOK(new) /\ DOMAIN new = DOMAIN mid
      /\ \A h \in DOMAIN mid :
           /\ new[h].amount = mid[h].amount
           /\ h \in {op.key} /\ mid[h].state = "pending" => new[h].state = "unspent"
           /\ h \notin {op.key} \/ mid[h].state # "pending" => new[h] = mid[h]
  BY <1>2, <1>5, <1>6, MarkedRows
<1>8. ASSUME NEW h \in DOMAIN custody
      PROVE  /\ new[h].amount = custody[h].amount
             /\ h \in Reserved(op) => new[h].state = "spent"
             /\ h = op.key => new[h].state = "unspent"
             /\ h \notin Touched(op) => new[h] = custody[h]
  <2>1. h # NULL
    BY <1>1, RowFields
  <2>2. h \in Reserved(op) => custody[h].state = "reserved"
    BY <1>1 DEF StagedOp
  <2>3. h = op.key => custody[h].state = "pending"
    BY <1>1, <2>1 DEF StagedOp
  <2>4. h \notin Touched(op) => h # op.key /\ h \notin Reserved(op)
    BY <2>1 DEF Touched
  <2>5. h \in Reserved(op) => mid[h].state = "spent"
    BY <1>3, <1>5, <2>2
  <2>6. h \notin Reserved(op) => mid[h] = custody[h]
    BY <1>3, <1>5
  <2>7. new[h].amount = custody[h].amount
    BY <1>5, <1>7
  <2>8. h \in Reserved(op) => new[h].state = "spent"
    BY <1>5, <1>7, <2>5
  <2>9. h = op.key => new[h].state = "unspent"
    <3> SUFFICES ASSUME h = op.key PROVE new[h].state = "unspent"
      OBVIOUS
    <3>1. h \notin Reserved(op) /\ custody[h].state = "pending"
      BY <2>2, <2>3
    <3>2. mid[h].state = "pending"
      BY <2>6, <3>1
    <3> QED
      BY <1>5, <1>7, <3>2
  <2>10. h \notin Touched(op) => new[h] = custody[h]
    BY <1>5, <1>7, <2>4, <2>6
  <2> QED
    BY <2>7, <2>8, <2>9, <2>10
<1> QED
  BY <1>5, <1>7, <1>8, Zenon

\* What a withdrawal that committed takes out of custody is what it debits
\* its agent and the mint for, less its change.
LEMMA FinalizeWithdrawStep ==
  ASSUME Booked, NEW op \in staged, FinalizeWithdraw(op), SettleFrame(op)
  PROVE  Booked' /\ (Accounted => Accounted') /\ (Agree => Agree')
<1>1. StagedOp(op) /\ RowsOK(custody) /\ BooksTypeOK /\ Unlisted
  BY DEF Booked, Unlisted
<1>2. op.kind = "withdraw"
  BY DEF FinalizeWithdraw
<1>3. PICK a \in DOMAIN agents, total \in Nat, burn \in Nat, t \in Time :
        a = op.agent /\ total = op.total /\ burn = op.burn /\ t = op.t
  <2>1. clock \in Time /\ op.t \in 0..clock
    BY <1>1 DEF BooksTypeOK, StagedOp
  <2>2. op.t \in Time
    BY <2>1, WindowAssumption DEF Time
  <2> QED
    BY <1>1, <2>2 DEF StagedOp
<1>4. /\ custody' = Consumed(op)
      /\ agents' = [agents EXCEPT ![a].balance_mc = @ - (total + burn)]
      /\ absorbed' = absorbed + op.absorbed
      /\ journal' = Withdrawn(journal, a, t, total, burn)
  BY <1>3 DEF FinalizeWithdraw, Absorbing, WithdrawalLines, Withdrawn
<1>5. /\ a \in Agent /\ agents[a].balance_mc \in Int /\ journal \in [Cell -> Nat]
      /\ absorbed \in Nat /\ op.absorbed \in Nat
  <2>1. a \in Agent /\ agents[a].balance_mc \in Int
    BY <1>1, AgentRows
  <2>2. journal \in [Cell -> Nat] /\ absorbed \in Nat /\ op.absorbed \in Nat
    BY <1>1 DEF BooksTypeOK, Booked, StagedOp
  <2> QED
    BY <2>1, <2>2
<1>6. /\ RowsOK(custody') /\ DOMAIN custody' = DOMAIN custody
      /\ \A h \in DOMAIN custody :
           /\ custody'[h].amount = custody[h].amount
           /\ h \in Reserved(op) => custody'[h].state = "spent"
           /\ h = op.key => custody'[h].state = "unspent"
           /\ h \notin Touched(op) => custody'[h] = custody[h]
  BY <1>2, <1>4, ConsumedRows
<1>7. /\ journal' \in [Cell -> Nat]
      /\ \A c \in Cell : c[1] # a => journal'[c] = journal[c]
      /\ \A x \in Agent, T \in SUBSET Time :
           /\ DebitsOf(journal', x, T)
                = DebitsOf(journal, x, T) + IF x = a /\ t \in T THEN total + burn ELSE 0
           /\ CreditsOf(journal', x, T) = CreditsOf(journal, x, T)
      /\ AllDebits(journal') = AllDebits(journal) + total + burn
      /\ AllCredits(journal') = AllCredits(journal)
  BY <1>4, <1>5, WithdrawnLines
<1>8. /\ AgentsOK' /\ DOMAIN agents' = DOMAIN agents /\ Unlisted'
      /\ Agree => Agree'
  <2>1. PICK n \in Int, dr \in Nat, cr \in Nat :
          /\ n = agents[a].balance_mc - (total + burn) /\ dr = total + burn /\ cr = 0
    BY <1>5
  <2>2. n = agents[a].balance_mc + cr - dr
    BY <1>5, <2>1
  <2>3. agents' = Paid(a, n)
    BY <1>4, <2>1 DEF Paid
  <2>4. \A x \in Agent :
          /\ CreditsOf(journal', x, Time) = CreditsOf(journal, x, Time) + IF x = a THEN cr ELSE 0
          /\ DebitsOf(journal', x, Time) = DebitsOf(journal, x, Time) + IF x = a THEN dr ELSE 0
    <3>1. \A x \in Agent : CreditsOf(journal, x, Time) \in Nat
      BY <1>1, SumsAreNumbers
    <3> QED
      BY <1>7, <2>1, <3>1
  <2> QED
    BY <1>1, <1>7, <2>2, <2>3, <2>4, SettledAccount
<1>9. Booked'
  <2>1. \A h \in DOMAIN custody \ Touched(op) :
          h \in DOMAIN custody' /\ custody'[h] = custody[h]
    BY <1>6
  <2>2. absorbed' \in Nat
    BY <1>4, <1>5
  <2> QED
    BY <1>6, <1>7, <1>8, <2>1, <2>2, SettleStep
<1>10. ASSUME Accounted PROVE Accounted'
  <2>1. PICK H, R, K :
          /\ H = HeldIn(custody) /\ R = Reserved(op)
          /\ K = IF op.key = NULL THEN {} ELSE {op.key}
    OBVIOUS
  <2>2. R \in SUBSET H /\ H \in SUBSET DOMAIN custody /\ R = Keys(op.inputs)
    BY <1>1, <1>2, <2>1 DEF StagedOp, HeldIn, Reserved
  <2>3. op.key # NULL => /\ op.key \in DOMAIN custody /\ op.key \notin H
                         /\ custody[op.key].state = "pending"
    BY <1>1, <2>1 DEF StagedOp, HeldIn
  <2>4. \A h \in DOMAIN custody : h # NULL
    BY <1>1, RowFields
  <2>5. HeldIn(custody') = (H \ R) \cup K
    <3>1. \A h \in HeldIn(custody') : h \in (H \ R) \cup K
      <4> SUFFICES ASSUME NEW h \in HeldIn(custody'), h \notin K PROVE h \in H /\ h \notin R
        OBVIOUS
      <4>1. h \in DOMAIN custody /\ custody'[h].state \in {"unspent", "reserved"}
        BY <1>6 DEF HeldIn
      <4>2. h \notin R
        BY <1>6, <2>1, <4>1
      <4>3. h \notin Touched(op)
        BY <2>1, <4>2 DEF Touched
      <4> QED
        BY <1>6, <2>1, <4>1, <4>2, <4>3 DEF HeldIn
    <3>2. \A h \in H \ R : h \in HeldIn(custody')
      <4> SUFFICES ASSUME NEW h \in H \ R PROVE h \in HeldIn(custody')
        OBVIOUS
      <4>1. h \in DOMAIN custody /\ custody[h].state \in {"unspent", "reserved"}
        BY <2>1 DEF HeldIn
      <4>2. h # op.key
        BY <2>3, <2>4, <4>1
      <4>3. h \notin Touched(op)
        BY <2>1, <4>2 DEF Touched
      <4> QED
        BY <1>6, <4>1, <4>3 DEF HeldIn
    <3>3. \A h \in K : h \in HeldIn(custody')
      <4>1. \A h \in K : h = op.key /\ op.key # NULL
        BY <2>1
      <4> QED
        BY <1>6, <2>3, <4>1 DEF HeldIn
    <3> QED
      BY <3>1, <3>2, <3>3
  <2>6. WorthOf(custody, H) = WorthOf(custody, H \ R) + WorthOf(custody, R)
    BY <1>1, <2>2, WorthWithout
  <2>7. PICK w \in Nat, r \in Nat, c \in Nat, i \in Nat :
          /\ w = WorthOf(custody, H \ R) /\ r = WorthOf(custody, R)
          /\ c = Change(op) /\ i = op.absorbed
    <3>1. WorthOf(custody, H \ R) \in Nat /\ WorthOf(custody, R) \in Nat
      BY <1>1, <2>2, WorthOfRows
    <3>2. Change(op) \in Nat
      BY <1>1, <2>3, RowFields DEF Change
    <3> QED
      BY <1>5, <3>1, <3>2
  <2>8. r = total + burn + i + c
    BY <1>1, <1>2, <1>3, <2>2, <2>7 DEF StagedOp
  <2>9. WorthOf(custody', H \ R) = w
    <3>1. \A h \in H \ R : custody'[h].amount = custody[h].amount
      BY <1>6, <2>2
    <3> QED
      BY <2>7, <3>1, SameWorth
  <2>10. WorthOf(custody', (H \ R) \cup K) = w + c
    <3>1. CASE op.key = NULL
      <4>1. (H \ R) \cup K = H \ R /\ c = 0
        BY <2>1, <2>7, <3>1 DEF Change
      <4>2. w + c = w
        BY <4>1
      <4> QED
        BY <2>9, <4>1, <4>2, Zenon
    <3>2. CASE op.key # NULL
      <4>1. op.key \in DOMAIN custody' \ (H \ R) /\ H \ R \in SUBSET DOMAIN custody'
        BY <1>6, <2>2, <2>3, <3>2
      <4>2. WorthOf(custody', (H \ R) \cup {op.key})
              = WorthOf(custody', H \ R) + custody'[op.key].amount
        BY <1>6, <4>1, WorthWith
      <4>3. custody'[op.key].amount = c
        BY <1>6, <2>3, <2>7, <3>2 DEF Change
      <4>4. K = {op.key}
        BY <2>1, <3>2
      <4> QED
        BY <2>9, <4>2, <4>3, <4>4
    <3> QED
      BY <3>1, <3>2
  <2>11. AllDebits(journal) \in Nat /\ AllCredits(journal) \in Nat
    BY <1>1, SumsAreNumbers
  <2>12. w + r + absorbed + AllDebits(journal) = AllCredits(journal)
    BY <1>10, <2>1, <2>6, <2>7 DEF Accounted
  <2>13. absorbed' = absorbed + i
    BY <1>4, <2>7
  <2>14. (w + c) + absorbed' + AllDebits(journal') = AllCredits(journal')
    BY <1>5, <1>7, <2>8, <2>11, <2>12, <2>13
  <2> QED
    BY <2>5, <2>10, <2>14 DEF Accounted
<1> QED
  BY <1>8, <1>9, <1>10

-----------------------------------------------------------------------------
(***************************************************************************)
(* The books, in every reachable state.                                    *)
(***************************************************************************)
Claims == Accounted /\ Agree /\ PullBound
ClaimsKept ==
  (Accounted => Accounted') /\ (Agree => Agree') /\ (PullBound => PullBound')

LEMMA InitBooked ==
  ASSUME Init
  PROVE  Booked /\ Claims
<1>1. /\ clock = 0 /\ agents = [a \in {} |-> NULL] /\ journal = [c \in Cell |-> 0]
      /\ auths = <<>> /\ pulled = [u \in (1..MaxAuths) \X Time |-> 0]
      /\ custody = [h \in {} |-> NULL] /\ staged = {} /\ absorbed = 0 /\ running = Idle
      /\ mode = "up"
  BY DEF Init, InitBooks
<1>2. DOMAIN agents = {} /\ DOMAIN custody = {} /\ DOMAIN auths = {} /\ Len(auths) = 0
  BY <1>1
<1>3. BooksTypeOK
  <2>1. clock \in Time
    BY <1>1, WindowAssumption DEF Time
  <2>2. AgentsOK
    <3>1. {} \in SUBSET Agent /\ agents \in [{} -> AgentRow]
      BY <1>1
    <3> QED
      BY <3>1 DEF AgentsOK
  <2>3. GrantsOK
    <3>1. auths \in Seq(Auth) /\ Len(auths) <= MaxAuths
      BY <1>1, WindowAssumption
    <3>2. pulled \in [(1..MaxAuths) \X Time -> Nat]
      BY <1>1
    <3> QED
      BY <1>2, <3>1, <3>2 DEF GrantsOK
  <2>4. journal \in [Cell -> Nat]
    BY <1>1
  <2> QED
    BY <2>1, <2>2, <2>3, <2>4, BooksParts
<1>4. LedgerOK
  <2> SUFFICES ASSUME NEW h \in DOMAIN ledger
               PROVE  ledger[h] \in [amount : Nat, spent_at : 0..clock \cup {NULL}]
    BY DEF LedgerOK
  <2>1. ledger = [k \in Keys(InitialCoins) |->
                    [amount |-> (CHOOSE c \in InitialCoins : c.hash = k).amount,
                     spent_at |-> NULL]]
    BY DEF Init
  <2>2. \E c \in InitialCoins : c.hash = h
    BY <2>1 DEF Keys
  <2>3. (CHOOSE c \in InitialCoins : c.hash = h) \in InitialCoins
    BY <2>2
  <2>4. (CHOOSE c \in InitialCoins : c.hash = h).amount \in Nat
    BY <2>3, BridgeAssumption
  <2> QED
    BY <2>1, <2>4
<1>5. Booked
  <2>1. RowsOK(custody)
    BY <1>2 DEF RowsOK
  <2>2. absorbed \in Nat /\ running = Idle /\ mode \in {"up", "recovering", "down"}
    BY <1>1
  <2>3. \A c \in Cell : journal[c] = 0
    BY <1>1
  <2>4. \A u \in (1..MaxAuths) \X Time : pulled[u] = 0
    BY <1>1
  <2> QED
    BY <1>1, <1>3, <1>4, <2>1, <2>2, <2>3, <2>4 DEF Booked
<1>6. \A S \in SUBSET Cell : SumOf(journal, S) = 0
  <2> SUFFICES ASSUME NEW S \in SUBSET Cell PROVE SumOf(journal, S) = 0
    OBVIOUS
  <2>1. \A c \in DOMAIN [d \in S |-> journal[d]] : [d \in S |-> journal[d]][c] = 0
    BY <1>1
  <2> QED
    BY <2>1, TotalOfZeros DEF SumOf
<1>7. Accounted
  <2>1. AllDebits(journal) = 0 /\ AllCredits(journal) = 0
    BY <1>6, AgentCells DEF AllDebits, AllCredits
  <2>2. HeldIn(custody) = {}
    BY <1>2 DEF HeldIn
  <2>3. WorthOf(custody, {}) = 0
    <3>1. DOMAIN [h \in {} |-> custody[h].amount] = {}
      OBVIOUS
    <3> QED
      BY <3>1, TotalOfNothing DEF WorthOf
  <2>4. WorthOf(custody, HeldIn(custody)) = 0
    BY <2>2, <2>3
  <2> QED
    BY <1>1, <2>1, <2>4 DEF Accounted
<1>8. Agree
  BY <1>2 DEF Agree
<1>9. PullBound
  BY <1>2 DEF PullBound
<1> QED
  BY <1>5, <1>7, <1>8, <1>9 DEF Claims

\* A step that leaves the books and the custody rows alone.
LEMMA IdleStep ==
  ASSUME Booked, UNCHANGED <<books, custody, staged, absorbed>>,
         clock' \in Time, clock <= clock', LedgerOK',
         running' = Idle \/ (running # Idle /\ running'.op = running.op /\ mode' = mode),
         mode' \in {"up", "recovering", "down"}
  PROVE  Booked' /\ ClaimsKept
<1>1. /\ agents' = agents /\ journal' = journal /\ auths' = auths /\ pulled' = pulled
      /\ custody' = custody /\ staged' = staged /\ absorbed' = absorbed
  BY DEF books
<1>2. clock \in Nat /\ clock' \in Nat
  BY WindowAssumption DEF Booked, BooksTypeOK, Time
<1>3. BooksTypeOK'
  <2>1. GrantsOK /\ AgentsOK /\ journal \in [Cell -> Nat]
    BY BooksParts DEF Booked
  <2>2. GrantsOK' /\ AgentsOK' /\ journal' \in [Cell -> Nat]
    BY <1>1, <2>1 DEF GrantsOK, AgentsOK
  <2> QED
    BY <2>2 DEF BooksTypeOK, GrantsOK, AgentsOK
<1>4. ASSUME NEW op \in staged' PROVE StagedOp(op)'
  <2>1. StagedOp(op)
    BY <1>1 DEF Booked
  <2>2. \A h \in Touched(op) : h \in DOMAIN custody' /\ custody'[h] = custody[h]
    BY <1>1, <2>1, TouchedRows
  <2> QED
    BY <1>1, <1>2, <2>1, <2>2, StagedKept
<1>5. \A p, q \in staged' : p # q => Apart(p, q)'
  <2>1. \A p, q \in staged' : p # q => Apart(p, q)
    BY <1>1 DEF Booked
  <2> QED
    BY <2>1, Zenon DEF Apart, Touched, Reserved, Keys
<1>6. running' # Idle => running'.op \in staged' /\ mode' = "up"
  BY <1>1 DEF Booked
<1>7. Booked'
  BY <1>1, <1>3, <1>4, <1>5, <1>6 DEF Booked, RowsOK
<1>8. (Accounted => Accounted') /\ (Agree => Agree')
  BY <1>1 DEF Accounted, Agree
<1>9. PullBound => PullBound'
  BY <1>1 DEF PullBound
<1> QED
  BY <1>7, <1>8, <1>9 DEF ClaimsKept

\* What the settling and staging lemmas leave to say.
LEMMA GrantsStand ==
  ASSUME auths' = auths, pulled' = pulled
  PROVE  PullBound => PullBound'
BY DEF PullBound

LEMMA BooksOnlyStep ==
  ASSUME Booked, Books
  PROVE  Booked' /\ ClaimsKept
<1>1. /\ BooksNext /\ clock' = clock /\ custody' = custody /\ staged' = staged
      /\ absorbed' = absorbed /\ running' = running /\ ledger' = ledger /\ mode' = mode
  BY DEF Books, BooksNext, bridge
<1>2. LinesKept /\ GrantsKept
  BY <1>1, BooksStep DEF Booked, Unlisted, Unpulled
<1>3. BooksTypeOK'
  <2>1. clock \in Time
    BY DEF Booked, BooksTypeOK
  <2>2. clock' \in Time
    BY <1>1, <2>1 DEF Time
  <2> QED
    BY <1>2, <2>2 DEF BooksTypeOK, LinesKept, GrantsKept, GrantsOK, AgentsOK
<1>4. ASSUME NEW op \in staged' PROVE StagedOp(op)'
  <2>1. StagedOp(op)
    BY <1>1 DEF Booked
  <2>2. \A h \in Touched(op) : h \in DOMAIN custody' /\ custody'[h] = custody[h]
    BY <1>1, <2>1, TouchedRows
  <2>3. clock \in Nat /\ DOMAIN agents \subseteq DOMAIN agents'
    BY <1>2, WindowAssumption DEF Booked, BooksTypeOK, Time, LinesKept
  <2> QED
    BY <1>1, <2>1, <2>2, <2>3, StagedKept
<1>5. \A p, q \in staged' : p # q => Apart(p, q)'
  <2>1. \A p, q \in staged' : p # q => Apart(p, q)
    BY <1>1 DEF Booked
  <2> QED
    BY <2>1, Zenon DEF Apart, Touched, Reserved, Keys
<1>6. LedgerOK'
  BY <1>1 DEF Booked, LedgerOK
<1>7. RowsOK(custody') /\ absorbed' \in Nat /\ mode' \in {"up", "recovering", "down"}
      /\ (running' # Idle => running'.op \in staged' /\ mode' = "up")
  BY <1>1 DEF Booked
<1>8. Booked'
  BY <1>2, <1>3, <1>4, <1>5, <1>6, <1>7
     DEF Booked, LinesKept, GrantsKept, Unlisted, Unpulled
<1>9. ASSUME Accounted PROVE Accounted'
  <2>1. AllDebits(journal') + AllCredits(journal) = AllDebits(journal) + AllCredits(journal')
    BY <1>2 DEF LinesKept
  <2>2. PICK w \in Nat : w = WorthOf(custody, HeldIn(custody))
    BY WorthOfRows DEF Booked, HeldIn
  <2>3. w + absorbed + AllDebits(journal) = AllCredits(journal)
    BY <1>9, <2>2 DEF Accounted
  <2>4. /\ AllDebits(journal) \in Nat /\ AllCredits(journal) \in Nat
        /\ AllDebits(journal') \in Nat /\ AllCredits(journal') \in Nat
        /\ absorbed \in Nat
    <3>1. \A S \in SUBSET Cell : SumOf(journal', S) \in Nat
      BY <1>2, SumOfCells DEF LinesKept
    <3>2. AllDebits(journal') \in Nat /\ AllCredits(journal') \in Nat
      BY <3>1, AgentCells DEF AllDebits, AllCredits
    <3> QED
      BY <3>2, SumsAreNumbers DEF Booked
  <2>5. w + absorbed + AllDebits(journal') = AllCredits(journal')
    BY <2>1, <2>3, <2>4
  <2> QED
    BY <1>1, <2>2, <2>5 DEF Accounted
<1> QED
  BY <1>2, <1>8, <1>9 DEF ClaimsKept, LinesKept, GrantsKept

LEMMA SettledStep ==
  ASSUME Booked, NEW op \in staged, RollForward(op) \/ Unwind(op),
         clock' = clock, running' = Idle, ledger' = ledger, mode' = mode
  PROVE  Booked' /\ ClaimsKept
<1>1. SettleFrame(op)
  BY DEF SettleFrame, RollForward, FinalizeDeposit, FinalizeWithdraw, Unwind, books
<1>2. CASE FinalizeDeposit(op)
  BY <1>1, <1>2, FinalizeDepositStep, GrantsStand DEF ClaimsKept, SettleFrame
<1>3. CASE FinalizeWithdraw(op)
  BY <1>1, <1>3, FinalizeWithdrawStep, GrantsStand DEF ClaimsKept, SettleFrame
<1>4. CASE Unwind(op)
  BY <1>1, <1>4, UnwindStep, GrantsStand DEF ClaimsKept, SettleFrame
<1> QED
  BY <1>2, <1>3, <1>4 DEF RollForward

\* Spending, pruning and new entries keep the ledger's rows well formed.
LEMMA LedgerSteps ==
  ASSUME LedgerOK, clock \in Nat, clock' = clock
  PROVE  /\ \A h : (Unspent(h) /\ ledger' = [ledger EXCEPT ![h].spent_at = clock]) => LedgerOK'
         /\ \A S : ledger' = [h \in DOMAIN ledger \ S |-> ledger[h]] => LedgerOK'
<1>1. ASSUME NEW h, Unspent(h), ledger' = [ledger EXCEPT ![h].spent_at = clock]
      PROVE  LedgerOK'
  <2>1. h \in DOMAIN ledger
    BY <1>1 DEF Unspent, Known
  <2>2. /\ DOMAIN ledger' = DOMAIN ledger
        /\ ledger'[h] = [ledger[h] EXCEPT !.spent_at = clock]
        /\ \A g \in DOMAIN ledger : g # h => ledger'[g] = ledger[g]
    BY <1>1, <2>1
  <2> SUFFICES ASSUME NEW g \in DOMAIN ledger
               PROVE  ledger'[g] \in [amount : Nat, spent_at : 0..clock \cup {NULL}]
    BY <2>2 DEF LedgerOK
  <2>3. ledger[g] \in [amount : Nat, spent_at : 0..clock \cup {NULL}]
    BY DEF LedgerOK
  <2>4. CASE g = h
    <3>1. clock \in 0..clock \cup {NULL}
      OBVIOUS
    <3>2. [ledger[g] EXCEPT !.spent_at = clock] \in [amount : Nat, spent_at : 0..clock \cup {NULL}]
      BY <2>3, <3>1
    <3> QED
      BY <2>2, <2>4, <3>2
  <2>5. CASE g # h
    BY <2>2, <2>3, <2>5
  <2> QED
    BY <2>4, <2>5
<1>2. ASSUME NEW S, ledger' = [h \in DOMAIN ledger \ S |-> ledger[h]]
      PROVE  LedgerOK'
  BY <1>2 DEF LedgerOK
<1> QED
  BY <1>1, <1>2

LEMMA ExchangeStep ==
  ASSUME Booked, running # Idle, Accepts(running.op.inputs, running.op.outputs),
         ledger' = Exchanged(running.op.inputs, running.op.outputs), clock' = clock
  PROVE  LedgerOK'
<1>1. PICK op \in staged : op = running.op
  BY DEF Booked
<1>2. StagedOp(op) /\ LedgerOK /\ clock \in Nat
  BY WindowAssumption DEF Booked, BooksTypeOK, Time
<1>3. PICK ins, outs : ins = op.inputs /\ outs = op.outputs
  OBVIOUS
<1>4. \A c \in outs : c.amount \in Nat
  BY <1>2, <1>3 DEF StagedOp
<1>5. \A h \in Keys(ins) : h \in DOMAIN ledger
  BY <1>1, <1>3 DEF Accepts, Keys, Unspent, Known
<1>6. ledger' = [h \in DOMAIN ledger \cup Keys(outs) |->
        IF h \in Keys(ins) THEN [ledger[h] EXCEPT !.spent_at = clock]
        ELSE IF Known(h) THEN ledger[h]
        ELSE [amount |-> (CHOOSE c \in outs : c.hash = h).amount, spent_at |-> NULL]]
  BY <1>1, <1>3, Zenon DEF Exchanged
<1> SUFFICES ASSUME NEW h \in DOMAIN ledger'
             PROVE  ledger'[h] \in [amount : Nat, spent_at : 0..clock \cup {NULL}]
  BY DEF LedgerOK
<1>7. CASE h \in Keys(ins)
  <2>1. ledger'[h] = [ledger[h] EXCEPT !.spent_at = clock]
    BY <1>6, <1>7
  <2>2. ledger[h] \in [amount : Nat, spent_at : 0..clock \cup {NULL}]
    BY <1>2, <1>5, <1>7 DEF LedgerOK
  <2>3. clock \in 0..clock \cup {NULL}
    BY <1>2
  <2> QED
    BY <2>1, <2>2, <2>3
<1>8. CASE h \notin Keys(ins) /\ h \in DOMAIN ledger
  BY <1>2, <1>6, <1>8 DEF LedgerOK, Known
<1>9. CASE h \notin Keys(ins) /\ h \notin DOMAIN ledger
  <2>1. h \in Keys(outs)
    BY <1>6, <1>9
  <2>2. \E c \in outs : c.hash = h
    BY <2>1 DEF Keys
  <2>3. (CHOOSE c \in outs : c.hash = h) \in outs
    BY <2>2
  <2>4. (CHOOSE c \in outs : c.hash = h).amount \in Nat
    BY <1>4, <2>3
  <2> QED
    BY <1>6, <1>9, <2>1, <2>4 DEF Known
<1> QED
  BY <1>7, <1>8, <1>9

LEMMA BookedStep ==
  ASSUME Booked, [Next]_vars
  PROVE  Booked' /\ ClaimsKept
<1>1. /\ clock \in Time /\ clock \in Nat /\ clock <= clock /\ LedgerOK
      /\ mode \in {"up", "recovering", "down"}
      /\ running # Idle => running.op \in staged /\ mode = "up"
  BY WindowAssumption DEF Booked, BooksTypeOK, Time
<1>2. CASE Books
  BY <1>2, BooksOnlyStep
<1>3. ASSUME NEW a \in Agent, NEW tokens \in Deposits, StageDeposit(a, tokens)
      PROVE  Booked' /\ ClaimsKept
  <2>1. Booked' /\ BooksStand /\ (Accounted => Accounted')
    BY <1>3, StageDepositStep
  <2> QED
    BY <2>1, GrantsStand DEF ClaimsKept, BooksStand, Agree
<1>4. ASSUME NEW a \in Agent, NEW outputs \in Withdrawals, StageWithdraw(a, outputs)
      PROVE  Booked' /\ ClaimsKept
  <2>1. Booked' /\ BooksStand /\ (Accounted => Accounted')
    BY <1>4, StageWithdrawStep
  <2> QED
    BY <2>1, GrantsStand DEF ClaimsKept, BooksStand, Agree
<1>5. CASE ExchangeCommits
  <2>1. /\ UNCHANGED <<books, custody, staged, absorbed>> /\ clock' = clock /\ mode' = mode
        /\ running # Idle /\ running' = [running EXCEPT !.phase = "finalize"]
    BY <1>5 DEF ExchangeCommits
  <2>2. LedgerOK'
    BY <1>5, ExchangeStep DEF ExchangeCommits
  <2>3. running'.op = running.op
    BY <2>1
  <2> QED
    BY <1>1, <2>1, <2>2, <2>3, IdleStep
<1>6. CASE ExchangeRejected
  <2>1. /\ UNCHANGED <<books, custody, staged, absorbed>> /\ clock' = clock /\ mode' = mode
        /\ running # Idle /\ running' = [running EXCEPT !.phase = "unwind"]
        /\ ledger' = ledger
    BY <1>6 DEF ExchangeRejected
  <2>2. LedgerOK'
    BY <1>1, <2>1 DEF LedgerOK
  <2>3. running'.op = running.op
    BY <2>1
  <2> QED
    BY <1>1, <2>1, <2>2, <2>3, IdleStep
<1>7. CASE Finalize
  BY <1>1, <1>7, SettledStep DEF Finalize
<1>8. CASE Discard
  BY <1>1, <1>8, SettledStep DEF Discard
<1>9. CASE Fail \/ Crash
  <2>1. /\ UNCHANGED <<books, custody, staged, absorbed>> /\ clock' = clock
        /\ running' = Idle /\ ledger' = ledger
        /\ mode' = mode \/ mode' = "down"
    BY <1>9 DEF Fail, Crash
  <2>2. LedgerOK'
    BY <1>1, <2>1 DEF LedgerOK
  <2> QED
    BY <1>1, <2>1, <2>2, IdleStep
<1>10. CASE Restart \/ Recovered
  <2>1. /\ UNCHANGED <<books, custody, staged, absorbed>> /\ clock' = clock
        /\ running' = running /\ ledger' = ledger /\ mode # "up"
        /\ mode' \in {"up", "recovering", "down"}
    BY <1>10 DEF Restart, Recovered, bridge
  <2>2. LedgerOK'
    BY <1>1, <2>1 DEF LedgerOK
  <2>3. running' = Idle
    BY <1>1, <2>1
  <2> QED
    BY <1>1, <2>1, <2>2, <2>3, IdleStep
<1>11. ASSUME NEW op \in staged, Recover(op)
       PROVE  Booked' /\ ClaimsKept
  <2>1. /\ RollForward(op) \/ Unwind(op)
        /\ clock' = clock /\ running' = running /\ ledger' = ledger /\ mode' = mode
        /\ mode = "recovering"
    BY <1>11 DEF Recover
  <2>2. running' = Idle
    BY <1>1, <2>1
  <2> QED
    BY <2>1, <2>2, SettledStep
<1>12. ASSUME NEW h \in DOMAIN ledger, BearerSpend(h)
       PROVE  Booked' /\ ClaimsKept
  <2>1. /\ UNCHANGED <<books, custody, staged, absorbed>> /\ clock' = clock
        /\ running' = running /\ mode' = mode
        /\ Unspent(h) /\ ledger' = [ledger EXCEPT ![h].spent_at = clock]
    BY <1>12 DEF BearerSpend, bridge
  <2>2. LedgerOK'
    BY <1>1, <2>1, LedgerSteps
  <2> QED
    BY <1>1, <2>1, <2>2, IdleStep
<1>13. CASE Prune
  <2>1. PICK old : ledger' = [h \in DOMAIN ledger \ old |-> ledger[h]]
    BY <1>13, Zenon DEF Prune
  <2>2. /\ UNCHANGED <<books, custody, staged, absorbed>> /\ clock' = clock
        /\ running' = running /\ mode' = mode
    BY <1>13 DEF Prune, bridge
  <2>3. LedgerOK'
    BY <1>1, <2>1, <2>2, LedgerSteps
  <2> QED
    BY <1>1, <2>2, <2>3, IdleStep
<1>14. CASE Tick
  <2>1. /\ UNCHANGED <<books, custody, staged, absorbed>> /\ clock' = clock + 1
        /\ clock < MaxTime /\ running' = running /\ ledger' = ledger /\ mode' = mode
    BY <1>14 DEF Tick, bridge
  <2>2. clock' \in Time /\ clock <= clock'
    BY <1>1, <2>1, WindowAssumption DEF Time
  <2>3. LedgerOK'
    <3>1. \A t : t \in 0..clock \cup {NULL} => t \in 0..clock' \cup {NULL}
      BY <1>1, <2>1
    <3>2. \A r : r \in [amount : Nat, spent_at : 0..clock \cup {NULL}]
                 => r \in [amount : Nat, spent_at : 0..clock' \cup {NULL}]
      BY <3>1
    <3> QED
      BY <1>1, <2>1, <3>2 DEF LedgerOK
  <2> QED
    BY <1>1, <2>1, <2>2, <2>3, IdleStep
<1>15. CASE UNCHANGED vars
  <2>1. /\ UNCHANGED <<books, custody, staged, absorbed>> /\ clock' = clock
        /\ running' = running /\ ledger' = ledger /\ mode' = mode
    BY <1>15 DEF vars, bridge
  <2>2. LedgerOK'
    BY <1>1, <2>1 DEF LedgerOK
  <2> QED
    BY <1>1, <2>1, <2>2, IdleStep
<1> QED
  BY <1>2, <1>3, <1>4, <1>5, <1>6, <1>7, <1>8, <1>9, <1>10, <1>11, <1>12, <1>13, <1>14,
     <1>15, Zenon DEF Next, Handler, Recovery

LEMMA AlwaysBooked == Spec => [](Booked /\ Claims)
<1>1. Init => Booked /\ Claims
  BY InitBooked
<1>2. Booked /\ Claims /\ [Next]_vars => (Booked /\ Claims)'
  BY BookedStep DEF Claims, ClaimsKept
<1> QED
  BY <1>1, <1>2, PTL DEF Spec

\* The stored balance of every agent is what its lines add up to
\* (supervision.py, op_statement), for any fleet and after any crashes and
\* failures: op_statement's check never raises.
THEOREM BalancesAreLines == Spec => []JournalAgrees
<1>1. Booked /\ Claims => JournalAgrees
  BY ClaimsAreSums DEF Claims
<1> QED
  BY <1>1, AlwaysBooked, PTL

\* No crash and no failed transaction makes the books create or lose money:
\* what the mint holds, absorbed and debited is what it credited
\* (supervision.py, the identity of the custody table).
THEOREM MoneyIsConserved == Spec => []CustodyAccounted
<1>1. Booked /\ Claims => CustodyAccounted
  BY ClaimsAreSums DEF Claims
<1> QED
  BY <1>1, AlwaysBooked, PTL

\* No grant pays more in any trailing day than it says (supervision.py, pull),
\* whatever order grants, pulls and ticks come in.
THEOREM GrantsAreBounded == Spec => []PullBound
<1>1. Booked /\ Claims => PullBound
  BY DEF Claims
<1> QED
  BY <1>1, AlwaysBooked, PTL
=============================================================================
