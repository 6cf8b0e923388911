--------------------------- MODULE BurnCalcProofs ---------------------------
(***************************************************************************)
(* Why the mint asks notice of some changes of policy and not of others    *)
(* (burncalc.py is_increase, validate_notice): a change that is no         *)
(* increase raises no burn, and an increase takes effect after every lock  *)
(* accepted before it was announced has expired.                           *)
(***************************************************************************)
EXTENDS BurnCalc, TLAPS

\* A larger numerator has no smaller quotient.
LEMMA DivMonotone ==
  ASSUME NEW a \in Nat, NEW b \in Nat, a <= b
  PROVE  a \div PPM <= b \div PPM
  BY SMT DEF PPM

\* A larger factor has no smaller product.
LEMMA TimesMonotone ==
  ASSUME NEW s \in Nat, NEW a \in Nat, NEW b \in Nat, a <= b
  PROVE  /\ s * a \in Nat
         /\ s * b \in Nat
         /\ s * a <= s * b
  <1>1. PICK d \in Nat : b = a + d
    <2>1. b - a \in Nat /\ b = a + (b - a)
      BY SMT
    <2> QED
      BY <2>1
  <1>2. s * a \in Nat /\ s * d \in Nat
    BY SMT
  <1>3. s * (a + d) = s * a + s * d
    BY SMT
  <1> QED
    BY <1>1, <1>2, <1>3, SMT

\* A quotient of a natural number is one.
LEMMA DivNat ==
  ASSUME NEW a \in Nat
  PROVE  a \div PPM \in Nat
  BY SMT DEF PPM

\* What a policy's fields are.
LEMMA PolicyFields ==
  ASSUME NEW p \in BurnPolicy
  PROVE  /\ p.rate_ppm \in Nat
         /\ p.cap_mc \in Nat
         /\ p.exempt_below_mc \in Nat
  <1>1. /\ p.rate_ppm \in 0..MaxRatePpm
        /\ p.cap_mc \in Nat
        /\ p.exempt_below_mc \in {n \in Nat : n >= MinExemptBelow}
    BY DEF BurnPolicy
  <1>2. \A n \in 0..MaxRatePpm : n \in Nat
    BY SMT DEF MaxRatePpm
  <1> QED
    BY <1>1, <1>2, Zenon

\* Under one policy a larger sum burns no less.
LEMMA BurnMonotone ==
  ASSUME NEW p \in BurnPolicy, NEW s \in Nat, NEW t \in Nat, s <= t
  PROVE  ComputeBurn(s, p) <= ComputeBurn(t, p)
  <1>1. p.rate_ppm \in Nat /\ p.cap_mc \in Nat /\ p.exempt_below_mc \in Nat
    BY PolicyFields
  <1>2. PICK cs \in Nat, ct \in Nat :
          /\ cs = (s * p.rate_ppm) \div PPM
          /\ ct = (t * p.rate_ppm) \div PPM
          /\ cs <= ct
    <2>1. /\ p.rate_ppm * s \in Nat
          /\ p.rate_ppm * t \in Nat
          /\ p.rate_ppm * s <= p.rate_ppm * t
      BY <1>1, TimesMonotone
    <2>2. \A x, y \in Nat : x * y = y * x
      BY SMT
    <2>3. p.rate_ppm * s = s * p.rate_ppm /\ p.rate_ppm * t = t * p.rate_ppm
      BY <1>1, <2>2, Zenon
    <2> QED
      BY <2>1, <2>3, DivMonotone, DivNat
  <1>3. ComputeBurn(s, p) = IF s <= p.exempt_below_mc THEN 0
                            ELSE IF p.cap_mc < cs THEN p.cap_mc ELSE cs
    BY <1>2 DEF ComputeBurn
  <1>4. ComputeBurn(t, p) = IF t <= p.exempt_below_mc THEN 0
                            ELSE IF p.cap_mc < ct THEN p.cap_mc ELSE ct
    BY <1>2 DEF ComputeBurn
  <1> QED
    BY <1>1, <1>2, <1>3, <1>4, SMT

\* No burn is more than one percent, so none is more than the sum itself.
LEMMA BurnWithinSum ==
  ASSUME NEW p \in BurnPolicy, NEW s \in Nat
  PROVE  ComputeBurn(s, p) \in 0..s
  <1>1. p.rate_ppm \in Nat /\ p.cap_mc \in Nat /\ p.exempt_below_mc \in Nat
    BY PolicyFields
  <1>2. p.rate_ppm <= PPM
    <2>1. p.rate_ppm \in 0..MaxRatePpm
      BY Zenon DEF BurnPolicy
    <2>2. \A n \in 0..MaxRatePpm : n <= PPM
      BY SMT DEF MaxRatePpm, PPM
    <2> QED
      BY <2>1, <2>2, Zenon
  <1>3. PICK c \in Nat : c = (s * p.rate_ppm) \div PPM /\ c <= s
    <2>1. s * p.rate_ppm \in Nat /\ s * PPM \in Nat /\ s * p.rate_ppm <= s * PPM
      <3>1. PPM \in Nat
        BY SMT DEF PPM
      <3> QED
        BY <1>1, <1>2, <3>1, TimesMonotone
    <2>2. (s * PPM) \div PPM = s
      BY SMT DEF PPM
    <2> QED
      BY <2>1, <2>2, DivMonotone, DivNat
  <1>4. ComputeBurn(s, p) = IF s <= p.exempt_below_mc THEN 0
                            ELSE IF p.cap_mc < c THEN p.cap_mc ELSE c
    BY <1>3 DEF ComputeBurn
  <1> QED
    BY <1>1, <1>3, <1>4, SMT

\* A change that is_increase does not call an increase raises the burn of no
\* sum: the mint may let it take effect at once.
THEOREM OnlyIncreasesRaise ==
  ASSUME NEW p \in BurnPolicy, NEW q \in BurnPolicy, ~IsIncrease(p, q), NEW sum \in Nat
  PROVE  ComputeBurn(sum, q) <= ComputeBurn(sum, p)
  <1>1. /\ p.rate_ppm \in Nat /\ p.cap_mc \in Nat /\ p.exempt_below_mc \in Nat
        /\ q.rate_ppm \in Nat /\ q.cap_mc \in Nat /\ q.exempt_below_mc \in Nat
    BY PolicyFields
  <1>2. /\ q.rate_ppm <= p.rate_ppm
        /\ q.cap_mc <= p.cap_mc
        /\ p.exempt_below_mc <= q.exempt_below_mc
    BY <1>1, SMT DEF IsIncrease
  <1>3. PICK cp \in Nat, cq \in Nat :
          /\ cp = (sum * p.rate_ppm) \div PPM
          /\ cq = (sum * q.rate_ppm) \div PPM
          /\ cq <= cp
    <2>1. /\ sum * p.rate_ppm \in Nat
          /\ sum * q.rate_ppm \in Nat
          /\ sum * q.rate_ppm <= sum * p.rate_ppm
      BY <1>1, <1>2, TimesMonotone
    <2> QED
      BY <2>1, DivMonotone, DivNat
  <1>4. ComputeBurn(sum, p) = IF sum <= p.exempt_below_mc THEN 0
                              ELSE IF p.cap_mc < cp THEN p.cap_mc ELSE cp
    BY <1>3 DEF ComputeBurn
  <1>5. ComputeBurn(sum, q) = IF sum <= q.exempt_below_mc THEN 0
                              ELSE IF q.cap_mc < cq THEN q.cap_mc ELSE cq
    BY <1>3 DEF ComputeBurn
  <1> QED
    BY <1>1, <1>2, <1>3, <1>4, <1>5, SMT

\* Nobody who locked funds before an increase was announced pays it: a lock
\* the ledger accepted by then expires within the horizon (ledgerstore.py, the
\* rule expiry <= now + max_lock_expiry), and until it does, the policy in
\* force burns no more of any sum than the one it was locked under.
THEOREM LockedFundsKeepTheirPrice ==
  ASSUME NEW p \in BurnPolicy, NEW q \in BurnPolicy,
         NEW at \in Int, NEW announced_at \in Int, NEW horizon \in Nat, horizon # NULL,
         ValidNotice(p, [policy |-> q, effective_at |-> at], announced_at, horizon),
         NEW accepted \in Int, accepted <= announced_at,
         NEW expiry \in Int, expiry <= accepted + horizon,
         NEW now \in Int, now < expiry, NEW sum \in Nat
  PROVE  ComputeBurn(sum, EffectivePolicy(p, [policy |-> q, effective_at |-> at], now))
           <= ComputeBurn(sum, p)
  <1> DEFINE next == [policy |-> q, effective_at |-> at]
  <1>1. next.policy = q /\ next.effective_at = at
    OBVIOUS
  <1>2. CASE IsIncrease(p, q)
    <2>1. at - announced_at >= horizon
      BY <1>1, <1>2 DEF ValidNotice
    <2>2. ~(now >= next.effective_at)
      BY <2>1, <1>1, SMT
    <2>3. EffectivePolicy(p, next, now) = p
      BY <2>2, Zenon DEF EffectivePolicy
    <2>4. ~IsIncrease(p, p)
      BY PolicyFields, SMT DEF IsIncrease
    <2> QED
      BY <2>3, <2>4, OnlyIncreasesRaise
  <1>3. CASE ~IsIncrease(p, q)
    <2>1. EffectivePolicy(p, next, now) \in {p, q}
      BY <1>1 DEF EffectivePolicy
    <2>2. ~IsIncrease(p, p)
      BY PolicyFields, SMT DEF IsIncrease
    <2> QED
      BY <1>3, <2>1, <2>2, OnlyIncreasesRaise
  <1> QED
    BY <1>2, <1>3
=============================================================================
