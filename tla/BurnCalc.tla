------------------------------ MODULE BurnCalc ------------------------------
(***************************************************************************)
(* Component C03 (impl/aicash/burncalc.py): the burn of one exchange call, *)
(* and the policy in force at an instant when a change has been announced. *)
(***************************************************************************)
EXTENDS Integers

CONSTANT NULL   \* no change of policy announced

PPM == 1000000
MaxRatePpm == 10000
MinExemptBelow == 10

\* What validate_policy accepts.
BurnPolicy ==
  [rate_ppm : 0..MaxRatePpm, cap_mc : Nat, exempt_below_mc : {n \in Nat : n >= MinExemptBelow}]

\* \div is floor division on the naturals, as // is here.
ComputeBurn(sum, p) ==
  IF sum <= p.exempt_below_mc THEN 0
  ELSE LET charge == (sum * p.rate_ppm) \div PPM
       IN  IF p.cap_mc < charge THEN p.cap_mc ELSE charge

\* next is NULL or the announced [policy, effective_at]; the flip happens
\* exactly at effective_at.
EffectivePolicy(current, next, now) ==
  IF next # NULL /\ now >= next.effective_at THEN next.policy ELSE current

\* is_increase: one of the three parameters moves the way that can raise a burn.
IsIncrease(current, next) ==
  \/ next.rate_ppm > current.rate_ppm
  \/ next.cap_mc > current.cap_mc
  \/ next.exempt_below_mc < current.exempt_below_mc

SevenDays == 7 * 24 * 60 * 60 * 1000

\* validate_notice: what it lets through. horizon is max_lock_expiry_ms, which
\* may be absent.
ValidNotice(current, next, announced_at, horizon) ==
  IsIncrease(current, next.policy) =>
    LET notice == next.effective_at - announced_at
    IN  /\ notice >= SevenDays
        /\ horizon # NULL => notice >= horizon
=============================================================================
