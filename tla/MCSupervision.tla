---------------------------- MODULE MCSupervision ---------------------------
(***************************************************************************)
(* Instances of Supervision for TLC.                                       *)
(***************************************************************************)
EXTENDS Supervision, TLC

CONSTANTS o1, o2, a1, a2, t1, t2, w1, w2, c1, c2, c3, c4

None == {}
OneAgent == {a1}
TwoAgents == {a1, a2}
OneOperator == {o1}
TwoOperators == {o1, o2}

\* One percent, which is 1 mc of a token of 100; free from instant 2 on.
Policy == [rate_ppm |-> 10000, cap_mc |-> 5, exempt_below_mc |-> 10]
Free == [rate_ppm |-> 0, cap_mc |-> 0, exempt_below_mc |-> 10]
Announced == [policy |-> Free, effective_at |-> 1]

C(h, n) == [hash |-> h, amount |-> n]
OneCoin == {C(t1, 100)}
TwoCoins == {C(t1, 100), C(t2, 110)}
TwoKeys == {c1, c2}
FourKeys == {c1, c2, c3, c4}

OneDeposit == {{C(t1, 100)}}
SomeDeposits == {{C(t1, 100)}, {C(t2, 110)}, {C(t1, 100), C(t2, 110)}}
SomeWithdrawals == {{C(w1, 99)}, {C(w1, 99), C(w2, 21)}}

\* Reached by one amount, and by two.
SomeCaps == {[per_hour_mc |-> 50, per_day_mc |-> NULL, absolute_mc |-> 100]}
OnlyCap == {[Uncapped EXCEPT !.absolute_mc = 60]}
FewWithdrawals == {{C(w1, 50)}, {C(w2, 50)}}
OneWithdrawal == {{C(w1, 50)}}
LapseDeposits == {{C(t1, 100)}, {C(t2, 110)}}
Grants == {[cap_mc_per_day |-> 50, expires_at |-> 3]}
Amounts == {50}

Either == BOOLEAN
OnlySet == {TRUE}

\* No definition tells agents, or operators, from one another.
FleetSymmetry == Permutations({a1, a2}) \cup Permutations({o1, o2})
=============================================================================
