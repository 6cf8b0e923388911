------------------------------- MODULE Swap -------------------------------
(***************************************************************************)
(* Component C11 (impl/aicash/swap.py): the swap of value at mint 1 for    *)
(* value at mint 2.  A funds leg 1 for B, B funds leg 2 for A under the    *)
(* same lock hash, A claims leg 2 with x, B reads x in mint 2's status and *)
(* claims leg 1 before A may take it back.                                 *)
(*                                                                         *)
(* Each mint has a clock of its own, ahead of the time by a constant.  A   *)
(* timely B polls every PollingInterval, and none of its requests takes    *)
(* longer than Latency (due is the time of its next step at the latest,    *)
(* and time does not pass it).  A, and a B that is not timely, do what     *)
(* they may whenever they like.  A mint reads its clock when a request     *)
(* arrives and commits up to Latency later (module LedgerStore).           *)
(***************************************************************************)
EXTENDS Integers, FiniteSets

CONSTANTS
  Latency,          \* what a request takes at most
  Estimate,         \* what compute_margin takes a request to last
  PollingInterval,
  Grace,            \* of each mint: lock_params.grace_ms
  Precision,        \* of each mint: lock_params.timestamp_precision_ms
  Ahead,            \* how far each mint's clock may be ahead of the time
  Expiry,           \* the pairs T, T' that may be agreed on
  Windows,          \* what mint 2 may publish as retention.recovery_window_ms
  MaxTime           \* bound of the model

Mint == 1..2
Never == MaxTime + 1

ConstantsOK ==
  /\ {Latency, Estimate, PollingInterval, Grace, Precision, MaxTime} \subseteq Nat
  /\ Ahead \subseteq Nat /\ Expiry \subseteq Nat \X Nat /\ Windows \subseteq Nat

VARIABLES
  now,
  ahead,      \* of each mint's clock
  expiry,     \* of the lock of each leg: <<T, T'>>
  window,     \* mint 2's recovery window
  timely,     \* does B keep to its times?
  leg,        \* "none", "locked", "claimed", "refunded" or "pruned"
  spent_at,   \* mint 2's time when leg 2 was claimed
  a,          \* A: "start", "funded", "claiming", "evaluated" or "over"
  b,          \* B: what it is doing
  read,       \* what B has read and not acted upon
  due         \* B's next step, or A's commit, is at this time at the latest

vars == <<now, ahead, expiry, window, timely, leg, spent_at, a, b, read, due>>

Clock(m) == now + ahead[m]
Nothing == [time |-> 0, state |-> "none"]

TypeOK ==
  /\ now \in 0..MaxTime
  /\ ahead \in [Mint -> Nat] /\ expiry \in [Mint -> Nat] /\ window \in Windows
  /\ timely \in BOOLEAN
  /\ leg \in [Mint -> {"none", "locked", "claimed", "refunded", "pruned"}]
  /\ spent_at \in Nat
  /\ a \in {"start", "funded", "claiming", "evaluated", "over"}
  /\ b \in {"start", "measured", "funding", "waiting", "asked", "told", "found",
            "checked", "claiming", "evaluated", "over"}
  /\ due \in [{"A", "B"} -> Nat]

Init ==
  /\ now = 0
  /\ ahead \in [Mint -> Ahead]
  /\ expiry \in Expiry
  /\ window \in Windows
  /\ timely \in BOOLEAN
  /\ leg = [m \in Mint |-> "none"]
  /\ spent_at = 0
  /\ a = "start" /\ b = "start"
  /\ read = Nothing
  /\ due = [p \in {"A", "B"} |-> Never]

Deal == <<ahead, expiry, window, timely>>
By(p, time) == due' = [due EXCEPT ![p] = time]

-----------------------------------------------------------------------------
\* What a lock allows (module LockEval), by the clock a request was read at.

Claimable(m) == leg[m] = "locked" /\ Clock(m) < expiry[m]
Refundable(m) == leg[m] = "locked" /\ Clock(m) >= expiry[m]

\* The convention of both claims: none within grace_ms of the expiry.
InTime(m, time) == time < expiry[m] - Grace

-----------------------------------------------------------------------------
\* A.

\* a_fund.
AFund ==
  /\ a = "start"
  /\ Clock(1) < expiry[1]
  /\ leg' = [leg EXCEPT ![1] = "locked"]
  /\ a' = "funded"
  /\ UNCHANGED <<now, Deal, spent_at, b, read, due>>

\* a_claim: nothing but the clock is checked before it is sent.
AClaim ==
  /\ a = "funded"
  /\ InTime(2, Clock(2))
  /\ a' = "claiming"
  /\ UNCHANGED <<now, Deal, leg, spent_at, b, read, due>>

\* Mint 2 reads its clock, and refuses ...
AClaimRefused ==
  /\ a = "claiming"
  /\ ~Claimable(2)
  /\ a' = "funded"
  /\ UNCHANGED <<now, Deal, leg, spent_at, b, read, due>>

\* ... or goes on ...
AClaimEvaluated ==
  /\ a = "claiming"
  /\ Claimable(2)
  /\ a' = "evaluated"
  /\ By("A", now + Latency)
  /\ UNCHANGED <<now, Deal, leg, spent_at, b, read>>

\* ... to the commit: x is public from now on.
AClaimCommits ==
  /\ a = "evaluated"
  /\ IF leg[2] = "locked"
     THEN /\ leg' = [leg EXCEPT ![2] = "claimed"]
          /\ spent_at' = Clock(2)
          /\ a' = "over"
     ELSE a' = "funded" /\ UNCHANGED <<leg, spent_at>>
  /\ By("A", Never)
  /\ UNCHANGED <<now, Deal, b, read>>

\* refund_expired by A, who may have claimed leg 2 as well.
ARefund ==
  /\ a # "start"
  /\ Refundable(1)
  /\ leg' = [leg EXCEPT ![1] = "refunded"]
  /\ UNCHANGED <<now, Deal, spent_at, a, b, read, due>>

-----------------------------------------------------------------------------
\* B funds.

\* b_fund reads mint 1's descriptor, and then mint 2's up to a request later.
BMeasure ==
  /\ b = "start"
  /\ b' = "measured"
  /\ read' = [time |-> Clock(1), state |-> leg[1]]
  /\ By("B", now + Latency)
  /\ UNCHANGED <<now, Deal, leg, spent_at, a>>

Abs(n) == IF n < 0 THEN -n ELSE n

\* Mutant: the skew of the two clocks is left out.
MarginNoSkew(skew) == 2 * Grace + 2 * Precision + PollingInterval + 3 * Estimate

\* compute_margin: grace and precision of both mints, the polling interval, a status
\* response, two redemptions, and the skew as the descriptors show it.
Margin(skew) ==
  2 * Grace + 2 * Precision + PollingInterval + 3 * Estimate + Abs(skew)

\* Retention covers the horizon T - T' and a dispute margin.
Covers(margin) == window >= expiry[1] - expiry[2] + margin

Quotable(margin) == expiry[1] - expiry[2] >= margin /\ Covers(margin)

\* QuoteRefused, or leg 1 is not what was agreed on.
BRefuses ==
  /\ b = "measured"
  /\ ~Quotable(Margin(read.time - Clock(2))) \/ leg[1] # "locked"
  /\ b' = "over"
  /\ read' = Nothing
  /\ By("B", Never)
  /\ UNCHANGED <<now, Deal, leg, spent_at, a>>

BQuotes ==
  /\ b = "measured"
  /\ Quotable(Margin(read.time - Clock(2)))
  /\ leg[1] = "locked"
  /\ b' = "funding"
  /\ read' = Nothing
  /\ By("B", Never)
  /\ UNCHANGED <<now, Deal, leg, spent_at, a>>

\* _fund_locked, unless T' has come; B polls from now on.
BFund ==
  /\ b = "funding"
  /\ IF Clock(2) < expiry[2]
     THEN /\ leg' = [leg EXCEPT ![2] = "locked"]
          /\ b' = "waiting"
          /\ By("B", now)
     ELSE b' = "over" /\ UNCHANGED <<leg, due>>
  /\ UNCHANGED <<now, Deal, spent_at, a, read>>

-----------------------------------------------------------------------------
\* b_poll_and_claim.

BAsk ==
  /\ b = "waiting"
  /\ b' = "asked"
  /\ By("B", now + Latency)
  /\ UNCHANGED <<now, Deal, leg, spent_at, a, read>>

\* Mint 2 reads the entry; the answer is under way.
BTold ==
  /\ b = "asked"
  /\ b' = "told"
  /\ read' = [Nothing EXCEPT !.state = leg[2]]
  /\ UNCHANGED <<now, Deal, leg, spent_at, a, due>>

\* Not spent so far: poll again.
BPollAgain ==
  /\ b = "told"
  /\ read.state = "locked"
  /\ b' = "waiting"
  /\ read' = Nothing
  /\ By("B", now + PollingInterval)
  /\ UNCHANGED <<now, Deal, leg, spent_at, a>>

\* SwapError: spent by the refund path, or pruned; there is no x to read.
BNothingToRead ==
  /\ b = "told"
  /\ read.state \in {"refunded", "pruned"}
  /\ b' = "over"
  /\ read' = Nothing
  /\ By("B", Never)
  /\ UNCHANGED <<now, Deal, leg, spent_at, a>>

\* claim_witness is x: ask mint 1 for its time ...
BFound ==
  /\ b = "told"
  /\ read.state = "claimed"
  /\ b' = "found"
  /\ read' = Nothing
  /\ By("B", now + Latency)
  /\ UNCHANGED <<now, Deal, leg, spent_at, a>>

BTime ==
  /\ b = "found"
  /\ b' = "checked"
  /\ read' = [Nothing EXCEPT !.time = Clock(1)]
  /\ UNCHANGED <<now, Deal, leg, spent_at, a, due>>

\* ... which refuses within its grace of T ...
BTooLate ==
  /\ b = "checked"
  /\ ~InTime(1, read.time)
  /\ b' = "over"
  /\ read' = Nothing
  /\ By("B", Never)
  /\ UNCHANGED <<now, Deal, leg, spent_at, a>>

\* ... or sends the claim, which mint 1 evaluates and commits.
BClaim ==
  /\ b = "checked"
  /\ InTime(1, read.time)
  /\ b' = "claiming"
  /\ read' = Nothing
  /\ By("B", now + Latency)
  /\ UNCHANGED <<now, Deal, leg, spent_at, a>>

BClaimEvaluated ==
  /\ b = "claiming"
  /\ b' = IF Claimable(1) THEN "evaluated" ELSE "over"
  /\ IF Claimable(1) THEN UNCHANGED due ELSE By("B", Never)
  /\ UNCHANGED <<now, Deal, leg, spent_at, a, read>>

BClaimCommits ==
  /\ b = "evaluated"
  /\ leg' = IF leg[1] = "locked" THEN [leg EXCEPT ![1] = "claimed"] ELSE leg
  /\ b' = "over"
  /\ By("B", Never)
  /\ UNCHANGED <<now, Deal, spent_at, a, read>>

\* refund_expired by B, between two polls; mint 2 has the last word.
BRefund ==
  /\ b = "waiting"
  /\ Refundable(2)
  /\ leg' = [leg EXCEPT ![2] = "refunded"]
  /\ UNCHANGED <<now, Deal, spent_at, a, b, read, due>>

-----------------------------------------------------------------------------
\* Mint 2 forgets a spent record once its recovery window has passed.
Prune ==
  /\ leg[2] = "claimed"
  /\ Clock(2) > spent_at + window
  /\ leg' = [leg EXCEPT ![2] = "pruned"]
  /\ UNCHANGED <<now, Deal, spent_at, a, b, read, due>>

Tick ==
  /\ now < MaxTime
  /\ now < due["A"]
  /\ timely => now < due["B"]
  /\ now' = now + 1
  /\ UNCHANGED <<Deal, leg, spent_at, a, b, read, due>>

ANext == \/ AFund \/ AClaim \/ AClaimRefused \/ AClaimEvaluated
         \/ AClaimCommits \/ ARefund
BNext == \/ BMeasure \/ BRefuses \/ BQuotes \/ BFund
         \/ BAsk \/ BTold \/ BPollAgain \/ BNothingToRead \/ BFound
         \/ BTime \/ BTooLate \/ BClaim \/ BClaimEvaluated \/ BClaimCommits
         \/ BRefund
Next == ANext \/ BNext \/ Prune \/ Tick

Spec == Init /\ [][Next]_vars

-----------------------------------------------------------------------------
\* The swap is atomic for a timely B: A never has both legs, whenever A
\* claims, however the two clocks differ, and wherever in its polling round
\* B is: what compute_margin and the retention check are for.
BothOrNeither ==
  timely /\ leg[2] \in {"claimed", "pruned"} => leg[1] # "refunded"
=============================================================================
