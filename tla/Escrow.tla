------------------------------- MODULE Escrow -------------------------------
(***************************************************************************)
(* Component C09 (impl/aicash/escrow.py): one milestone of an escrow with  *)
(* a panel of arbiters.  Every arbiter holds the preimages of rungs of its *)
(* own, the payer funds one locked output for each, the payee holds their  *)
(* secrets.  Rungs are taken in the order of a split award: an award of w  *)
(* reveals the rungs 1 to w of each arbiter.                               *)
(*                                                                         *)
(* The payer funds what it likes and takes back what it can; a faulty      *)
(* arbiter votes for everything and reveals what it likes.  An honest one  *)
(* votes once, and reveals by the decision deadline.  The fee outputs are  *)
(* left out: they are revealed with any award.                             *)
(***************************************************************************)
EXTENDS Integers, FiniteSets, FiniteSetsExt

CONSTANTS
  Arbiters, Faulty,
  K,                  \* votes of a quorum
  R,                  \* rungs of each arbiter
  Evidence,           \* evidence hashes
  DecisionDeadline,
  Grace,
  Margin,             \* the payee's settlement_margin_ms
  Expiries,           \* what the payer may put in the locks
  Latency,            \* what a call of the payee takes at most
  MaxTime             \* bound of the model

ConstantsOK ==
  /\ IsFiniteSet(Arbiters) /\ Faulty \subseteq Arbiters
  /\ {K, R, DecisionDeadline, Grace, Margin, Latency, MaxTime} \subseteq Nat
  /\ Expiries \subseteq Nat

Honest == Arbiters \ Faulty
Rung == 1..R
Output == Arbiters \X Rung
Award == 0..R
Never == MaxTime + 1

VARIABLES
  clock,      \* the mint's clock
  expiry,     \* of the locks of this milestone
  genuine,    \* outputs whose lock hash is the one its arbiter attested
  entry,      \* of each output: "none", "locked", "claimed", "refunded"
  payer,      \* "new", "funded" or "refunding"
  unspent,    \* the payer: what it is about to refund
  payee,      \* "new", "verified", "refused" or "redeeming"
  claim,      \* the payee: the outputs of the call under way
  due,        \* ... and when it has committed at the latest
  votes,      \* of each honest arbiter: its vote, or {}
  revealed    \* of each arbiter: the highest award it revealed, -1 for none

vars == <<clock, expiry, genuine, entry, payer, unspent, payee, claim, due,
          votes, revealed>>
payerVars == <<expiry, genuine, payer, unspent>>
payeeVars == <<payee, claim, due>>
panel == <<votes, revealed>>

Vote == [award : Award, evidence : Evidence]

TypeOK ==
  /\ clock \in 0..MaxTime /\ due \in 0..(Never + Latency)
  /\ expiry \in Expiries
  /\ genuine \subseteq Output /\ unspent \subseteq Output /\ claim \subseteq Output
  /\ entry \in [Output -> {"none", "locked", "claimed", "refunded"}]
  /\ payer \in {"new", "funded", "refunding"}
  /\ payee \in {"new", "verified", "refused", "redeeming"}
  /\ \A a \in Honest : votes[a] \subseteq Vote
  /\ revealed \in [Arbiters -> -1..R]

\* The payer is free in what it locks: at most one output is forged or
\* missing, which is enough to cheat.
Init ==
  /\ clock = 0
  /\ expiry \in Expiries
  /\ genuine \in {Output} \cup {Output \ {o} : o \in Output}
  /\ entry = [o \in Output |-> "none"]
  /\ payer = "new" /\ unspent = {}
  /\ payee = "new" /\ claim = {} /\ due = Never
  /\ votes = [a \in Honest |-> {}]
  /\ revealed = [a \in Arbiters |-> -1]

In(state) == {o \in Output : entry[o] = state}
With(state, set) == [o \in Output |-> IF o \in set THEN state ELSE entry[o]]

-----------------------------------------------------------------------------
\* Funding.

\* fund, in one exchange: all outputs, or none for the ones that are missing.
Fund(missing) ==
  /\ payer = "new"
  /\ clock < expiry
  /\ entry' = With("locked", Output \ missing)
  /\ payer' = "funded"
  /\ UNCHANGED <<clock, expiry, genuine, unspent, payeeVars, panel>>

\* Mutant: the payee takes the payer's word for the expiry.
ConformantAny(time) == time \in Nat

\* compute_deadlines, by the payee's own copy of the offer.
Conformant(time) == time >= DecisionDeadline + Grace + Margin

Verifies == In("locked") = Output /\ genuine = Output /\ Conformant(expiry)

\* verify_funding: complete, attested, unspent, and locked for long enough.
VerifyFunding ==
  /\ payee = "new"
  /\ payer # "new"
  /\ payee' = IF Verifies THEN "verified" ELSE "refused"
  /\ UNCHANGED <<clock, entry, payerVars, claim, due, panel>>

-----------------------------------------------------------------------------
\* The panel.

CastVote(a, v) ==
  /\ payee \in {"verified", "redeeming"}
  /\ votes[a] = {}
  /\ votes' = [votes EXCEPT ![a] = {v}]
  /\ UNCHANGED <<clock, entry, payerVars, payeeVars, revealed>>

VotesOf(a) == IF a \in Faulty THEN Vote ELSE votes[a]

\* _count_quorum: distinct members that voted for this award on one evidence.
Voters(award, evidence) ==
  {a \in Arbiters : [award |-> award, evidence |-> evidence] \in VotesOf(a)}
Quorum(award) == \E e \in Evidence : Cardinality(Voters(award, e)) >= K

\* reveal: an honest arbiter needs the quorum, and is in time; the payee has
\* the preimages and redeems within Latency.
Reveal(a, award) ==
  /\ revealed[a] < award
  /\ a \in Honest => Quorum(award) /\ clock <= DecisionDeadline
  /\ revealed' = [revealed EXCEPT ![a] = award]
  /\ due' = IF award > 0 /\ payee # "refused" THEN Min({due, clock + Latency}) ELSE due
  /\ UNCHANGED <<clock, entry, payerVars, payee, claim, votes>>

-----------------------------------------------------------------------------
\* redeem.

Revealed == {o \in Output : o[2] <= revealed[o[1]]}

\* The secrets of settled outputs are gone, so they are not claimed again.
Outstanding == Revealed \ In("claimed")

BeginRedeem ==
  /\ payee = "verified"
  /\ Outstanding # {}
  /\ payee' = "redeeming"
  /\ claim' = Outstanding
  /\ UNCHANGED <<clock, entry, payerVars, due, panel>>

Claimable == clock < expiry /\ claim \subseteq In("locked") \cap genuine

\* One exchange for all of them, or none.
Redeem ==
  /\ payee = "redeeming"
  /\ entry' = IF Claimable THEN With("claimed", claim) ELSE entry
  /\ payee' = "verified"
  /\ claim' = {}
  /\ due' = IF Claimable /\ Outstanding \ claim # {} THEN clock + Latency ELSE Never
  /\ UNCHANGED <<clock, payerVars, panel>>

-----------------------------------------------------------------------------
\* refund_expired.

RefundStatus ==
  /\ payer = "funded"
  /\ payer' = "refunding"
  /\ unspent' = In("locked")
  /\ UNCHANGED <<clock, entry, expiry, genuine, payeeVars, panel>>

\* The client checks no clock; the mint refuses a call that is early or
\* names an output that was claimed meanwhile.
Refund ==
  /\ payer = "refunding"
  /\ entry' = IF clock >= expiry /\ unspent \subseteq In("locked")
              THEN With("refunded", unspent) ELSE entry
  /\ payer' = "funded"
  /\ unspent' = {}
  /\ UNCHANGED <<clock, expiry, genuine, payeeVars, panel>>

Tick ==
  /\ clock < MaxTime
  /\ clock < due
  /\ clock' = clock + 1
  /\ UNCHANGED <<entry, payerVars, payeeVars, panel>>

Next ==
  \/ \E missing \in {{}} \cup {{o} : o \in Output} : Fund(missing)
  \/ VerifyFunding
  \/ \E a \in Honest, v \in Vote : CastVote(a, v)
  \/ \E a \in Arbiters, w \in Award : Reveal(a, w)
  \/ BeginRedeem \/ Redeem
  \/ RefundStatus \/ Refund
  \/ Tick

Spec == Init /\ [][Next]_vars

-----------------------------------------------------------------------------
\* No refund after delivery: what an honest arbiter awarded by the decision
\* deadline is never taken back from a payee that verified its funding,
\* whatever the payer funded and however its refund races the redemption.
AwardedIsPaid ==
  payee \in {"verified", "redeeming"} =>
    \A a \in Honest : \A r \in 1..revealed[a] : entry[<<a, r>>] # "refunded"

\* A minority of faulty arbiters gives away their own rungs and no others: if
\* fewer than a quorum are faulty, a rung of an honest arbiter is claimed only
\* on an award that an honest arbiter voted for.
DefectionBounded ==
  Cardinality(Faulty) < K =>
    \A a \in Honest, r \in Rung :
      entry[<<a, r>>] = "claimed" => \E h \in Honest : \E v \in votes[h] : v.award >= r
=============================================================================
