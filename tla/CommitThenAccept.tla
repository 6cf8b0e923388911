-------------------------- MODULE CommitThenAccept --------------------------
(***************************************************************************)
(* Component C09 (impl/aicash/escrow.py), class CommitThenAccept: the      *)
(* payer locks the pay to a preimage of its own, the worker verifies it,   *)
(* works, and redeems with the preimage the payer reveals on acceptance.   *)
(*                                                                         *)
(* Each side runs its own code; the payer may commit whatever expiry it    *)
(* likes.  A worker that is told the preimage redeems within Latency.      *)
(***************************************************************************)
EXTENDS Integers

CONSTANTS
  AcceptBy,   \* the worker's copy of the latest acceptance
  Expiries,   \* what the payer may commit to
  Grace,      \* the mint's grace_ms
  Margin,     \* redemption_margin_ms
  Latency,    \* what revealing and redeeming take at most
  MaxTime     \* bound of the model

ConstantsOK ==
  /\ {AcceptBy, Grace, Margin, Latency, MaxTime} \subseteq Nat
  /\ Expiries \subseteq Nat

Never == MaxTime + 1

VARIABLES
  clock,      \* the mint's clock
  expiry,     \* of the committed lock
  entry,      \* "none", "locked", "claimed" or "refunded"
  payer,      \* "new", "committed", "asked", "revealed" or "refused"
  worker,     \* "new", "read", "verified", "away" or "paid"
  read,       \* mint_time of the worker's status call
  verified,   \* when the worker was satisfied, or Never
  accepted,   \* when the payer asked to accept, or Never
  due         \* when the redemption has committed at the latest

vars == <<clock, expiry, entry, payer, worker, read, verified, accepted, due>>

TypeOK ==
  /\ clock \in 0..MaxTime /\ read \in 0..MaxTime
  /\ expiry \in Expiries
  /\ entry \in {"none", "locked", "claimed", "refunded"}
  /\ payer \in {"new", "committed", "asked", "revealed", "refused"}
  /\ worker \in {"new", "read", "verified", "away", "paid"}
  /\ verified \in 0..Never /\ accepted \in 0..Never /\ due \in 0..(Never + Latency)

Init ==
  /\ clock = 0 /\ read = 0
  /\ expiry \in Expiries
  /\ entry = "none"
  /\ payer = "new" /\ worker = "new"
  /\ verified = Never /\ accepted = Never /\ due = Never

PayerCommit ==
  /\ payer = "new"
  /\ clock < expiry
  /\ payer' = "committed"
  /\ entry' = "locked"
  /\ UNCHANGED <<clock, expiry, worker, read, verified, accepted, due>>

\* worker_verify: the status of the output, with the mint's time ...
WorkerStatus ==
  /\ worker = "new"
  /\ payer # "new"
  /\ worker' = IF entry = "locked" THEN "read" ELSE "away"
  /\ read' = clock
  /\ UNCHANGED <<clock, expiry, entry, payer, verified, accepted, due>>

\* Mutant: only that the lock is not expired is asked for.
WindowOpenNow == read < expiry

\* ... against the worker's own terms, then and at the deadline.
WindowOpen == expiry >= AcceptBy + Grace + Margin /\ read <= expiry - Grace - Margin

WorkerVerify ==
  /\ worker = "read"
  /\ IF WindowOpen THEN worker' = "verified" /\ verified' = clock
                   ELSE worker' = "away" /\ verified' = Never
  /\ UNCHANGED <<clock, expiry, entry, payer, read, accepted, due>>

RevealDeadline == expiry - Grace - Margin

\* payer_reveal reads the mint's time ...
PayerReveal ==
  /\ payer = "committed"
  /\ accepted' = clock
  /\ payer' = IF clock <= RevealDeadline THEN "asked" ELSE "refused"
  /\ due' = IF clock <= RevealDeadline THEN clock + Latency ELSE due
  /\ UNCHANGED <<clock, expiry, entry, worker, read, verified>>

\* ... and hands the preimage over; a later one is a refusal on record.
Handover ==
  /\ payer = "asked"
  /\ payer' = "revealed"
  /\ UNCHANGED <<clock, expiry, entry, worker, read, verified, accepted, due>>

\* worker_redeem; the mint has the last word.
WorkerRedeem ==
  /\ payer = "revealed"
  /\ worker = "verified"
  /\ IF entry = "locked" /\ clock < expiry
     THEN entry' = "claimed" /\ worker' = "paid"
     ELSE entry' = entry /\ worker' = "away"
  /\ due' = Never
  /\ UNCHANGED <<clock, expiry, payer, read, verified, accepted>>

\* payer_refund, at any time; before the expiry the mint refuses.
PayerRefund ==
  /\ payer # "new"
  /\ entry = "locked" /\ clock >= expiry
  /\ entry' = "refunded"
  /\ UNCHANGED <<clock, expiry, payer, worker, read, verified, accepted, due>>

Tick ==
  /\ clock < MaxTime
  /\ worker = "verified" /\ verified <= accepted => clock < due
  /\ clock' = clock + 1
  /\ UNCHANGED <<expiry, entry, payer, worker, read, verified, accepted, due>>

Next ==
  \/ PayerCommit \/ PayerReveal \/ Handover \/ PayerRefund
  \/ WorkerStatus \/ WorkerVerify \/ WorkerRedeem
  \/ Tick

Spec == Init /\ [][Next]_vars

-----------------------------------------------------------------------------
\* A worker that verified is paid whenever the payer's code reveals at all,
\* the refund does not win, and that code does not refuse an acceptance in
\* the window the worker agreed to.
AcceptedIsPaid ==
  verified <= accepted =>
    /\ payer \in {"asked", "revealed"} => entry # "refunded"
    /\ accepted <= AcceptBy => payer # "refused"
=============================================================================
