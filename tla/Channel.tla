------------------------------ MODULE Channel ------------------------------
(***************************************************************************)
(* Component C08 (impl/aicash/channels.py): a prefunded channel of N       *)
(* increments, funded and settled tranche by tranche, drawn locally.       *)
(*                                                                         *)
(* Increment i is output i of the channel on the ledger.  The witness x_i  *)
(* is the number i: one step down the chain of its tranche gives x_(i-1),  *)
(* and it opens lock i unless the payer funded a garbage lock there.  A    *)
(* timely payee's calls take at most Latency each (due is when the call    *)
(* under way has committed at the latest).                                 *)
(***************************************************************************)
EXTENDS Integers, FiniteSets, FiniteSetsExt

CONSTANTS
  N,               \* increments
  Capacity,        \* max_batch - 1: increments of one tranche
  Garbage,         \* increments whose lock no chain value opens
  Expiry,          \* T
  Grace, SettleMargin, MinLifetime,
  Latency,
  MaxTime          \* bound of the model

ConstantsOK ==
  /\ {N, Capacity} \subseteq Nat \ {0} /\ Garbage \subseteq 1..N
  /\ {Expiry, Grace, SettleMargin, MinLifetime, Latency, MaxTime} \subseteq Nat

Increment == 1..N
Tranche(i) == (i - 1) \div Capacity + 1
Tranches == {Tranche(i) : i \in Increment}
Members(t) == {i \in Increment : Tranche(i) = t}
Never == MaxTime + 1

VARIABLES
  clock,      \* the mint's clock
  entry,      \* of each increment: "none", "locked", "claimed", "refunded"
  payer,      \* "closed", "open", "status" or "refund"
  drawn,      \* the increments the payer has sent a draw for
  unspent,    \* the payer: what it is about to refund
  payee,      \* "new", "idle", "settling" or "committing"
  verified,   \* the payee: increments whose witness it holds
  settled,    \* the payee: increments it counts as settled
  at,         \* the tranche each party's loop is at
  due,
  owed,       \* history: verified when settle passed its deadline check
  mishap      \* history: an answer got lost, or the payee forced a settlement

payerVars == <<payer, drawn, unspent>>
payeeVars == <<payee, verified, settled, due>>
history == <<owed, mishap>>
vars == <<clock, entry, payerVars, payeeVars, at, history>>

TypeOK ==
  /\ clock \in 0..MaxTime
  /\ entry \in [Increment -> {"none", "locked", "claimed", "refunded"}]
  /\ payer \in {"closed", "open", "status", "refund"}
  /\ payee \in {"new", "idle", "settling", "committing"}
  /\ drawn \subseteq Increment /\ unspent \subseteq Increment
  /\ verified \subseteq Increment /\ settled \subseteq verified
  /\ at \in [{"payer", "payee"} -> Tranches \cup {Max(Tranches) + 1}]
  /\ due \in 0..(Never + Latency)
  /\ owed \subseteq verified /\ mishap \in BOOLEAN

Init ==
  /\ clock = 0
  /\ entry = [i \in Increment |-> "none"]
  /\ payer = "closed" /\ drawn = {} /\ unspent = {}
  /\ payee = "new" /\ verified = {} /\ settled = {}
  /\ at = [p \in {"payer", "payee"} |-> 1]
  /\ due = Never
  /\ owed = {} /\ mishap = FALSE

With(state, set) == [i \in Increment |-> IF i \in set THEN state ELSE entry[i]]
In(state) == {i \in Increment : entry[i] = state}

-----------------------------------------------------------------------------
\* Open and accept.

\* One funding call per tranche; the last one makes the ChannelInfo.
FundTranche ==
  /\ payer = "closed"
  /\ clock < Expiry
  /\ entry' = With("locked", Members(at["payer"]))
  /\ IF at["payer"] = Max(Tranches)
     THEN payer' = "open" /\ at' = [at EXCEPT !["payer"] = 1]
     ELSE payer' = payer /\ at' = [at EXCEPT !["payer"] = @ + 1]
  /\ UNCHANGED <<clock, drawn, unspent, payeeVars, history>>

\* accept: every output is there, locked as announced, and T is far enough.
\* Whether the locks fit a chain cannot be seen.
Accept ==
  /\ payee = "new"
  /\ payer # "closed"
  /\ In("locked") = Increment
  /\ Expiry - clock >= MinLifetime
  /\ payee' = "idle"
  /\ UNCHANGED <<clock, entry, payerVars, verified, settled, at, due, history>>

-----------------------------------------------------------------------------
\* Draws.

Draw(k) ==
  /\ payer # "closed"
  /\ drawn' = drawn \cup {k}
  /\ UNCHANGED <<clock, entry, payer, unspent, payeeVars, at, history>>

Opens(x, i) == x = i /\ i \notin Garbage

\* The walk down the chain from x_k, to the first increment that is verified
\* or whose lock does not open: that one ends it with DrawInvalid.
Walked(k, x) ==
  {i \in Members(Tranche(k)) :
     /\ i <= k
     /\ \A j \in i..k : j \notin verified /\ Opens(x - (k - j), j)}

\* on_draw of a draw that was sent, in any order, again, or with a witness
\* that is not the one of its index.
OnDraw(k, x) ==
  /\ payee = "idle"
  /\ verified' = verified \cup Walked(k, x)
  /\ UNCHANGED <<clock, entry, payerVars, payee, settled, at, due, history>>

-----------------------------------------------------------------------------
\* settle.

Todo(t) == (verified \cap Members(t)) \ settled

\* Mutant: settle as long as the mint accepts a claim.
InTimeLate(time) == time < Expiry
InTime(time) == time < Expiry - Grace - SettleMargin

\* The descriptor's time decides once for all tranches; force skips it.
BeginSettle(force) ==
  /\ payee = "idle"
  /\ verified # settled
  /\ force \/ InTime(clock)
  /\ payee' = "settling"
  /\ at' = [at EXCEPT !["payee"] = 1]
  /\ due' = clock + Latency
  /\ owed' = IF force THEN owed ELSE owed \cup verified
  /\ mishap' = (mishap \/ force)
  /\ UNCHANGED <<clock, entry, payerVars, verified, settled>>

NextTranche(p) == at' = [at EXCEPT ![p] = @ + 1]

\* A tranche without anything to settle.
SkipTranche ==
  /\ payee = "settling"
  /\ at["payee"] \in Tranches
  /\ Todo(at["payee"]) = {}
  /\ NextTranche("payee")
  /\ UNCHANGED <<clock, entry, payerVars, payeeVars, history>>

Redeemable(t) == \A i \in Todo(t) : entry[i] = "locked" /\ i \notin Garbage

\* The mint evaluates the claim of a tranche, all of it or nothing ...
Evaluate ==
  /\ payee = "settling"
  /\ at["payee"] \in Tranches
  /\ Todo(at["payee"]) # {}
  /\ clock < Expiry
  /\ Redeemable(at["payee"])
  /\ payee' = "committing"
  /\ UNCHANGED <<clock, entry, payerVars, verified, settled, at, due, history>>

\* ... and refuses, then or under the write lock: settle raises, and leaves
\* the later tranches alone ...
Rejected ==
  /\ \/ payee = "settling" /\ at["payee"] \in Tranches /\ Todo(at["payee"]) # {}
        /\ ~(clock < Expiry /\ Redeemable(at["payee"]))
     \/ payee = "committing" /\ ~Redeemable(at["payee"])
  /\ payee' = "idle"
  /\ at' = [at EXCEPT !["payee"] = 1]
  /\ due' = Never
  /\ UNCHANGED <<clock, entry, payerVars, verified, settled, history>>

\* ... or commits, and the next tranche's call begins.
Commit ==
  /\ payee = "committing"
  /\ Redeemable(at["payee"])
  /\ entry' = With("claimed", Todo(at["payee"]))
  /\ settled' = settled \cup Todo(at["payee"])
  /\ payee' = "settling"
  /\ NextTranche("payee")
  /\ due' = clock + Latency
  /\ UNCHANGED <<clock, payerVars, verified, history>>

\* The same with the answer lost: the new token's secret is gone, and the
\* increments are not noted as settled.
CommitUnanswered ==
  /\ payee = "committing"
  /\ Redeemable(at["payee"])
  /\ entry' = With("claimed", Todo(at["payee"]))
  /\ payee' = "idle"
  /\ at' = [at EXCEPT !["payee"] = 1]
  /\ due' = Never
  /\ mishap' = TRUE
  /\ UNCHANGED <<clock, payerVars, verified, settled, owed>>

SettleReturns ==
  /\ payee = "settling"
  /\ at["payee"] \notin Tranches
  /\ payee' = "idle"
  /\ at' = [at EXCEPT !["payee"] = 1]
  /\ due' = Never
  /\ UNCHANGED <<clock, entry, payerVars, verified, settled, history>>

-----------------------------------------------------------------------------
\* refund.

BeginRefund ==
  /\ payer = "open"
  /\ clock >= Expiry
  /\ payer' = "status"
  /\ UNCHANGED <<clock, entry, drawn, unspent, payeeVars, at, history>>

\* Which of the tranche's outputs are unspent.
RefundStatus ==
  /\ payer = "status"
  /\ at["payer"] \in Tranches
  /\ unspent' = Members(at["payer"]) \cap In("locked")
  /\ payer' = "refund"
  /\ UNCHANGED <<clock, entry, drawn, payeeVars, at, history>>

\* One exchange for all of them; a claim that came first makes it fail, and
\* refund raises.
RefundTranche ==
  /\ payer = "refund"
  /\ IF unspent \subseteq In("locked")
     THEN /\ entry' = With("refunded", unspent)
          /\ payer' = "status"
          /\ NextTranche("payer")
     ELSE /\ payer' = "open"
          /\ at' = [at EXCEPT !["payer"] = 1]
          /\ UNCHANGED entry
  /\ unspent' = {}
  /\ UNCHANGED <<clock, drawn, payeeVars, history>>

RefundReturns ==
  /\ payer = "status"
  /\ at["payer"] \notin Tranches
  /\ payer' = "open"
  /\ at' = [at EXCEPT !["payer"] = 1]
  /\ UNCHANGED <<clock, entry, drawn, unspent, payeeVars, history>>

-----------------------------------------------------------------------------
Tick ==
  /\ clock < MaxTime
  /\ clock < due
  /\ clock' = clock + 1
  /\ UNCHANGED <<entry, payerVars, payeeVars, at, history>>

Next ==
  \/ FundTranche \/ Accept
  \/ \E k \in Increment : Draw(k)
  \/ \E k \in drawn, x \in drawn : OnDraw(k, x)
  \/ \E force \in BOOLEAN : BeginSettle(force)
  \/ SkipTranche \/ Evaluate \/ Rejected \/ Commit \/ CommitUnanswered
  \/ SettleReturns
  \/ BeginRefund \/ RefundStatus \/ RefundTranche \/ RefundReturns
  \/ Tick

Spec == Init /\ [][Next]_vars

-----------------------------------------------------------------------------
\* Whatever the payee had verified when settle found itself in time is paid
\* to it in full: no garbage lock further up, no race with the payer's refund
\* at the expiry and no length of the tranche loop takes any of it, unless an
\* answer was lost or the payee forced an earlier call.
DrawsHonoured ==
  ~mishap => /\ owed \cap In("refunded") = {}
             /\ payee = "idle" => owed \subseteq In("claimed")

\* One draw that arrives makes up for all that got lost before it: below a
\* verified increment every increment of its tranche is verified, down to a
\* lock the payer funded with garbage.
DrawsSubsume ==
  \A i \in verified :
    (i - 1) \in Members(Tranche(i)) => i - 1 \in verified \cup Garbage
=============================================================================
