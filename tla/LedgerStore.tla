----------------------------- MODULE LedgerStore ----------------------------
(***************************************************************************)
(* Component C04 (impl/aicash/ledgerstore.py), the trust core: the entries *)
(* table, the two supply counters and the idempotency table of one mint,   *)
(* and the three writing operations on them (exchange, issue, prune).      *)
(*                                                                         *)
(* Every writing operation reads the clock FIRST and then waits for        *)
(* sqlite's write lock (BEGIN IMMEDIATE, busy timeout 30 s).  A call is    *)
(* therefore two steps: it arrives, with the instant it captured, and some *)
(* time later it runs its whole transaction at once.  The calls of other   *)
(* threads run in between, in any order.                                   *)
(***************************************************************************)
EXTENDS Integers, Sequences, FiniteSets, Millicoins

CONSTANTS
  Hash,              \* ledger keys, each the digest of one token secret
  Key,               \* idempotency keys
  Witness,           \* what can be presented as a witness
  Secret,            \* the witnesses that are 32 bytes long
  NULL,              \* absent: no lock, no witness, no spending time
  Bodies,            \* the exchange bodies clients send
  IssueBatches,      \* the output lists the operator issues
  burn_policy,       \* the published policy
  burn_policy_next,  \* NULL or [policy, effective_at]
  recovery_window,   \* retention of spent and idempotency rows
  max_lock_expiry,   \* horizon of a new lock, NULL for none
  IntMax,            \* largest integer a column holds
  MaxTime,           \* bound of the model: last instant of the clock
  MaxPending         \* bound of the model: calls waiting for the write lock

INSTANCE LockEval
INSTANCE BurnCalc

\* An input as parsed.  A plain or claim form carries a token (its key and
\* the amount it states), a claim or refund form should carry a witness;
\* "malformed" stands for every input that yields no key.
Form == [kind : {"plain", "claim", "refund", "malformed"}, hash : Hash,
         amount : Int, witness : Witness \cup {NULL}]

\* An output as parsed: hash is NULL when it names no key or two.
OutputSpec == [hash : Hash \cup {NULL}, amount : Int, lock : Lock \cup {NULL}]

Body == [inputs : Seq(Form), outputs : Seq(OutputSpec)]

ASSUME NullAssumption ==
  /\ NULL \notin Hash \cup Witness \cup Lock
  /\ NULL \notin Int
ASSUME SecretAssumption == Secret \subseteq Witness
ASSUME HashAssumption == IsFiniteSet(Hash)
ASSUME BatchAssumption ==
  Bodies \subseteq Body /\ IssueBatches \subseteq Seq(OutputSpec)
ASSUME PolicyAssumption ==
  /\ burn_policy \in BurnPolicy
  /\ \/ burn_policy_next = NULL
     \/ burn_policy_next \in [policy : BurnPolicy, effective_at : Nat]
ASSUME BoundAssumption ==
  /\ recovery_window \in Nat
  /\ max_lock_expiry \in (Nat \ {0}) \cup {NULL}
  /\ IntMax \in Nat \ {0}
  /\ MaxTime \in Nat
  /\ MaxPending \in Nat

VARIABLES
  clock,     \* the mint's clock
  entries,   \* the entries table: known keys to rows
  issued,    \* cumulative_issued_mc
  burned,    \* cumulative_burned_mc
  idem,      \* the idempotency table: keys to rows
  pending    \* the calls that read the clock and wait for the write lock

vars == <<clock, entries, issued, burned, idem, pending>>
tables == <<entries, issued, burned, idem>>

Entry == [amount : 1..IntMax, lock : Lock \cup {NULL}, spent : BOOLEAN,
          spent_at : Nat \cup {NULL}, claim_witness : Secret \cup {NULL}]

Reason == {"ok", "bad_format", "unknown", "spent", "output_exists",
           "lock_preimage_invalid", "bad_witness_length", "lock_expired",
           "lock_not_expired", "refund_invalid", "amount_mismatch"}

\* What an exchange answers: the burn of an accepted call, or the indexed
\* errors of a rejected one (index 0 for the call itself).
Result == [status : {"ok", "rejected"}, burn_mc : Nat,
           errors : SUBSET ({"input", "output", "call"} \X Nat \X Reason)]

Record == [body : Bodies, result : Result, created_at : Nat]

Call ==
  [op : {"exchange"}, key : Key, body : Bodies, now : Nat]
    \cup [op : {"issue"}, outputs : IssueBatches, now : Nat]
    \cup [op : {"prune"}, now : Nat]

TypeOK ==
  /\ clock \in 0..MaxTime
  /\ \E known \in SUBSET Hash : entries \in [known -> Entry]
  /\ issued \in 0..IntMax
  /\ burned \in Nat
  /\ \E used \in SUBSET Key : idem \in [used -> Record]
  /\ pending \subseteq Call
  /\ \A c \in pending : c.now <= clock

-----------------------------------------------------------------------------
\* Validation of one batch against the table.  The verdict on a member is the
\* first check it fails, "ok" if none.

\* A later input naming a key an earlier one resolved is already spent by
\* this very call.
RepeatedUnseen(in, i) == FALSE   \* mutant: no seen_keys

Repeated(in, i) ==
  \E j \in 1..i-1 : in[j].kind # "malformed" /\ in[j].hash = in[i].hash

InputVerdict(in, i, now) ==
  LET f == in[i]
  IN  IF f.kind = "malformed" THEN "bad_format"
      ELSE IF f.hash \notin DOMAIN entries THEN "unknown"
      ELSE IF Repeated(in, i) \/ entries[f.hash].spent THEN "spent"
      ELSE IF f.kind # "refund" /\ f.amount # entries[f.hash].amount
           THEN "bad_format"
      ELSE Evaluate(entries[f.hash].lock, f, now)

WellFormed(o, now) ==
  /\ o.amount \in 1..IntMax
  /\ o.hash # NULL
  /\ o.lock # NULL => /\ ValidLock(o.lock)
                      /\ o.lock.expiry <= IntMax
                      /\ max_lock_expiry # NULL =>
                           o.lock.expiry <= now + max_lock_expiry

OutputVerdict(out, j, now) ==
  IF ~WellFormed(out[j], now) THEN "bad_format"
  ELSE IF \/ out[j].hash \in DOMAIN entries
          \/ \E i \in 1..j-1 : WellFormed(out[i], now) /\ out[i].hash = out[j].hash
       THEN "output_exists"
  ELSE "ok"

Amounts(out) == [j \in DOMAIN out |-> out[j].amount]

\* The ledger's amounts of the inputs, not the ones the tokens state.
InputAmounts(in) == [i \in DOMAIN in |-> entries[in[i].hash].amount]

Burn(in, now) ==
  ComputeBurn(Total(InputAmounts(in)),
              EffectivePolicy(burn_policy, burn_policy_next, now))

\* Conservation is only assessed when every amount is known and no entry
\* would be counted twice.
Assessable(body) ==
  /\ \A i \in DOMAIN body.inputs :
       /\ body.inputs[i].kind # "malformed"
       /\ body.inputs[i].hash \in DOMAIN entries
       /\ ~Repeated(body.inputs, i)
  /\ \A j \in DOMAIN body.outputs : body.outputs[j].amount \in 1..IntMax

\* Mutant: inputs may exceed outputs and burn.
ConservesAtLeast(body, now) ==
  Total(InputAmounts(body.inputs))
    >= Total(Amounts(body.outputs)) + Burn(body.inputs, now)

Conserves(body, now) ==
  Total(InputAmounts(body.inputs))
    = Total(Amounts(body.outputs)) + Burn(body.inputs, now)

Errors(body, now) ==
  {<<"input", i, InputVerdict(body.inputs, i, now)>> : i \in DOMAIN body.inputs}
    \cup {<<"output", j, OutputVerdict(body.outputs, j, now)>> :
            j \in DOMAIN body.outputs}
    \cup IF Assessable(body) /\ ~Conserves(body, now)
         THEN {<<"call", 0, "amount_mismatch">>} ELSE {}

Failures(body, now) == {e \in Errors(body, now) : e[3] # "ok"}

-----------------------------------------------------------------------------
\* The writes of a transaction.
InputKeys(in) == {in[i].hash : i \in DOMAIN in}
OutputKeys(out) == {out[j].hash : j \in DOMAIN out}

\* Mutant: only the first input of a batch is marked.
MarkSpentFirst(in, now) ==
  [h \in DOMAIN entries |->
     IF in # <<>> /\ h = in[1].hash
     THEN [entries[h] EXCEPT !.spent = TRUE, !.spent_at = now,
                             !.claim_witness = NULL]
     ELSE entries[h]]

\* Only a claim leaves its witness behind; _resolve_input returns none for
\* a plain or refund spend.
MarkSpent(in, now) ==
  [h \in DOMAIN entries |->
     IF h \in InputKeys(in)
     THEN LET f == in[CHOOSE i \in DOMAIN in : in[i].hash = h]
          IN  [entries[h] EXCEPT
                 !.spent = TRUE,
                 !.spent_at = now,
                 !.claim_witness = IF f.kind = "claim" THEN f.witness ELSE NULL]
     ELSE entries[h]]

InsertEntries(rows, out) ==
  [h \in DOMAIN rows \cup OutputKeys(out) |->
     IF h \in DOMAIN rows THEN rows[h]
     ELSE LET o == out[CHOOSE j \in DOMAIN out : out[j].hash = h]
          IN  [amount |-> o.amount, lock |-> o.lock, spent |-> FALSE,
               spent_at |-> NULL, claim_witness |-> NULL]]

\* The INSERT into idempotency: digest and result, never a secret.
StoreIdempotency(c, result) ==
  idem' = [k \in DOMAIN idem \cup {c.key} |->
             IF k = c.key
             THEN [body |-> c.body, result |-> result, created_at |-> c.now]
             ELSE idem[k]]

-----------------------------------------------------------------------------
Init ==
  /\ clock = 0
  /\ entries = [h \in {} |-> NULL]
  /\ issued = 0
  /\ burned = 0
  /\ idem = [k \in {} |-> NULL]
  /\ pending = {}

Tick ==
  /\ clock < MaxTime
  /\ clock' = clock + 1
  /\ UNCHANGED <<tables, pending>>

\* A call arrives: now = clock(), then it waits in BEGIN IMMEDIATE.
Arrive(c) ==
  /\ Cardinality(pending) < MaxPending
  /\ c \notin pending
  /\ pending' = pending \cup {c}
  /\ UNCHANGED <<clock, tables>>

ArriveExchange(k, b) ==
  Arrive([op |-> "exchange", key |-> k, body |-> b, now |-> clock])
ArriveIssue(out) ==
  Arrive([op |-> "issue", outputs |-> out, now |-> clock])
ArrivePrune ==
  Arrive([op |-> "prune", now |-> clock])

Finish(c) == pending' = pending \ {c} /\ UNCHANGED clock

\* A known key is answered from the table (or refused as a conflict): the
\* transaction is rolled back before anything is evaluated.
Replay(c) ==
  /\ c.op = "exchange"
  /\ c.key \in DOMAIN idem
  /\ Finish(c)
  /\ UNCHANGED tables

\* Mutant: inputs are marked spent before the batch is refused.
RejectHalfway(c) ==
  /\ c.op = "exchange"
  /\ c.key \notin DOMAIN idem
  /\ Failures(c.body, c.now) # {}
  /\ StoreIdempotency(c, [status |-> "rejected", burn_mc |-> 0,
                          errors |-> Failures(c.body, c.now)])
  /\ entries' = MarkSpent(c.body.inputs, c.now)
  /\ Finish(c)
  /\ UNCHANGED <<issued, burned>>

\* A refused batch commits the stored rejection and nothing else.
Reject(c) ==
  /\ c.op = "exchange"
  /\ c.key \notin DOMAIN idem
  /\ Failures(c.body, c.now) # {}
  /\ StoreIdempotency(c, [status |-> "rejected", burn_mc |-> 0,
                          errors |-> Failures(c.body, c.now)])
  /\ Finish(c)
  /\ UNCHANGED <<entries, issued, burned>>

Exchange(c) ==
  /\ c.op = "exchange"
  /\ c.key \notin DOMAIN idem
  /\ Failures(c.body, c.now) = {}
  /\ entries' = InsertEntries(MarkSpent(c.body.inputs, c.now), c.body.outputs)
  /\ burned' = burned + Burn(c.body.inputs, c.now)
  /\ StoreIdempotency(c, [status |-> "ok", burn_mc |-> Burn(c.body.inputs, c.now),
                          errors |-> {}])
  /\ Finish(c)
  /\ UNCHANGED issued

\* Mutant: no headroom check on the supply column.
IssuableNoHeadroom(c) ==
  \A j \in DOMAIN c.outputs : OutputVerdict(c.outputs, j, c.now) = "ok"

\* The running check of cumulative_issued_mc against the column passes at
\* every index exactly when it passes for the whole batch.
Issuable(c) ==
  /\ \A j \in DOMAIN c.outputs : OutputVerdict(c.outputs, j, c.now) = "ok"
  /\ issued + Total(Amounts(c.outputs)) <= IntMax

Issue(c) ==
  /\ c.op = "issue"
  /\ Issuable(c)
  /\ entries' = InsertEntries(entries, c.outputs)
  /\ issued' = issued + Total(Amounts(c.outputs))
  /\ Finish(c)
  /\ UNCHANGED <<burned, idem>>

\* Mutant: the counter moves before validation and is not rolled back.
RefuseIssueCounted(c) ==
  /\ c.op = "issue"
  /\ ~Issuable(c)
  /\ issued' = issued + Total(Amounts(c.outputs))
  /\ Finish(c)
  /\ UNCHANGED <<entries, burned, idem>>

RefuseIssue(c) ==
  /\ c.op = "issue"
  /\ ~Issuable(c)
  /\ Finish(c)
  /\ UNCHANGED tables

ExpiredEarly(h, cutoff) ==   \* mutant: the cutoff instant is gone already
  entries[h].spent /\ entries[h].spent_at <= cutoff

Expired(h, cutoff) == entries[h].spent /\ entries[h].spent_at < cutoff

\* Mutant: records are dropped at the cutoff, rows only past it.
PruneRecordsEarly(c) ==
  LET cutoff == c.now - recovery_window
      kept == {h \in DOMAIN entries : ~Expired(h, cutoff)}
      records == {k \in DOMAIN idem : idem[k].created_at > cutoff}
  IN  /\ c.op = "prune"
      /\ entries' = [h \in kept |-> entries[h]]
      /\ idem' = [k \in records |-> idem[k]]
      /\ Finish(c)
      /\ UNCHANGED <<issued, burned>>

\* Mutant: the second DELETE is missing.
PruneEntriesOnly(c) ==
  /\ c.op = "prune"
  /\ entries' = [h \in {g \in DOMAIN entries :
                         ~Expired(g, c.now - recovery_window)} |-> entries[h]]
  /\ Finish(c)
  /\ UNCHANGED <<issued, burned, idem>>

Prune(c) ==
  LET cutoff == c.now - recovery_window
      kept == {h \in DOMAIN entries : ~Expired(h, cutoff)}
      records == {k \in DOMAIN idem : idem[k].created_at >= cutoff}
  IN  /\ c.op = "prune"
      /\ entries' = [h \in kept |-> entries[h]]
      /\ idem' = [k \in records |-> idem[k]]
      /\ Finish(c)
      /\ UNCHANGED <<issued, burned>>

\* "database is locked" after the busy timeout, or the process dies: nothing
\* of the call was written.
Abandon(c) ==
  /\ Finish(c)
  /\ UNCHANGED tables

Next ==
  \/ Tick
  \/ \E k \in Key, b \in Bodies : ArriveExchange(k, b)
  \/ \E out \in IssueBatches : ArriveIssue(out)
  \/ ArrivePrune
  \/ \E c \in pending :
       \/ Replay(c)
       \/ Reject(c)
       \/ Exchange(c)
       \/ Issue(c)
       \/ RefuseIssue(c)
       \/ Prune(c)
       \/ Abandon(c)

Spec == Init /\ [][Next]_vars

-----------------------------------------------------------------------------
\* Properties.

Unspent == {h \in DOMAIN entries : ~entries[h].spent}
Live == [h \in Unspent |-> entries[h].amount]
Outstanding == Total(Live)

\* What supply() publishes is consistent after every transaction: the sum of
\* the unspent rows is what was issued less what was burned.  issue, exchange
\* and prune each write two or more of the three numbers.
SupplyInvariant == Outstanding = issued - burned

\* exchange adds to cumulative_burned_mc with no headroom check of its own:
\* the counter still fits its column, because only issued value can burn.
CountersStorable == burned <= issued /\ issued <= IntMax

Accepted == {k \in DOMAIN idem : idem[k].result.status = "ok"}
Inputs(k) == InputKeys(idem[k].body.inputs)

\* A retry answered "ok" from the idempotency table never lies: each input of
\* the call is still in the table, spent at the call's instant.  It needs prune
\* to drop both rows with one cutoff in one transaction.
RecordBacked ==
  \A k \in Accepted : \A h \in Inputs(k) :
    /\ h \in DOMAIN entries
    /\ entries[h].spent
    /\ entries[h].spent_at = idem[k].created_at

\* No entry pays for two calls, nor twice for one, however the calls race and
\* whatever was pruned and created anew under the same key.
SingleSpend ==
  /\ \A k, l \in Accepted : k # l => Inputs(k) \cap Inputs(l) = {}
  /\ \A k \in Accepted :
       Cardinality(Inputs(k)) = Len(idem[k].body.inputs)

\* What status() says of a spent locked entry is evidence of the path taken:
\* a claim leaves the preimage and an instant before expiry, a refund no
\* witness and an instant from expiry on.
SpendRecordTruthful ==
  \A h \in DOMAIN entries :
    LET e == entries[h]
    IN  e.spent /\ e.lock # NULL =>
          \/ /\ e.claim_witness # NULL
             /\ Sha256(e.claim_witness) = e.lock.preimage_hash
             /\ e.spent_at < e.lock.expiry
          \/ e.claim_witness = NULL /\ e.spent_at >= e.lock.expiry

\* A funder that lost the answer can retry until its lock expires and is sure
\* of a replay: the record of the exchange that created a locked entry is kept
\* at least that long.  (For a mint whose window covers its lock horizon, and
\* for locked entries that were not issued.)
FundingReplayable ==
  \A h \in DOMAIN entries :
    entries[h].lock # NULL /\ clock <= entries[h].lock.expiry =>
      \E k \in Accepted : h \in OutputKeys(idem[k].body.outputs)

\* An unspent row stays as it is until an exchange spends it: no prune, issue
\* or refused call changes or drops it.
UnspentKept ==
  [][\A h \in Unspent :
       /\ h \in DOMAIN entries'
       /\ \/ entries'[h] = entries[h]
          \/ /\ entries'[h].spent
             /\ \E k \in Accepted' \ DOMAIN idem : h \in Inputs(k)']_vars

\* A spent row and an idempotency record are final: they never change, and go
\* only when the clock is more than the recovery window past their instant.
KeptForWindow ==
  [][/\ \A h \in DOMAIN entries \ Unspent :
          IF h \in DOMAIN entries' THEN entries'[h] = entries[h]
          ELSE clock > entries[h].spent_at + recovery_window
     /\ \A k \in DOMAIN idem :
          IF k \in DOMAIN idem' THEN idem'[k] = idem[k]
          ELSE clock > idem[k].created_at + recovery_window]_vars

\* The spec and the design decisions say that a lock is evaluated against the
\* mint's clock at commit time: no claim commits at or after the expiry.
LocksEvaluatedAtCommit ==
  [][\A h \in Unspent :
       h \in DOMAIN entries' /\ entries'[h].spent
         /\ entries'[h].claim_witness # NULL
           => clock < entries[h].lock.expiry]_vars

\* The ledger implements the abstract cash: the live coins are the unspent
\* rows, and everything else about a row is invisible there.
Cash == INSTANCE BearerCash WITH coins <- Live
CashSpec == Cash!Spec
=============================================================================
