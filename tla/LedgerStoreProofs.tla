-------------------------- MODULE LedgerStoreProofs -------------------------
(***************************************************************************)
(* Theorems about LedgerStore for every value of its constants: however    *)
(* many keys, hashes, batches and concurrent calls there are.  In order:   *)
(* the tables and the supply; the spends that are recorded; how rows       *)
(* change; and the implementation of BearerCash.                           *)
(***************************************************************************)
EXTENDS LedgerStore, MillicoinsProofs

-----------------------------------------------------------------------------
\* What the operators of the model return.

\* The members of a batch a client or the operator can send.
LEMMA BodyType ==
  ASSUME NEW b \in Bodies
  PROVE  b.inputs \in Seq(Form) /\ b.outputs \in Seq(OutputSpec)
BY BatchAssumption DEF Body

LEMMA EvaluateType ==
  ASSUME NEW lock, NEW form \in Form, NEW now
  PROVE  Evaluate(lock, form, now) \in Reason \cup {"ok"} \/ form.kind = "malformed"
<1>1. form.kind \in {"plain", "claim", "refund", "malformed"}
  BY DEF Form
<1>2. ClaimVerdict(lock, form.witness, now) \in Reason
  BY DEF ClaimVerdict, Reason
<1>3. RefundVerdict(lock, form.witness, now) \in Reason
  BY DEF RefundVerdict, Reason
<1>4. CASE lock = NULL
  BY <1>4 DEF Evaluate, Reason
<1>5. CASE lock # NULL /\ form.kind = "plain"
  BY <1>5 DEF Evaluate, Reason
<1>6. CASE lock # NULL /\ form.kind = "claim"
  BY <1>2, <1>6 DEF Evaluate, Reason
<1>7. CASE lock # NULL /\ form.kind = "refund"
  BY <1>3, <1>7 DEF Evaluate, Reason
<1> QED
  BY <1>1, <1>4, <1>5, <1>6, <1>7

LEMMA VerdictType ==
  ASSUME NEW b \in Bodies, NEW now
  PROVE  /\ \A i \in DOMAIN b.inputs : InputVerdict(b.inputs, i, now) \in Reason
         /\ \A j \in DOMAIN b.outputs : OutputVerdict(b.outputs, j, now) \in Reason
<1>1. ASSUME NEW i \in DOMAIN b.inputs
      PROVE  InputVerdict(b.inputs, i, now) \in Reason
  <2>1. b.inputs[i] \in Form
    BY BodyType
  <2> DEFINE f == b.inputs[i]
  <2>2. f.kind # "malformed" => Evaluate(entries[f.hash].lock, f, now) \in Reason
    BY <2>1, EvaluateType DEF Reason
  <2> QED
    BY <2>2 DEF InputVerdict, Reason
<1>2. ASSUME NEW j \in DOMAIN b.outputs
      PROVE  OutputVerdict(b.outputs, j, now) \in Reason
  BY DEF OutputVerdict, Reason
<1> QED
  BY <1>1, <1>2

LEMMA FailuresType ==
  ASSUME NEW b \in Bodies, NEW now
  PROVE  Failures(b, now)
           \in SUBSET ({"input", "output", "call"} \X Nat \X Reason)
<1>1. /\ DOMAIN b.inputs \subseteq Nat
      /\ DOMAIN b.outputs \subseteq Nat
  BY BodyType
<1>2. "amount_mismatch" \in Reason
  BY DEF Reason
<1>3. Errors(b, now) \subseteq {"input", "output", "call"} \X Nat \X Reason
  BY <1>1, <1>2, VerdictType DEF Errors
<1> QED
  BY <1>3 DEF Failures

\* The burn of a call is a number of millicoins, whatever the policy.
LEMMA BurnIsNat ==
  ASSUME NEW sum \in Nat, NEW p \in BurnPolicy
  PROVE  ComputeBurn(sum, p) \in Nat
<1>1. p.rate_ppm \in 0..MaxRatePpm /\ p.cap_mc \in Nat
  BY Zenon DEF BurnPolicy
<1>2. p.rate_ppm \in Nat
  <2>1. \A x : x \in 0..MaxRatePpm => x \in Nat
    OBVIOUS
  <2> QED
    BY <1>1, <2>1, Zenon
<1>3. sum * p.rate_ppm \in Nat
  <2>1. \A x, y \in Nat : x * y \in Nat
    OBVIOUS
  <2> QED
    BY <1>2, <2>1, Zenon
<1>4. (sum * p.rate_ppm) \div PPM \in Nat
  <2>1. \A x \in Nat : x \div PPM \in Nat
    BY DEF PPM
  <2> QED
    BY <1>3, <2>1, Zenon
<1> QED
  BY <1>1, <1>4 DEF ComputeBurn

LEMMA PolicyType ==
  ASSUME NEW now
  PROVE  EffectivePolicy(burn_policy, burn_policy_next, now) \in BurnPolicy
BY PolicyAssumption DEF EffectivePolicy

-----------------------------------------------------------------------------
\* The batches that pass validation.

Output(o) ==
  /\ o.hash \in Hash \ DOMAIN entries
  /\ o.amount \in 1..IntMax
  /\ o.lock \in Lock \cup {NULL}

\* No key twice in a list of inputs or outputs.
Distinct(list) ==
  \A i, j \in DOMAIN list : list[i].hash = list[j].hash => i = j

LEMMA Tables ==
  ASSUME TypeOK
  PROVE  /\ DOMAIN entries \subseteq Hash
         /\ entries \in [DOMAIN entries -> Entry]
         /\ DOMAIN idem \subseteq Key
         /\ idem \in [DOMAIN idem -> Record]
BY DEF TypeOK

\* The outputs that pass are new, storable and pairwise different.
LEMMA AcceptedOutputs ==
  ASSUME TypeOK, NEW out \in Seq(OutputSpec), NEW now,
         \A j \in DOMAIN out : OutputVerdict(out, j, now) = "ok"
  PROVE  (\A j \in DOMAIN out : Output(out[j])) /\ Distinct(out)
<1>1. \A j \in DOMAIN out : out[j] \in OutputSpec
  OBVIOUS
<1>2. ASSUME NEW j \in DOMAIN out
      PROVE  /\ WellFormed(out[j], now)
             /\ out[j].hash \notin DOMAIN entries
             /\ \A i \in 1..j-1 : ~(WellFormed(out[i], now) /\ out[i].hash = out[j].hash)
  BY <1>2 DEF OutputVerdict
<1>3. ASSUME NEW j \in DOMAIN out PROVE Output(out[j])
  BY <1>1, <1>2 DEF Output, OutputSpec, WellFormed
<1>4. ASSUME NEW i \in DOMAIN out, NEW j \in DOMAIN out, i < j
      PROVE  out[i].hash # out[j].hash
  <2>1. i \in 1..j-1
    BY <1>4
  <2> QED
    BY <2>1, <1>2
<1>5. \A i, j \in DOMAIN out : i # j => i < j \/ j < i
  OBVIOUS
<1> QED
  BY <1>3, <1>4, <1>5 DEF Distinct

\* The inputs that pass name different unspent entries, each spent on the
\* path its lock allows at this instant.
LEMMA AcceptedInputs ==
  ASSUME TypeOK, NEW in \in Seq(Form), NEW now,
         \A i \in DOMAIN in : InputVerdict(in, i, now) = "ok"
  PROVE  /\ \A i \in DOMAIN in :
              /\ in[i].kind \in {"plain", "claim", "refund"}
              /\ in[i].hash \in Unspent
              /\ Evaluate(entries[in[i].hash].lock, in[i], now) = "ok"
         /\ Distinct(in)
<1>1. \A i \in DOMAIN in : in[i].kind \in {"plain", "claim", "refund", "malformed"}
  <2>1. \A i \in DOMAIN in : in[i] \in Form
    OBVIOUS
  <2> QED
    BY <2>1 DEF Form
<1>2. ASSUME NEW i \in DOMAIN in
      PROVE  /\ in[i].kind # "malformed"
             /\ in[i].hash \in DOMAIN entries
             /\ ~entries[in[i].hash].spent
             /\ ~Repeated(in, i)
             /\ Evaluate(entries[in[i].hash].lock, in[i], now) = "ok"
  BY <1>2 DEF InputVerdict
<1>3. ASSUME NEW i \in DOMAIN in, NEW j \in DOMAIN in, i < j
      PROVE  in[i].hash # in[j].hash
  <2>1. i \in 1..j-1
    BY <1>3
  <2> QED
    BY <2>1, <1>2 DEF Repeated
<1>4. \A i, j \in DOMAIN in : i # j => i < j \/ j < i
  OBVIOUS
<1> QED
  BY <1>1, <1>2, <1>3, <1>4 DEF Distinct, Unspent

\* No failures: every member passes and the batch conserves value.
LEMMA AcceptedBatch ==
  ASSUME TypeOK, NEW b \in Bodies, NEW now, Failures(b, now) = {}
  PROVE  /\ \A i \in DOMAIN b.inputs : InputVerdict(b.inputs, i, now) = "ok"
         /\ \A j \in DOMAIN b.outputs : OutputVerdict(b.outputs, j, now) = "ok"
         /\ Conserves(b, now)
<1>1. ASSUME NEW i \in DOMAIN b.inputs
      PROVE  InputVerdict(b.inputs, i, now) = "ok"
  <2>1. <<"input", i, InputVerdict(b.inputs, i, now)>> \in Errors(b, now)
    BY DEF Errors
  <2> QED
    BY <2>1 DEF Failures
<1>2. ASSUME NEW j \in DOMAIN b.outputs
      PROVE  OutputVerdict(b.outputs, j, now) = "ok"
  <2>1. <<"output", j, OutputVerdict(b.outputs, j, now)>> \in Errors(b, now)
    BY DEF Errors
  <2> QED
    BY <2>1 DEF Failures
<1>3. Assessable(b)
  <2>1. \A i \in DOMAIN b.inputs :
          /\ b.inputs[i].kind # "malformed"
          /\ b.inputs[i].hash \in DOMAIN entries
          /\ ~Repeated(b.inputs, i)
    BY <1>1 DEF InputVerdict
  <2>2. \A j \in DOMAIN b.outputs : b.outputs[j].amount \in 1..IntMax
    BY <1>2 DEF OutputVerdict, WellFormed
  <2> QED
    BY <2>1, <2>2 DEF Assessable
<1>4. Conserves(b, now)
  <2>1. ~Conserves(b, now) => <<"call", 0, "amount_mismatch">> \in Errors(b, now)
    BY <1>3 DEF Errors
  <2> QED
    BY <2>1 DEF Failures
<1> QED
  BY <1>1, <1>2, <1>4

-----------------------------------------------------------------------------
\* The rows an accepted batch writes.

\* The row a new output starts as, and the row a spent input becomes.
NewRow(o) ==
  [amount |-> o.amount, lock |-> o.lock, spent |-> FALSE,
   spent_at |-> NULL, claim_witness |-> NULL]

SpentRow(e, f, now) ==
  [e EXCEPT !.spent = TRUE, !.spent_at = now,
            !.claim_witness = IF f.kind = "claim" THEN f.witness ELSE NULL]

\* A witness is only recorded for a claim that a lock accepted.
LEMMA RecordedWitness ==
  ASSUME NEW f \in Form, NEW lock, NEW now, Evaluate(lock, f, now) = "ok",
         f.kind = "claim"
  PROVE  lock # NULL /\ f.witness \in Secret
BY DEF Evaluate

LEMMA MarkSpentRows ==
  ASSUME TypeOK, NEW in \in Seq(Form), NEW now \in Nat,
         \A i \in DOMAIN in : InputVerdict(in, i, now) = "ok"
  PROVE  /\ MarkSpent(in, now) \in [DOMAIN entries -> Entry]
         /\ \A i \in DOMAIN in :
              MarkSpent(in, now)[in[i].hash]
                = SpentRow(entries[in[i].hash], in[i], now)
         /\ \A h \in DOMAIN entries \ InputKeys(in) :
              MarkSpent(in, now)[h] = entries[h]
         /\ InputKeys(in) \subseteq Unspent
<1> DEFINE rows == MarkSpent(in, now)
<1>1. InputKeys(in) \subseteq Unspent
  BY AcceptedInputs DEF InputKeys
<1>2. DOMAIN rows = DOMAIN entries
  BY DEF MarkSpent
<1>3. ASSUME NEW i \in DOMAIN in
      PROVE  rows[in[i].hash] = SpentRow(entries[in[i].hash], in[i], now)
  <2>1. in[i].hash \in InputKeys(in) /\ in[i].hash \in DOMAIN entries
    BY <1>1 DEF InputKeys, Unspent
  <2>2. (CHOOSE j \in DOMAIN in : in[j].hash = in[i].hash) = i
    BY AcceptedInputs DEF Distinct
  <2> QED
    BY <2>1, <2>2 DEF MarkSpent, SpentRow
<1>4. \A h \in DOMAIN entries \ InputKeys(in) : rows[h] = entries[h]
  BY DEF MarkSpent
<1>5. ASSUME NEW h \in DOMAIN entries
      PROVE  rows[h] \in Entry
  <2>1. entries[h] \in Entry
    BY Tables
  <2>2. CASE h \notin InputKeys(in)
    BY <1>4, <2>1, <2>2
  <2>3. CASE h \in InputKeys(in)
    <3>1. PICK i \in DOMAIN in : in[i].hash = h
      BY <2>3 DEF InputKeys
    <3>2. rows[h] = SpentRow(entries[h], in[i], now)
      BY <1>3, <3>1
    <3>3. in[i] \in Form
      OBVIOUS
    <3>4. (IF in[i].kind = "claim" THEN in[i].witness ELSE NULL) \in Secret \cup {NULL}
      BY <3>1, <3>3, AcceptedInputs, RecordedWitness
    <3> QED
      BY <2>1, <3>2, <3>4 DEF SpentRow, Entry
  <2> QED
    BY <2>2, <2>3
<1>6. rows \in [DOMAIN entries -> Entry]
  BY <1>2, <1>5 DEF MarkSpent
<1> QED
  BY <1>1, <1>3, <1>4, <1>6

LEMMA InsertedRows ==
  ASSUME TypeOK, NEW out \in Seq(OutputSpec), NEW now,
         \A j \in DOMAIN out : OutputVerdict(out, j, now) = "ok",
         NEW rows \in [DOMAIN entries -> Entry]
  PROVE  LET new == InsertEntries(rows, out)
         IN  /\ DOMAIN new = DOMAIN entries \cup OutputKeys(out)
             /\ DOMAIN new \subseteq Hash
             /\ new \in [DOMAIN new -> Entry]
             /\ DOMAIN entries \cap OutputKeys(out) = {}
             /\ \A h \in DOMAIN entries : new[h] = rows[h]
             /\ \A j \in DOMAIN out : new[out[j].hash] = NewRow(out[j])
<1> DEFINE new == InsertEntries(rows, out)
<1>1. DOMAIN entries \cap OutputKeys(out) = {} /\ OutputKeys(out) \subseteq Hash
  BY AcceptedOutputs DEF OutputKeys, Output
<1>2. DOMAIN rows = DOMAIN entries
  OBVIOUS
<1>3. DOMAIN new = DOMAIN entries \cup OutputKeys(out)
  BY <1>2 DEF InsertEntries
<1>4. \A h \in DOMAIN entries : new[h] = rows[h]
  BY <1>2 DEF InsertEntries
<1>5. ASSUME NEW j \in DOMAIN out
      PROVE  new[out[j].hash] = NewRow(out[j])
  <2>1. out[j].hash \in OutputKeys(out) /\ out[j].hash \notin DOMAIN rows
    BY <1>1, <1>2 DEF OutputKeys
  <2>2. (CHOOSE k \in DOMAIN out : out[k].hash = out[j].hash) = j
    BY AcceptedOutputs DEF Distinct
  <2> QED
    BY <2>1, <2>2 DEF InsertEntries, NewRow
<1>6. ASSUME NEW h \in DOMAIN new
      PROVE  new[h] \in Entry
  <2>1. CASE h \in DOMAIN entries
    BY <1>4, <2>1
  <2>2. CASE h \in OutputKeys(out)
    <3>1. PICK j \in DOMAIN out : out[j].hash = h
      BY <2>2 DEF OutputKeys
    <3>2. Output(out[j])
      BY AcceptedOutputs
    <3> DEFINE A == 1..IntMax
               L == Lock \cup {NULL}
    <3>3. out[j].amount \in A /\ out[j].lock \in L
      BY <3>2 DEF Output
    <3>4. Entry = [amount : A, lock : L, spent : BOOLEAN,
                   spent_at : Nat \cup {NULL}, claim_witness : Secret \cup {NULL}]
      BY DEF Entry
    <3> HIDE DEF A, L
    <3>5. NewRow(out[j]) \in Entry
      BY <3>3, <3>4 DEF NewRow
    <3> QED
      BY <1>5, <3>1, <3>5
  <2> QED
    BY <1>3, <2>1, <2>2
<1>7. new \in [DOMAIN new -> Entry]
  BY <1>6 DEF InsertEntries
<1>8. DOMAIN new \subseteq Hash
  BY <1>1, <1>3, Tables
<1> QED
  BY <1>1, <1>3, <1>4, <1>5, <1>7, <1>8

-----------------------------------------------------------------------------
\* Type correctness.

LEMMA CallType ==
  ASSUME TypeOK, NEW c \in pending
  PROVE  /\ c.now \in Nat /\ c.now <= clock
         /\ c.op = "exchange" => c.key \in Key /\ c.body \in Bodies
         /\ c.op = "issue" => c.outputs \in Seq(OutputSpec)
BY BatchAssumption DEF TypeOK, Call

\* The total of a list of storable amounts is a number.
LEMMA BatchTotal ==
  ASSUME NEW out \in Seq(OutputSpec),
         \A j \in DOMAIN out : out[j].amount \in 1..IntMax
  PROVE  Family(Amounts(out)) /\ Total(Amounts(out)) \in Nat
<1>1. IsFiniteSet(DOMAIN out)
  <2>1. DOMAIN out = 1..Len(out) /\ Len(out) \in Int
    OBVIOUS
  <2> QED
    BY <2>1, FS_Interval
<1>2. Family(Amounts(out))
  BY <1>1, BoundAssumption DEF Family, Amounts
<1> QED
  BY <1>2, TotalIsNat

LEMMA InputTotal ==
  ASSUME TypeOK, NEW in \in Seq(Form), InputKeys(in) \subseteq DOMAIN entries
  PROVE  Family(InputAmounts(in)) /\ Total(InputAmounts(in)) \in Nat
<1>1. IsFiniteSet(DOMAIN in)
  <2>1. DOMAIN in = 1..Len(in) /\ Len(in) \in Int
    OBVIOUS
  <2> QED
    BY <2>1, FS_Interval
<1>2. \A h \in DOMAIN entries : entries[h].amount \in 1..IntMax
  BY Tables, Zenon DEF Entry
<1>3. \A i \in DOMAIN in : in[i].hash \in DOMAIN entries
  BY DEF InputKeys
<1>4. Family(InputAmounts(in))
  BY <1>1, <1>2, <1>3, BoundAssumption DEF Family, InputAmounts
<1> QED
  BY <1>4, TotalIsNat

LEMMA AcceptedBurn ==
  ASSUME TypeOK, NEW b \in Bodies, NEW now \in Nat, Failures(b, now) = {}
  PROVE  Burn(b.inputs, now) \in Nat
<1>1. InputKeys(b.inputs) \subseteq DOMAIN entries
  BY AcceptedBatch, MarkSpentRows, BodyType DEF Unspent
<1>2. Total(InputAmounts(b.inputs)) \in Nat
  BY <1>1, InputTotal, BodyType
<1> QED
  BY <1>2, BurnIsNat, PolicyType DEF Burn

\* A stored row of the idempotency table is a record.
LEMMA StoredRecord ==
  ASSUME TypeOK, NEW c \in pending, c.op = "exchange", NEW result \in Result,
         StoreIdempotency(c, result)
  PROVE  \E used \in SUBSET Key : idem' \in [used -> Record]
<1> DEFINE row == [body |-> c.body, result |-> result, created_at |-> c.now]
<1>1. c.key \in Key /\ row \in Record
  BY CallType DEF Record
<1>2. DOMAIN idem \cup {c.key} \in SUBSET Key
  BY <1>1, Tables
<1>3. idem' \in [DOMAIN idem \cup {c.key} -> Record]
  BY <1>1, Tables DEF StoreIdempotency
<1> QED
  BY <1>2, <1>3

LEMMA InitType == Init => TypeOK
<1> SUFFICES ASSUME Init PROVE TypeOK
  OBVIOUS
<1>1. clock \in 0..MaxTime /\ issued \in 0..IntMax /\ burned \in Nat
  <2>1. MaxTime \in Nat /\ IntMax \in Nat
    BY BoundAssumption
  <2> QED
    BY <2>1 DEF Init
<1>2. \E known \in SUBSET Hash : entries \in [known -> Entry]
  BY DEF Init
<1>3. \E used \in SUBSET Key : idem \in [used -> Record]
  BY DEF Init
<1> QED
  BY <1>1, <1>2, <1>3 DEF Init, TypeOK

LEMMA StepType == TypeOK /\ [Next]_vars => TypeOK'
<1> SUFFICES ASSUME TypeOK, [Next]_vars PROVE TypeOK'
  OBVIOUS
<1>1. CASE Tick
  <2>1. \A c \in pending : c.now <= clock'
    BY <1>1, CallType DEF Tick, TypeOK
  <2>2. clock' \in 0..MaxTime
    BY <1>1, BoundAssumption DEF Tick, TypeOK
  <2> QED
    BY <1>1, <2>1, <2>2 DEF Tick, TypeOK, tables
<1>2. ASSUME NEW c \in Call, c.now = clock, Arrive(c)
      PROVE  TypeOK'
  BY <1>2 DEF Arrive, TypeOK, tables
<1>3. CASE \E k \in Key, b \in Bodies : ArriveExchange(k, b)
  BY <1>2, <1>3 DEF ArriveExchange, Call, TypeOK
<1>4. CASE \E out \in IssueBatches : ArriveIssue(out)
  BY <1>2, <1>4 DEF ArriveIssue, Call, TypeOK
<1>5. CASE ArrivePrune
  BY <1>2, <1>5 DEF ArrivePrune, Call, TypeOK
<1>6. ASSUME NEW c \in pending, UNCHANGED tables, Finish(c)
      PROVE  TypeOK'
  BY <1>6 DEF Finish, TypeOK, tables
<1>7. ASSUME NEW c \in pending, Reject(c)
      PROVE  TypeOK'
  <2>1. [status |-> "rejected", burn_mc |-> 0,
         errors |-> Failures(c.body, c.now)] \in Result
    BY <1>7, CallType, FailuresType DEF Reject, Result
  <2>2. \E used \in SUBSET Key : idem' \in [used -> Record]
    BY <1>7, <2>1, StoredRecord DEF Reject
  <2> QED
    BY <1>7, <2>2 DEF Reject, Finish, TypeOK
<1>8. ASSUME NEW c \in pending, Exchange(c)
      PROVE  TypeOK'
  <2> DEFINE in == c.body.inputs
             out == c.body.outputs
  <2>1. c.body \in Bodies /\ c.now \in Nat /\ Failures(c.body, c.now) = {}
    BY <1>8, CallType DEF Exchange
  <2>2. in \in Seq(Form) /\ out \in Seq(OutputSpec)
    BY <2>1, BodyType
  <2>3. MarkSpent(in, c.now) \in [DOMAIN entries -> Entry]
    <3>1. \A i \in DOMAIN in : InputVerdict(in, i, c.now) = "ok"
      BY <2>1, AcceptedBatch
    <3> HIDE DEF in
    <3> QED
      BY <2>1, <2>2, <3>1, MarkSpentRows
  <2>4. DOMAIN entries' \subseteq Hash /\ entries' \in [DOMAIN entries' -> Entry]
    <3>1. \A j \in DOMAIN out : OutputVerdict(out, j, c.now) = "ok"
      BY <2>1, AcceptedBatch
    <3>2. entries' = InsertEntries(MarkSpent(in, c.now), out)
      BY <1>8 DEF Exchange
    <3> QED
      BY <2>2, <2>3, <3>1, <3>2, InsertedRows
  <2>5. Burn(in, c.now) \in Nat
    BY <2>1, AcceptedBurn
  <2>6. [status |-> "ok", burn_mc |-> Burn(in, c.now), errors |-> {}] \in Result
    BY <2>5 DEF Result
  <2>7. \E used \in SUBSET Key : idem' \in [used -> Record]
    BY <1>8, <2>6, StoredRecord DEF Exchange
  <2>8. \E known \in SUBSET Hash : entries' \in [known -> Entry]
    BY <2>4
  <2> QED
    BY <1>8, <2>5, <2>7, <2>8 DEF Exchange, Finish, TypeOK
<1>9. ASSUME NEW c \in pending, Issue(c)
      PROVE  TypeOK'
  <2>1. c.outputs \in Seq(OutputSpec)
    BY <1>9, CallType DEF Issue
  <2>2. \A j \in DOMAIN c.outputs : OutputVerdict(c.outputs, j, c.now) = "ok"
    BY <1>9 DEF Issue, Issuable
  <2>3. entries \in [DOMAIN entries -> Entry]
    BY Tables
  <2>4. DOMAIN entries' \subseteq Hash /\ entries' \in [DOMAIN entries' -> Entry]
    BY <1>9, <2>1, <2>2, <2>3, InsertedRows DEF Issue
  <2>5. \A j \in DOMAIN c.outputs : c.outputs[j].amount \in 1..IntMax
    BY <2>1, <2>2, AcceptedOutputs DEF Output
  <2>6. Total(Amounts(c.outputs)) \in Nat
    BY <2>1, <2>5, BatchTotal
  <2>7. issued' \in 0..IntMax
    BY <1>9, <2>6 DEF Issue, Issuable, TypeOK
  <2>8. \E known \in SUBSET Hash : entries' \in [known -> Entry]
    BY <2>4
  <2> QED
    BY <1>9, <2>7, <2>8 DEF Issue, Finish, TypeOK
<1>10. ASSUME NEW c \in pending, Prune(c)
       PROVE  TypeOK'
  <2>1. \E known \in SUBSET Hash : entries' \in [known -> Entry]
    BY <1>10, Tables DEF Prune
  <2>2. \E used \in SUBSET Key : idem' \in [used -> Record]
    BY <1>10, Tables DEF Prune
  <2> QED
    BY <1>10, <2>1, <2>2 DEF Prune, Finish, TypeOK
<1>11. CASE UNCHANGED vars
  BY <1>11 DEF vars, TypeOK
<1> QED
  BY <1>1, <1>3, <1>4, <1>5, <1>6, <1>7, <1>8, <1>9, <1>10, <1>11
     DEF Next, Replay, RefuseIssue, Abandon

\* Every table keeps its shape: keys map to well-formed rows, the issued total
\* fits its column, and no waiting call holds an instant from the future.
THEOREM TypeCorrectness == Spec => []TypeOK
BY InitType, StepType, PTL DEF Spec

-----------------------------------------------------------------------------
\* The supply invariant.

\* What the unspent rows of a table are worth.
LiveRows(rows) == {h \in DOMAIN rows : ~rows[h].spent}
Worth(rows) == Total([h \in LiveRows(rows) |-> rows[h].amount])

LEMMA OutstandingIsWorth == Outstanding = Worth(entries)
BY DEF Outstanding, Live, Unspent, Worth, LiveRows

LEMMA WorthIsNat ==
  ASSUME NEW rows, DOMAIN rows \subseteq Hash, rows \in [DOMAIN rows -> Entry],
         NEW S \in SUBSET DOMAIN rows
  PROVE  /\ Family([h \in S |-> rows[h].amount])
         /\ Total([h \in S |-> rows[h].amount]) \in Nat
<1>1. IsFiniteSet(S)
  BY HashAssumption, FS_Subset
<1>2. \A h \in DOMAIN rows : rows[h].amount \in 1..IntMax
  BY Zenon DEF Entry
<1>3. Family([h \in S |-> rows[h].amount])
  BY <1>1, <1>2, BoundAssumption DEF Family
<1> QED
  BY <1>3, TotalIsNat

\* The rows of accepted outputs are worth what the outputs say.
LEMMA OutputValue ==
  ASSUME TypeOK, NEW out \in Seq(OutputSpec), NEW now,
         \A j \in DOMAIN out : OutputVerdict(out, j, now) = "ok",
         NEW live, \A j \in DOMAIN out : live[out[j].hash] = out[j].amount
  PROVE  Total([h \in OutputKeys(out) |-> live[h]]) = Total(Amounts(out))
<1> DEFINE made == [h \in OutputKeys(out) |-> live[h]]
           m == [j \in DOMAIN out |-> out[j].hash]
<1>1. Family(Amounts(out))
  BY AcceptedOutputs, BatchTotal DEF Output
<1>2. DOMAIN Amounts(out) = DOMAIN out /\ DOMAIN made = OutputKeys(out)
  BY DEF Amounts
<1>3. m \in [DOMAIN Amounts(out) -> DOMAIN made]
  BY <1>2 DEF OutputKeys
<1>4. \A i, j \in DOMAIN Amounts(out) : m[i] = m[j] => i = j
  BY <1>2, AcceptedOutputs DEF Distinct
<1>5. \A h \in DOMAIN made : \E j \in DOMAIN Amounts(out) : m[j] = h
  BY <1>2 DEF OutputKeys
<1>6. \A j \in DOMAIN Amounts(out) : made[m[j]] = Amounts(out)[j]
  BY <1>2 DEF OutputKeys, Amounts
<1> HIDE DEF m, made
<1>7. Total(made) = Total(Amounts(out))
  BY <1>1, <1>3, <1>4, <1>5, <1>6, TotalOfRenaming
<1> QED
  BY <1>7 DEF made

\* The rows of accepted inputs are worth the ledger's amounts of the inputs.
LEMMA InputValue ==
  ASSUME TypeOK, NEW in \in Seq(Form), NEW now \in Nat,
         \A i \in DOMAIN in : InputVerdict(in, i, now) = "ok",
         NEW live, \A h \in InputKeys(in) : live[h] = entries[h].amount
  PROVE  Total([h \in InputKeys(in) |-> live[h]]) = Total(InputAmounts(in))
<1> DEFINE taken == [h \in InputKeys(in) |-> live[h]]
           m == [i \in DOMAIN in |-> in[i].hash]
<1>1. Family(InputAmounts(in))
  BY MarkSpentRows, InputTotal DEF Unspent
<1>2. DOMAIN InputAmounts(in) = DOMAIN in /\ DOMAIN taken = InputKeys(in)
  BY DEF InputAmounts
<1>3. m \in [DOMAIN InputAmounts(in) -> DOMAIN taken]
  BY <1>2 DEF InputKeys
<1>4. \A i, j \in DOMAIN InputAmounts(in) : m[i] = m[j] => i = j
  BY <1>2, AcceptedInputs DEF Distinct
<1>5. \A h \in DOMAIN taken : \E i \in DOMAIN InputAmounts(in) : m[i] = h
  BY <1>2 DEF InputKeys
<1>6. \A i \in DOMAIN InputAmounts(in) : taken[m[i]] = InputAmounts(in)[i]
  BY <1>2 DEF InputKeys, InputAmounts
<1> HIDE DEF m, taken
<1>7. Total(taken) = Total(InputAmounts(in))
  BY <1>1, <1>3, <1>4, <1>5, <1>6, TotalOfRenaming
<1> QED
  BY <1>7 DEF taken

\* Inserting outputs adds their amounts.
LEMMA InsertWorth ==
  ASSUME TypeOK, NEW out \in Seq(OutputSpec), NEW now,
         \A j \in DOMAIN out : OutputVerdict(out, j, now) = "ok",
         NEW rows \in [DOMAIN entries -> Entry]
  PROVE  Worth(InsertEntries(rows, out)) = Worth(rows) + Total(Amounts(out))
<1> DEFINE new == InsertEntries(rows, out)
           live == [h \in LiveRows(new) |-> new[h].amount]
           made == [h \in OutputKeys(out) |-> live[h]]
<1>1. /\ DOMAIN new = DOMAIN entries \cup OutputKeys(out)
      /\ DOMAIN new \subseteq Hash
      /\ new \in [DOMAIN new -> Entry]
      /\ DOMAIN entries \cap OutputKeys(out) = {}
      /\ \A h \in DOMAIN entries : new[h] = rows[h]
      /\ \A j \in DOMAIN out : new[out[j].hash] = NewRow(out[j])
  BY InsertedRows
<1> HIDE DEF new
<1>2. DOMAIN rows = DOMAIN entries
  OBVIOUS
<1>3. ASSUME NEW j \in DOMAIN out
      PROVE  new[out[j].hash].spent = FALSE /\ new[out[j].hash].amount = out[j].amount
  <2>1. NewRow(out[j]).spent = FALSE /\ NewRow(out[j]).amount = out[j].amount
    BY DEF NewRow
  <2> QED
    BY <1>1, <2>1, Zenon
<1>4. \A h \in OutputKeys(out) : ~new[h].spent
  BY <1>3 DEF OutputKeys
<1>5. LiveRows(new) = LiveRows(rows) \cup OutputKeys(out)
  BY <1>1, <1>2, <1>4 DEF LiveRows
<1>6. LiveRows(rows) \cap OutputKeys(out) = {}
  BY <1>1, <1>2 DEF LiveRows
<1>7. Family(live)
  BY <1>1, WorthIsNat DEF LiveRows
<1>8. Total(live) = Total([h \in LiveRows(rows) |-> live[h]]) + Total(made)
  BY <1>5, <1>6, <1>7, TotalOfUnion
<1>9. [h \in LiveRows(rows) |-> live[h]] = [h \in LiveRows(rows) |-> rows[h].amount]
  BY <1>1, <1>2, <1>5 DEF LiveRows
<1>10. Total(made) = Total(Amounts(out))
  <2>1. \A j \in DOMAIN out : live[out[j].hash] = out[j].amount
    BY <1>3, <1>5 DEF OutputKeys
  <2> HIDE DEF live
  <2> QED
    BY <2>1, OutputValue
<1> QED
  BY <1>8, <1>9, <1>10 DEF Worth, new

\* Spending inputs takes the ledger's amounts of them away.
LEMMA SpendWorth ==
  ASSUME TypeOK, NEW in \in Seq(Form), NEW now \in Nat,
         \A i \in DOMAIN in : InputVerdict(in, i, now) = "ok"
  PROVE  Worth(entries) = Worth(MarkSpent(in, now)) + Total(InputAmounts(in))
<1> DEFINE rows == MarkSpent(in, now)
           live == [h \in LiveRows(entries) |-> entries[h].amount]
           taken == [h \in InputKeys(in) |-> live[h]]
<1>1. /\ rows \in [DOMAIN entries -> Entry]
      /\ \A i \in DOMAIN in :
           rows[in[i].hash] = SpentRow(entries[in[i].hash], in[i], now)
      /\ \A h \in DOMAIN entries \ InputKeys(in) : rows[h] = entries[h]
      /\ InputKeys(in) \subseteq Unspent
  BY MarkSpentRows
<1> HIDE DEF rows
<1>2. InputKeys(in) \subseteq LiveRows(entries)
  BY <1>1 DEF Unspent, LiveRows
<1>3. ASSUME NEW i \in DOMAIN in
      PROVE  rows[in[i].hash].spent
  <2>1. entries[in[i].hash] \in Entry
    BY <1>2, Tables DEF InputKeys, LiveRows
  <2> QED
    BY <1>1, <2>1 DEF SpentRow, Entry
<1>4. \A h \in InputKeys(in) : rows[h].spent
  BY <1>3 DEF InputKeys
<1>5. LiveRows(rows) = LiveRows(entries) \ InputKeys(in)
  BY <1>1, <1>4 DEF LiveRows
<1>6. Family(live)
  BY Tables, WorthIsNat DEF LiveRows
<1>7. Total(live) = Total([h \in LiveRows(rows) |-> live[h]]) + Total(taken)
  <2>1. DOMAIN live = LiveRows(rows) \cup InputKeys(in)
    BY <1>2, <1>5
  <2>2. LiveRows(rows) \cap InputKeys(in) = {}
    BY <1>5
  <2> QED
    BY <1>6, <2>1, <2>2, TotalOfUnion
<1>8. [h \in LiveRows(rows) |-> live[h]] = [h \in LiveRows(rows) |-> rows[h].amount]
  BY <1>1, <1>5 DEF LiveRows
<1>9. Total(taken) = Total(InputAmounts(in))
  <2>1. \A h \in InputKeys(in) : live[h] = entries[h].amount
    BY <1>2
  <2> HIDE DEF live
  <2> QED
    BY <2>1, InputValue
<1> QED
  BY <1>7, <1>8, <1>9 DEF Worth, rows

\* Every step keeps outstanding = issued - burned.
LEMMA StepSupply == TypeOK /\ SupplyInvariant /\ [Next]_vars => SupplyInvariant'
<1> SUFFICES ASSUME TypeOK, SupplyInvariant, [Next]_vars
             PROVE  SupplyInvariant'
  OBVIOUS
<1>1. Worth(entries) = issued - burned /\ issued \in Nat /\ burned \in Nat
  BY OutstandingIsWorth DEF SupplyInvariant, TypeOK
<1>2. Worth(entries') = issued' - burned' => SupplyInvariant'
  BY DEF SupplyInvariant, Outstanding, Live, Unspent, Worth, LiveRows
<1>3. CASE UNCHANGED <<entries, issued, burned>>
  BY <1>1, <1>2, <1>3
<1>4. ASSUME NEW c \in pending, Exchange(c)
      PROVE  SupplyInvariant'
  <2> DEFINE in == c.body.inputs
             out == c.body.outputs
             rows == MarkSpent(in, c.now)
  <2>1. c.body \in Bodies /\ c.now \in Nat /\ Failures(c.body, c.now) = {}
    BY <1>4, CallType DEF Exchange
  <2>2. in \in Seq(Form) /\ out \in Seq(OutputSpec)
    BY <2>1, BodyType
  <2>3. /\ \A i \in DOMAIN in : InputVerdict(in, i, c.now) = "ok"
        /\ \A j \in DOMAIN out : OutputVerdict(out, j, c.now) = "ok"
        /\ Conserves(c.body, c.now)
    BY <2>1, AcceptedBatch
  <2>4. rows \in [DOMAIN entries -> Entry] /\ InputKeys(in) \subseteq DOMAIN entries
    BY <2>1, <2>2, <2>3, MarkSpentRows DEF Unspent
  <2>5. Worth(entries') = Worth(rows) + Total(Amounts(out))
    BY <1>4, <2>2, <2>3, <2>4, InsertWorth DEF Exchange
  <2>6. Worth(entries) = Worth(rows) + Total(InputAmounts(in))
    BY <2>1, <2>2, <2>3, SpendWorth
  <2>7. Total(InputAmounts(in)) = Total(Amounts(out)) + Burn(in, c.now)
    BY <2>3 DEF Conserves
  <2>8. Total(InputAmounts(in)) \in Nat
    BY <2>2, <2>4, InputTotal
  <2>9. Total(Amounts(out)) \in Nat
    BY <2>2, <2>3, AcceptedOutputs, BatchTotal DEF Output
  <2>10. Worth(rows) \in Nat
    <3>1. DOMAIN rows = DOMAIN entries /\ DOMAIN rows \subseteq Hash
      BY <2>4, Tables
    <3>2. LiveRows(rows) \in SUBSET DOMAIN rows
      BY DEF LiveRows
    <3> HIDE DEF rows
    <3> QED
      BY <2>4, <3>1, <3>2, WorthIsNat DEF Worth
  <2>11. Burn(in, c.now) \in Nat
    BY <2>1, AcceptedBurn
  <2>12. issued' = issued /\ burned' = burned + Burn(in, c.now)
    BY <1>4 DEF Exchange
  <2> QED
    BY <1>1, <1>2, <2>5, <2>6, <2>7, <2>8, <2>9, <2>10, <2>11, <2>12
<1>5. ASSUME NEW c \in pending, Issue(c)
      PROVE  SupplyInvariant'
  <2>1. c.outputs \in Seq(OutputSpec)
    BY <1>5, CallType DEF Issue
  <2>2. \A j \in DOMAIN c.outputs : OutputVerdict(c.outputs, j, c.now) = "ok"
    BY <1>5 DEF Issue, Issuable
  <2>3. Worth(entries') = Worth(entries) + Total(Amounts(c.outputs))
    BY <1>5, <2>1, <2>2, Tables, InsertWorth DEF Issue
  <2>4. Total(Amounts(c.outputs)) \in Nat
    BY <2>1, <2>2, AcceptedOutputs, BatchTotal DEF Output
  <2>5. issued' = issued + Total(Amounts(c.outputs)) /\ burned' = burned
    BY <1>5 DEF Issue
  <2> QED
    BY <1>1, <1>2, <2>3, <2>4, <2>5
<1>6. ASSUME NEW c \in pending, Prune(c)
      PROVE  SupplyInvariant'
  <2>1. DOMAIN entries' \subseteq DOMAIN entries
    BY <1>6 DEF Prune
  <2>2. \A h \in DOMAIN entries' : entries'[h] = entries[h]
    BY <1>6 DEF Prune
  <2>3. LiveRows(entries) \subseteq DOMAIN entries'
    BY <1>6 DEF Prune, Expired, LiveRows
  <2>4. LiveRows(entries') = LiveRows(entries)
    BY <2>1, <2>2, <2>3 DEF LiveRows
  <2>5. Worth(entries') = Worth(entries)
    <3>1. [h \in LiveRows(entries') |-> entries'[h].amount]
            = [h \in LiveRows(entries) |-> entries[h].amount]
      BY <2>2, <2>3, <2>4
    <3> QED
      BY <3>1 DEF Worth
  <2> QED
    BY <1>1, <1>2, <1>6, <2>5 DEF Prune
<1> QED
  BY <1>3, <1>4, <1>5, <1>6
     DEF Next, vars, tables, Tick, ArriveExchange, ArriveIssue, ArrivePrune,
         Arrive, Replay, Reject, RefuseIssue, Abandon

LEMMA InitSupply == Init => SupplyInvariant
<1> SUFFICES ASSUME Init PROVE SupplyInvariant
  OBVIOUS
<1>1. DOMAIN Live = {}
  BY DEF Init, Live, Unspent
<1> QED
  BY <1>1, TotalOfNothing DEF Init, SupplyInvariant, Outstanding

\* The published supply is consistent after every transaction, for any number
\* of coins, calls and threads: outstanding = issued - burned.
THEOREM SupplyIsConserved == Spec => []SupplyInvariant
<1>1. Init => TypeOK /\ SupplyInvariant
  BY InitType, InitSupply
<1>2. TypeOK /\ SupplyInvariant /\ [Next]_vars => TypeOK' /\ SupplyInvariant'
  BY StepType, StepSupply
<1> QED
  BY <1>1, <1>2, PTL DEF Spec

\* The burned counter never outgrows what was issued, so it fits its column
\* although exchange checks no headroom for it.
THEOREM CountersStayStorable == Spec => []CountersStorable
<1>1. TypeOK /\ SupplyInvariant => CountersStorable
  <2> SUFFICES ASSUME TypeOK, SupplyInvariant PROVE CountersStorable
    OBVIOUS
  <2>1. LiveRows(entries) \in SUBSET DOMAIN entries
    BY DEF LiveRows
  <2>2. Worth(entries) \in Nat
    BY <2>1, Tables, WorthIsNat DEF Worth
  <2> QED
    BY <2>2, OutstandingIsWorth, BoundAssumption
       DEF SupplyInvariant, CountersStorable, TypeOK
<1> QED
  BY <1>1, TypeCorrectness, SupplyIsConserved, PTL

-----------------------------------------------------------------------------
(***************************************************************************)
(* The spends a LedgerStore records: what a retained idempotency record    *)
(* guarantees, that no entry pays twice, and that a spent locked row tells *)
(* the path it took.                                                       *)
(***************************************************************************)
\* An exchange, by its parts.
LEMMA ExchangeParts ==
  ASSUME TypeOK, NEW c \in pending, Exchange(c)
  PROVE  LET in == c.body.inputs
             rows == MarkSpent(in, c.now)
         IN  /\ in \in Seq(Form) /\ c.now \in Nat
             /\ c.key \notin DOMAIN idem
             /\ \A i \in DOMAIN in : InputVerdict(in, i, c.now) = "ok"
             /\ rows \in [DOMAIN entries -> Entry]
             /\ InputKeys(in) \subseteq Unspent
             /\ \A i \in DOMAIN in :
                  rows[in[i].hash] = SpentRow(entries[in[i].hash], in[i], c.now)
             /\ \A h \in DOMAIN entries \ InputKeys(in) : rows[h] = entries[h]
             /\ DOMAIN entries \subseteq DOMAIN entries'
             /\ \A h \in DOMAIN entries : entries'[h] = rows[h]
             /\ \A h \in DOMAIN entries' \ DOMAIN entries : entries'[h].spent = FALSE
<1> DEFINE in == c.body.inputs
           out == c.body.outputs
           rows == MarkSpent(in, c.now)
<1>1. c.body \in Bodies /\ c.now \in Nat /\ Failures(c.body, c.now) = {}
  BY CallType DEF Exchange
<1>2. in \in Seq(Form) /\ out \in Seq(OutputSpec)
  BY <1>1, BodyType
<1>3. /\ \A i \in DOMAIN in : InputVerdict(in, i, c.now) = "ok"
      /\ \A j \in DOMAIN out : OutputVerdict(out, j, c.now) = "ok"
  BY <1>1, AcceptedBatch
<1>4. /\ rows \in [DOMAIN entries -> Entry]
      /\ InputKeys(in) \subseteq Unspent
      /\ \A i \in DOMAIN in :
           rows[in[i].hash] = SpentRow(entries[in[i].hash], in[i], c.now)
      /\ \A h \in DOMAIN entries \ InputKeys(in) : rows[h] = entries[h]
  BY <1>1, <1>2, <1>3, MarkSpentRows
<1>5. entries' = InsertEntries(rows, out) /\ c.key \notin DOMAIN idem
  BY DEF Exchange
<1> HIDE DEF rows
<1>6. /\ DOMAIN entries' = DOMAIN entries \cup OutputKeys(out)
      /\ \A h \in DOMAIN entries : entries'[h] = rows[h]
      /\ \A j \in DOMAIN out : entries'[out[j].hash] = NewRow(out[j])
  <2>1. rows \in [DOMAIN entries -> Entry]
    BY <1>4
  <2>2. \A j \in DOMAIN out : OutputVerdict(out, j, c.now) = "ok"
    BY <1>3
  <2>3. out \in Seq(OutputSpec)
    BY <1>2
  <2> HIDE DEF out
  <2> QED
    BY ZenonT(60), <1>5, <2>1, <2>2, <2>3, InsertedRows
<1>7. ASSUME NEW h \in DOMAIN entries' \ DOMAIN entries
      PROVE  entries'[h].spent = FALSE
  <2>1. PICK j \in DOMAIN out : out[j].hash = h
    BY <1>6 DEF OutputKeys
  <2>2. NewRow(out[j]).spent = FALSE
    BY DEF NewRow
  <2> QED
    BY <1>6, <2>1, <2>2
<1> QED
  BY <1>1, <1>2, <1>3, <1>4, <1>5, <1>6, <1>7 DEF rows

\* The row of a spent input, field by field.
LEMMA SpentFields ==
  \A e \in Entry : \A f, now :
    /\ SpentRow(e, f, now).spent = TRUE
    /\ SpentRow(e, f, now).spent_at = now
    /\ SpentRow(e, f, now).lock = e.lock
    /\ SpentRow(e, f, now).claim_witness
         = IF f.kind = "claim" THEN f.witness ELSE NULL
BY DEF SpentRow, Entry

-----------------------------------------------------------------------------
\* Records of accepted calls and the rows they consumed.

LEMMA StepBacked ==
  TypeOK /\ RecordBacked /\ [Next]_vars => RecordBacked'
<1> SUFFICES ASSUME TypeOK, RecordBacked, [Next]_vars,
                    NEW k \in Accepted', NEW h \in Inputs(k)'
             PROVE  /\ h \in DOMAIN entries'
                    /\ entries'[h].spent
                    /\ entries'[h].spent_at = idem'[k].created_at
  BY DEF RecordBacked
<1>1. ASSUME k \in DOMAIN idem, idem'[k] = idem[k]
      PROVE  /\ h \in DOMAIN entries
             /\ entries[h].spent
             /\ entries[h].spent_at = idem'[k].created_at
  BY <1>1 DEF RecordBacked, Accepted, Inputs
<1>2. CASE UNCHANGED <<entries, idem>>
  BY <1>1, <1>2 DEF Accepted
<1>3. ASSUME NEW c \in pending, Reject(c)
      PROVE  k \in DOMAIN idem /\ idem'[k] = idem[k] /\ UNCHANGED entries
  BY <1>3 DEF Reject, StoreIdempotency, Accepted
<1>4. ASSUME NEW c \in pending, Exchange(c)
      PROVE  /\ h \in DOMAIN entries'
             /\ entries'[h].spent
             /\ entries'[h].spent_at = idem'[k].created_at
  <2> DEFINE in == c.body.inputs
             rows == MarkSpent(in, c.now)
  <2>1. /\ InputKeys(in) \subseteq Unspent
        /\ \A i \in DOMAIN in :
             rows[in[i].hash] = SpentRow(entries[in[i].hash], in[i], c.now)
        /\ \A g \in DOMAIN entries \ InputKeys(in) : rows[g] = entries[g]
        /\ DOMAIN entries \subseteq DOMAIN entries'
        /\ \A g \in DOMAIN entries : entries'[g] = rows[g]
    BY <1>4, ExchangeParts
  <2> HIDE DEF rows
  <2>2. CASE k = c.key
    <3>1. idem'[k].body = c.body /\ idem'[k].created_at = c.now
      BY <1>4, <2>2 DEF Exchange, StoreIdempotency
    <3>2. PICK i \in DOMAIN in : in[i].hash = h
      BY <3>1 DEF Inputs, InputKeys
    <3>3. h \in DOMAIN entries
      BY <2>1, <3>2 DEF InputKeys, Unspent
    <3>4. entries[h] \in Entry
      BY <3>3, Tables
    <3>5. entries'[h] = SpentRow(entries[h], in[i], c.now)
      BY <2>1, <3>2, <3>3
    <3>6. entries'[h].spent = TRUE /\ entries'[h].spent_at = c.now
      <4> DEFINE row == SpentRow(entries[h], in[i], c.now)
      <4>1. row.spent = TRUE /\ row.spent_at = c.now
        BY <3>4, SpentFields
      <4> QED
        BY <3>5, <4>1, Zenon
    <3>7. h \in DOMAIN entries'
      BY <2>1, <3>3
    <3>8. idem'[k].created_at = c.now
      BY <3>1
    <3> QED
      BY <3>6, <3>7, <3>8, Zenon
  <2>3. CASE k # c.key
    <3>1. k \in DOMAIN idem /\ idem'[k] = idem[k]
      BY <1>4, <2>3 DEF Exchange, StoreIdempotency, Accepted
    <3>2. h \in DOMAIN entries /\ entries[h].spent
      BY <1>1, <3>1
    <3>3. h \notin InputKeys(in)
      BY <2>1, <3>2 DEF Unspent
    <3>4. entries'[h] = entries[h]
      BY <2>1, <3>2, <3>3
    <3> QED
      BY <1>1, <2>1, <3>1, <3>4
  <2> QED
    BY <2>2, <2>3
<1>5. ASSUME NEW c \in pending, Issue(c)
      PROVE  /\ UNCHANGED idem
             /\ \A g \in DOMAIN entries : g \in DOMAIN entries' /\ entries'[g] = entries[g]
  BY <1>5 DEF Issue, InsertEntries
<1>6. ASSUME NEW c \in pending, Prune(c)
      PROVE  /\ h \in DOMAIN entries'
             /\ entries'[h].spent
             /\ entries'[h].spent_at = idem'[k].created_at
  <2> DEFINE cutoff == c.now - recovery_window
  <2>1. k \in DOMAIN idem /\ idem'[k] = idem[k] /\ idem[k].created_at >= cutoff
    BY <1>6 DEF Prune, Accepted
  <2>2. /\ h \in DOMAIN entries
        /\ entries[h].spent
        /\ entries[h].spent_at = idem[k].created_at
    BY <1>1, <2>1
  <2>3. ~(idem[k].created_at < cutoff)
    <3>1. idem[k] \in Record
      BY <2>1, Tables
    <3>2. idem[k].created_at \in Nat
      BY <3>1 DEF Record
    <3>3. c.now \in Nat
      BY CallType
    <3> QED
      BY <2>1, <3>2, <3>3, BoundAssumption
  <2>4. h \in DOMAIN entries' /\ entries'[h] = entries[h]
    BY <1>6, <2>2, <2>3 DEF Prune, Expired
  <2> QED
    BY <2>1, <2>2, <2>4
<1>7. ASSUME NEW c \in pending, Reject(c) \/ Issue(c)
      PROVE  /\ h \in DOMAIN entries'
             /\ entries'[h].spent
             /\ entries'[h].spent_at = idem'[k].created_at
  <2>1. k \in DOMAIN idem /\ idem'[k] = idem[k]
    BY <1>3, <1>5, <1>7 DEF Accepted
  <2>2. \A g \in DOMAIN entries : g \in DOMAIN entries' /\ entries'[g] = entries[g]
    BY <1>3, <1>5, <1>7
  <2> QED
    BY <1>1, <2>1, <2>2
<1> QED
  BY <1>2, <1>4, <1>6, <1>7
     DEF Next, vars, tables, Tick, ArriveExchange, ArriveIssue, ArrivePrune,
         Arrive, Replay, RefuseIssue, Abandon

\* While an accepted call can be replayed, each of its inputs is in the table,
\* spent at the call's instant: the replayed "ok" is the truth.
THEOREM ReplaysAreBacked == Spec => []RecordBacked
<1>1. Init => RecordBacked
  BY DEF Init, RecordBacked, Accepted
<1>2. TypeOK /\ RecordBacked /\ [Next]_vars => RecordBacked'
  BY StepBacked
<1> QED
  BY <1>1, <1>2, TypeCorrectness, PTL DEF Spec

-----------------------------------------------------------------------------
\* No entry pays twice.

\* A list that names no key twice has as many keys as members.
LEMMA DistinctKeys ==
  ASSUME NEW in \in Seq(Form), Distinct(in)
  PROVE  Cardinality(InputKeys(in)) = Len(in)
<1> DEFINE m == [i \in 1..Len(in) |-> in[i].hash]
<1>1. DOMAIN in = 1..Len(in) /\ Len(in) \in Nat
  OBVIOUS
<1>2. m \in [1..Len(in) -> InputKeys(in)]
  BY <1>1 DEF InputKeys
<1>3. \A i, j \in 1..Len(in) : m[i] = m[j] => i = j
  BY <1>1 DEF Distinct
<1>4. \A h \in InputKeys(in) : \E i \in 1..Len(in) : m[i] = h
  BY <1>1 DEF InputKeys
<1>5. m \in Bijection(1..Len(in), InputKeys(in))
  BY <1>2, <1>3, <1>4, Zenon DEF Bijection, Injection, Surjection, IsInjective
<1>6. IsFiniteSet(1..Len(in)) /\ Cardinality(1..Len(in)) = Len(in)
  BY <1>1, FS_Interval
<1> QED
  BY <1>5, <1>6, FS_Bijection DEF ExistsBijection

LEMMA StepSingleSpend ==
  TypeOK /\ RecordBacked /\ SingleSpend /\ [Next]_vars => SingleSpend'
<1> SUFFICES ASSUME TypeOK, RecordBacked, SingleSpend, [Next]_vars
             PROVE  SingleSpend'
  OBVIOUS
<1>1. ASSUME DOMAIN idem' \subseteq DOMAIN idem, \A k \in DOMAIN idem' : idem'[k] = idem[k]
      PROVE  SingleSpend'
  BY <1>1 DEF SingleSpend, Accepted, Inputs
<1>2. CASE UNCHANGED idem
  BY <1>1, <1>2
<1>3. ASSUME NEW c \in pending, Prune(c)
      PROVE  SingleSpend'
  BY <1>1, <1>3 DEF Prune
<1>4. ASSUME NEW c \in pending, Reject(c)
      PROVE  SingleSpend'
  <2>1. \A k \in Accepted' : k \in Accepted /\ idem'[k] = idem[k]
    BY <1>4 DEF Reject, StoreIdempotency, Accepted
  <2> QED
    BY <2>1 DEF SingleSpend, Inputs
<1>5. ASSUME NEW c \in pending, Exchange(c)
      PROVE  SingleSpend'
  <2> DEFINE in == c.body.inputs
  <2>1. /\ in \in Seq(Form)
        /\ InputKeys(in) \subseteq Unspent
        /\ \A i \in DOMAIN in : InputVerdict(in, i, c.now) = "ok"
    BY <1>5, ExchangeParts
  <2>2. idem'[c.key].body = c.body
    BY <1>5 DEF Exchange, StoreIdempotency
  <2>3. ASSUME NEW k \in Accepted', k # c.key
        PROVE  k \in Accepted /\ idem'[k] = idem[k]
    BY <1>5, <2>3 DEF Exchange, StoreIdempotency, Accepted
  <2>4. ASSUME NEW k \in Accepted', k # c.key
        PROVE  Inputs(k)' \cap Inputs(c.key)' = {}
    <3>1. \A h \in Inputs(k) : h \in DOMAIN entries /\ entries[h].spent
      BY <2>3, <2>4 DEF RecordBacked
    <3>2. Inputs(k)' = Inputs(k) /\ Inputs(c.key)' = InputKeys(in)
      BY <2>2, <2>3, <2>4 DEF Inputs
    <3> QED
      BY <2>1, <3>1, <3>2 DEF Unspent
  <2>5. ASSUME NEW k \in Accepted', NEW l \in Accepted', k # l
        PROVE  Inputs(k)' \cap Inputs(l)' = {}
    <3>1. CASE k = c.key \/ l = c.key
      BY <2>4, <2>5, <3>1
    <3>2. CASE k # c.key /\ l # c.key
      BY <2>3, <2>5, <3>2 DEF SingleSpend, Inputs
    <3> QED
      BY <3>1, <3>2
  <2>6. ASSUME NEW k \in Accepted'
        PROVE  Cardinality(Inputs(k)') = Len(idem'[k].body.inputs)
    <3>1. CASE k = c.key
      BY <2>1, <2>2, <3>1, AcceptedInputs, DistinctKeys DEF Inputs
    <3>2. CASE k # c.key
      BY <2>3, <3>2 DEF SingleSpend, Inputs
    <3> QED
      BY <3>1, <3>2
  <2> QED
    BY <2>5, <2>6 DEF SingleSpend
<1> QED
  BY <1>2, <1>3, <1>4, <1>5
     DEF Next, vars, tables, Tick, ArriveExchange, ArriveIssue, ArrivePrune,
         Arrive, Replay, Issue, RefuseIssue, Abandon

\* However calls race, and whatever was pruned and created again under the
\* same key, no two accepted calls share an input and no call counts one twice.
THEOREM NothingPaysTwice == Spec => []SingleSpend
<1>1. Init => SingleSpend
  BY DEF Init, SingleSpend, Accepted
<1>2. TypeOK /\ RecordBacked /\ SingleSpend /\ [Next]_vars => SingleSpend'
  BY StepSingleSpend
<1> QED
  BY <1>1, <1>2, TypeCorrectness, ReplaysAreBacked, PTL DEF Spec

-----------------------------------------------------------------------------
\* What a spent locked row says about its spend.

\* One row's part of SpendRecordTruthful.
Truthful(e) ==
  e.spent /\ e.lock # NULL =>
    \/ /\ e.claim_witness # NULL
       /\ Sha256(e.claim_witness) = e.lock.preimage_hash
       /\ e.spent_at < e.lock.expiry
    \/ e.claim_witness = NULL /\ e.spent_at >= e.lock.expiry

\* An input that the truth table lets through a lock took one of its paths.
LEMMA LockedPaths ==
  ASSUME NEW lock \in Lock, NEW f \in Form, NEW now \in Nat,
         f.kind # "malformed", Evaluate(lock, f, now) = "ok"
  PROVE  \/ /\ f.kind = "claim"
            /\ Sha256(f.witness) = lock.preimage_hash
            /\ now < lock.expiry
            /\ f.witness \in Secret
         \/ f.kind = "refund" /\ now >= lock.expiry
<1>1. lock # NULL
  BY NullAssumption
<1>2. f.kind \in {"plain", "claim", "refund"}
  BY DEF Form
<1>3. lock.expiry \in Int
  BY DEF Lock
<1>4. CASE f.kind = "plain"
  BY <1>1, <1>4 DEF Evaluate
<1>5. CASE f.kind = "claim"
  <2>1. f.witness \in Secret
    BY <1>1, <1>5 DEF Evaluate
  <2>2. ClaimVerdict(lock, f.witness, now) = "ok"
    BY <1>1, <1>5, <2>1 DEF Evaluate
  <2> QED
    BY <1>3, <1>5, <2>1, <2>2 DEF ClaimVerdict
<1>6. CASE f.kind = "refund"
  <2>1. f.witness \in Secret
    BY <1>1, <1>6 DEF Evaluate
  <2>2. RefundVerdict(lock, f.witness, now) = "ok"
    BY <1>1, <1>6, <2>1 DEF Evaluate
  <2> QED
    BY <1>3, <1>6, <2>2 DEF RefundVerdict
<1> QED
  BY <1>2, <1>4, <1>5, <1>6

LEMMA StepTruthful ==
  TypeOK /\ SpendRecordTruthful /\ [Next]_vars => SpendRecordTruthful'
<1> SUFFICES ASSUME TypeOK, SpendRecordTruthful, [Next]_vars,
                    NEW h \in DOMAIN entries'
             PROVE  Truthful(entries'[h])
  BY DEF SpendRecordTruthful, Truthful
<1>1. \A g \in DOMAIN entries : Truthful(entries[g])
  BY DEF SpendRecordTruthful, Truthful
<1>2. CASE UNCHANGED entries
  BY <1>1, <1>2
<1>3. ASSUME NEW c \in pending, Prune(c)
      PROVE  Truthful(entries'[h])
  BY <1>1, <1>3 DEF Prune
<1>4. ASSUME NEW c \in pending, Issue(c)
      PROVE  Truthful(entries'[h])
  <2>1. CASE h \in DOMAIN entries
    BY <1>1, <1>4, <2>1 DEF Issue, InsertEntries
  <2>2. CASE h \notin DOMAIN entries
    BY <1>4, <2>2 DEF Issue, InsertEntries, Truthful
  <2> QED
    BY <2>1, <2>2
<1>5. ASSUME NEW c \in pending, Exchange(c)
      PROVE  Truthful(entries'[h])
  <2> DEFINE in == c.body.inputs
             rows == MarkSpent(in, c.now)
  <2>1. /\ in \in Seq(Form) /\ c.now \in Nat
        /\ \A i \in DOMAIN in : InputVerdict(in, i, c.now) = "ok"
        /\ InputKeys(in) \subseteq Unspent
        /\ \A i \in DOMAIN in :
             rows[in[i].hash] = SpentRow(entries[in[i].hash], in[i], c.now)
        /\ \A g \in DOMAIN entries \ InputKeys(in) : rows[g] = entries[g]
        /\ \A g \in DOMAIN entries : entries'[g] = rows[g]
        /\ \A g \in DOMAIN entries' \ DOMAIN entries : entries'[g].spent = FALSE
    BY <1>5, ExchangeParts
  <2> HIDE DEF rows
  <2>2. CASE h \notin DOMAIN entries
    BY <2>1, <2>2 DEF Truthful
  <2>3. CASE h \in DOMAIN entries \ InputKeys(in)
    BY <1>1, <2>1, <2>3
  <2>4. CASE h \in InputKeys(in)
    <3>1. PICK i \in DOMAIN in : in[i].hash = h
      BY <2>4 DEF InputKeys
    <3>2. h \in DOMAIN entries
      BY <2>1, <2>4 DEF Unspent
    <3>3. entries[h] \in Entry
      BY <3>2, Tables
    <3> DEFINE e == entries[h]
               row == SpentRow(e, in[i], c.now)
    <3>4. entries'[h] = row
      BY <2>1, <3>1, <3>2
    <3>5. /\ row.spent_at = c.now
          /\ row.lock = e.lock
          /\ row.claim_witness = IF in[i].kind = "claim" THEN in[i].witness ELSE NULL
      BY <3>3, SpentFields
    <3>6. /\ in[i] \in Form
          /\ in[i].kind # "malformed"
          /\ Evaluate(e.lock, in[i], c.now) = "ok"
      <4>1. in \in Seq(Form) /\ \A j \in DOMAIN in : InputVerdict(in, j, c.now) = "ok"
        BY <2>1
      <4> HIDE DEF in
      <4>2. /\ in[i].kind \in {"plain", "claim", "refund"}
            /\ Evaluate(entries[in[i].hash].lock, in[i], c.now) = "ok"
        BY <4>1, AcceptedInputs
      <4> QED
        BY <3>1, <4>1, <4>2
    <3>7. e.lock # NULL => e.lock \in Lock
      BY <3>3 DEF Entry
    <3>8. \A w \in Secret : w # NULL
      BY NullAssumption, SecretAssumption
    <3> HIDE DEF row, e, in
    <3>9. CASE e.lock = NULL
      BY <3>4, <3>5, <3>9 DEF Truthful
    <3>10. CASE e.lock # NULL
      BY <2>1, <3>4, <3>5, <3>6, <3>7, <3>8, <3>10, LockedPaths DEF Truthful
    <3> QED
      BY <3>9, <3>10
  <2> QED
    BY <2>2, <2>3, <2>4
<1> QED
  BY <1>2, <1>3, <1>4, <1>5
     DEF Next, vars, tables, Tick, ArriveExchange, ArriveIssue, ArrivePrune,
         Arrive, Replay, Reject, RefuseIssue, Abandon

\* What status() reports of a spent locked entry tells the path it took: the
\* preimage and an instant before expiry, or no witness and one from expiry on.
THEOREM SpendRecordsAreEvidence == Spec => []SpendRecordTruthful
<1>1. Init => SpendRecordTruthful
  BY DEF Init, SpendRecordTruthful
<1> QED
  BY <1>1, StepTruthful, TypeCorrectness, PTL DEF Spec

-----------------------------------------------------------------------------
(***************************************************************************)
(* How the rows change: an unspent row is left alone until an exchange     *)
(* spends it, a spent row and a record last as long as the recovery        *)
(* window, the record of a funding as long as the lock it funded, and all  *)
(* steps together implement the abstract cash.                             *)
(***************************************************************************)
\* What the steps do to the rows: an exchange spends some and adds some, an
\* issue adds some, a prune drops spent ones, and nothing else touches them.
LEMMA RowSteps ==
  ASSUME [Next]_vars
  PROVE  \/ UNCHANGED tables
         \/ \E c \in pending :
              Reject(c) \/ Exchange(c) \/ Issue(c) \/ Prune(c)
BY DEF Next, vars, tables, Tick, ArriveExchange, ArriveIssue, ArrivePrune,
       Arrive, Replay, RefuseIssue, Abandon

LEMMA IssueRows ==
  ASSUME NEW c \in pending, Issue(c)
  PROVE  /\ \A h \in DOMAIN entries : h \in DOMAIN entries' /\ entries'[h] = entries[h]
         /\ UNCHANGED idem
BY DEF Issue, InsertEntries

LEMMA PruneRows ==
  ASSUME NEW c \in pending, Prune(c)
  PROVE  /\ DOMAIN entries' \subseteq DOMAIN entries
         /\ \A h \in DOMAIN entries' : entries'[h] = entries[h]
         /\ \A h \in DOMAIN entries \ DOMAIN entries' :
              entries[h].spent /\ entries[h].spent_at < c.now - recovery_window
         /\ DOMAIN idem' \subseteq DOMAIN idem
         /\ \A k \in DOMAIN idem' : idem'[k] = idem[k]
         /\ \A k \in DOMAIN idem \ DOMAIN idem' :
              ~(idem[k].created_at >= c.now - recovery_window)
BY DEF Prune, Expired

\* Storing a record leaves the others alone.
LEMMA StoredRows ==
  ASSUME NEW c \in pending, c.key \notin DOMAIN idem, NEW result,
         StoreIdempotency(c, result)
  PROVE  /\ DOMAIN idem' = DOMAIN idem \cup {c.key}
         /\ \A k \in DOMAIN idem : idem'[k] = idem[k]
         /\ idem'[c.key] = [body |-> c.body, result |-> result, created_at |-> c.now]
BY DEF StoreIdempotency

-----------------------------------------------------------------------------
\* Unspent rows.

LEMMA StepKeepsUnspent ==
  ASSUME TypeOK, [Next]_vars, NEW h \in Unspent
  PROVE  /\ h \in DOMAIN entries'
         /\ \/ entries'[h] = entries[h]
            \/ /\ entries'[h].spent
               /\ \E k \in Accepted' \ DOMAIN idem : h \in Inputs(k)'
<1>1. h \in DOMAIN entries /\ ~entries[h].spent
  BY DEF Unspent
<1>2. CASE UNCHANGED tables
  BY <1>1, <1>2 DEF tables
<1>3. ASSUME NEW c \in pending, Reject(c)
      PROVE  UNCHANGED entries
  BY <1>3 DEF Reject
<1>4. ASSUME NEW c \in pending, Issue(c)
      PROVE  h \in DOMAIN entries' /\ entries'[h] = entries[h]
  BY <1>1, <1>4, IssueRows
<1>5. ASSUME NEW c \in pending, Prune(c)
      PROVE  h \in DOMAIN entries' /\ entries'[h] = entries[h]
  BY <1>1, <1>5, PruneRows
<1>6. ASSUME NEW c \in pending, Exchange(c)
      PROVE  /\ h \in DOMAIN entries'
             /\ \/ entries'[h] = entries[h]
                \/ /\ entries'[h].spent
                   /\ \E k \in Accepted' \ DOMAIN idem : h \in Inputs(k)'
  <2> DEFINE in == c.body.inputs
             rows == MarkSpent(in, c.now)
  <2>1. /\ c.key \notin DOMAIN idem
        /\ \A i \in DOMAIN in :
             rows[in[i].hash] = SpentRow(entries[in[i].hash], in[i], c.now)
        /\ \A g \in DOMAIN entries \ InputKeys(in) : rows[g] = entries[g]
        /\ DOMAIN entries \subseteq DOMAIN entries'
        /\ \A g \in DOMAIN entries : entries'[g] = rows[g]
    BY <1>6, ExchangeParts
  <2> HIDE DEF rows
  <2>2. CASE h \notin InputKeys(in)
    BY <1>1, <2>1, <2>2
  <2>3. CASE h \in InputKeys(in)
    <3>1. PICK i \in DOMAIN in : in[i].hash = h
      BY <2>3 DEF InputKeys
    <3>2. entries[h] \in Entry
      BY <1>1, Tables
    <3>3. entries'[h] = SpentRow(entries[h], in[i], c.now)
      BY <1>1, <2>1, <3>1
    <3>4. SpentRow(entries[h], in[i], c.now).spent = TRUE
      BY <3>2, SpentFields
    <3>5. entries'[h].spent
      BY <3>3, <3>4
    <3>6. /\ c.key \in DOMAIN idem'
          /\ idem'[c.key].body = c.body
          /\ idem'[c.key].result.status = "ok"
      BY <1>6 DEF Exchange, StoreIdempotency
    <3>7. c.key \in Accepted' \ DOMAIN idem
      BY <2>1, <3>6 DEF Accepted
    <3>8. h \in Inputs(c.key)'
      BY <2>3, <3>6 DEF Inputs
    <3> QED
      BY <1>1, <2>1, <3>5, <3>7, <3>8
  <2> QED
    BY <2>2, <2>3
<1> QED
  BY <1>1, <1>2, <1>3, <1>4, <1>5, <1>6, RowSteps

\* An unspent row stays as it is until an exchange, recorded in the same
\* transaction, spends it: no prune, issue or refused call touches it.
THEOREM UnspentRowsAreKept == Spec => UnspentKept
<1>1. TypeOK /\ [Next]_vars =>
        [\A h \in Unspent :
           /\ h \in DOMAIN entries'
           /\ \/ entries'[h] = entries[h]
              \/ /\ entries'[h].spent
                 /\ \E k \in Accepted' \ DOMAIN idem : h \in Inputs(k)']_vars
  BY StepKeepsUnspent
<1> QED
  BY <1>1, TypeCorrectness, PTL DEF Spec, UnspentKept

-----------------------------------------------------------------------------
\* Spent rows and records.

\* A spent row has the instant of its spend, so that prune's comparison with
\* the cutoff is one of numbers.
SpendsStamped ==
  \A h \in DOMAIN entries : entries[h].spent => entries[h].spent_at \in Nat

LEMMA StepStamped ==
  TypeOK /\ SpendsStamped /\ [Next]_vars => SpendsStamped'
<1> SUFFICES ASSUME TypeOK, SpendsStamped, [Next]_vars,
                    NEW h \in DOMAIN entries', entries'[h].spent
             PROVE  entries'[h].spent_at \in Nat
  BY DEF SpendsStamped
<1>1. ASSUME h \in DOMAIN entries, entries'[h] = entries[h]
      PROVE  entries'[h].spent_at \in Nat
  BY <1>1 DEF SpendsStamped
<1>2. CASE UNCHANGED tables
  BY <1>1, <1>2 DEF tables
<1>3. ASSUME NEW c \in pending, Reject(c)
      PROVE  entries'[h].spent_at \in Nat
  BY <1>1, <1>3 DEF Reject
<1>4. ASSUME NEW c \in pending, Issue(c)
      PROVE  entries'[h].spent_at \in Nat
  BY <1>1, <1>4 DEF Issue, InsertEntries
<1>5. ASSUME NEW c \in pending, Prune(c)
      PROVE  entries'[h].spent_at \in Nat
  BY <1>1, <1>5, PruneRows
<1>6. ASSUME NEW c \in pending, Exchange(c)
      PROVE  entries'[h].spent_at \in Nat
  <2> DEFINE in == c.body.inputs
             rows == MarkSpent(in, c.now)
  <2>1. /\ c.now \in Nat
        /\ \A i \in DOMAIN in :
             rows[in[i].hash] = SpentRow(entries[in[i].hash], in[i], c.now)
        /\ \A g \in DOMAIN entries \ InputKeys(in) : rows[g] = entries[g]
        /\ \A g \in DOMAIN entries : entries'[g] = rows[g]
        /\ \A g \in DOMAIN entries' \ DOMAIN entries : entries'[g].spent = FALSE
    BY <1>6, ExchangeParts
  <2> HIDE DEF rows
  <2>2. h \in DOMAIN entries
    BY <2>1
  <2>3. CASE h \notin InputKeys(in)
    BY <1>1, <2>1, <2>2, <2>3
  <2>4. CASE h \in InputKeys(in)
    <3>1. PICK i \in DOMAIN in : in[i].hash = h
      BY <2>4 DEF InputKeys
    <3>2. entries'[h] = SpentRow(entries[h], in[i], c.now)
      BY <2>1, <2>2, <3>1
    <3>3. SpentRow(entries[h], in[i], c.now).spent_at = c.now
      BY <2>2, Tables, SpentFields
    <3> QED
      BY <2>1, <3>2, <3>3
  <2> QED
    BY <2>3, <2>4
<1> QED
  BY <1>2, <1>3, <1>4, <1>5, <1>6, RowSteps

LEMMA StampedAlways == Spec => []SpendsStamped
<1>1. Init => SpendsStamped
  BY DEF Init, SpendsStamped
<1> QED
  BY <1>1, StepStamped, TypeCorrectness, PTL DEF Spec

\* A spent row is dropped only when the clock is past its retention, and is
\* not changed before.
LEMMA StepKeepsSpent ==
  ASSUME TypeOK, SpendsStamped, [Next]_vars, NEW h \in DOMAIN entries \ Unspent
  PROVE  IF h \in DOMAIN entries' THEN entries'[h] = entries[h]
         ELSE clock > entries[h].spent_at + recovery_window
<1>1. h \in DOMAIN entries /\ entries[h].spent /\ entries[h].spent_at \in Nat
  BY DEF Unspent, SpendsStamped
<1>2. CASE UNCHANGED tables
  BY <1>1, <1>2 DEF tables
<1>3. ASSUME NEW c \in pending, Reject(c)
      PROVE  UNCHANGED entries
  BY <1>3 DEF Reject
<1>4. ASSUME NEW c \in pending, Issue(c)
      PROVE  h \in DOMAIN entries' /\ entries'[h] = entries[h]
  BY <1>1, <1>4, IssueRows
<1>5. ASSUME NEW c \in pending, Prune(c), h \notin DOMAIN entries'
      PROVE  clock > entries[h].spent_at + recovery_window
  <2>1. entries[h].spent_at < c.now - recovery_window
    BY <1>1, <1>5, PruneRows
  <2>2. c.now \in Nat /\ c.now <= clock /\ clock \in Nat
    BY CallType, BoundAssumption DEF TypeOK
  <2> QED
    BY <1>1, <2>1, <2>2, BoundAssumption
<1>6. ASSUME NEW c \in pending, Prune(c), h \in DOMAIN entries'
      PROVE  entries'[h] = entries[h]
  BY <1>6, PruneRows
<1>7. ASSUME NEW c \in pending, Exchange(c)
      PROVE  h \in DOMAIN entries' /\ entries'[h] = entries[h]
  <2> DEFINE in == c.body.inputs
             rows == MarkSpent(in, c.now)
  <2>1. /\ InputKeys(in) \subseteq Unspent
        /\ \A g \in DOMAIN entries \ InputKeys(in) : rows[g] = entries[g]
        /\ DOMAIN entries \subseteq DOMAIN entries'
        /\ \A g \in DOMAIN entries : entries'[g] = rows[g]
    BY <1>7, ExchangeParts
  <2> HIDE DEF rows
  <2> QED
    BY <1>1, <2>1
<1> QED
  BY <1>1, <1>2, <1>3, <1>4, <1>5, <1>6, <1>7, RowSteps

LEMMA StepKeepsRecords ==
  ASSUME TypeOK, [Next]_vars, NEW k \in DOMAIN idem
  PROVE  IF k \in DOMAIN idem' THEN idem'[k] = idem[k]
         ELSE clock > idem[k].created_at + recovery_window
<1>1. CASE UNCHANGED tables
  BY <1>1 DEF tables
<1>2. ASSUME NEW c \in pending, Reject(c) \/ Exchange(c)
      PROVE  k \in DOMAIN idem' /\ idem'[k] = idem[k]
  BY <1>2, StoredRows DEF Reject, Exchange
<1>3. ASSUME NEW c \in pending, Issue(c)
      PROVE  UNCHANGED idem
  BY <1>3 DEF Issue
<1>4. ASSUME NEW c \in pending, Prune(c), k \notin DOMAIN idem'
      PROVE  clock > idem[k].created_at + recovery_window
  <2>1. ~(idem[k].created_at >= c.now - recovery_window)
    BY <1>4, PruneRows
  <2>2. c.now \in Nat /\ c.now <= clock /\ clock \in Nat
    BY CallType, BoundAssumption DEF TypeOK
  <2>3. idem[k] \in Record
    BY Tables
  <2>4. idem[k].created_at \in Nat
    BY <2>3 DEF Record
  <2> QED
    BY <2>1, <2>2, <2>4, BoundAssumption
<1>5. ASSUME NEW c \in pending, Prune(c), k \in DOMAIN idem'
      PROVE  idem'[k] = idem[k]
  BY <1>5, PruneRows
<1> QED
  BY <1>1, <1>2, <1>3, <1>4, <1>5, RowSteps

\* Spent rows and idempotency records are final: none ever changes, and none
\* goes before the clock is more than the recovery window past its instant.
THEOREM RetentionIsHonoured == Spec => KeptForWindow
<1>1. TypeOK /\ SpendsStamped /\ [Next]_vars =>
        [/\ \A h \in DOMAIN entries \ Unspent :
              IF h \in DOMAIN entries' THEN entries'[h] = entries[h]
              ELSE clock > entries[h].spent_at + recovery_window
         /\ \A k \in DOMAIN idem :
              IF k \in DOMAIN idem' THEN idem'[k] = idem[k]
              ELSE clock > idem[k].created_at + recovery_window]_vars
  BY StepKeepsSpent, StepKeepsRecords
<1> QED
  BY <1>1, TypeCorrectness, StampedAlways, PTL DEF Spec, KeptForWindow

-----------------------------------------------------------------------------
\* The record of a funding.

\* What FundingReplayable is about: a mint that publishes a lock horizon no
\* longer than its recovery window, and an operator who issues plain tokens.
WindowCoversLocks ==
  /\ max_lock_expiry # NULL
  /\ max_lock_expiry <= recovery_window
  /\ \A out \in IssueBatches : \A j \in DOMAIN out : out[j].lock = NULL

\* The record k created the locked row h and was within the horizon of it.
Funded(k, h) ==
  /\ h \in OutputKeys(idem[k].body.outputs)
  /\ entries[h].lock.expiry <= idem[k].created_at + max_lock_expiry

\* FundingReplayable alone says nothing about how old the record is, so a
\* prune could take it away: the record's instant has to be tied to the expiry.
FundingCovered ==
  \A h \in DOMAIN entries :
    entries[h].lock # NULL =>
      clock > entries[h].lock.expiry \/ \E k \in Accepted : Funded(k, h)

\* The lock of an accepted output lies within the horizon of the call.
LEMMA AcceptedLock ==
  ASSUME TypeOK, WindowCoversLocks, NEW out \in Seq(OutputSpec), NEW now,
         NEW j \in DOMAIN out, OutputVerdict(out, j, now) = "ok",
         out[j].lock # NULL
  PROVE  out[j].lock.expiry <= now + max_lock_expiry
BY DEF OutputVerdict, WellFormed, WindowCoversLocks

\* A step that keeps the rows, or only drops some, and keeps the records of
\* the locks that have not expired keeps every funding covered.
LEMMA StillCovered ==
  ASSUME TypeOK, FundingCovered, clock' >= clock, clock' \in Nat,
         NEW h \in DOMAIN entries, entries[h].lock # NULL,
         h \in DOMAIN entries', entries'[h].lock = entries[h].lock,
         \A k \in Accepted :
           Funded(k, h) => \/ k \in DOMAIN idem' /\ idem'[k] = idem[k]
                           \/ clock > entries[h].lock.expiry
  PROVE  clock' > entries'[h].lock.expiry \/ \E k \in Accepted' : Funded(k, h)'
<1>1. entries[h].lock.expiry \in Int
  BY Tables DEF Entry, Lock
<1>2. CASE clock > entries[h].lock.expiry
  BY <1>1, <1>2 DEF TypeOK
<1>3. CASE ~(clock > entries[h].lock.expiry)
  <2>1. PICK k \in Accepted : Funded(k, h)
    BY <1>3 DEF FundingCovered
  <2>2. k \in DOMAIN idem' /\ idem'[k] = idem[k]
    BY <1>3, <2>1
  <2>3. k \in Accepted' /\ Funded(k, h)'
    BY <2>1, <2>2 DEF Accepted, Funded
  <2> QED
    BY <2>3
<1> QED
  BY <1>2, <1>3

LEMMA StepCovered ==
  ASSUME WindowCoversLocks
  PROVE  TypeOK /\ FundingCovered /\ [Next]_vars => FundingCovered'
<1> SUFFICES ASSUME TypeOK, FundingCovered, [Next]_vars,
                    NEW h \in DOMAIN entries', entries'[h].lock # NULL
             PROVE  clock' > entries'[h].lock.expiry \/ \E k \in Accepted' : Funded(k, h)'
  BY DEF FundingCovered
<1>1. clock \in Nat /\ clock' \in Nat /\ clock' >= clock
  <2>1. clock \in Nat
    BY BoundAssumption DEF TypeOK
  <2>2. UNCHANGED clock \/ clock' = clock + 1
    BY DEF Next, vars, Tick, ArriveExchange, ArriveIssue, ArrivePrune, Arrive,
           Replay, Reject, Exchange, Issue, RefuseIssue, Prune, Abandon, Finish
  <2> QED
    BY <2>1, <2>2
<1>2. CASE UNCHANGED tables
  BY <1>1, <1>2, StillCovered DEF tables, Accepted
<1>3. ASSUME NEW c \in pending, Reject(c)
      PROVE  clock' > entries'[h].lock.expiry \/ \E k \in Accepted' : Funded(k, h)'
  <2>1. UNCHANGED entries /\ \A k \in DOMAIN idem : k \in DOMAIN idem' /\ idem'[k] = idem[k]
    BY <1>3, StoredRows DEF Reject
  <2> QED
    BY <1>1, <2>1, StillCovered DEF Accepted
<1>4. ASSUME NEW c \in pending, Issue(c)
      PROVE  clock' > entries'[h].lock.expiry \/ \E k \in Accepted' : Funded(k, h)'
  <2>1. CASE h \in DOMAIN entries
    <3>1. UNCHANGED idem /\ entries'[h] = entries[h]
      BY <1>4, <2>1, IssueRows
    <3> QED
      BY <1>1, <2>1, <3>1, StillCovered DEF Accepted
  <2>2. CASE h \notin DOMAIN entries
    <3> DEFINE out == c.outputs
    <3>1. out \in IssueBatches
      BY <1>4 DEF TypeOK, Call, Issue
    <3>2. PICK j \in DOMAIN out : entries'[h].lock = out[j].lock
      BY <1>4, <2>2 DEF Issue, InsertEntries, OutputKeys
    <3> QED
      BY <3>1, <3>2 DEF WindowCoversLocks
  <2> QED
    BY <2>1, <2>2
<1>5. ASSUME NEW c \in pending, Prune(c)
      PROVE  clock' > entries'[h].lock.expiry \/ \E k \in Accepted' : Funded(k, h)'
  <2>1. h \in DOMAIN entries /\ entries'[h] = entries[h]
    BY <1>5, PruneRows
  <2>2. entries[h].lock.expiry \in Int
    BY <2>1, Tables DEF Entry, Lock
  <2>3. ASSUME NEW k \in Accepted, Funded(k, h), k \notin DOMAIN idem'
        PROVE  clock > entries[h].lock.expiry
    <3>1. ~(idem[k].created_at >= c.now - recovery_window)
      BY <1>5, <2>3, PruneRows DEF Accepted
    <3>2. c.now \in Nat /\ c.now <= clock
      BY CallType
    <3>3. idem[k] \in Record
      BY Tables DEF Accepted
    <3>4. idem[k].created_at \in Nat
      BY <3>3 DEF Record
    <3>5. /\ entries[h].lock.expiry <= idem[k].created_at + max_lock_expiry
          /\ max_lock_expiry <= recovery_window
          /\ max_lock_expiry \in Nat /\ recovery_window \in Nat
      BY <2>3, BoundAssumption DEF Funded, WindowCoversLocks
    <3> QED
      BY <1>1, <2>2, <3>1, <3>2, <3>4, <3>5
  <2>4. \A k \in DOMAIN idem' : idem'[k] = idem[k]
    BY <1>5, PruneRows
  <2> QED
    BY <1>1, <2>1, <2>3, <2>4, StillCovered
<1>6. ASSUME NEW c \in pending, Exchange(c)
      PROVE  clock' > entries'[h].lock.expiry \/ \E k \in Accepted' : Funded(k, h)'
  <2> DEFINE in == c.body.inputs
             out == c.body.outputs
             rows == MarkSpent(in, c.now)
  <2>1. /\ c.key \notin DOMAIN idem
        /\ \A i \in DOMAIN in :
             rows[in[i].hash] = SpentRow(entries[in[i].hash], in[i], c.now)
        /\ \A g \in DOMAIN entries \ InputKeys(in) : rows[g] = entries[g]
        /\ \A g \in DOMAIN entries : entries'[g] = rows[g]
    BY <1>6, ExchangeParts
  <2> HIDE DEF rows
  <2>2. \A k \in DOMAIN idem : k \in DOMAIN idem' /\ idem'[k] = idem[k]
    BY <1>6, <2>1, StoredRows DEF Exchange
  <2>3. CASE h \in DOMAIN entries
    <3>1. entries'[h].lock = entries[h].lock
      <4>1. CASE h \notin InputKeys(in)
        BY <2>1, <2>3, <4>1
      <4>2. CASE h \in InputKeys(in)
        <5>1. PICK i \in DOMAIN in : in[i].hash = h
          BY <4>2 DEF InputKeys
        <5>2. entries'[h] = SpentRow(entries[h], in[i], c.now)
          BY <2>1, <2>3, <5>1
        <5>3. SpentRow(entries[h], in[i], c.now).lock = entries[h].lock
          BY <2>3, Tables, SpentFields
        <5> QED
          BY <5>2, <5>3
      <4> QED
        BY <4>1, <4>2
    <3> QED
      BY <1>1, <2>2, <2>3, <3>1, StillCovered DEF Accepted
  <2>4. CASE h \notin DOMAIN entries
    <3>1. c.body \in Bodies /\ c.now \in Nat /\ Failures(c.body, c.now) = {}
      BY <1>6, CallType DEF Exchange
    <3>2. out \in Seq(OutputSpec) /\ \A j \in DOMAIN out : OutputVerdict(out, j, c.now) = "ok"
      BY <3>1, BodyType, AcceptedBatch
    <3>3. PICK j \in DOMAIN out : out[j].hash = h /\ entries'[h].lock = out[j].lock
      <4>1. entries' = InsertEntries(rows, out) /\ DOMAIN rows = DOMAIN entries
        BY <1>6 DEF Exchange, MarkSpent, rows
      <4>2. h \in OutputKeys(out)
        BY <2>4, <4>1 DEF InsertEntries
      <4>3. PICK j \in DOMAIN out : j = CHOOSE i \in DOMAIN out : out[i].hash = h
        BY <4>2 DEF OutputKeys
      <4>4. out[j].hash = h
        BY <4>2, <4>3 DEF OutputKeys
      <4> QED
        BY <2>4, <4>1, <4>2, <4>3, <4>4 DEF InsertEntries
    <3>4. out[j].lock.expiry <= c.now + max_lock_expiry
      <4>1. out[j].lock # NULL
        BY <3>3
      <4>2. OutputVerdict(out, j, c.now) = "ok"
        BY <3>2
      <4> HIDE DEF out
      <4> QED
        BY <3>2, <4>1, <4>2, AcceptedLock
    <3>5. /\ c.key \in DOMAIN idem'
          /\ idem'[c.key].body = c.body
          /\ idem'[c.key].created_at = c.now
          /\ idem'[c.key].result.status = "ok"
      BY <1>6 DEF Exchange, StoreIdempotency
    <3>6. c.key \in Accepted'
      BY <3>5 DEF Accepted
    <3>7. h \in OutputKeys(idem'[c.key].body.outputs)
      BY <3>3, <3>5 DEF OutputKeys
    <3>8. Funded(c.key, h)'
      BY <3>3, <3>4, <3>5, <3>7 DEF Funded
    <3> QED
      BY <3>6, <3>8
  <2> QED
    BY <2>3, <2>4
<1> QED
  BY <1>2, <1>3, <1>4, <1>5, <1>6, RowSteps

\* A funder can retry its exchange until the lock expires and is answered from
\* the table: no prune drops the record before.  It holds of a mint whose
\* recovery window covers its lock horizon, and of locks that were not issued.
THEOREM FundingsCanBeReplayed ==
  ASSUME WindowCoversLocks
  PROVE  Spec => []FundingReplayable
<1>1. Init => FundingCovered
  BY DEF Init, FundingCovered
<1>2. TypeOK /\ FundingCovered /\ [Next]_vars => FundingCovered'
  BY StepCovered
<1>3. TypeOK /\ FundingCovered => FundingReplayable
  <2> SUFFICES ASSUME TypeOK, FundingCovered, NEW h \in DOMAIN entries,
                      entries[h].lock # NULL, clock <= entries[h].lock.expiry
               PROVE  \E k \in Accepted : h \in OutputKeys(idem[k].body.outputs)
    BY DEF FundingReplayable
  <2>1. entries[h].lock.expiry \in Int /\ clock \in Int
    BY Tables DEF Entry, Lock, TypeOK
  <2>2. ~(clock > entries[h].lock.expiry)
    BY <2>1
  <2> QED
    BY <2>2 DEF FundingCovered, Funded
<1> QED
  BY <1>1, <1>2, <1>3, TypeCorrectness, PTL DEF Spec

-----------------------------------------------------------------------------
\* The ledger implements the abstract cash.

\* A total is the same there as here.
LEMMA CashTotal == \A f : Cash!Total(f) = Total(f)
<1>1. \A S : Cash!Cardinality(S) = Cardinality(S)
  BY DEF Cash!Cardinality, Cardinality
<1> QED
  BY <1>1 DEF Cash!Total, Cash!Coins, Total, Coins

\* A step that changes no live coin, nor a counter, is invisible there.
LEMMA InvisibleStep ==
  ASSUME UNCHANGED <<issued, burned>>,
         DOMAIN Live' = DOMAIN Live, \A h \in DOMAIN Live : Live'[h] = Live[h]
  PROVE  UNCHANGED Cash!vars
<1>1. Live' = Live
  BY DEF Live
<1> QED
  BY <1>1 DEF Cash!vars

\* The live coins, key by key.
LEMMA LiveCoins ==
  /\ DOMAIN Live = Unspent
  /\ \A h \in Unspent : Live[h] = entries[h].amount
BY DEF Live

LEMMA LiveCoinsNext ==
  /\ DOMAIN Live' = Unspent'
  /\ \A h \in Unspent' : Live'[h] = entries'[h].amount
BY DEF Live

\* An issue mints its outputs.
LEMMA IssueMints ==
  ASSUME TypeOK, NEW c \in pending, Issue(c)
  PROVE  Cash!Mint
<1> DEFINE out == c.outputs
<1>1. out \in Seq(OutputSpec)
  BY CallType DEF Issue
<1>2. \A j \in DOMAIN out : OutputVerdict(out, j, c.now) = "ok"
  BY DEF Issue, Issuable
<1>3. /\ DOMAIN entries' = DOMAIN entries \cup OutputKeys(out)
      /\ DOMAIN entries \cap OutputKeys(out) = {}
      /\ \A h \in DOMAIN entries : entries'[h] = entries[h]
      /\ \A j \in DOMAIN out : entries'[out[j].hash] = NewRow(out[j])
  <2>1. entries \in [DOMAIN entries -> Entry]
    BY Tables
  <2>2. entries' = InsertEntries(entries, out)
    BY DEF Issue
  <2> HIDE DEF out
  <2> QED
    BY <1>1, <1>2, <2>1, <2>2, InsertedRows
<1>4. \A j \in DOMAIN out :
        entries'[out[j].hash].spent = FALSE /\ entries'[out[j].hash].amount = out[j].amount
  <2>1. \A o : NewRow(o).spent = FALSE /\ NewRow(o).amount = o.amount
    BY DEF NewRow
  <2> QED
    BY <1>3, <2>1, Zenon
<1>5. \A h \in OutputKeys(out) : ~entries'[h].spent
  BY <1>4 DEF OutputKeys
<1>6. Unspent' = Unspent \cup OutputKeys(out) /\ Unspent \cap OutputKeys(out) = {}
  BY <1>3, <1>5 DEF Unspent
<1>7. Cash!Consumed = {} /\ Cash!Created = OutputKeys(out)
  BY <1>6, LiveCoins, LiveCoinsNext DEF Cash!Consumed, Cash!Created
<1>8. Cash!OthersKept
  <2>1. \A h \in Unspent : h \in Unspent' /\ entries'[h] = entries[h]
    BY <1>3, <1>6 DEF Unspent
  <2> QED
    BY <2>1, LiveCoins, LiveCoinsNext DEF Cash!OthersKept
<1>9. Cash!Value(Live', Cash!Created) = Total(Amounts(out))
  <2>1. \A j \in DOMAIN out : Live'[out[j].hash] = out[j].amount
    BY <1>4, <1>6, LiveCoinsNext DEF OutputKeys
  <2>2. PICK live : live = Live'
    OBVIOUS
  <2>3. \A j \in DOMAIN out : live[out[j].hash] = out[j].amount
    BY <2>1, <2>2
  <2> HIDE DEF out
  <2>4. Total([h \in OutputKeys(out) |-> live[h]]) = Total(Amounts(out))
    BY <1>1, <1>2, <2>3, OutputValue
  <2> QED
    BY <1>7, <2>2, <2>4, CashTotal DEF Cash!Value
<1> QED
  BY <1>7, <1>8, <1>9 DEF Cash!Mint, Issue

\* An exchange transfers the value of its inputs to its outputs and the burn.
LEMMA ExchangeTransfers ==
  ASSUME TypeOK, NEW c \in pending, Exchange(c)
  PROVE  Cash!Transfer
<1> DEFINE in == c.body.inputs
           out == c.body.outputs
           rows == MarkSpent(in, c.now)
<1>1. c.body \in Bodies /\ c.now \in Nat /\ Failures(c.body, c.now) = {}
  BY CallType DEF Exchange
<1>2. in \in Seq(Form) /\ out \in Seq(OutputSpec)
  BY <1>1, BodyType
<1>3. /\ \A i \in DOMAIN in : InputVerdict(in, i, c.now) = "ok"
      /\ \A j \in DOMAIN out : OutputVerdict(out, j, c.now) = "ok"
      /\ Conserves(c.body, c.now)
  BY <1>1, AcceptedBatch
<1>4. /\ rows \in [DOMAIN entries -> Entry]
      /\ InputKeys(in) \subseteq Unspent
      /\ \A i \in DOMAIN in :
           rows[in[i].hash] = SpentRow(entries[in[i].hash], in[i], c.now)
      /\ \A h \in DOMAIN entries \ InputKeys(in) : rows[h] = entries[h]
  BY <1>1, <1>2, <1>3, MarkSpentRows
<1>5. entries' = InsertEntries(rows, out)
  BY DEF Exchange
<1> HIDE DEF rows
<1>6. /\ DOMAIN entries' = DOMAIN entries \cup OutputKeys(out)
      /\ DOMAIN entries' \subseteq Hash
      /\ DOMAIN entries \cap OutputKeys(out) = {}
      /\ \A h \in DOMAIN entries : entries'[h] = rows[h]
      /\ \A j \in DOMAIN out : entries'[out[j].hash] = NewRow(out[j])
  <2>1. \A j \in DOMAIN out : OutputVerdict(out, j, c.now) = "ok"
    BY <1>3
  <2>2. out \in Seq(OutputSpec)
    BY <1>2
  <2> HIDE DEF out
  <2> QED
    BY <1>4, <1>5, <2>1, <2>2, InsertedRows
<1>7. \A j \in DOMAIN out :
        entries'[out[j].hash].spent = FALSE /\ entries'[out[j].hash].amount = out[j].amount
  <2>1. \A o : NewRow(o).spent = FALSE /\ NewRow(o).amount = o.amount
    BY DEF NewRow
  <2> QED
    BY <1>6, <2>1, Zenon
<1>8. \A h \in OutputKeys(out) : ~entries'[h].spent
  BY <1>7 DEF OutputKeys
<1>9. ASSUME NEW h \in InputKeys(in) PROVE h \in DOMAIN entries' /\ entries'[h].spent
  <2>1. PICK i \in DOMAIN in : in[i].hash = h
    BY DEF InputKeys
  <2>2. h \in DOMAIN entries
    BY <1>4 DEF Unspent
  <2>3. entries'[h] = SpentRow(entries[h], in[i], c.now)
    BY <1>4, <1>6, <2>1, <2>2
  <2>4. SpentRow(entries[h], in[i], c.now).spent = TRUE
    BY <2>2, Tables, SpentFields
  <2> QED
    BY <1>6, <2>2, <2>3, <2>4
<1>10. /\ Unspent' = (Unspent \ InputKeys(in)) \cup OutputKeys(out)
       /\ Unspent \cap OutputKeys(out) = {}
       /\ InputKeys(in) \cap OutputKeys(out) = {}
  <2>1. \A h \in DOMAIN entries \ InputKeys(in) : entries'[h] = entries[h]
    BY <1>4, <1>6
  <2> QED
    BY <1>4, <1>6, <1>8, <1>9, <2>1 DEF Unspent
<1>11. Cash!Consumed = InputKeys(in) /\ Cash!Created = OutputKeys(out)
  BY <1>4, <1>10, LiveCoins, LiveCoinsNext DEF Cash!Consumed, Cash!Created
<1>12. Cash!OthersKept
  <2>1. \A h \in Unspent \cap Unspent' : entries'[h] = entries[h]
    BY <1>4, <1>6, <1>10 DEF Unspent
  <2> QED
    BY <2>1, LiveCoins, LiveCoinsNext DEF Cash!OthersKept
<1>13. Cash!Value(Live', Cash!Created) = Total(Amounts(out))
  <2>1. \A j \in DOMAIN out : Live'[out[j].hash] = out[j].amount
    BY <1>7, <1>10, LiveCoinsNext DEF OutputKeys
  <2>2. PICK live : live = Live'
    OBVIOUS
  <2>3. \A j \in DOMAIN out : live[out[j].hash] = out[j].amount
    BY <2>1, <2>2
  <2>4. out \in Seq(OutputSpec) /\ \A j \in DOMAIN out : OutputVerdict(out, j, c.now) = "ok"
    BY <1>2, <1>3
  <2> HIDE DEF out
  <2>5. Total([h \in OutputKeys(out) |-> live[h]]) = Total(Amounts(out))
    BY <2>3, <2>4, OutputValue
  <2> QED
    BY <1>11, <2>2, <2>5, CashTotal DEF Cash!Value
<1>14. Cash!Value(Live, Cash!Consumed) = Total(InputAmounts(in))
  <2>1. \A h \in InputKeys(in) : Live[h] = entries[h].amount
    BY <1>4, LiveCoins
  <2>2. in \in Seq(Form) /\ \A i \in DOMAIN in : InputVerdict(in, i, c.now) = "ok"
    BY <1>2, <1>3
  <2> HIDE DEF in
  <2>3. Total([h \in InputKeys(in) |-> Live[h]]) = Total(InputAmounts(in))
    BY <1>1, <2>1, <2>2, InputValue
  <2> QED
    BY <1>11, <2>3, CashTotal DEF Cash!Value
<1>15. /\ burned' = burned + Burn(in, c.now) /\ UNCHANGED issued
       /\ burned \in Nat /\ Burn(in, c.now) \in Nat
  BY <1>1, AcceptedBurn DEF Exchange, TypeOK
<1>16. Total(InputAmounts(in)) = Total(Amounts(out)) + Burn(in, c.now)
  BY <1>3 DEF Conserves
<1>17. burned' - burned = Burn(in, c.now) /\ burned' >= burned
  BY <1>15
<1>18. Cash!Created \subseteq Hash
  BY <1>6, <1>11
<1> QED
  BY <1>12, <1>13, <1>14, <1>15, <1>16, <1>17, <1>18 DEF Cash!Transfer

LEMMA StepIsCash == TypeOK /\ [Next]_vars => [Cash!Next]_Cash!vars
<1> SUFFICES ASSUME TypeOK, [Next]_vars PROVE Cash!Next \/ UNCHANGED Cash!vars
  OBVIOUS
<1>1. CASE UNCHANGED tables
  BY <1>1 DEF tables, Cash!vars, Live, Unspent
<1>2. ASSUME NEW c \in pending, Reject(c)
      PROVE  UNCHANGED Cash!vars
  BY <1>2 DEF Reject, Cash!vars, Live, Unspent
<1>3. ASSUME NEW c \in pending, Prune(c)
      PROVE  UNCHANGED Cash!vars
  <2>1. UNCHANGED <<issued, burned>>
    BY <1>3 DEF Prune
  <2>2. Unspent' = Unspent /\ \A h \in Unspent : entries'[h] = entries[h]
    BY <1>3, PruneRows DEF Unspent
  <2> QED
    BY <2>1, <2>2, LiveCoins, LiveCoinsNext, InvisibleStep
<1> QED
  BY <1>1, <1>2, <1>3, RowSteps, IssueMints, ExchangeTransfers DEF Cash!Next

\* The ledger, with its calls, locks, retries and prunes, is an implementation
\* of BearerCash: every step is one whole mint, one whole transfer that
\* conserves value, or invisible to whoever only looks at the live coins.
THEOREM LedgerImplementsCash == Spec => CashSpec
<1>1. Init => Cash!Init
  BY DEF Init, Cash!Init, Live, Unspent
<1> QED
  BY <1>1, StepIsCash, TypeCorrectness, PTL DEF Spec, CashSpec, Cash!Spec
=============================================================================
