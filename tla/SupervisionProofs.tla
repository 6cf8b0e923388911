-------------------------- MODULE SupervisionProofs -------------------------
(***************************************************************************)
(* Theorems about the bridge (Supervision), for every fleet, set of tokens *)
(* and schedule of crashes: custody rows are real coins, no coin of the    *)
(* mint is out of its reach, statements stay true, and caps, freezes and   *)
(* the perimeter bind what a withdrawal debits although it was checked two *)
(* transactions and perhaps a restart earlier.  Last, that it implements   *)
(* CustodialCash.                                                          *)
(*                                                                         *)
(* All of them are of runs in which no transaction raises: the mint serves *)
(* on with a record left staged then, and none of them holds.  That no     *)
(* transaction raises is a hypothesis of each theorem.                     *)
(***************************************************************************)
EXTENDS AccountsProofs

NoneRaises == MaxFailures = 0

-----------------------------------------------------------------------------
(***************************************************************************)
(* What a staged record rests on, until it is settled.                     *)
(***************************************************************************)
\* The ledger shows which way the record will go.
Outcome(op) ==
  /\ Committed(op) =>
       /\ op.key # NULL => Unspent(op.key) /\ ledger[op.key].amount = Change(op)
       /\ \A h \in Reserved(op) : ~Unspent(h)
  /\ ~Committed(op) =>
       /\ op.key # NULL => ~Known(op.key)
       /\ \A h \in Reserved(op) : Unspent(h) /\ ledger[h].amount = custody[h].amount

\* Which of the record's coins only the mint can spend.
Secrets(op) ==
  /\ op.kind = "deposit" => op.probe = op.key
  /\ op.kind = "withdraw" => op.probe \in Reserved(op)
  /\ \A c \in op.outputs : c.hash \in CustodyKey => c.hash = op.key /\ c.amount = Change(op)
  /\ op.key # NULL => op.key \in Keys(op.outputs)
  /\ \A c \in op.inputs : c.hash \in CustodyKey => op.kind = "withdraw"

\* What was checked when the record was staged is still so.
Permitted(op) ==
  op.kind = "withdraw" =>
    /\ agents[op.agent].balance_mc >= op.total + op.burn
    /\ ~agents[op.agent].frozen
    /\ ~agents[op.agent].no_bearer_withdrawal
    /\ ~CapViolation(op.agent, op.total + op.burn, op.t)

\* Every statement is of a period that ended before the record was staged.
StatedBefore(op) == \A s \in statements : s.to < op.t

Stands(op) == Outcome(op) /\ Secrets(op) /\ Permitted(op) /\ StatedBefore(op)

\* One record at a time, and none while the books can change.
Alone ==
  /\ failures = 0
  /\ \A p, q \in staged : p = q
  /\ Serving => staged = {}
  /\ running # Idle =>
       /\ running \in [op : staged, phase : {"exchange", "finalize", "unwind"}]
       /\ running.phase = "finalize" <=> Committed(running.op)

Stated ==
  \A s \in statements : s.to \in Time /\ s.to < clock /\ s.agent \in DOMAIN agents

Settling == Alone /\ Stated /\ \A op \in staged : Stands(op)

Solvent == \A a \in DOMAIN agents : agents[a].balance_mc >= 0

Sound == Solvent /\ CustodyReal /\ NoMoneyLost /\ StatementsFinal

-----------------------------------------------------------------------------
\* What a step may leave alone.

SameEntries ==
  \A h \in CustodyKey : /\ h \in DOMAIN ledger' <=> h \in DOMAIN ledger
                        /\ h \in DOMAIN ledger => ledger'[h] = ledger[h]

LEMMA TouchedKeys ==
  ASSUME RowsOK(custody), NEW op, StagedOp(op), NEW h \in Touched(op)
  PROVE  h \in CustodyKey
BY TouchedRows DEF RowsOK

\* The queries, in the next state.
LEMMA QueriesNext ==
  /\ \A a, T : Credits(a, T)' = CreditsOf(journal', a, T)
  /\ \A a, T : Debits(a, T)' = DebitsOf(journal', a, T)
  /\ \A a, T : BalanceFromLines(a, T)' = CreditsOf(journal', a, T) - DebitsOf(journal', a, T)
BY Zenon DEF Credits, Debits, BalanceFromLines, Sum, CreditsOf, DebitsOf, SumOf

\* The same lines give the same answers.
LEMMA SameQueries ==
  ASSUME journal' = journal
  PROVE  /\ \A a, T : Debits(a, T)' = Debits(a, T)
         /\ \A a, T : BalanceFromLines(a, T)' = BalanceFromLines(a, T)
         /\ agents' = agents =>
              \A a, n, t : CapViolation(a, n, t)' <=> CapViolation(a, n, t)
<1>1. \A a, T : DebitsOf(journal', a, T) = DebitsOf(journal, a, T)
  BY Zenon
<1>2. \A a, T : CreditsOf(journal', a, T) = CreditsOf(journal, a, T)
  BY Zenon
<1>3. \A a, T : Debits(a, T)' = Debits(a, T)
  BY <1>1, QueriesNext, QueriesAreSums
<1>4. \A a, T : BalanceFromLines(a, T)' = BalanceFromLines(a, T)
  BY <1>1, <1>2, QueriesNext, QueriesAreSums
<1>5. ASSUME agents' = agents, NEW a, NEW n, NEW t
      PROVE  CapViolation(a, n, t)' <=> CapViolation(a, n, t)
  BY <1>3, <1>5, Zenon DEF CapViolation, DebitsSince
<1> QED
  BY <1>3, <1>4, <1>5

\* A committed record is so for the entries of the mint's own keys alone.
LEMMA SameOutcome ==
  ASSUME RowsOK(custody), NEW op, StagedOp(op), Secrets(op), SameEntries
  PROVE  Committed(op)' <=> Committed(op)
<1>1. op.probe \in Touched(op)
  BY DEF Secrets, Touched, StagedOp
<1>2. op.probe \in CustodyKey
  BY <1>1, TouchedKeys
<1>3. Known(op.probe)' <=> Known(op.probe)
  BY <1>2 DEF SameEntries, Known
<1>4. Known(op.probe) => (Unspent(op.probe)' <=> Unspent(op.probe))
  BY <1>2 DEF SameEntries, Known, Unspent
<1> QED
  BY <1>3, <1>4 DEF Committed

\* A record stands while nothing it rests on changes.
LEMMA StandsKept ==
  ASSUME RowsOK(custody), NEW op, StagedOp(op), Stands(op), SameEntries,
         custody' = custody, agents' = agents, journal' = journal, statements' = statements
  PROVE  Stands(op)'
<1>1. Committed(op)' <=> Committed(op)
  BY SameOutcome DEF Stands
<1>2. Reserved(op)' = Reserved(op)
  BY DEF Reserved, Keys
<1>3. Change(op)' = Change(op)
  BY DEF Change
<1>4. \A h \in Touched(op) : /\ Known(h)' <=> Known(h)
                             /\ Unspent(h)' <=> Unspent(h)
                             /\ Known(h) => ledger'[h] = ledger[h]
  BY TouchedKeys DEF SameEntries, Known, Unspent
<1>5. Outcome(op)'
  <2>1. op.key # NULL => op.key \in Touched(op)
    BY DEF Touched
  <2>2. Reserved(op) \subseteq Touched(op)
    BY DEF Touched
  <2>3. \A h : Unspent(h) => Known(h)
    BY DEF Unspent
  <2>4. Outcome(op)
    BY DEF Stands
  <2>5. ASSUME Committed(op)
        PROVE  /\ op.key # NULL => Unspent(op.key)' /\ ledger'[op.key].amount = Change(op)'
               /\ \A h \in Reserved(op)' : ~Unspent(h)'
    BY <1>2, <1>3, <1>4, <2>1, <2>2, <2>3, <2>4, <2>5 DEF Outcome
  <2>6. ASSUME ~Committed(op)
        PROVE  /\ op.key # NULL => ~Known(op.key)'
               /\ \A h \in Reserved(op)' : Unspent(h)' /\ ledger'[h].amount = custody'[h].amount
    BY <1>2, <1>3, <1>4, <2>1, <2>2, <2>3, <2>4, <2>6 DEF Outcome
  <2> QED
    BY <1>1, <2>5, <2>6, Zenon DEF Outcome
<1>6. Secrets(op)'
  <2>1. Keys(op.outputs)' = Keys(op.outputs)
    BY DEF Keys
  <2> QED
    BY <1>2, <1>3, <2>1 DEF Stands, Secrets
<1>7. Permitted(op)'
  <2>1. \A a, n, t : CapViolation(a, n, t)' <=> CapViolation(a, n, t)
    BY SameQueries
  <2>2. CapViolation(op.agent, op.total + op.burn, op.t)'
          <=> CapViolation(op.agent, op.total + op.burn, op.t)
    BY <2>1
  <2> QED
    BY <2>2 DEF Stands, Permitted
<1>8. StatedBefore(op)'
  BY DEF Stands, StatedBefore
<1> QED
  BY <1>5, <1>6, <1>7, <1>8 DEF Stands
-----------------------------------------------------------------------------
\* Steps that leave the books, the custody table and the records alone.

SameCoins ==
  \A h \in CustodyKey : /\ Unspent(h)' <=> Unspent(h)
                        /\ Unspent(h) => ledger'[h] = ledger[h]

LEMMA EntriesAreCoins == SameEntries => SameCoins
BY DEF SameEntries, SameCoins, Known, Unspent

\* What is claimed of the custody table stands with it.
LEMMA RealKept ==
  ASSUME RowsOK(custody), CustodyReal, NoMoneyLost, SameCoins,
         custody' = custody, staged' = staged
  PROVE  CustodyReal' /\ NoMoneyLost'
<1>1. \A h \in CustodyKey : /\ Unspent(h)' <=> Unspent(h)
                            /\ Unspent(h) => ledger'[h] = ledger[h]
  BY DEF SameCoins
<1>2. InState("unspent")' = InState("unspent") /\ InState("unspent") \subseteq CustodyKey
  BY DEF InState, RowsOK
<1>3. CustodyReal'
  BY <1>1, <1>2 DEF CustodyReal
<1>4. NoMoneyLost'
  <2> SUFFICES ASSUME NEW h \in DOMAIN ledger' \cap CustodyKey, Unspent(h)'
               PROVE  /\ h \in DOMAIN custody'
                      /\ custody'[h].amount = ledger'[h].amount
                      /\ \/ custody'[h].state = "unspent"
                         \/ \E op \in staged' : h \in Keys(op.inputs \cup op.outputs)'
    BY DEF NoMoneyLost
  <2>1. h \in DOMAIN ledger \cap CustodyKey /\ Unspent(h) /\ ledger'[h] = ledger[h]
    BY <1>1 DEF Unspent, Known
  <2>2. /\ h \in DOMAIN custody
        /\ custody[h].amount = ledger[h].amount
        /\ \/ custody[h].state = "unspent"
           \/ \E op \in staged : h \in Keys(op.inputs \cup op.outputs)
    BY <2>1 DEF NoMoneyLost
  <2> QED
    BY <2>1, <2>2 DEF Keys
<1> QED
  BY <1>3, <1>4

\* What is claimed of balances and statements stands with the books.
LEMMA BooksKept ==
  ASSUME Solvent, StatementsFinal, UNCHANGED <<agents, journal, statements>>
  PROVE  Solvent' /\ StatementsFinal'
<1>1. \A a, T : BalanceFromLines(a, T)' = BalanceFromLines(a, T)
  BY SameQueries
<1>2. \A s \in statements : BalanceFromLines(s.agent, 0..s.to)' = BalanceFromLines(s.agent, 0..s.to)
  BY <1>1
<1>3. StatementsFinal'
  BY <1>2 DEF StatementsFinal
<1> QED
  BY <1>3 DEF Solvent

LEMMA IdleSettling ==
  ASSUME Booked, Settling, Sound, SameEntries,
         UNCHANGED <<books, custody, staged, failures>>, clock' \in Nat, clock <= clock',
         Serving' => staged = {},
         running' # Idle =>
           /\ running # Idle
           /\ running' \in [op : staged, phase : {"exchange", "finalize", "unwind"}]
           /\ running'.op = running.op
           /\ running'.phase = "finalize" <=> running.phase = "finalize"
  PROVE  Settling' /\ Sound'
<1>1. /\ agents' = agents /\ journal' = journal /\ statements' = statements
      /\ custody' = custody /\ staged' = staged /\ failures' = failures
      /\ RowsOK(custody) /\ clock \in Nat
  BY WindowAssumption DEF books, Booked, BooksTypeOK, Time
<1>2. \A op \in staged : StagedOp(op) /\ Stands(op)
  BY DEF Booked, Settling
<1>3. \A op \in staged' : Stands(op)'
  BY <1>1, <1>2, StandsKept
<1>4. \A op \in staged : Committed(op)' <=> Committed(op)
  BY <1>1, <1>2, SameOutcome DEF Stands
<1>5. Stated'
  <2> SUFFICES ASSUME NEW s \in statements
               PROVE  s.to \in Time /\ s.to < clock' /\ s.agent \in DOMAIN agents'
    BY <1>1 DEF Stated
  <2>1. s.to \in Time /\ s.to < clock /\ s.agent \in DOMAIN agents
    BY DEF Settling, Stated
  <2>2. s.to \in Nat
    BY <2>1, WindowAssumption DEF Time
  <2> QED
    BY <1>1, <2>1, <2>2
<1>6. Alone'
  <2>1. Alone
    BY DEF Settling
  <2>2. failures' = 0 /\ (\A p, q \in staged' : p = q) /\ (Serving' => staged' = {})
    BY <1>1, <2>1 DEF Alone
  <2>3. ASSUME running' # Idle
        PROVE  /\ running' \in [op : staged', phase : {"exchange", "finalize", "unwind"}]
               /\ running'.phase = "finalize" <=> Committed(running.op)'
    <3>1. running.op \in staged /\ (running.phase = "finalize" <=> Committed(running.op))
      BY <2>1, <2>3 DEF Alone, Booked
    <3>2. PICK op \in staged : op = running.op
      BY <3>1
    <3>3. running'.op = op
      BY <2>3, <3>2
    <3>4. running.phase = "finalize" <=> Committed(op)
      BY <3>1, <3>2
    <3>5. running'.phase = "finalize" <=> Committed(op)'
      BY <1>4, <2>3, <3>4
    <3>6. Committed(running.op)' <=> Committed(op)'
      BY <3>3, Zenon DEF Committed, Known, Unspent
    <3> QED
      BY <1>1, <2>3, <3>5, <3>6
  <2> QED
    BY <2>2, <2>3 DEF Alone
<1>7. Sound'
  BY <1>1, EntriesAreCoins, RealKept, BooksKept DEF Sound
<1> QED
  BY <1>3, <1>5, <1>6, <1>7 DEF Settling
\* A refused exchange leaves the record for its handler to unwind.
LEMMA RejectedStep ==
  ASSUME Booked, Settling, Sound, ExchangeRejected
  PROVE  Settling' /\ Sound'
<1>1. /\ running # Idle /\ running.phase = "exchange"
      /\ running' = [running EXCEPT !.phase = "unwind"]
      /\ UNCHANGED <<books, custody, staged, failures>> /\ clock' = clock /\ ledger' = ledger
      /\ clock \in Nat
  BY WindowAssumption DEF ExchangeRejected, Booked, BooksTypeOK, Time
<1>2. running \in [op : staged, phase : {"exchange", "finalize", "unwind"}]
  BY <1>1 DEF Settling, Alone
<1>3. /\ running' \in [op : staged, phase : {"exchange", "finalize", "unwind"}]
      /\ running'.op = running.op /\ running'.phase = "unwind"
  BY <1>1, <1>2
<1>4. ~Serving'
  BY <1>3 DEF Serving, Idle
<1> QED
  BY <1>1, <1>3, <1>4, IdleSettling DEF SameEntries
\* The process stops or comes up again, time passes, nothing happens.
LEMMA ProcessStep ==
  ASSUME Booked, Settling, Sound, Crash \/ Restart \/ Recovered \/ Tick \/ UNCHANGED vars
  PROVE  Settling' /\ Sound'
<1>1. /\ UNCHANGED <<books, custody, staged, failures>> /\ ledger' = ledger
      /\ running' = Idle \/ running' = running
  BY DEF Crash, Restart, Recovered, Tick, vars, bridge
<1>2. clock' \in Nat /\ clock <= clock'
  <2>1. clock \in Nat
    BY WindowAssumption DEF Booked, BooksTypeOK, Time
  <2>2. clock' = clock \/ clock' = clock + 1
    BY DEF Crash, Restart, Recovered, Tick, vars
  <2> QED
    BY <2>1, <2>2
<1>3. Serving' => staged = {}
  <2> SUFFICES ASSUME Serving' PROVE staged = {}
    OBVIOUS
  <2>1. mode' = "up" /\ running' = Idle
    BY DEF Serving
  <2>2. CASE Crash \/ Restart
    BY <2>1, <2>2 DEF Crash, Restart
  <2>3. CASE Recovered
    BY <2>3 DEF Recovered
  <2>4. CASE Tick \/ UNCHANGED vars
    <3>1. Serving
      BY <2>1, <2>4 DEF Tick, vars, bridge, Serving
    <3> QED
      BY <3>1 DEF Settling, Alone
  <2> QED
    BY <2>2, <2>3, <2>4
<1>4. ASSUME running' # Idle
      PROVE  /\ running # Idle
             /\ running' \in [op : staged, phase : {"exchange", "finalize", "unwind"}]
             /\ running'.op = running.op
             /\ running'.phase = "finalize" <=> running.phase = "finalize"
  <2>1. running' = running
    BY <1>1, <1>4
  <2> QED
    BY <1>4, <2>1 DEF Settling, Alone
<1> QED
  BY <1>1, <1>2, <1>3, <1>4, IdleSettling DEF SameEntries

\* Agents spend tokens of their own, which are nothing to the mint's.
LEMMA BearerStep ==
  ASSUME Booked, Settling, Sound, NEW k \in DOMAIN ledger, BearerSpend(k)
  PROVE  Settling' /\ Sound'
<1>1. /\ UNCHANGED <<books, custody, staged, failures>> /\ running' = running
      /\ k \notin CustodyKey /\ ledger' = [ledger EXCEPT ![k].spent_at = clock]
      /\ mode' = mode /\ clock' = clock
  BY DEF BearerSpend, bridge
<1>2. SameEntries
  BY <1>1 DEF SameEntries
<1>3. clock' \in Nat /\ clock <= clock'
  BY <1>1, WindowAssumption DEF Booked, BooksTypeOK, Time
<1>4. Serving' => staged = {}
  BY <1>1 DEF Serving, Settling, Alone
<1>5. ASSUME running' # Idle
      PROVE  /\ running # Idle
             /\ running' \in [op : staged, phase : {"exchange", "finalize", "unwind"}]
             /\ running'.op = running.op
             /\ running'.phase = "finalize" <=> running.phase = "finalize"
  BY <1>1, <1>5 DEF Settling, Alone
<1> QED
  BY <1>1, <1>2, <1>3, <1>4, <1>5, IdleSettling

\* Nothing is staged when a prune runs, and it takes no live entry.
LEMMA PruneStep ==
  ASSUME Booked, Settling, Sound, Prune
  PROVE  Settling' /\ Sound'
<1>1. PICK old : /\ old = {h \in DOMAIN ledger : ~Unspent(h) /\
                             ledger[h].spent_at < clock - recovery_window}
                 /\ ledger' = [h \in DOMAIN ledger \ old |-> ledger[h]]
  BY Zenon DEF Prune
<1>2. /\ UNCHANGED <<custody, staged, failures, agents, journal, statements>>
      /\ running' = running /\ clock' = clock /\ mode' = mode /\ Serving
  BY DEF Prune, bridge, books
<1>3. SameCoins
  BY <1>1 DEF SameCoins, Unspent, Known
<1>4. staged = {} /\ running = Idle
  BY <1>2 DEF Settling, Alone, Serving
<1>5. Settling'
  BY <1>2, <1>4 DEF Settling, Alone, Stated
<1>6. RowsOK(custody)
  BY DEF Booked
<1> QED
  BY <1>2, <1>3, <1>5, <1>6, RealKept, BooksKept DEF Sound
-----------------------------------------------------------------------------
\* The exchange.

\* What an accepted exchange makes of the entries.
LEMMA ExchangedEntries ==
  ASSUME LedgerOK, NEW ins, NEW outs, Accepts(ins, outs),
         ledger' = Exchanged(ins, outs), clock \in Nat
  PROVE  /\ \A h \in Keys(ins) : Unspent(h) /\ Known(h)' /\ ~Unspent(h)'
         /\ \A h : h \notin Keys(ins) /\ Known(h) => Known(h)' /\ ledger'[h] = ledger[h]
         /\ \A c \in outs : ~Known(c.hash) /\ Unspent(c.hash)'
                            /\ ledger'[c.hash].amount = c.amount
         /\ \A h : Known(h)' /\ ~Known(h) => h \in Keys(outs)
<1>1. ledger' = [h \in DOMAIN ledger \cup Keys(outs) |->
        IF h \in Keys(ins) THEN [ledger[h] EXCEPT !.spent_at = clock]
        ELSE IF Known(h) THEN ledger[h]
        ELSE [amount |-> (CHOOSE c \in outs : c.hash = h).amount, spent_at |-> NULL]]
  BY Zenon DEF Exchanged
<1>2. \A h \in Keys(ins) : Unspent(h)
  BY DEF Accepts, Keys
<1>3. ASSUME NEW h \in Keys(ins) PROVE Known(h)' /\ ~Unspent(h)'
  <2>1. h \in DOMAIN ledger
    BY <1>2 DEF Unspent, Known
  <2>2. ledger'[h] = [ledger[h] EXCEPT !.spent_at = clock] /\ h \in DOMAIN ledger'
    BY <1>1, <2>1
  <2>3. ledger[h] \in [amount : Nat, spent_at : 0..clock \cup {NULL}]
    BY <2>1 DEF LedgerOK
  <2>4. ledger'[h].spent_at = clock
    BY <2>2, <2>3
  <2>5. clock # NULL
    BY FleetAssumption
  <2> QED
    BY <2>2, <2>4, <2>5 DEF Unspent, Known
<1>4. \A h : h \notin Keys(ins) /\ Known(h) => Known(h)' /\ ledger'[h] = ledger[h]
  BY <1>1 DEF Known
<1>5. ASSUME NEW c \in outs
      PROVE  ~Known(c.hash) /\ Unspent(c.hash)' /\ ledger'[c.hash].amount = c.amount
  <2>1. ~Known(c.hash)
    BY DEF Accepts
  <2>2. c.hash \notin Keys(ins) /\ c.hash \in Keys(outs)
    BY <1>2, <2>1 DEF Unspent, Keys
  <2>3. (CHOOSE d \in outs : d.hash = c.hash) = c
    <3>1. \A d \in outs : d.hash = c.hash => d = c
      BY DEF Accepts
    <3> QED
      BY <3>1
  <2>4. /\ c.hash \in DOMAIN ledger'
        /\ ledger'[c.hash] = [amount |-> (CHOOSE d \in outs : d.hash = c.hash).amount,
                              spent_at |-> NULL]
    BY <1>1, <2>1, <2>2
  <2>5. ledger'[c.hash] = [amount |-> c.amount, spent_at |-> NULL]
    BY <2>3, <2>4
  <2> QED
    BY <2>1, <2>4, <2>5 DEF Unspent, Known
<1>6. \A h : Known(h)' /\ ~Known(h) => h \in Keys(outs)
  BY <1>1 DEF Known
<1> QED
  BY <1>2, <1>3, <1>4, <1>5, <1>6

\* The exchange commits the record it was called for, and no other coin of
\* the mint's is touched.
LEMMA CommitsStep ==
  ASSUME Booked, Settling, Sound, ExchangeCommits
  PROVE  Settling' /\ Sound'
<1>1. PICK op \in staged : op = running.op
  BY DEF ExchangeCommits, Booked
<1>2. /\ running # Idle /\ running.phase = "exchange"
      /\ Accepts(op.inputs, op.outputs) /\ ledger' = Exchanged(op.inputs, op.outputs)
      /\ running' = [running EXCEPT !.phase = "finalize"]
  BY <1>1 DEF ExchangeCommits
<1>3. /\ agents' = agents /\ journal' = journal /\ statements' = statements
      /\ custody' = custody /\ staged' = staged /\ failures' = failures
      /\ clock' = clock /\ clock \in Nat
  BY WindowAssumption DEF ExchangeCommits, books, Booked, BooksTypeOK, Time
<1>4. /\ running \in [op : staged, phase : {"exchange", "finalize", "unwind"}]
      /\ running.phase = "finalize" <=> Committed(running.op)
      /\ \A p \in staged : p = op
  BY <1>1, <1>2 DEF Settling, Alone
<1>5. ~Committed(op)
  BY <1>1, <1>2, <1>4
<1>6. StagedOp(op) /\ RowsOK(custody) /\ LedgerOK
  BY DEF Booked
<1>7. Outcome(op) /\ Secrets(op) /\ Permitted(op) /\ StatedBefore(op)
  BY DEF Settling, Stands
<1>8. /\ op.key # NULL => ~Known(op.key)
      /\ \A h \in Reserved(op) : Unspent(h) /\ ledger[h].amount = custody[h].amount
  BY <1>5, <1>7 DEF Outcome
<1>9. /\ \A h \in Keys(op.inputs) : Unspent(h) /\ Known(h)' /\ ~Unspent(h)'
      /\ \A h : h \notin Keys(op.inputs) /\ Known(h) => Known(h)' /\ ledger'[h] = ledger[h]
      /\ \A c \in op.outputs : ~Known(c.hash) /\ Unspent(c.hash)'
                               /\ ledger'[c.hash].amount = c.amount
      /\ \A h : Known(h)' /\ ~Known(h) => h \in Keys(op.outputs)
  BY <1>2, <1>3, <1>6, ExchangedEntries
<1>10. op.key # NULL => Unspent(op.key)' /\ ledger'[op.key].amount = Change(op)
  <2> SUFFICES ASSUME op.key # NULL
               PROVE  Unspent(op.key)' /\ ledger'[op.key].amount = Change(op)
    OBVIOUS
  <2>1. PICK c \in op.outputs : c.hash = op.key
    BY <1>7 DEF Secrets, Keys
  <2>2. op.key \in CustodyKey
    BY <1>6 DEF StagedOp, RowsOK
  <2>3. c.amount = Change(op)
    BY <1>7, <2>1, <2>2 DEF Secrets
  <2>4. Unspent(c.hash)' /\ ledger'[c.hash].amount = c.amount
    BY <1>9
  <2> QED
    BY <2>1, <2>3, <2>4 DEF Unspent, Known
<1>11. Reserved(op) \subseteq Keys(op.inputs)
  BY DEF Reserved
<1>12. Committed(op)'
  <2>1. CASE op.kind = "deposit"
    <3>1. op.probe = op.key /\ op.key # NULL
      BY <1>6, <1>7, <2>1 DEF Secrets, StagedOp
    <3> QED
      BY <1>10, <2>1, <3>1 DEF Committed, Unspent
  <2>2. CASE op.kind # "deposit"
    <3>1. op.probe \in Keys(op.inputs)
      BY <1>6, <1>7, <1>11, <2>2 DEF Secrets, StagedOp
    <3>2. Known(op.probe)' /\ ~Unspent(op.probe)'
      BY <1>9, <3>1
    <3> QED
      BY <2>2, <3>2 DEF Committed
  <2> QED
    BY <2>1, <2>2
<1>13. Stands(op)'
  <2>1. Reserved(op)' = Reserved(op) /\ Change(op)' = Change(op)
    BY <1>3 DEF Reserved, Keys, Change
  <2>2. \A h \in Reserved(op)' : ~Unspent(h)'
    BY <1>9, <1>11, <2>1
  <2>3. Outcome(op)'
    BY <1>10, <1>12, <2>1, <2>2 DEF Outcome
  <2>4. Keys(op.outputs)' = Keys(op.outputs)
    BY DEF Keys
  <2>5. Secrets(op)'
    BY <1>7, <2>1, <2>4 DEF Secrets
  <2>6. \A a, n, t : CapViolation(a, n, t)' <=> CapViolation(a, n, t)
    BY <1>3, SameQueries
  <2>7. CapViolation(op.agent, op.total + op.burn, op.t)'
          <=> CapViolation(op.agent, op.total + op.burn, op.t)
    BY <2>6
  <2>8. Permitted(op)'
    BY <1>3, <1>7, <2>7 DEF Permitted
  <2>9. StatedBefore(op)'
    BY <1>3, <1>7 DEF StatedBefore
  <2> QED
    BY <2>3, <2>5, <2>8, <2>9 DEF Stands
<1>14. Settling'
  <2>1. /\ running' \in [op : staged', phase : {"exchange", "finalize", "unwind"}]
        /\ running'.op = op /\ running'.phase = "finalize"
    BY <1>1, <1>2, <1>3, <1>4
  <2>2. Committed(running.op)'
    BY <1>12, <2>1 DEF Committed, Known, Unspent
  <2>3. running' # Idle
    BY <2>1 DEF Idle
  <2>4. Alone'
    BY <1>3, <2>1, <2>2, <2>3 DEF Settling, Alone, Serving
  <2>5. Stated'
    BY <1>3 DEF Settling, Stated
  <2>6. \A p \in staged' : Stands(p)'
    BY <1>3, <1>4, <1>13
  <2> QED
    BY <2>4, <2>5, <2>6 DEF Settling
<1>15. \A h \in Keys(op.inputs) : h \in CustodyKey => h \in Reserved(op)
  BY <1>7 DEF Keys, Secrets, Reserved
<1>16. CustodyReal'
  <2> SUFFICES ASSUME NEW h \in InState("unspent")'
               PROVE  Unspent(h)' /\ ledger'[h].amount = custody'[h].amount
    BY DEF CustodyReal
  <2>1. h \in DOMAIN custody /\ custody[h].state = "unspent" /\ h \in CustodyKey
    BY <1>3, <1>6 DEF InState, RowsOK
  <2>2. Unspent(h) /\ ledger[h].amount = custody[h].amount
    BY <2>1 DEF Sound, CustodyReal, InState
  <2>3. h \notin Reserved(op)
    BY <1>6, <2>1 DEF StagedOp
  <2>4. Known(h)' /\ ledger'[h] = ledger[h]
    BY <1>9, <1>15, <2>1, <2>2, <2>3 DEF Unspent
  <2> QED
    BY <1>3, <2>2, <2>4 DEF Unspent
<1>17. NoMoneyLost'
  <2> SUFFICES ASSUME NEW h \in DOMAIN ledger' \cap CustodyKey, Unspent(h)'
               PROVE  /\ h \in DOMAIN custody'
                      /\ custody'[h].amount = ledger'[h].amount
                      /\ \/ custody'[h].state = "unspent"
                         \/ \E p \in staged' : h \in Keys(p.inputs \cup p.outputs)'
    BY DEF NoMoneyLost
  <2>1. h \notin Keys(op.inputs)
    BY <1>9
  <2>2. CASE Known(h)
    <3>1. ledger'[h] = ledger[h]
      BY <1>9, <2>1, <2>2
    <3>2. Unspent(h) /\ h \in DOMAIN ledger \cap CustodyKey
      BY <2>2, <3>1 DEF Unspent, Known
    <3>3. /\ h \in DOMAIN custody
          /\ custody[h].amount = ledger[h].amount
          /\ \/ custody[h].state = "unspent"
             \/ \E p \in staged : h \in Keys(p.inputs \cup p.outputs)
      BY <3>2 DEF Sound, NoMoneyLost
    <3> QED
      BY <1>3, <3>1, <3>3 DEF Keys
  <2>3. CASE ~Known(h)
    <3>1. h \in Keys(op.outputs)
      BY <1>9, <2>3 DEF Unspent
    <3>2. h = op.key
      BY <1>7, <3>1 DEF Secrets, Keys
    <3>3. op.key # NULL
      BY <3>2, BridgeAssumption
    <3>4. op.key \in DOMAIN custody /\ Change(op) = custody[op.key].amount
      BY <1>6, <3>3 DEF StagedOp, Change
    <3>5. ledger'[h].amount = custody'[h].amount /\ h \in DOMAIN custody'
      BY <1>3, <1>10, <3>2, <3>3, <3>4
    <3>6. h \in Keys(op.inputs \cup op.outputs)
      BY <3>1 DEF Keys
    <3> QED
      BY <1>3, <3>5, <3>6 DEF Keys
  <2> QED
    BY <2>2, <2>3
<1>18. Solvent' /\ StatementsFinal'
  BY <1>3, BooksKept DEF Sound
<1> QED
  BY <1>14, <1>16, <1>17, <1>18 DEF Sound
-----------------------------------------------------------------------------
\* Staging.

\* A record that is staged alone, and stands, leaves every claim true.
LEMMA StagedAlone ==
  ASSUME Booked, Settling, Sound, Serving, NEW op, Stage(op), Stands(op)', ~Committed(op)',
         \A h \in DOMAIN custody :
           /\ h \in DOMAIN custody' /\ custody'[h].amount = custody[h].amount
           /\ h \notin Reserved(op) => custody'[h] = custody[h],
         \A h \in DOMAIN custody' :
           custody'[h].state = "unspent" => h \in DOMAIN custody /\ custody[h].state = "unspent"
  PROVE  Settling' /\ Sound'
<1>1. staged = {} /\ Alone /\ Stated
  BY DEF Settling, Alone
<1>2. /\ staged' = {op} /\ running' = [op |-> op, phase |-> "exchange"]
      /\ agents' = agents /\ journal' = journal /\ statements' = statements
      /\ clock' = clock /\ ledger' = ledger /\ failures' = failures /\ mode' = mode
  BY <1>1 DEF Stage, books
<1>3. Alone'
  <2>1. /\ running' # Idle /\ running'.op = op /\ running'.phase = "exchange"
        /\ running' \in [op : staged', phase : {"exchange", "finalize", "unwind"}]
    BY <1>2 DEF Idle
  <2>2. ~Committed(running.op)'
    BY <2>1, Zenon DEF Committed, Known, Unspent
  <2> QED
    BY <1>1, <1>2, <2>1, <2>2 DEF Alone, Serving
<1>4. Stated'
  BY <1>1, <1>2 DEF Stated
<1>5. Settling'
  BY <1>2, <1>3, <1>4 DEF Settling
<1>6. \A h : Unspent(h)' <=> Unspent(h)
  BY <1>2 DEF Unspent, Known
<1>7. CustodyReal'
  <2> SUFFICES ASSUME NEW h \in InState("unspent")'
               PROVE  Unspent(h)' /\ ledger'[h].amount = custody'[h].amount
    BY DEF CustodyReal
  <2>1. h \in DOMAIN custody /\ custody[h].state = "unspent"
    BY DEF InState
  <2>2. Unspent(h) /\ ledger[h].amount = custody[h].amount
    BY <2>1 DEF Sound, CustodyReal, InState
  <2> QED
    BY <1>2, <1>6, <2>1, <2>2
<1>8. NoMoneyLost'
  <2> SUFFICES ASSUME NEW h \in DOMAIN ledger' \cap CustodyKey, Unspent(h)'
               PROVE  /\ h \in DOMAIN custody'
                      /\ custody'[h].amount = ledger'[h].amount
                      /\ \/ custody'[h].state = "unspent"
                         \/ \E p \in staged' : h \in Keys(p.inputs \cup p.outputs)'
    BY DEF NoMoneyLost
  <2>1. /\ h \in DOMAIN custody /\ custody[h].amount = ledger[h].amount
        /\ custody[h].state = "unspent"
    BY <1>1, <1>2, <1>6 DEF Sound, NoMoneyLost
  <2>2. h \in DOMAIN custody' /\ custody'[h].amount = ledger'[h].amount
    BY <1>2, <2>1
  <2>3. CASE h \in Reserved(op)
    <3>1. h \in Keys(op.inputs)
      BY <2>3 DEF Reserved
    <3>2. h \in Keys(op.inputs \cup op.outputs)
      BY <3>1 DEF Keys
    <3> QED
      BY <1>2, <2>2, <3>2 DEF Keys
  <2>4. CASE h \notin Reserved(op)
    BY <2>1, <2>2, <2>4
  <2> QED
    BY <2>3, <2>4
<1>9. Solvent' /\ StatementsFinal'
  BY <1>2, BooksKept DEF Sound
<1> QED
  BY <1>5, <1>7, <1>8, <1>9 DEF Sound

\* A statement is of a period that ended before now.
LEMMA StatedBeforeNow ==
  ASSUME Stated, NEW op, op.t = clock, statements' = statements
  PROVE  StatedBefore(op)'
BY DEF Stated, StatedBefore

LEMMA DepositSettling ==
  ASSUME Booked, Settling, Sound, NEW a \in Agent, NEW tokens \in Deposits,
         StageDeposit(a, tokens)
  PROVE  Settling' /\ Sound'
<1>1. PICK key, net : key = FreshKey /\ net = Value(tokens) - BurnOf(tokens, clock)
  OBVIOUS
<1>2. PICK op : op = [kind |-> "deposit", agent |-> a, t |-> clock,
                      probe |-> key, key |-> key, inputs |-> tokens,
                      outputs |-> {[hash |-> key, amount |-> net]},
                      total |-> net, burn |-> 0, absorbed |-> 0]
  OBVIOUS
<1>3. /\ Serving /\ FreshKeys # {} /\ custody' = Added(custody, key, net) /\ Stage(op)
  BY <1>1, <1>2, Zenon DEF StageDeposit
<1>4. /\ key \in CustodyKey /\ key \notin DOMAIN custody /\ key \notin DOMAIN ledger
      /\ key # NULL
  BY <1>1, <1>3, FreshIsFresh
<1>5. net \in Nat
  <2>1. Value(tokens) \in Nat
    BY PresentedCoins
  <2>2. BurnOf(tokens, clock) \in Nat /\ BurnOf(tokens, clock) <= Value(tokens)
    BY <2>1, BurnOfCoins
  <2> QED
    BY <1>1, <2>1, <2>2
<1>6. /\ \A h : h \in DOMAIN custody' <=> h \in DOMAIN custody \/ h = key
      /\ custody'[key].amount = net /\ custody'[key].state = "pending"
      /\ \A h \in DOMAIN custody : custody'[h] = custody[h]
  BY <1>3, <1>4, <1>5, AddedRows DEF Booked
<1>7. ledger' = ledger /\ statements' = statements
  BY <1>3 DEF Stage, books
<1>8. /\ op.kind = "deposit" /\ op.probe = key /\ op.key = key /\ op.inputs = tokens
      /\ op.t = clock /\ op.outputs = {[hash |-> key, amount |-> net]}
  BY <1>2
<1>9. ~Committed(op)'
  BY <1>4, <1>7, <1>8 DEF Committed, Known
<1>10. Stands(op)'
  <2>1. Reserved(op)' = {} /\ Change(op)' = net
    BY <1>4, <1>6, <1>8 DEF Reserved, Change
  <2>2. Outcome(op)'
    BY <1>4, <1>7, <1>8, <1>9, <2>1 DEF Outcome, Known
  <2>3. Secrets(op)'
    <3>1. \A c \in op.inputs : c.hash \notin CustodyKey
      BY <1>8, BridgeAssumption
    <3>2. op.key \in Keys(op.outputs)'
      BY <1>8 DEF Keys
    <3> QED
      BY <1>8, <2>1, <3>1, <3>2 DEF Secrets
  <2>4. Permitted(op)'
    BY <1>8 DEF Permitted
  <2>5. StatedBefore(op)'
    BY <1>7, <1>8, StatedBeforeNow DEF Settling
  <2> QED
    BY <2>2, <2>3, <2>4, <2>5 DEF Stands
<1>11. \A h \in DOMAIN custody' :
         custody'[h].state = "unspent" => h \in DOMAIN custody /\ custody[h].state = "unspent"
  BY <1>6
<1> QED
  BY <1>3, <1>6, <1>9, <1>10, <1>11, StagedAlone
LEMMA WithdrawSettling ==
  ASSUME Booked, Settling, Sound, NEW a \in Agent, NEW outputs \in Withdrawals,
         StageWithdraw(a, outputs)
  PROVE  Settling' /\ Sound'
<1>1. PICK op, change : Stage(op) /\ Withdrawal(op, a, outputs, change)
  BY WithdrawalStaged
<1>2. PICK S : S = Keys(op.inputs)
  OBVIOUS
<1>3. /\ Serving /\ ~agents[a].frozen /\ ~agents[a].no_bearer_withdrawal
      /\ ~CapViolation(a, op.total + op.burn, clock)
      /\ agents[a].balance_mc >= op.total + op.burn
  BY <1>1, Zenon DEF StageWithdraw, Withdrawal
<1>4. /\ agents' = agents /\ journal' = journal /\ statements' = statements
      /\ ledger' = ledger
  BY <1>1 DEF Stage, books
<1>5. /\ op.kind = "withdraw" /\ op.agent = a /\ op.t = clock /\ op.probe \in S
      /\ op.inputs = CustodyCoins(S)
      /\ op.outputs = outputs \cup
           (IF op.key = NULL THEN {} ELSE {[hash |-> op.key, amount |-> change]})
      /\ \A h \in S : h \in DOMAIN custody /\ custody[h].state = "unspent"
      /\ op.key # NULL => op.key \in CustodyKey /\ op.key \notin DOMAIN ledger
                          /\ custody'[op.key].amount = change
                          /\ custody'[op.key].state = "pending"
      /\ \A h : h \in DOMAIN custody' <=> h \in DOMAIN custody \/ (op.key # NULL /\ h = op.key)
      /\ \A h \in DOMAIN custody :
           /\ custody'[h].amount = custody[h].amount
           /\ h \in S => custody'[h].state = "reserved"
           /\ h \notin S => custody'[h] = custody[h]
  BY <1>1, <1>2 DEF Withdrawal
<1>6. Reserved(op)' = S /\ Reserved(op) = S
  BY <1>2, <1>5 DEF Reserved, Keys
<1>7. \A h \in S : Unspent(h) /\ ledger[h].amount = custody[h].amount
  BY <1>5 DEF Sound, CustodyReal, InState
<1>8. ~Committed(op)'
  BY <1>4, <1>5, <1>7 DEF Committed, Unspent, Known
<1>9. Stands(op)'
  <2>1. op.key # NULL => Change(op)' = change
    BY <1>5 DEF Change
  <2>2. Outcome(op)'
    <3>1. op.key # NULL => ~Known(op.key)'
      BY <1>4, <1>5 DEF Known
    <3>2. \A h \in Reserved(op)' : Unspent(h)' /\ ledger'[h].amount = custody'[h].amount
      BY <1>4, <1>5, <1>6, <1>7 DEF Unspent, Known
    <3> QED
      BY <1>8, <3>1, <3>2 DEF Outcome
  <2>3. Secrets(op)'
    <3>1. \A c \in outputs : c.hash \notin CustodyKey
      BY BridgeAssumption
    <3>2. \A c \in op.outputs : c.hash \in CustodyKey => c.hash = op.key /\ c.amount = Change(op)'
      BY <1>5, <2>1, <3>1
    <3>3. op.key # NULL => \E c \in op.outputs : c.hash = op.key
      <4> SUFFICES ASSUME op.key # NULL PROVE \E c \in op.outputs : c.hash = op.key
        OBVIOUS
      <4>1. [hash |-> op.key, amount |-> change] \in op.outputs
        BY <1>5
      <4> QED
        BY <4>1
    <3>4. op.key # NULL => op.key \in Keys(op.outputs)'
      BY <3>3 DEF Keys
    <3> QED
      BY <1>5, <1>6, <3>2, <3>4 DEF Secrets
  <2>4. Permitted(op)'
    <3>1. \A x, n, t : CapViolation(x, n, t)' <=> CapViolation(x, n, t)
      BY <1>4, SameQueries
    <3>2. ~CapViolation(op.agent, op.total + op.burn, op.t)
      BY <1>3, <1>5
    <3>3. ~CapViolation(op.agent, op.total + op.burn, op.t)'
      BY <3>1, <3>2
    <3> QED
      BY <1>3, <1>4, <1>5, <3>3 DEF Permitted
  <2>5. StatedBefore(op)'
    BY <1>4, <1>5, StatedBeforeNow DEF Settling
  <2> QED
    BY <2>2, <2>3, <2>4, <2>5 DEF Stands
<1>10. \A h \in DOMAIN custody' :
         custody'[h].state = "unspent" => h \in DOMAIN custody /\ custody[h].state = "unspent"
  BY <1>5
<1>11. \A h \in DOMAIN custody :
         /\ h \in DOMAIN custody' /\ custody'[h].amount = custody[h].amount
         /\ h \notin Reserved(op) => custody'[h] = custody[h]
  BY <1>5, <1>6
<1> QED
  BY <1>1, <1>3, <1>8, <1>9, <1>10, <1>11, StagedAlone
-----------------------------------------------------------------------------
\* Settling.

\* What a record pays its agent, and what it debits it.
PaidIn(op) == IF op.kind = "deposit" THEN op.total ELSE 0
PaidOut(op) == IF op.kind = "withdraw" THEN op.total + op.burn ELSE 0

\* What rolling a record forward does to the books.
LEMMA RolledBooks ==
  ASSUME Booked, NEW op \in staged, RollForward(op)
  PROVE  /\ op.agent \in DOMAIN agents /\ op.agent \in Agent /\ op.t \in Time /\ op.t \in 0..clock
         /\ PaidIn(op) \in Nat /\ PaidOut(op) \in Nat
         /\ DOMAIN agents' = DOMAIN agents
         /\ agents'[op.agent].balance_mc = agents[op.agent].balance_mc + PaidIn(op) - PaidOut(op)
         /\ \A x \in DOMAIN agents : x # op.agent => agents'[x] = agents[x]
         /\ \A x \in DOMAIN agents : agents'[x] \in AgentRow /\ Alike(agents'[x], agents[x])
         /\ \A x \in Agent, T \in SUBSET Time :
              /\ DebitsOf(journal', x, T) = DebitsOf(journal, x, T)
                   + IF x = op.agent /\ op.t \in T THEN PaidOut(op) ELSE 0
              /\ CreditsOf(journal', x, T) = CreditsOf(journal, x, T)
                   + IF x = op.agent /\ op.t \in T THEN PaidIn(op) ELSE 0
<1>1. StagedOp(op) /\ BooksTypeOK /\ journal \in [Cell -> Nat]
  BY DEF Booked, BooksTypeOK
<1>2. PICK a \in DOMAIN agents, total \in Nat, burn \in Nat, t \in Time :
        a = op.agent /\ total = op.total /\ burn = op.burn /\ t = op.t
  <2>1. clock \in Time /\ op.t \in 0..clock
    BY <1>1 DEF BooksTypeOK, StagedOp
  <2>2. op.t \in Time
    BY <2>1, WindowAssumption DEF Time
  <2> QED
    BY <1>1, <2>2 DEF StagedOp
<1>3. a \in Agent /\ agents[a].balance_mc \in Int
  BY <1>1, AgentRows
<1>4. op.t \in 0..clock /\ PaidIn(op) \in Nat /\ PaidOut(op) \in Nat
  BY <1>1, <1>2 DEF StagedOp, PaidIn, PaidOut
<1>5. \A x \in Agent, T \in SUBSET Time :
        CreditsOf(journal, x, T) \in Nat /\ DebitsOf(journal, x, T) \in Nat
  BY <1>1, SumsAreNumbers
<1>6. PICK n \in Int : n = agents[a].balance_mc + PaidIn(op) - PaidOut(op)
  BY <1>3, <1>4
<1>7. /\ agents' = [agents EXCEPT ![a].balance_mc = n]
      /\ \A x \in Agent, T \in SUBSET Time :
           /\ DebitsOf(journal', x, T) = DebitsOf(journal, x, T)
                + IF x = op.agent /\ op.t \in T THEN PaidOut(op) ELSE 0
           /\ CreditsOf(journal', x, T) = CreditsOf(journal, x, T)
                + IF x = op.agent /\ op.t \in T THEN PaidIn(op) ELSE 0
  <2>1. CASE FinalizeDeposit(op)
    <3>1. /\ op.kind = "deposit" /\ agents' = [agents EXCEPT ![a].balance_mc = @ + total]
          /\ journal' = Post(journal, a, t, "deposit", total)
      BY <1>2, <2>1 DEF FinalizeDeposit
    <3>2. PaidIn(op) = total /\ PaidOut(op) = 0
      BY <1>2, <3>1 DEF PaidIn, PaidOut
    <3>3. n = agents[a].balance_mc + total
      BY <1>3, <1>6, <3>2
    <3>4. "deposit" \in CREDIT_KINDS
      BY DEF CREDIT_KINDS
    <3>5. \A x \in Agent, T \in SUBSET Time :
            /\ CreditsOf(journal', x, T)
                 = CreditsOf(journal, x, T) + IF x = a /\ t \in T THEN total ELSE 0
            /\ DebitsOf(journal', x, T) = DebitsOf(journal, x, T)
      BY <1>1, <1>3, <3>1, <3>4, PostedCredit
    <3> QED
      BY <1>2, <1>5, <3>1, <3>2, <3>3, <3>5
  <2>2. CASE FinalizeWithdraw(op)
    <3>1. /\ op.kind = "withdraw"
          /\ agents' = [agents EXCEPT ![a].balance_mc = @ - (total + burn)]
          /\ journal' = Withdrawn(journal, a, t, total, burn)
      BY <1>2, <2>2 DEF FinalizeWithdraw, WithdrawalLines, Withdrawn
    <3>2. PaidIn(op) = 0 /\ PaidOut(op) = total + burn
      BY <1>2, <3>1 DEF PaidIn, PaidOut
    <3>3. n = agents[a].balance_mc - (total + burn)
      BY <1>3, <1>6, <3>2
    <3>4. \A x \in Agent, T \in SUBSET Time :
            /\ DebitsOf(journal', x, T)
                 = DebitsOf(journal, x, T) + IF x = a /\ t \in T THEN total + burn ELSE 0
            /\ CreditsOf(journal', x, T) = CreditsOf(journal, x, T)
      BY <1>1, <1>3, <3>1, WithdrawnLines
    <3> QED
      BY <1>2, <1>5, <3>1, <3>2, <3>3, <3>4
  <2> QED
    BY <2>1, <2>2 DEF RollForward
<1>8. /\ DOMAIN agents' = DOMAIN agents
      /\ agents'[a].balance_mc = n
      /\ \A x \in DOMAIN agents : x # a => agents'[x] = agents[x]
      /\ \A x \in DOMAIN agents : agents'[x] \in AgentRow /\ Alike(agents'[x], agents[x])
  BY <1>1, <1>7, PaidRow
<1> QED
  BY <1>2, <1>3, <1>4, <1>6, <1>7, <1>8

\* What rolling a record forward does to the custody rows.
LEMMA RolledRows ==
  ASSUME Booked, NEW op \in staged, RollForward(op)
  PROVE  /\ DOMAIN custody' = DOMAIN custody
         /\ \A h \in DOMAIN custody :
              /\ custody'[h].amount = custody[h].amount
              /\ h \in Reserved(op) => custody'[h].state = "spent"
              /\ h = op.key => custody'[h].state = "unspent"
              /\ h \notin Touched(op) => custody'[h] = custody[h]
<1>1. CASE FinalizeDeposit(op)
  <2>1. op.kind = "deposit" /\ custody' = Marked(custody, {op.key}, "pending", "unspent")
    BY <1>1 DEF FinalizeDeposit
  <2>2. StagedOp(op) /\ RowsOK(custody) /\ "pending" \in States /\ "unspent" \in States
    BY DEF Booked, States
  <2>3. /\ DOMAIN custody' = DOMAIN custody
        /\ \A h \in DOMAIN custody :
             /\ custody'[h].amount = custody[h].amount
             /\ h \in {op.key} /\ custody[h].state = "pending" => custody'[h].state = "unspent"
             /\ h \notin {op.key} \/ custody[h].state # "pending" => custody'[h] = custody[h]
    BY <2>1, <2>2, MarkedRows
  <2>4. Reserved(op) = {} /\ op.key # NULL /\ op.key \in Touched(op)
        /\ custody[op.key].state = "pending"
    BY <2>1, <2>2 DEF Reserved, Touched, StagedOp
  <2> QED
    BY <2>3, <2>4
<1>2. CASE FinalizeWithdraw(op)
  BY <1>2, ConsumedRows DEF FinalizeWithdraw
<1> QED
  BY <1>1, <1>2 DEF RollForward
\* The one record that was staged is done with.
LEMMA NothingStaged ==
  ASSUME Settling, NEW op \in staged, staged' = staged \ {op}, running' = Idle,
         failures' = failures, clock' = clock, statements' = statements,
         DOMAIN agents \subseteq DOMAIN agents'
  PROVE  staged' = {} /\ Settling'
<1>1. staged' = {}
  BY DEF Settling, Alone
<1> QED
  BY <1>1 DEF Settling, Alone, Stated

\* Lines posted at the instant of a staging leave every statement true.
LEMMA StatementsKept ==
  ASSUME Stated, StatementsFinal, statements' = statements, BooksTypeOK, NEW t,
         \A s \in statements : s.to < t,
         \A x \in Agent, T \in SUBSET Time : t \notin T =>
           /\ DebitsOf(journal', x, T) = DebitsOf(journal, x, T)
           /\ CreditsOf(journal', x, T) = CreditsOf(journal, x, T)
  PROVE  StatementsFinal'
<1> SUFFICES ASSUME NEW s \in statements
             PROVE  s.closing = BalanceFromLines(s.agent, 0..s.to)'
  BY DEF StatementsFinal
<1>1. s.to \in Time /\ s.to < t /\ s.agent \in Agent
  BY AgentRows DEF Stated
<1>2. PICK T : T = 0..s.to
  OBVIOUS
<1>3. T \in SUBSET Time /\ t \notin T
  <2>1. s.to \in Nat /\ s.to <= MaxTime /\ MaxTime \in Nat
    BY <1>1, WindowAssumption DEF Time
  <2> QED
    BY <1>1, <1>2, <2>1 DEF Time
<1>4. s.closing = CreditsOf(journal, s.agent, T) - DebitsOf(journal, s.agent, T)
  BY <1>2, QueriesAreSums DEF StatementsFinal
<1>5. s.closing = CreditsOf(journal', s.agent, T) - DebitsOf(journal', s.agent, T)
  BY <1>1, <1>3, <1>4
<1>6. BalanceFromLines(s.agent, T)' = CreditsOf(journal', s.agent, T) - DebitsOf(journal', s.agent, T)
  BY QueriesNext
<1> QED
  BY <1>2, <1>5, <1>6

\* Rolling forward a record that committed makes its new coin selectable; it
\* debits what was seen to be there, at an instant no statement covers.
LEMMA RolledStep ==
  ASSUME Booked, Settling, Sound, NEW op \in staged, RollForward(op), Committed(op),
         running' = Idle, failures' = failures, clock' = clock, ledger' = ledger
  PROVE  Settling' /\ Sound'
<1>1. StagedOp(op) /\ RowsOK(custody) /\ BooksTypeOK /\ Outcome(op) /\ Secrets(op)
      /\ Permitted(op) /\ StatedBefore(op)
  BY DEF Booked, Settling, Stands
<1>2. staged' = staged \ {op} /\ statements' = statements
  BY DEF RollForward, FinalizeDeposit, FinalizeWithdraw
<1>3. /\ op.agent \in DOMAIN agents /\ DOMAIN agents' = DOMAIN agents
      /\ PaidIn(op) \in Nat /\ PaidOut(op) \in Nat
      /\ agents'[op.agent].balance_mc = agents[op.agent].balance_mc + PaidIn(op) - PaidOut(op)
      /\ \A x \in DOMAIN agents : x # op.agent => agents'[x] = agents[x]
      /\ \A x \in Agent, T \in SUBSET Time :
           /\ DebitsOf(journal', x, T) = DebitsOf(journal, x, T)
                + IF x = op.agent /\ op.t \in T THEN PaidOut(op) ELSE 0
           /\ CreditsOf(journal', x, T) = CreditsOf(journal, x, T)
                + IF x = op.agent /\ op.t \in T THEN PaidIn(op) ELSE 0
  BY RolledBooks
<1>4. staged' = {} /\ Settling'
  BY <1>2, <1>3, NothingStaged
<1>5. /\ DOMAIN custody' = DOMAIN custody
      /\ \A h \in DOMAIN custody :
           /\ custody'[h].amount = custody[h].amount
           /\ h \in Reserved(op) => custody'[h].state = "spent"
           /\ h = op.key => custody'[h].state = "unspent"
           /\ h \notin Touched(op) => custody'[h] = custody[h]
  BY RolledRows
<1>6. \A h : Unspent(h)' <=> Unspent(h)
  BY DEF Unspent, Known
<1>7. \A h \in Touched(op) : h \in Reserved(op) \/ (h = op.key /\ op.key # NULL)
  BY DEF Touched
<1>8. /\ op.key # NULL => Unspent(op.key) /\ ledger[op.key].amount = custody[op.key].amount
      /\ \A h \in Reserved(op) : ~Unspent(h)
  BY <1>1 DEF Outcome, Change
<1>9. CustodyReal'
  <2> SUFFICES ASSUME NEW h \in InState("unspent")'
               PROVE  Unspent(h)' /\ ledger'[h].amount = custody'[h].amount
    BY DEF CustodyReal
  <2>1. h \in DOMAIN custody /\ custody'[h].state = "unspent" /\ h \notin Reserved(op)
    BY <1>5 DEF InState
  <2>2. CASE h \in Touched(op)
    BY <1>5, <1>6, <1>7, <1>8, <2>1, <2>2
  <2>3. CASE h \notin Touched(op)
    <3>1. custody'[h] = custody[h] /\ h \in InState("unspent")
      BY <1>5, <2>1, <2>3 DEF InState
    <3> QED
      BY <1>6, <3>1 DEF Sound, CustodyReal
  <2> QED
    BY <2>2, <2>3
<1>10. NoMoneyLost'
  <2> SUFFICES ASSUME NEW h \in DOMAIN ledger' \cap CustodyKey, Unspent(h)'
               PROVE  /\ h \in DOMAIN custody'
                      /\ custody'[h].amount = ledger'[h].amount
                      /\ custody'[h].state = "unspent"
    BY Zenon DEF NoMoneyLost
  <2>1. /\ Unspent(h) /\ h \in DOMAIN custody /\ custody[h].amount = ledger[h].amount
        /\ \/ custody[h].state = "unspent"
           \/ \E p \in staged : h \in Keys(p.inputs \cup p.outputs)
    BY <1>6 DEF Sound, NoMoneyLost
  <2>2. h \notin Reserved(op)
    BY <1>8, <2>1
  <2>3. CASE h = op.key
    BY <1>5, <2>1, <2>3
  <2>4. CASE h # op.key
    <3>1. h \notin Touched(op)
      BY <1>7, <2>2, <2>4
    <3>2. h \notin Keys(op.inputs \cup op.outputs)
      BY <1>1, <2>2, <2>4 DEF Secrets, Keys, Reserved
    <3>3. custody[h].state = "unspent"
      BY <2>1, <3>2 DEF Settling, Alone
    <3> QED
      BY <1>5, <2>1, <3>1, <3>3
  <2> QED
    BY <1>5, <2>1, <2>3, <2>4
<1>11. Solvent'
  <2> SUFFICES ASSUME NEW x \in DOMAIN agents PROVE agents'[x].balance_mc >= 0
    BY <1>3 DEF Solvent
  <2>1. agents[x].balance_mc >= 0 /\ agents[x].balance_mc \in Int
    BY <1>1, AgentRows DEF Sound, Solvent
  <2>2. CASE x = op.agent
    <3>1. agents[x].balance_mc >= PaidOut(op)
      BY <1>1, <2>1, <2>2 DEF Permitted, PaidOut
    <3> QED
      BY <1>3, <2>1, <2>2, <3>1
  <2>3. CASE x # op.agent
    BY <1>3, <2>1, <2>3
  <2> QED
    BY <2>2, <2>3
<1>12. StatementsFinal'
  <2>1. \A x \in Agent, T \in SUBSET Time : op.t \notin T =>
          /\ DebitsOf(journal', x, T) = DebitsOf(journal, x, T)
          /\ CreditsOf(journal', x, T) = CreditsOf(journal, x, T)
    <3>1. \A x \in Agent, T \in SUBSET Time :
            CreditsOf(journal, x, T) \in Nat /\ DebitsOf(journal, x, T) \in Nat
      BY <1>1, SumsAreNumbers
    <3> QED
      BY <1>3, <3>1
  <2>2. \A s \in statements : s.to < op.t
    BY <1>1 DEF StatedBefore
  <2>3. Stated /\ StatementsFinal
    BY DEF Settling, Sound
  <2> QED
    BY <1>1, <1>2, <2>1, <2>2, <2>3, StatementsKept
<1> QED
  BY <1>4, <1>9, <1>10, <1>11, <1>12 DEF Sound
\* Unwinding a record gives back what it reserved and drops its row.
LEMMA UnwoundRows ==
  ASSUME Booked, NEW op \in staged, Unwind(op)
  PROVE  /\ op.key \notin DOMAIN custody' /\ DOMAIN custody' \subseteq DOMAIN custody
         /\ \A h \in DOMAIN custody : h # op.key => h \in DOMAIN custody'
         /\ \A h \in DOMAIN custody' :
              /\ custody'[h].amount = custody[h].amount
              /\ h \in Reserved(op) => custody'[h].state = "unspent"
              /\ h \notin Reserved(op) => custody'[h] = custody[h]
<1>1. StagedOp(op) /\ RowsOK(custody) /\ "reserved" \in States /\ "unspent" \in States
  BY DEF Booked, States
<1>2. PICK mid : /\ mid = IF op.kind = "withdraw"
                          THEN Marked(custody, Keys(op.inputs), "reserved", "unspent")
                          ELSE custody
                 /\ custody' = Dropped(mid, op.key)
  BY DEF Unwind
<1>3. /\ RowsOK(mid) /\ DOMAIN mid = DOMAIN custody
      /\ \A h \in DOMAIN custody :
           /\ mid[h].amount = custody[h].amount
           /\ h \in Reserved(op) => mid[h].state = "unspent"
           /\ h \notin Reserved(op) => mid[h] = custody[h]
  <2>1. CASE op.kind = "withdraw"
    <3>1. mid = Marked(custody, Keys(op.inputs), "reserved", "unspent")
      BY <1>2, <2>1
    <3>2. /\ RowsOK(mid) /\ DOMAIN mid = DOMAIN custody
          /\ \A h \in DOMAIN custody :
               /\ mid[h].amount = custody[h].amount
               /\ h \in Keys(op.inputs) /\ custody[h].state = "reserved"
                    => mid[h].state = "unspent"
               /\ h \notin Keys(op.inputs) \/ custody[h].state # "reserved"
                    => mid[h] = custody[h]
      BY <1>1, <3>1, MarkedRows
    <3>3. Reserved(op) = Keys(op.inputs) /\ \A h \in Reserved(op) : custody[h].state = "reserved"
      BY <1>1, <2>1 DEF Reserved, StagedOp
    <3> QED
      BY <3>2, <3>3
  <2>2. CASE op.kind # "withdraw"
    BY <1>1, <1>2, <2>2 DEF Reserved
  <2> QED
    BY <2>1, <2>2
<1>4. /\ DOMAIN custody' \subseteq DOMAIN mid
      /\ op.key \in DOMAIN custody' => mid[op.key].state # "pending"
      /\ \A h \in DOMAIN mid \ {op.key} : h \in DOMAIN custody'
      /\ \A h \in DOMAIN custody' : custody'[h] = mid[h]
  BY <1>2, <1>3, DroppedRows
<1>5. op.key \notin DOMAIN custody'
  <2> SUFFICES ASSUME op.key \in DOMAIN custody' PROVE FALSE
    OBVIOUS
  <2>1. op.key \in DOMAIN custody /\ op.key # NULL
    BY <1>1, <1>3, <1>4, RowFields
  <2>2. custody[op.key].state = "pending" /\ op.key \notin Reserved(op)
    BY <1>1, <2>1 DEF StagedOp
  <2> QED
    BY <1>3, <1>4, <2>1, <2>2
<1> QED
  BY <1>3, <1>4, <1>5

\* A record that did not commit had all its coins unspent and its row unused.
LEMMA UnwoundStep ==
  ASSUME Booked, Settling, Sound, NEW op \in staged, Unwind(op), ~Committed(op),
         running' = Idle, failures' = failures, clock' = clock, ledger' = ledger
  PROVE  Settling' /\ Sound'
<1>1. StagedOp(op) /\ Outcome(op) /\ Secrets(op)
  BY DEF Booked, Settling, Stands
<1>2. /\ staged' = staged \ {op} /\ statements' = statements
      /\ agents' = agents /\ journal' = journal
  BY DEF Unwind, books
<1>3. staged' = {} /\ Settling'
  BY <1>2, NothingStaged
<1>4. /\ op.key \notin DOMAIN custody' /\ DOMAIN custody' \subseteq DOMAIN custody
      /\ \A h \in DOMAIN custody : h # op.key => h \in DOMAIN custody'
      /\ \A h \in DOMAIN custody' :
           /\ custody'[h].amount = custody[h].amount
           /\ h \in Reserved(op) => custody'[h].state = "unspent"
           /\ h \notin Reserved(op) => custody'[h] = custody[h]
  BY UnwoundRows
<1>5. \A h : Unspent(h)' <=> Unspent(h)
  BY DEF Unspent, Known
<1>6. /\ op.key # NULL => ~Known(op.key)
      /\ \A h \in Reserved(op) : Unspent(h) /\ ledger[h].amount = custody[h].amount
  BY <1>1 DEF Outcome
<1>7. CustodyReal'
  <2> SUFFICES ASSUME NEW h \in InState("unspent")'
               PROVE  Unspent(h)' /\ ledger'[h].amount = custody'[h].amount
    BY DEF CustodyReal
  <2>1. h \in DOMAIN custody' /\ h \in DOMAIN custody /\ custody'[h].state = "unspent"
    BY <1>4 DEF InState
  <2>2. CASE h \in Reserved(op)
    BY <1>4, <1>5, <1>6, <2>1, <2>2
  <2>3. CASE h \notin Reserved(op)
    <3>1. custody'[h] = custody[h] /\ h \in InState("unspent")
      BY <1>4, <2>1, <2>3 DEF InState
    <3> QED
      BY <1>5, <3>1 DEF Sound, CustodyReal
  <2> QED
    BY <2>2, <2>3
<1>8. NoMoneyLost'
  <2> SUFFICES ASSUME NEW h \in DOMAIN ledger' \cap CustodyKey, Unspent(h)'
               PROVE  /\ h \in DOMAIN custody'
                      /\ custody'[h].amount = ledger'[h].amount
                      /\ custody'[h].state = "unspent"
    BY Zenon DEF NoMoneyLost
  <2>1. /\ Unspent(h) /\ h \in DOMAIN custody /\ custody[h].amount = ledger[h].amount
        /\ \/ custody[h].state = "unspent"
           \/ \E p \in staged : h \in Keys(p.inputs \cup p.outputs)
    BY <1>5 DEF Sound, NoMoneyLost
  <2>2. h # op.key /\ h # NULL
    BY <1>6, <2>1, BridgeAssumption DEF Unspent
  <2>3. h \in DOMAIN custody'
    BY <1>4, <2>1, <2>2
  <2>4. CASE h \in Reserved(op)
    BY <1>4, <2>1, <2>3, <2>4
  <2>5. CASE h \notin Reserved(op)
    <3>1. h \notin Keys(op.inputs \cup op.outputs)
      BY <1>1, <2>2, <2>5 DEF Secrets, Keys, Reserved
    <3>2. custody[h].state = "unspent"
      BY <2>1, <3>1 DEF Settling, Alone
    <3> QED
      BY <1>4, <2>1, <2>3, <2>5, <3>2
  <2> QED
    BY <2>4, <2>5
<1>9. Solvent' /\ StatementsFinal'
  BY <1>2, BooksKept DEF Sound
<1> QED
  BY <1>3, <1>7, <1>8, <1>9 DEF Sound
-----------------------------------------------------------------------------
\* The operations of the books, as the claims see them.

\* A transfer or a pull.
Moved(a, b, n) ==
  /\ MayDebit(a, n) /\ ~LeavesTheOperator(a, b)
  /\ DOMAIN agents' = DOMAIN agents /\ statements' = statements
  /\ \A x \in DOMAIN agents :
       /\ agents'[x].balance_mc = agents[x].balance_mc
            - (IF x = a THEN n ELSE 0) + (IF x = b THEN n ELSE 0)
       /\ Alike(agents'[x], agents[x])
  /\ \A x \in Agent, T \in SUBSET Time :
       /\ DebitsOf(journal', x, T)
            = DebitsOf(journal, x, T) + IF x = a /\ clock \in T THEN n ELSE 0
       /\ CreditsOf(journal', x, T)
            = CreditsOf(journal, x, T) + IF x = b /\ clock \in T THEN n ELSE 0

\* Anything else.
Unmoved ==
  /\ journal' = journal /\ DOMAIN agents \subseteq DOMAIN agents'
  /\ \A x \in DOMAIN agents : agents'[x].balance_mc = agents[x].balance_mc
  /\ \A x \in DOMAIN agents' \ DOMAIN agents : agents'[x].balance_mc = 0
  /\ \A s \in statements' \ statements :
       /\ s.agent \in DOMAIN agents /\ s.to \in Time /\ s.to < clock
       /\ s.closing = BalanceFromLines(s.agent, 0..s.to)

LEMMA MovedBooks ==
  ASSUME BooksTypeOK, NEW a \in DOMAIN agents, NEW b \in DOMAIN agents, NEW n \in Nat,
         NEW dr \in DEBIT_KINDS, NEW cr \in CREDIT_KINDS, agents' = Move(a, b, n),
         journal' = Post(Post(journal, a, clock, dr, n), b, clock, cr, n),
         MayDebit(a, n), ~LeavesTheOperator(a, b), statements' = statements
  PROVE  Moved(a, b, n)
<1>1. /\ DOMAIN agents' = DOMAIN agents
      /\ \A x \in DOMAIN agents :
           /\ agents'[x].balance_mc = agents[x].balance_mc
                - (IF x = a THEN n ELSE 0) + (IF x = b THEN n ELSE 0)
           /\ Alike(agents'[x], agents[x])
  BY MovedRows
<1>2. a \in Agent /\ b \in Agent /\ journal \in [Cell -> Nat] /\ clock \in Time
  BY AgentRows DEF BooksTypeOK
<1>3. \A x \in Agent, T \in SUBSET Time :
        /\ DebitsOf(journal', x, T)
             = DebitsOf(journal, x, T) + IF x = a /\ clock \in T THEN n ELSE 0
        /\ CreditsOf(journal', x, T)
             = CreditsOf(journal, x, T) + IF x = b /\ clock \in T THEN n ELSE 0
  BY <1>2, MovedLines
<1> QED
  BY <1>1, <1>3, Zenon DEF Moved

\* A control changes one row, and not its balance.
LEMMA ControlUnmoved ==
  ASSUME BooksTypeOK, NEW a \in DOMAIN agents, NEW row \in AgentRow,
         row.balance_mc = agents[a].balance_mc, agents' = [agents EXCEPT ![a] = row],
         journal' = journal, statements' = statements
  PROVE  Unmoved
BY ControlStep DEF Unmoved

LEMMA BooksCases ==
  ASSUME BooksTypeOK, BooksNext
  PROVE  \/ Unmoved
         \/ \E a, b \in DOMAIN agents, n \in Amount : Moved(a, b, n)
<1>1. Amount \subseteq Nat
  BY AmountAssumption
<1>2. PICK known \in SUBSET Agent : agents \in [known -> AgentRow]
  BY DEF BooksTypeOK
<1>3. CASE \E op \in Operator, a \in Agent : RegisterAgent(op, a)
  <2>1. PICK op \in Operator, a \in Agent : RegisterAgent(op, a)
    BY <1>3
  <2>2. PICK row : row = [operator_id |-> op, balance_mc |-> 0, frozen |-> FALSE,
                          no_bearer_withdrawal |-> FALSE, caps |-> Uncapped]
    OBVIOUS
  <2>3. /\ a \notin DOMAIN agents /\ journal' = journal /\ statements' = statements
        /\ agents' = [b \in DOMAIN agents \cup {a} |-> IF b = a THEN row ELSE agents[b]]
    BY <2>1, <2>2 DEF RegisterAgent
  <2>4. row.balance_mc = 0
    BY <2>2
  <2> QED
    BY <2>3, <2>4 DEF Unmoved
<1>4. CASE \E a \in Agent, caps \in Caps : SetCaps(a, caps)
  <2>1. PICK a \in Agent, caps \in Caps : SetCaps(a, caps)
    BY <1>4
  <2>2. /\ a \in DOMAIN agents /\ journal' = journal /\ statements' = statements
        /\ agents' = [agents EXCEPT ![a].caps = caps]
    BY <2>1 DEF SetCaps
  <2>3. PICK row : row = [agents[a] EXCEPT !.caps = caps]
    OBVIOUS
  <2>4. row \in AgentRow /\ row.balance_mc = agents[a].balance_mc
    BY <1>2, <2>2, <2>3 DEF AgentRow
  <2> QED
    BY <2>2, <2>3, <2>4, ControlUnmoved
<1>5. CASE \E S \in SUBSET Agent, frozen \in Freezes : SetFrozen(S, frozen)
  <2>1. PICK S \in SUBSET Agent, frozen \in Freezes : SetFrozen(S, frozen)
    BY <1>5
  <2>2. /\ journal' = journal /\ statements' = statements
        /\ agents' = [a \in DOMAIN agents |->
                        IF a \in S THEN [agents[a] EXCEPT !.frozen = frozen] ELSE agents[a]]
    BY <2>1 DEF SetFrozen
  <2>3. \A a \in DOMAIN agents : agents'[a].balance_mc = agents[a].balance_mc
    <3> SUFFICES ASSUME NEW a \in DOMAIN agents
                 PROVE  agents'[a].balance_mc = agents[a].balance_mc
      OBVIOUS
    <3>1. agents[a] \in AgentRow
      BY <1>2
    <3>2. [agents[a] EXCEPT !.frozen = frozen].balance_mc = agents[a].balance_mc
      BY <3>1 DEF AgentRow
    <3> QED
      BY <2>2, <3>2
  <2> QED
    BY <2>2, <2>3 DEF Unmoved
<1>6. CASE \E a \in Agent, flag \in Flags : SetFlag(a, flag)
  <2>1. PICK a \in Agent, flag \in Flags : SetFlag(a, flag)
    BY <1>6
  <2>2. /\ a \in DOMAIN agents /\ journal' = journal /\ statements' = statements
        /\ agents' = [agents EXCEPT ![a].no_bearer_withdrawal = flag]
    BY <2>1 DEF SetFlag
  <2>3. PICK row : row = [agents[a] EXCEPT !.no_bearer_withdrawal = flag]
    OBVIOUS
  <2>4. row \in AgentRow /\ row.balance_mc = agents[a].balance_mc
    BY <1>2, <2>2, <2>3, ControlAssumption DEF AgentRow
  <2> QED
    BY <2>2, <2>3, <2>4, ControlUnmoved
<1>7. CASE \/ \E a, b \in Agent, bounds \in Grant : AuthorizePull(a, b, bounds)
           \/ \E i \in 1..MaxAuths : RevokePull(i)
  <2>1. agents' = agents /\ journal' = journal /\ statements' = statements
    BY <1>7 DEF AuthorizePull, RevokePull
  <2> QED
    BY <2>1 DEF Unmoved
<1>8. CASE \E i \in 1..MaxAuths, n \in Amount : Pull(i, n)
  <2>1. PICK i \in 1..MaxAuths, n \in Amount : Pull(i, n)
    BY <1>8
  <2>2. i \in DOMAIN auths /\ Honoured(i)
    BY <2>1 DEF Pull
  <2>3. PICK a \in DOMAIN agents, b \in DOMAIN agents :
          a = auths[i].granter /\ b = auths[i].payee
    BY <2>2, GrantFields
  <2>4. /\ MayDebit(a, n) /\ agents' = Move(a, b, n) /\ statements' = statements
        /\ journal' = Post(Post(journal, a, clock, "pull_out", n), b, clock, "pull_in", n)
    BY <2>1, <2>3 DEF Pull
  <2>5. ~LeavesTheOperator(a, b)
    BY <2>2, <2>3 DEF Honoured
  <2>6. "pull_out" \in DEBIT_KINDS /\ "pull_in" \in CREDIT_KINDS
    BY DEF DEBIT_KINDS, CREDIT_KINDS
  <2>7. Moved(a, b, n)
    BY <1>1, <2>4, <2>5, <2>6, MovedBooks
  <2> QED
    BY <2>7
<1>9. CASE \E a, b \in Agent, n \in Amount : Transfer(a, b, n)
  <2>1. PICK a \in Agent, b \in Agent, n \in Amount : Transfer(a, b, n)
    BY <1>9
  <2>2. /\ a \in DOMAIN agents /\ b \in DOMAIN agents /\ ~LeavesTheOperator(a, b)
        /\ MayDebit(a, n) /\ agents' = Move(a, b, n) /\ statements' = statements
        /\ journal' = Post(Post(journal, a, clock, "debit", n), b, clock, "credit", n)
    BY <2>1 DEF Transfer
  <2>3. "debit" \in DEBIT_KINDS /\ "credit" \in CREDIT_KINDS
    BY DEF DEBIT_KINDS, CREDIT_KINDS
  <2>4. Moved(a, b, n)
    BY <1>1, <2>2, <2>3, MovedBooks
  <2> QED
    BY <2>2, <2>4
<1>10. CASE \E a \in Agent, to \in Time : Statement(a, to)
  <2>1. PICK a \in Agent, to \in Time : Statement(a, to)
    BY <1>10
  <2>2. /\ agents' = agents /\ journal' = journal /\ a \in DOMAIN agents /\ to < clock
        /\ statements' = statements \cup
             {[agent |-> a, to |-> to, closing |-> BalanceFromLines(a, 0..to)]}
    BY <2>1 DEF Statement
  <2> QED
    BY <2>2 DEF Unmoved
<1> QED
  BY <1>3, <1>4, <1>5, <1>6, <1>7, <1>8, <1>9, <1>10, Zenon DEF BooksNext

\* The books change when nothing is staged, and keep what is claimed of them.
LEMMA BooksSettling ==
  ASSUME Booked, Settling, Sound, Books
  PROVE  Settling' /\ Sound'
<1>1. /\ Serving /\ BooksNext /\ BooksTypeOK
      /\ custody' = custody /\ staged' = staged /\ running' = running /\ ledger' = ledger
      /\ mode' = mode /\ failures' = failures /\ clock' = clock
  BY DEF Books, BooksNext, bridge, Booked
<1>2. staged = {} /\ running = Idle /\ Alone /\ Stated /\ Solvent /\ StatementsFinal
  BY <1>1 DEF Settling, Alone, Serving, Sound
<1>3. RowsOK(custody)
  BY DEF Booked
<1>4. CustodyReal' /\ NoMoneyLost'
  <2>1. SameCoins
    BY <1>1 DEF SameCoins, Unspent, Known
  <2> QED
    BY <1>1, <1>3, <2>1, RealKept DEF Sound
<1>5. Alone'
  BY <1>1, <1>2 DEF Alone
<1>6. CASE Unmoved
  <2>1. Stated'
    BY <1>1, <1>2, <1>6 DEF Unmoved, Stated
  <2>2. Solvent'
    BY <1>2, <1>6 DEF Unmoved, Solvent
  <2>3. StatementsFinal'
    <3>1. \A a, T : BalanceFromLines(a, T)' = BalanceFromLines(a, T)
      BY <1>6, SameQueries DEF Unmoved
    <3>2. \A s \in statements' : s.closing = BalanceFromLines(s.agent, 0..s.to)
      BY <1>2, <1>6 DEF Unmoved, StatementsFinal
    <3>3. \A s \in statements' : BalanceFromLines(s.agent, 0..s.to)'
                                   = BalanceFromLines(s.agent, 0..s.to)
      BY <3>1
    <3> QED
      BY <3>2, <3>3 DEF StatementsFinal
  <2> QED
    BY <1>1, <1>2, <1>4, <1>5, <2>1, <2>2, <2>3 DEF Settling, Sound
<1>7. ASSUME NEW a \in DOMAIN agents, NEW b \in DOMAIN agents, NEW n \in Amount, Moved(a, b, n)
      PROVE  Settling' /\ Sound'
  <2>1. n \in Nat
    BY AmountAssumption
  <2>2. Stated'
    BY <1>1, <1>2, <1>7 DEF Moved, Stated
  <2>3. Solvent'
    <3> SUFFICES ASSUME NEW x \in DOMAIN agents PROVE agents'[x].balance_mc >= 0
      BY <1>7 DEF Moved, Solvent
    <3>1. agents[x].balance_mc \in Int /\ agents[x].balance_mc >= 0
      BY <1>1, <1>2, AgentRows DEF Solvent
    <3>2. agents[a].balance_mc >= n
      BY <1>7 DEF Moved, MayDebit
    <3>3. agents'[x].balance_mc = agents[x].balance_mc
            - (IF x = a THEN n ELSE 0) + (IF x = b THEN n ELSE 0)
      BY <1>7 DEF Moved
    <3> QED
      BY <2>1, <3>1, <3>2, <3>3
  <2>4. StatementsFinal'
    <3>1. \A x \in Agent, T \in SUBSET Time : clock \notin T =>
            /\ DebitsOf(journal', x, T) = DebitsOf(journal, x, T)
            /\ CreditsOf(journal', x, T) = CreditsOf(journal, x, T)
      <4>1. \A x \in Agent, T \in SUBSET Time :
              CreditsOf(journal, x, T) \in Nat /\ DebitsOf(journal, x, T) \in Nat
        BY <1>1, SumsAreNumbers
      <4> QED
        BY <1>7, <2>1, <4>1 DEF Moved
    <3>2. \A s \in statements : s.to < clock
      BY <1>2 DEF Stated
    <3>3. statements' = statements
      BY <1>7 DEF Moved
    <3> QED
      BY <1>1, <1>2, <3>1, <3>2, <3>3, StatementsKept
  <2> QED
    BY <1>1, <1>2, <1>4, <1>5, <2>2, <2>3, <2>4 DEF Settling, Sound
<1> QED
  BY <1>1, <1>6, <1>7, BooksCases
-----------------------------------------------------------------------------
(***************************************************************************)
(* The bridge, in every reachable state.                                   *)
(***************************************************************************)
LEMMA InitSettling ==
  ASSUME Init
  PROVE  Settling /\ Sound
<1>1. /\ agents = [a \in {} |-> NULL] /\ custody = [h \in {} |-> NULL] /\ staged = {}
      /\ statements = {} /\ running = Idle /\ failures = 0
      /\ DOMAIN ledger = Keys(InitialCoins)
  BY DEF Init, InitBooks
<1>2. DOMAIN agents = {} /\ DOMAIN custody = {}
  BY <1>1
<1>3. Settling
  BY <1>1 DEF Settling, Alone, Stated
<1>4. CustodyReal
  BY <1>2 DEF CustodyReal, InState
<1>5. NoMoneyLost
  BY <1>1, BridgeAssumption DEF NoMoneyLost, Keys
<1> QED
  BY <1>1, <1>2, <1>3, <1>4, <1>5 DEF Sound, Solvent, StatementsFinal

LEMMA SettlingStep ==
  ASSUME NoneRaises, Booked, Settling, Sound, [Next]_vars
  PROVE  Settling' /\ Sound'
<1>1. /\ Alone
      /\ running # Idle => running.op \in staged /\ mode = "up"
  BY DEF Booked, Settling
<1>2. ASSUME Finalize PROVE Settling' /\ Sound'
  <2>1. PICK op \in staged : op = running.op
    BY <1>1, <1>2 DEF Finalize
  <2>2. /\ running # Idle /\ running.phase = "finalize" /\ RollForward(op)
        /\ running' = Idle /\ clock' = clock /\ ledger' = ledger /\ failures' = failures
    BY <1>2, <2>1 DEF Finalize
  <2>3. Committed(op)
    BY <1>1, <2>1, <2>2 DEF Alone
  <2> QED
    BY <2>2, <2>3, RolledStep
<1>3. ASSUME Discard PROVE Settling' /\ Sound'
  <2>1. PICK op \in staged : op = running.op
    BY <1>1, <1>3 DEF Discard
  <2>2. /\ running # Idle /\ running.phase = "unwind" /\ Unwind(op)
        /\ running' = Idle /\ clock' = clock /\ ledger' = ledger /\ failures' = failures
    BY <1>3, <2>1 DEF Discard
  <2>3. ~Committed(op)
    BY <1>1, <2>1, <2>2 DEF Alone
  <2> QED
    BY <2>2, <2>3, UnwoundStep
<1>4. ~Fail
  BY <1>1 DEF Fail, Alone, NoneRaises
<1>5. ASSUME NEW op \in staged, Recover(op) PROVE Settling' /\ Sound'
  <2>1. /\ running' = running /\ clock' = clock /\ ledger' = ledger /\ failures' = failures
        /\ mode = "recovering"
        /\ Committed(op) => RollForward(op)
        /\ ~Committed(op) => Unwind(op)
    BY <1>5 DEF Recover
  <2>2. running' = Idle
    BY <1>1, <2>1
  <2>3. CASE Committed(op)
    BY <2>1, <2>2, <2>3, RolledStep
  <2>4. CASE ~Committed(op)
    BY <2>1, <2>2, <2>4, UnwoundStep
  <2> QED
    BY <2>3, <2>4
<1> QED
  BY <1>2, <1>3, <1>4, <1>5, BooksSettling, DepositSettling, WithdrawSettling, CommitsStep,
     RejectedStep, ProcessStep, BearerStep, PruneStep, Zenon DEF Next, Handler, Recovery

LEMMA AlwaysSettling ==
  ASSUME NoneRaises
  PROVE  Spec => [](Booked /\ Settling /\ Sound)
<1>1. Init => Booked /\ Settling /\ Sound
  BY InitBooked, InitSettling
<1>2. Booked /\ Settling /\ Sound /\ [Next]_vars => (Booked /\ Settling /\ Sound)'
  BY BookedStep, SettlingStep
<1> QED
  BY <1>1, <1>2, PTL DEF Spec

\* The state is well formed; the substance is that no agent's balance goes
\* below zero although a withdrawal checks it when it is staged and debits it
\* two transactions and perhaps a restart later (supervision.py,
\* agent_withdraw and _finalize_withdraw).
THEOREM BalancesStayPositive ==
  ASSUME NoneRaises
  PROVE  Spec => []TypeOK
<1>1. Booked /\ Sound => TypeOK
  <2> SUFFICES ASSUME Booked, Sound PROVE TypeOK
    OBVIOUS
  <2>1. BooksTypeOK /\ \A a \in DOMAIN agents : agents[a].balance_mc >= 0
    BY DEF Booked, Sound, Solvent
  <2>2. DOMAIN custody \subseteq CustodyKey /\ \A h \in DOMAIN custody : custody[h] \in Row
    BY DEF Booked, RowsOK
  <2>3. absorbed \in Nat
    BY DEF Booked
  <2>4. \A op \in staged : op.absorbed \in Nat /\ op.total \in Nat /\ op.burn \in Nat
                           /\ op.agent \in DOMAIN agents /\ op.t \in 0..clock
    BY DEF Booked, StagedOp
  <2>5. \A h \in DOMAIN ledger : ledger[h].spent_at \in 0..clock \cup {NULL}
    BY DEF Booked, LedgerOK
  <2>6. /\ running # Idle => running.op \in staged /\ mode = "up"
        /\ mode \in {"up", "recovering", "down"}
    BY DEF Booked
  <2> QED
    BY <2>1, <2>2, <2>3, <2>4, <2>5, <2>6, Zenon DEF TypeOK
<1> QED
  BY <1>1, AlwaysSettling, PTL

\* Every custody row a withdrawal may select is a live entry of its amount, so
\* that no crash leaves the selector on rows the ledger has spent
\* (supervision.py, _recover_pending).
THEOREM CustodyRowsAreCoins ==
  ASSUME NoneRaises
  PROVE  Spec => []CustodyReal
<1>1. Sound => CustodyReal
  BY DEF Sound
<1> QED
  BY <1>1, AlwaysSettling, PTL

\* Every live entry that only a custody secret can spend is in the custody
\* table, free or held by a record that is yet to be settled: a crash between
\* any two transactions of a deposit or a withdrawal loses no money
\* (supervision.py, agent_deposit and agent_withdraw).
THEOREM NoCrashLosesMoney ==
  ASSUME NoneRaises
  PROVE  Spec => []NoMoneyLost
<1>1. Sound => NoMoneyLost
  BY DEF Sound
<1> QED
  BY <1>1, AlwaysSettling, PTL

\* What an operator was told about a closed period stays true, although a
\* withdrawal's lines are posted at the instant it was staged, which may be
\* long past when a restart posts them (supervision.py, op_statement).
THEOREM StatementsStayTrue ==
  ASSUME NoneRaises
  PROVE  Spec => []StatementsFinal
<1>1. Sound => StatementsFinal
  BY DEF Sound
<1> QED
  BY <1>1, AlwaysSettling, PTL
-----------------------------------------------------------------------------
(***************************************************************************)
(* What no step may do to an agent, or to a fleet.                         *)
(***************************************************************************)
\* What a step does to the books: nothing, a move, or a record's settlement.
LEMMA StepCases ==
  ASSUME NoneRaises, Booked, Settling, [Next]_vars
  PROVE  \/ Unmoved
         \/ clock' = clock /\ \E a, b \in DOMAIN agents, n \in Amount : Moved(a, b, n)
         \/ clock' = clock /\ \E op \in staged : RollForward(op) /\ Stands(op)
<1>1. BooksTypeOK /\ \A op \in staged : Stands(op)
  BY DEF Booked, Settling
<1>2. CASE Books
  BY <1>1, <1>2, BooksCases DEF Books, BooksNext
<1>3. CASE Finalize
  <2>1. PICK op \in staged : op = running.op
    BY <1>3 DEF Finalize, Booked
  <2> QED
    BY <1>1, <1>3, <2>1 DEF Finalize
<1>4. CASE \E op \in staged : Recover(op) /\ Committed(op)
  BY <1>1, <1>4 DEF Recover
<1>5. ASSUME UNCHANGED <<agents, journal, statements>> PROVE Unmoved
  BY <1>5 DEF Unmoved
<1>6. ASSUME NEW a \in Agent, NEW S, StageDeposit(a, S) \/ StageWithdraw(a, S)
      PROVE  UNCHANGED <<agents, journal, statements>>
  BY <1>6, Zenon DEF StageDeposit, StageWithdraw, Stage, books
<1>7. CASE \/ ExchangeCommits \/ ExchangeRejected \/ Discard \/ Fail \/ Crash \/ Restart
           \/ Recovered \/ (\E op \in staged : Recover(op) /\ ~Committed(op))
           \/ (\E h \in DOMAIN ledger : BearerSpend(h)) \/ Prune \/ Tick \/ UNCHANGED vars
  <2>1. UNCHANGED <<agents, journal, statements>>
    BY <1>7, Zenon
       DEF ExchangeCommits, ExchangeRejected, Discard, Unwind, Fail, Crash, Restart,
           Recovered, Recover, BearerSpend, Prune, Tick, vars, books
  <2> QED
    BY <1>5, <2>1
<1> QED
  BY <1>2, <1>3, <1>4, <1>5, <1>6, <1>7, Zenon DEF Next, Handler, Recovery

\* A longer period has no fewer debits.
LEMMA MoreDebits ==
  ASSUME NEW lines \in [Cell -> Nat], NEW a \in Agent,
         NEW S \in SUBSET Time, NEW T \in SUBSET S
  PROVE  DebitsOf(lines, a, T) \in Nat /\ DebitsOf(lines, a, S) \in Nat
         /\ DebitsOf(lines, a, T) <= DebitsOf(lines, a, S)
<1>1. PICK A, B : A = {a} \X T \X DEBIT_KINDS /\ B = {a} \X S \X DEBIT_KINDS
  OBVIOUS
<1>2. A \in SUBSET Cell /\ B \in SUBSET Cell /\ A \in SUBSET B
  <2>1. T \in SUBSET Time
    OBVIOUS
  <2>2. A \in SUBSET Cell /\ B \in SUBSET Cell
    BY <1>1, <2>1, AgentCells
  <2>3. A \in SUBSET B
    BY <1>1
  <2> QED
    BY <2>2, <2>3
<1>3. PICK f : f = [c \in B |-> lines[c]]
  OBVIOUS
<1>4. Family(f) /\ DOMAIN f = B
  BY <1>2, <1>3, SumOfCells
<1>5. Total([c \in A |-> f[c]]) \in Nat /\ Total([c \in A |-> f[c]]) <= Total(f)
  BY <1>2, <1>4, TotalOfPart
<1>6. [c \in A |-> f[c]] = [c \in A |-> lines[c]]
  BY <1>2, <1>3
<1>7. Total(f) \in Nat
  BY <1>4, TotalIsNat
<1>8. DebitsOf(lines, a, T) = Total([c \in A |-> f[c]]) /\ DebitsOf(lines, a, S) = Total(f)
  BY <1>1, <1>3, <1>6, Zenon DEF DebitsOf, SumOf
<1> QED
  BY <1>5, <1>7, <1>8

\* A debit checked against the caps at one instant and posted there leaves the
\* agent within them, then and later.
LEMMA WithinCaps ==
  ASSUME BooksTypeOK, NEW a \in DOMAIN agents, NEW n \in Nat, NEW t \in Time, t <= clock,
         ~CapViolation(a, n, t), agents'[a].caps = agents[a].caps, clock' = clock,
         \A T \in SUBSET Time :
           DebitsOf(journal', a, T) = DebitsOf(journal, a, T) + IF t \in T THEN n ELSE 0
  PROVE  ~CapViolation(a, 0, clock)'
<1>1. a \in Agent /\ journal \in [Cell -> Nat] /\ clock \in Nat /\ t \in Nat
  BY AgentRows, WindowAssumption DEF BooksTypeOK, Time
<1>2. PICK caps : caps = agents[a].caps
  OBVIOUS
<1>3. caps \in [per_hour_mc : Cap, per_day_mc : Cap, absolute_mc : Cap]
  <2>1. Uncapped \in [per_hour_mc : Cap, per_day_mc : Cap, absolute_mc : Cap]
    BY DEF Uncapped, Cap
  <2>2. caps \in Caps \cup {Uncapped}
    BY <1>2, AgentRows DEF AgentRow
  <2> QED
    BY <2>1, <2>2, CapsAssumption
<1>4. ASSUME NEW S \in SUBSET Time, NEW T \in SUBSET S, NEW cap \in Cap,
             Exceeds(DebitsOf(journal', a, T) + 0, cap)
      PROVE  Exceeds(DebitsOf(journal, a, S) + n, cap)
  <2>1. /\ DebitsOf(journal, a, T) \in Nat /\ DebitsOf(journal, a, S) \in Nat
        /\ DebitsOf(journal, a, T) <= DebitsOf(journal, a, S)
    BY <1>1, MoreDebits
  <2>2. DebitsOf(journal', a, T) = DebitsOf(journal, a, T) + IF t \in T THEN n ELSE 0
    OBVIOUS
  <2>3. cap # NULL /\ cap \in Nat
    BY <1>4 DEF Exceeds, Cap
  <2>4. DebitsOf(journal, a, S) + n > cap
    BY <1>4, <2>1, <2>2, <2>3 DEF Exceeds
  <2> QED
    BY <2>3, <2>4 DEF Exceeds
<1>5. ASSUME NEW w \in Nat
      PROVE  {u \in Time : u > clock - w} \in SUBSET {u \in Time : u > t - w}
  <2>1. \A u \in Time : u \in Nat
    BY WindowAssumption DEF Time
  <2>2. ASSUME NEW u \in Nat, u > clock - w PROVE u > t - w
    BY <1>1, <2>2
  <2> QED
    BY <2>1, <2>2
<1>6. HOUR_MS \in Nat /\ DAY_MS \in Nat
  BY WindowAssumption
<1>7. /\ \A x, T : Debits(x, T) = DebitsOf(journal, x, T)
      /\ \A x, T : Debits(x, T)' = DebitsOf(journal', x, T)
  BY QueriesAreSums, QueriesNext
<1>8. /\ ~Exceeds(DebitsOf(journal, a, {u \in Time : u > t - HOUR_MS}) + n, caps.per_hour_mc)
      /\ ~Exceeds(DebitsOf(journal, a, {u \in Time : u > t - DAY_MS}) + n, caps.per_day_mc)
      /\ ~Exceeds(DebitsOf(journal, a, Time) + n, caps.absolute_mc)
  BY <1>2, <1>7 DEF CapViolation, DebitsSince
<1>9. /\ ~Exceeds(DebitsOf(journal', a, {u \in Time : u > clock - HOUR_MS}) + 0, caps.per_hour_mc)
      /\ ~Exceeds(DebitsOf(journal', a, {u \in Time : u > clock - DAY_MS}) + 0, caps.per_day_mc)
      /\ ~Exceeds(DebitsOf(journal', a, Time) + 0, caps.absolute_mc)
  <2>1. caps.per_hour_mc \in Cap /\ caps.per_day_mc \in Cap /\ caps.absolute_mc \in Cap
    BY <1>3
  <2>2. /\ {u \in Time : u > t - HOUR_MS} \in SUBSET Time
        /\ {u \in Time : u > t - DAY_MS} \in SUBSET Time /\ Time \in SUBSET Time
    OBVIOUS
  <2> QED
    BY <1>4, <1>5, <1>6, <1>8, <2>1, <2>2
<1>10. agents'[a].caps = caps
  BY <1>2
<1> QED
  BY <1>7, <1>9, <1>10 DEF CapViolation, DebitsSince
\* What a step debits an agent: at one instant, what was checked there of an
\* agent that was not frozen.
Debited(a, n, t) ==
  /\ n \in Nat /\ t \in Time /\ t <= clock
  /\ n > 0 => clock' = clock /\ ~agents[a].frozen /\ ~CapViolation(a, n, t)
  /\ agents'[a].caps = agents[a].caps \/ n = 0
  /\ \A T \in SUBSET Time :
       DebitsOf(journal', a, T) = DebitsOf(journal, a, T) + IF t \in T THEN n ELSE 0

LEMMA StepDebits ==
  ASSUME NoneRaises, Booked, Settling, [Next]_vars, NEW a \in DOMAIN agents
  PROVE  \E n, t : Debited(a, n, t)
<1>1. BooksTypeOK /\ a \in Agent /\ clock \in Time /\ clock \in Nat
  BY AgentRows, WindowAssumption DEF Booked, BooksTypeOK, Time
<1>2. \A T \in SUBSET Time : DebitsOf(journal, a, T) \in Nat
  BY <1>1, SumsAreNumbers
<1>3. CASE Unmoved
  <2>1. \A T \in SUBSET Time :
          DebitsOf(journal', a, T) = DebitsOf(journal, a, T) + IF clock \in T THEN 0 ELSE 0
    BY <1>2, <1>3 DEF Unmoved
  <2>2. Debited(a, 0, clock)
    BY <1>1, <2>1 DEF Debited
  <2> QED
    BY <2>2
<1>4. ASSUME clock' = clock, NEW x \in DOMAIN agents, NEW b \in DOMAIN agents,
             NEW n \in Amount, Moved(x, b, n)
      PROVE  \E m, t : Debited(a, m, t)
  <2>1. n \in Nat
    BY AmountAssumption
  <2>2. agents'[a].caps = agents[a].caps
    BY <1>4 DEF Moved, Alike
  <2>3. CASE a = x
    <3>1. ~agents[a].frozen /\ ~CapViolation(a, n, clock)
      BY <1>4, <2>3 DEF Moved, MayDebit
    <3>2. \A T \in SUBSET Time :
            DebitsOf(journal', a, T) = DebitsOf(journal, a, T) + IF clock \in T THEN n ELSE 0
      BY <1>1, <1>4, <2>3 DEF Moved
    <3>3. clock <= clock
      BY <1>1
    <3>4. Debited(a, n, clock)
      BY <1>1, <1>4, <2>1, <2>2, <3>1, <3>2, <3>3, Zenon DEF Debited
    <3> QED
      BY <3>4
  <2>4. CASE a # x
    <3>1. \A T \in SUBSET Time :
            DebitsOf(journal', a, T) = DebitsOf(journal, a, T) + IF clock \in T THEN 0 ELSE 0
      BY <1>1, <1>2, <1>4, <2>4 DEF Moved
    <3>2. Debited(a, 0, clock)
      BY <1>1, <2>2, <3>1 DEF Debited
    <3> QED
      BY <3>2
  <2> QED
    BY <2>3, <2>4
<1>5. ASSUME clock' = clock, NEW op \in staged, RollForward(op), Stands(op)
      PROVE  \E n, t : Debited(a, n, t)
  <2>1. /\ op.t \in Time /\ op.t \in 0..clock /\ PaidOut(op) \in Nat
        /\ \A x \in DOMAIN agents : Alike(agents'[x], agents[x])
        /\ \A T \in SUBSET Time :
             DebitsOf(journal', a, T) = DebitsOf(journal, a, T)
               + IF a = op.agent /\ op.t \in T THEN PaidOut(op) ELSE 0
    <3>1. /\ op.t \in Time /\ op.t \in 0..clock /\ PaidOut(op) \in Nat
          /\ \A x \in DOMAIN agents : Alike(agents'[x], agents[x])
      BY <1>5, RolledBooks
    <3>2. \A x \in Agent, T \in SUBSET Time :
            DebitsOf(journal', x, T) = DebitsOf(journal, x, T)
              + IF x = op.agent /\ op.t \in T THEN PaidOut(op) ELSE 0
      BY <1>5, RolledBooks
    <3> QED
      BY <1>1, <3>1, <3>2, Zenon
  <2>2. op.t <= clock /\ agents'[a].caps = agents[a].caps
    BY <1>1, <2>1 DEF Alike
  <2>3. CASE a = op.agent
    <3>1. op.kind = "withdraw"
            => ~agents[a].frozen /\ ~CapViolation(a, PaidOut(op), op.t)
      BY <1>5, <2>3 DEF Stands, Permitted, PaidOut
    <3>2. op.kind # "withdraw" => PaidOut(op) = 0
      BY DEF PaidOut
    <3>3. PaidOut(op) > 0 => ~agents[a].frozen /\ ~CapViolation(a, PaidOut(op), op.t)
      BY <3>1, <3>2
    <3>4. Debited(a, PaidOut(op), op.t)
      BY <1>5, <2>1, <2>2, <2>3, <3>3 DEF Debited
    <3> QED
      BY <3>4
  <2>4. CASE a # op.agent
    <3>1. \A T \in SUBSET Time :
            DebitsOf(journal', a, T) = DebitsOf(journal, a, T) + IF clock \in T THEN 0 ELSE 0
      BY <1>2, <2>1, <2>4
    <3>2. Debited(a, 0, clock)
      BY <1>1, <2>2, <3>1 DEF Debited
    <3> QED
      BY <3>2
  <2> QED
    BY <2>3, <2>4
<1> QED
  BY <1>3, <1>4, <1>5, StepCases

\* A debit that is applied leaves the agent within its caps as they stand
\* then, pulls and the burn of withdrawals included, although the caps of a
\* withdrawal are looked at when it is staged and its debit is posted after
\* the exchange or a restart (supervision.py, cap_violation).
THEOREM DebitsStayWithinCaps ==
  ASSUME NoneRaises
  PROVE  Spec => CapsHold
<1>1. Booked /\ Settling /\ [Next]_vars =>
        [\A a \in DOMAIN agents :
           Debits(a, Time)' > Debits(a, Time) => ~CapViolation(a, 0, clock)']_vars
  <2> SUFFICES ASSUME Booked, Settling, [Next]_vars, NEW a \in DOMAIN agents,
                      Debits(a, Time)' > Debits(a, Time)
               PROVE  ~CapViolation(a, 0, clock)'
    BY Zenon
  <2>1. PICK n, t : Debited(a, n, t)
    BY StepDebits
  <2>2. BooksTypeOK /\ a \in Agent
    BY AgentRows DEF Booked
  <2>3. DebitsOf(journal, a, Time) \in Nat
    BY <2>2, SumsAreNumbers
  <2>4. DebitsOf(journal', a, Time) > DebitsOf(journal, a, Time)
    BY QueriesAreSums, QueriesNext
  <2>5. n \in Nat /\ n > 0 /\ t \in Time /\ t <= clock
    BY <2>1, <2>3, <2>4 DEF Debited
  <2>6. /\ clock' = clock /\ ~CapViolation(a, n, t) /\ agents'[a].caps = agents[a].caps
        /\ \A T \in SUBSET Time :
             DebitsOf(journal', a, T) = DebitsOf(journal, a, T) + IF t \in T THEN n ELSE 0
    BY <2>1, <2>5 DEF Debited
  <2> QED
    BY <2>2, <2>5, <2>6, WithinCaps
<1> QED
  BY <1>1, AlwaysSettling, PTL DEF Spec, CapsHold

\* A freeze halts every outflow: nothing debits an agent that is frozen, not
\* even the end of a withdrawal that was staged before a crash (supervision.py,
\* agent_withdraw and op_freeze).
THEOREM FrozenPayNothing ==
  ASSUME NoneRaises
  PROVE  Spec => FrozenStill
<1>1. Booked /\ Settling /\ [Next]_vars =>
        [\A a \in DOMAIN agents :
           agents[a].frozen => Debits(a, Time)' = Debits(a, Time)]_vars
  <2> SUFFICES ASSUME Booked, Settling, [Next]_vars, NEW a \in DOMAIN agents,
                      agents[a].frozen
               PROVE  Debits(a, Time)' = Debits(a, Time)
    BY Zenon
  <2>1. PICK n, t : Debited(a, n, t)
    BY StepDebits
  <2>2. BooksTypeOK /\ a \in Agent
    BY AgentRows DEF Booked
  <2>3. DebitsOf(journal, a, Time) \in Nat
    BY <2>2, SumsAreNumbers
  <2>4. ~(n > 0) /\ n \in Nat
    BY <2>1 DEF Debited
  <2>5. DebitsOf(journal', a, Time) = DebitsOf(journal, a, Time)
    BY <2>1, <2>3, <2>4 DEF Debited
  <2> QED
    BY <2>5, QueriesAreSums, QueriesNext
<1> QED
  BY <1>1, AlwaysSettling, PTL DEF Spec, FrozenStill
\* The balances of some agents are a family.
LEMMA BalancesAreAmounts ==
  ASSUME BooksTypeOK, Solvent, NEW S \in SUBSET DOMAIN agents
  PROVE  Family([a \in S |-> agents[a].balance_mc])
<1>1. \A a \in DOMAIN agents : agents[a].balance_mc \in Nat
  <2> SUFFICES ASSUME NEW a \in DOMAIN agents PROVE agents[a].balance_mc \in Nat
    OBVIOUS
  <2>1. agents[a].balance_mc \in Int /\ agents[a].balance_mc >= 0
    BY AgentRows DEF Solvent
  <2> QED
    BY <2>1
<1>2. IsFiniteSet(S)
  <2>1. S \in SUBSET Agent
    BY AgentRows
  <2> QED
    BY <2>1, FleetAssumption, FS_Subset
<1> QED
  BY <1>1, <1>2 DEF Family

\* A move within a fleet, or into it, takes nothing out of it.
LEMMA MovedFleet ==
  ASSUME BooksTypeOK, Solvent, NEW F \in SUBSET DOMAIN agents, NEW a \in DOMAIN agents,
         NEW b \in DOMAIN agents, NEW n \in Nat, Moved(a, b, n), a \in F => b \in F,
         NEW f, f = [x \in F |-> agents[x].balance_mc],
         NEW g, g = [x \in F |-> agents'[x].balance_mc]
  PROVE  Total(g) >= Total(f)
<1>1. Family(f)
  BY BalancesAreAmounts
<1>2. /\ \A x \in F : f[x] \in Nat
      /\ \A x \in F : g[x] = f[x] - (IF x = a THEN n ELSE 0) + (IF x = b THEN n ELSE 0)
      /\ DOMAIN f = F /\ DOMAIN g = F
  <2>1. \A x \in F : g[x] = f[x] - (IF x = a THEN n ELSE 0) + (IF x = b THEN n ELSE 0)
    BY DEF Moved
  <2>2. DOMAIN f = F /\ DOMAIN g = F
    OBVIOUS
  <2> QED
    BY <1>1, <2>1, <2>2 DEF Family
<1>3. Total(f) \in Nat
  BY <1>1, TotalIsNat
<1>4. CASE a = b \/ b \notin F
  <2>1. \A x \in F : g[x] = f[x]
    BY <1>2, <1>4
  <2>2. g = f
    BY <1>2, <2>1
  <2> QED
    BY <1>3, <2>2
<1>5. CASE a # b /\ a \in F
  <2>1. agents[a].balance_mc >= n
    BY DEF Moved, MayDebit
  <2>2. /\ b \in F /\ n <= f[a] /\ g[a] = f[a] - n /\ g[b] = f[b] + n
        /\ \A x \in DOMAIN f : x # a /\ x # b => g[x] = f[x]
    BY <1>2, <1>5, <2>1
  <2>3. Total(g) = Total(f)
    BY SMTT(30), <1>1, <1>2, <1>5, <2>2, TotalOfMove
  <2> QED
    BY <1>3, <2>3
<1>6. CASE a \notin F /\ b \in F
  <2>1. /\ g[b] = f[b] + n /\ g[b] \in Nat /\ f[b] \in Nat
        /\ \A y \in DOMAIN f \ {b} : g[y] = f[y]
    BY <1>2, <1>6
  <2>2. Total(g) = Total(f) - f[b] + g[b]
    BY <1>1, <1>2, <1>6, <2>1, TotalOfChange
  <2> QED
    BY <1>3, <2>1, <2>2
<1> QED
  BY <1>4, <1>5, <1>6

\* A settlement takes nothing out of a fleet that withdraws nothing.
LEMMA RolledFleet ==
  ASSUME Booked, Solvent, NEW F \in SUBSET DOMAIN agents, NEW op \in staged,
         RollForward(op), Stands(op), \A x \in F : agents[x].no_bearer_withdrawal,
         NEW f, f = [x \in F |-> agents[x].balance_mc],
         NEW g, g = [x \in F |-> agents'[x].balance_mc]
  PROVE  Total(g) >= Total(f)
<1>1. Family(f)
  BY BalancesAreAmounts DEF Booked
<1>2. DOMAIN f = F /\ DOMAIN g = F /\ \A x \in F : f[x] \in Nat
  BY <1>1 DEF Family
<1>3. /\ PaidIn(op) \in Nat
      /\ agents'[op.agent].balance_mc = agents[op.agent].balance_mc + PaidIn(op) - PaidOut(op)
      /\ \A x \in DOMAIN agents : x # op.agent => agents'[x] = agents[x]
  BY RolledBooks
<1>4. Total(f) \in Nat
  BY <1>1, TotalIsNat
<1>5. CASE op.agent \notin F
  <2>1. \A x \in F : g[x] = f[x]
    BY <1>3, <1>5
  <2>2. g = f
    BY <1>2, <2>1
  <2> QED
    BY <1>4, <2>2
<1>6. CASE op.agent \in F
  <2>1. op.kind # "withdraw"
    BY <1>6 DEF Stands, Permitted
  <2>2. PaidOut(op) = 0
    BY <2>1 DEF PaidOut
  <2>3. /\ g[op.agent] = f[op.agent] + PaidIn(op) /\ g[op.agent] \in Nat
        /\ f[op.agent] \in Nat
    <3>1. g[op.agent] = f[op.agent] + PaidIn(op) - 0
      BY <1>3, <1>6, <2>2
    <3> QED
      BY <1>2, <1>3, <1>6, <3>1
  <2>4. \A y \in DOMAIN f \ {op.agent} : g[y] = f[y]
    BY <1>2, <1>3
  <2>5. Total(g) = Total(f) - f[op.agent] + g[op.agent]
    BY <1>1, <1>2, <1>6, <2>3, <2>4, TotalOfChange
  <2> QED
    BY <1>3, <1>4, <2>3, <2>5
<1> QED
  BY <1>5, <1>6

\* While all agents of an operator carry the no-bearer flag, no step takes
\* value out of the fleet: no withdrawal, not even one that was staged before
\* a crash, no transfer, and no pull on a grant given before the flag
\* (supervision.py, leaves_operator and agent_withdraw).
THEOREM NothingLeavesThePerimeter ==
  ASSUME NoneRaises
  PROVE  Spec => PerimeterHolds
<1>1. Booked /\ Settling /\ Sound /\ [Next]_vars =>
        [\A o \in Operator :
           (\A a \in Fleet(o) : agents[a].no_bearer_withdrawal)
             => Total([a \in Fleet(o) |-> agents'[a].balance_mc])
                  >= Total([a \in Fleet(o) |-> agents[a].balance_mc])]_vars
  <2> SUFFICES ASSUME Booked, Settling, Sound, [Next]_vars, NEW o \in Operator,
                      \A a \in Fleet(o) : agents[a].no_bearer_withdrawal
               PROVE  Total([a \in Fleet(o) |-> agents'[a].balance_mc])
                        >= Total([a \in Fleet(o) |-> agents[a].balance_mc])
    BY Zenon
  <2>1. PICK F : F = Fleet(o)
    OBVIOUS
  <2>2. PICK f, g : /\ f = [x \in F |-> agents[x].balance_mc]
                    /\ g = [x \in F |-> agents'[x].balance_mc]
    OBVIOUS
  <2>3. F \in SUBSET DOMAIN agents /\ BooksTypeOK /\ Solvent
    BY <2>1 DEF Fleet, Booked, Sound
  <2>4. CASE Unmoved
    <3>1. \A x \in F : g[x] = f[x]
      BY <2>2, <2>3, <2>4 DEF Unmoved
    <3>2. g = f
      BY <2>2, <3>1
    <3>3. Total(f) \in Nat
      BY <2>2, <2>3, BalancesAreAmounts, TotalIsNat
    <3> QED
      BY <2>1, <2>2, <3>2, <3>3
  <2>5. ASSUME NEW a \in DOMAIN agents, NEW b \in DOMAIN agents, NEW n \in Amount,
               Moved(a, b, n)
        PROVE  Total(g) >= Total(f)
    <3>1. a \in F => b \in F
      BY <2>1, <2>5 DEF Moved, LeavesTheOperator, Fleet
    <3>2. n \in Nat
      BY AmountAssumption
    <3> QED
      BY <2>2, <2>3, <2>5, <3>1, <3>2, MovedFleet
  <2>6. ASSUME NEW op \in staged, RollForward(op), Stands(op)
        PROVE  Total(g) >= Total(f)
    BY <2>1, <2>2, <2>3, <2>6, RolledFleet
  <2>7. Total(g) >= Total(f)
    BY <2>1, <2>2, <2>4, <2>5, <2>6, StepCases
  <2> QED
    BY <2>1, <2>2, <2>7, Zenon
<1> QED
  BY <1>1, AlwaysSettling, PTL DEF Spec, PerimeterHolds

-----------------------------------------------------------------------------
(***************************************************************************)
(* The bridge implements CustodialCash: every step of it is a whole        *)
(* deposit, a whole withdrawal, a move between accounts, a token spent     *)
(* elsewhere, or invisible.  What is needed beyond the invariants above is *)
(* what a staged record says of the tokens and their price, so that the    *)
(* exchange, which takes its sums from the record, is the deposit or       *)
(* withdrawal it was staged for.                                           *)
(***************************************************************************)
\* What a staged record says of the tokens an agent presented or asked for,
\* and of their price.
Asked(op) ==
  /\ op.kind = "deposit" =>
       op.inputs \in Deposits /\ op.outputs = {[hash |-> op.key, amount |-> op.total]}
  /\ op.kind = "withdraw" =>
       \E asked \in Withdrawals :
         /\ {c \in op.outputs : c.hash \notin CustodyKey} = asked
         /\ op.total = Value(asked) /\ op.burn = BurnOf(asked, op.t)

AllAsked == \A op \in staged : Asked(op)

\* A record says what was asked for as long as it is staged.
LEMMA AskedStep ==
  ASSUME Booked, AllAsked, [Next]_vars
  PROVE  AllAsked'
<1>1. ASSUME staged' \subseteq staged PROVE AllAsked'
  BY <1>1 DEF AllAsked
<1>2. ASSUME NEW a \in Agent, NEW tokens \in Deposits, StageDeposit(a, tokens)
      PROVE  AllAsked'
  <2>1. PICK net : net = Value(tokens) - BurnOf(tokens, clock)
    OBVIOUS
  <2>2. PICK op : op = [kind |-> "deposit", agent |-> a, t |-> clock,
                        probe |-> FreshKey, key |-> FreshKey, inputs |-> tokens,
                        outputs |-> {[hash |-> FreshKey, amount |-> net]},
                        total |-> net, burn |-> 0, absorbed |-> 0]
    OBVIOUS
  <2>3. Stage(op)
    BY <1>2, <2>1, <2>2, Zenon DEF StageDeposit
  <2>4. Asked(op)
    BY <2>2 DEF Asked
  <2> QED
    BY <2>3, <2>4 DEF AllAsked, Stage
<1>3. ASSUME NEW a \in Agent, NEW outputs \in Withdrawals, StageWithdraw(a, outputs)
      PROVE  AllAsked'
  <2>1. PICK op, change : Stage(op) /\ Withdrawal(op, a, outputs, change)
    BY <1>3, WithdrawalStaged
  <2>2. \A c \in outputs : c.hash \notin CustodyKey
    BY BridgeAssumption
  <2>3. /\ op.kind = "withdraw" /\ op.t = clock
        /\ op.outputs = outputs \cup
             (IF op.key = NULL THEN {} ELSE {[hash |-> op.key, amount |-> change]})
        /\ op.total = Value(outputs) /\ op.burn = BurnOf(outputs, clock)
        /\ op.key # NULL => op.key \in CustodyKey
    BY <2>1 DEF Withdrawal
  <2>4. {c \in op.outputs : c.hash \notin CustodyKey} = outputs
    <3>1. ASSUME NEW c \in op.outputs, c \notin outputs PROVE c.hash \in CustodyKey
      <4>1. op.key # NULL /\ c = [hash |-> op.key, amount |-> change]
        BY <2>3, <3>1
      <4> QED
        BY <2>3, <4>1
    <3>2. outputs \subseteq op.outputs
      BY <2>3
    <3> QED
      BY <2>2, <3>1, <3>2
  <2>5. Asked(op)
    BY <2>3, <2>4 DEF Asked
  <2> QED
    BY <2>1, <2>5 DEF AllAsked, Stage
<1>4. ASSUME NEW op \in staged, RollForward(op) \/ Unwind(op) PROVE staged' \subseteq staged
  BY <1>4 DEF RollForward, FinalizeDeposit, FinalizeWithdraw, Unwind
<1>5. ASSUME Handler \/ Recovery PROVE staged' \subseteq staged
  <2>1. ASSUME ExchangeCommits \/ ExchangeRejected PROVE staged' \subseteq staged
    BY <2>1 DEF ExchangeCommits, ExchangeRejected
  <2>2. ASSUME Finalize \/ Discard PROVE staged' \subseteq staged
    BY <1>4, <2>2 DEF Finalize, Discard, Booked
  <2>3. ASSUME Recovered PROVE staged' \subseteq staged
    BY <2>3 DEF Recovered, bridge
  <2>4. ASSUME NEW op \in staged, Recover(op) PROVE staged' \subseteq staged
    BY <1>4, <2>4 DEF Recover
  <2> QED
    BY <1>5, <2>1, <2>2, <2>3, <2>4 DEF Handler, Recovery
<1>6. ASSUME \/ Books \/ Fail \/ Crash \/ Restart \/ Prune \/ Tick \/ UNCHANGED vars
             \/ \E h \in DOMAIN ledger : BearerSpend(h)
      PROVE  staged' \subseteq staged
  BY <1>6 DEF Books, Fail, Crash, Restart, Prune, Tick, vars, BearerSpend, bridge
<1> QED
  BY <1>1, <1>2, <1>3, <1>5, <1>6 DEF Next

\* In every reachable state.
LEMMA AlwaysAsked ==
  ASSUME NoneRaises
  PROVE  Spec => []AllAsked
<1>1. Init => AllAsked
  BY DEF Init, AllAsked
<1> QED
  BY <1>1, AskedStep, AlwaysSettling, PTL DEF Spec

-----------------------------------------------------------------------------
\* The two variables of CustodialCash.

\* A balance with what the records that committed add to it and take off it.
AccountIn(rows, records, done, a) ==
  IF a \notin DOMAIN rows THEN 0
  ELSE rows[a].balance_mc
         + Total([op \in {p \in records : p.agent = a /\ p.kind = "deposit" /\ p \in done}
                    |-> op.total])
         - Total([op \in {p \in records : p.agent = a /\ p.kind = "withdraw" /\ p \in done}
                    |-> op.total + op.burn])

Done == {op \in staged : Committed(op)}

\* Account reads those, in this state and in the next.
LEMMA AccountsAre ==
  /\ \A a : Account(a) = AccountIn(agents, staged, Done, a)
  /\ \A a : Account(a)' = AccountIn(agents', staged', Done', a)
<1>1. \A a, kind : Due(a, kind) = {p \in staged : p.agent = a /\ p.kind = kind /\ p \in Done}
  BY DEF Due, Done
<1>2. \A a, kind : Due(a, kind)'
         = {p \in staged' : p.agent = a /\ p.kind = kind /\ p \in Done'}
  BY DEF Due, Done
<1> QED
  BY <1>1, <1>2, Zenon DEF Account, AccountIn

\* With nothing staged an account is the balance.
LEMMA AccountBare ==
  ASSUME NEW rows, NEW done, NEW a, a \in DOMAIN rows => rows[a].balance_mc \in Int
  PROVE  AccountIn(rows, {}, done, a) = IF a \in DOMAIN rows THEN rows[a].balance_mc ELSE 0
<1> DEFINE ins == [op \in {p \in {} : p.agent = a /\ p.kind = "deposit" /\ p \in done}
                     |-> op.total]
           outs == [op \in {p \in {} : p.agent = a /\ p.kind = "withdraw" /\ p \in done}
                      |-> op.total + op.burn]
<1>1. Total(ins) = 0 /\ Total(outs) = 0
  BY TotalOfNothing
<1>2. AccountIn(rows, {}, done, a) =
        IF a \notin DOMAIN rows THEN 0 ELSE rows[a].balance_mc + Total(ins) - Total(outs)
  BY Zenon DEF AccountIn
<1> QED
  BY <1>1, <1>2

\* With one record staged it counts when that committed.
LEMMA AccountOne ==
  ASSUME NEW rows, NEW op, op.total \in Nat, op.burn \in Nat,
         op.kind \in {"deposit", "withdraw"}, NEW done,
         NEW a, a \in DOMAIN rows => rows[a].balance_mc \in Int
  PROVE  AccountIn(rows, {op}, done, a) =
           IF a \in DOMAIN rows
           THEN rows[a].balance_mc
                  + IF op.agent = a /\ op \in done THEN PaidIn(op) - PaidOut(op) ELSE 0
           ELSE 0
<1> DEFINE D == {p \in {op} : p.agent = a /\ p.kind = "deposit" /\ p \in done}
           W == {p \in {op} : p.agent = a /\ p.kind = "withdraw" /\ p \in done}
           ins == [p \in D |-> p.total]
           outs == [p \in W |-> p.total + p.burn]
           counts == op.agent = a /\ op \in done
<1>1. D = IF counts /\ op.kind = "deposit" THEN {op} ELSE {}
  OBVIOUS
<1>2. W = IF counts /\ op.kind = "withdraw" THEN {op} ELSE {}
  OBVIOUS
<1>3. Total(ins) = IF counts /\ op.kind = "deposit" THEN op.total ELSE 0
  <2>1. CASE counts /\ op.kind = "deposit"
    <3>1. ins = [p \in {op} |-> op.total]
      BY <1>1, <2>1
    <3>2. Total([p \in {op} |-> op.total]) = op.total
      BY TotalOfOne
    <3> QED
      BY <2>1, <3>1, <3>2
  <2>2. CASE ~(counts /\ op.kind = "deposit")
    <3>1. DOMAIN ins = {}
      BY <1>1, <2>2
    <3> HIDE DEF ins
    <3> QED
      BY <2>2, <3>1, TotalOfNothing
  <2> QED
    BY <2>1, <2>2
<1>4. Total(outs) = IF counts /\ op.kind = "withdraw" THEN op.total + op.burn ELSE 0
  <2>1. CASE counts /\ op.kind = "withdraw"
    <3>1. outs = [p \in {op} |-> op.total + op.burn]
      BY <1>2, <2>1
    <3>2. op.total + op.burn \in Nat
      OBVIOUS
    <3> QED
      BY <2>1, <3>1, <3>2, TotalOfOne
  <2>2. CASE ~(counts /\ op.kind = "withdraw")
    <3>1. DOMAIN outs = {}
      BY <1>2, <2>2
    <3> HIDE DEF outs
    <3> QED
      BY <2>2, <3>1, TotalOfNothing
  <2> QED
    BY <2>1, <2>2
<1>5. AccountIn(rows, {op}, done, a) =
        IF a \notin DOMAIN rows THEN 0 ELSE rows[a].balance_mc + Total(ins) - Total(outs)
  BY Zenon DEF AccountIn
<1> HIDE DEF ins, outs, counts
<1>6. CASE op.kind = "deposit"
  BY <1>3, <1>4, <1>5, <1>6 DEF PaidIn, PaidOut, counts
<1>7. CASE op.kind = "withdraw"
  BY <1>3, <1>4, <1>5, <1>7 DEF PaidIn, PaidOut, counts
<1> QED
  BY <1>6, <1>7

\* Which coins are bearer's.
LEMMA BearerCoins ==
  /\ \A c : c \in Bearer <=>
       \E h : Unspent(h) /\ h \notin CustodyKey /\ c = [hash |-> h, amount |-> ledger[h].amount]
  /\ \A c : c \in Bearer' <=>
       \E h : Unspent(h)' /\ h \notin CustodyKey /\ c = [hash |-> h, amount |-> ledger'[h].amount]
  BY DEF Bearer, Unspent, Known

\* What a step shows of itself.
Unseen == Bearer' = Bearer /\ \A a \in Agent : Account(a)' = Account(a)

\* Such a step is a stutter of CustodialCash.
LEMMA UnseenStutters ==
  ASSUME Unseen
  PROVE  UNCHANGED Custodial!vars
<1>1. [a \in Agent |-> Account(a)]' = [a \in Agent |-> Account(a)]
  BY DEF Unseen
<1> QED
  BY <1>1 DEF Unseen, Custodial!vars

-----------------------------------------------------------------------------
\* Steps nobody outside sees.

\* The same entries, records and books.
LEMMA QuietUnseen ==
  ASSUME ledger' = ledger, staged' = staged, agents' = agents
  PROVE  Unseen
<1>1. Done' = Done
  BY DEF Done, Committed, Known, Unspent
<1>2. Bearer' = Bearer
  BY DEF Bearer, Unspent, Known
<1> QED
  BY <1>1, <1>2, AccountsAre DEF Unseen

\* The accounts of a step between two states of which neither has a committed
\* record.
LEMMA NothingDue ==
  ASSUME Booked, staged = {} \/ (\E op : staged = {op} /\ ~Committed(op)),
         BooksTypeOK',
         staged' = {} \/ (\E op : /\ staged' = {op} /\ ~Committed(op)'
                                  /\ op.total \in Nat /\ op.burn \in Nat
                                  /\ op.kind \in {"deposit", "withdraw"})
  PROVE  \A a : /\ Account(a) = IF a \in DOMAIN agents THEN agents[a].balance_mc ELSE 0
                /\ Account(a)' = IF a \in DOMAIN agents' THEN agents'[a].balance_mc ELSE 0
<1> SUFFICES ASSUME NEW a
             PROVE  /\ Account(a) = IF a \in DOMAIN agents THEN agents[a].balance_mc ELSE 0
                    /\ Account(a)' = IF a \in DOMAIN agents' THEN agents'[a].balance_mc ELSE 0
  OBVIOUS
<1>1. a \in DOMAIN agents => agents[a].balance_mc \in Int
  BY AgentRows DEF Booked
<1>2. a \in DOMAIN agents' => agents'[a].balance_mc \in Int
  BY DEF BooksTypeOK, AgentRow
<1>3. Account(a) = IF a \in DOMAIN agents THEN agents[a].balance_mc ELSE 0
  <2>1. CASE staged = {}
    BY <1>1, <2>1, AccountBare, AccountsAre
  <2>2. ASSUME NEW op, staged = {op}, ~Committed(op)
        PROVE  Account(a) = IF a \in DOMAIN agents THEN agents[a].balance_mc ELSE 0
    <3>1. op.total \in Nat /\ op.burn \in Nat /\ op.kind \in {"deposit", "withdraw"}
      BY <2>2 DEF Booked, StagedOp
    <3>2. op \notin Done
      BY <2>2 DEF Done
    <3>3. AccountIn(agents, {op}, Done, a) =
            IF a \in DOMAIN agents
            THEN agents[a].balance_mc
                   + IF op.agent = a /\ op \in Done THEN PaidIn(op) - PaidOut(op) ELSE 0
            ELSE 0
      BY <1>1, <3>1, AccountOne
    <3>4. Account(a) = AccountIn(agents, {op}, Done, a)
      BY <2>2, AccountsAre
    <3> QED
      BY <1>1, <3>2, <3>3, <3>4
  <2> QED
    BY <2>1, <2>2
<1>4. Account(a)' = IF a \in DOMAIN agents' THEN agents'[a].balance_mc ELSE 0
  <2>1. CASE staged' = {}
    <3>1. Account(a)' = AccountIn(agents', {}, Done', a)
      BY <2>1, AccountsAre
    <3> QED
      BY <1>2, <3>1, AccountBare
  <2>2. ASSUME NEW op, staged' = {op}, ~Committed(op)', op.total \in Nat, op.burn \in Nat,
               op.kind \in {"deposit", "withdraw"}
        PROVE  Account(a)' = IF a \in DOMAIN agents' THEN agents'[a].balance_mc ELSE 0
    <3>2. op \notin Done'
      BY <2>2 DEF Done
    <3>3. AccountIn(agents', {op}, Done', a) =
            IF a \in DOMAIN agents'
            THEN agents'[a].balance_mc
                   + IF op.agent = a /\ op \in Done' THEN PaidIn(op) - PaidOut(op) ELSE 0
            ELSE 0
      BY <1>2, <2>2, AccountOne
    <3>4. Account(a)' = AccountIn(agents', {op}, Done', a)
      BY <2>2, AccountsAre
    <3> QED
      BY <1>2, <3>2, <3>3, <3>4
  <2> QED
    BY <2>1, <2>2
<1> QED
  BY <1>3, <1>4

\* Settling the record that committed puts in the balance what the account
\* had already.
LEMMA RolledUnseen ==
  ASSUME Booked, Settling, Booked', NEW op \in staged, RollForward(op), Committed(op),
         ledger' = ledger
  PROVE  Unseen
<1>1. staged = {op} /\ staged' = {}
  BY DEF Settling, Alone, RollForward, FinalizeDeposit, FinalizeWithdraw
<1>2. Bearer' = Bearer
  BY DEF Bearer, Unspent, Known
<1>3. ASSUME NEW a \in Agent PROVE Account(a)' = Account(a)
  <2>1. a \in DOMAIN agents => agents[a].balance_mc \in Int
    BY AgentRows DEF Booked
  <2>2. a \in DOMAIN agents' => agents'[a].balance_mc \in Int
    BY DEF Booked, BooksTypeOK, AgentRow
  <2>3. op.total \in Nat /\ op.burn \in Nat /\ op.kind \in {"deposit", "withdraw"}
    BY DEF Booked, StagedOp
  <2>4. op \in Done
    BY DEF Done
  <2>5. AccountIn(agents, {op}, Done, a) =
          IF a \in DOMAIN agents
          THEN agents[a].balance_mc
                 + IF op.agent = a /\ op \in Done THEN PaidIn(op) - PaidOut(op) ELSE 0
          ELSE 0
    BY <2>1, <2>3, AccountOne
  <2>6. Account(a) = AccountIn(agents, {op}, Done, a)
    BY <1>1, AccountsAre
  <2>7. Account(a)' = AccountIn(agents', {}, Done', a)
    BY <1>1, AccountsAre
  <2>8. AccountIn(agents', {}, Done', a) =
          IF a \in DOMAIN agents' THEN agents'[a].balance_mc ELSE 0
    BY <2>2, AccountBare
  <2>9. /\ DOMAIN agents' = DOMAIN agents
        /\ PaidIn(op) \in Nat /\ PaidOut(op) \in Nat
        /\ agents'[op.agent].balance_mc = agents[op.agent].balance_mc + PaidIn(op) - PaidOut(op)
        /\ \A x \in DOMAIN agents : x # op.agent => agents'[x] = agents[x]
    BY RolledBooks
  <2>10. CASE a \in DOMAIN agents /\ a = op.agent
    BY <2>1, <2>4, <2>5, <2>6, <2>7, <2>8, <2>9, <2>10
  <2>11. CASE a \in DOMAIN agents /\ a # op.agent
    BY <2>1, <2>5, <2>6, <2>7, <2>8, <2>9, <2>11
  <2>12. CASE a \notin DOMAIN agents
    BY <2>5, <2>6, <2>7, <2>8, <2>9, <2>12
  <2> QED
    BY <2>10, <2>11, <2>12
<1> QED
  BY <1>2, <1>3 DEF Unseen

\* Unwinding a record that did not commit changes no account.
LEMMA UnwoundUnseen ==
  ASSUME Booked, Settling, Booked', NEW op \in staged, Unwind(op), ~Committed(op),
         ledger' = ledger
  PROVE  Unseen
<1>1. staged = {op} /\ staged' = {} /\ agents' = agents
  BY DEF Settling, Alone, Unwind, books
<1>2. Bearer' = Bearer
  BY DEF Bearer, Unspent, Known
<1>3. \A a : /\ Account(a) = IF a \in DOMAIN agents THEN agents[a].balance_mc ELSE 0
             /\ Account(a)' = IF a \in DOMAIN agents' THEN agents'[a].balance_mc ELSE 0
  <2>1. BooksTypeOK'
    BY DEF Booked
  <2> QED
    BY <1>1, <2>1, NothingDue
<1> QED
  BY <1>1, <1>2, <1>3 DEF Unseen

\* A record that is staged and has not committed changes no account.
LEMMA StagedUnseen ==
  ASSUME Booked, Settling, Booked', Settling', Serving, NEW op, Stage(op)
  PROVE  Unseen
<1>1. staged = {} /\ staged' = {op} /\ agents' = agents /\ ledger' = ledger
  BY DEF Settling, Alone, Stage, books
<1>2. Bearer' = Bearer
  BY <1>1 DEF Bearer, Unspent, Known
<1>3. running' = [op |-> op, phase |-> "exchange"] /\ running' # Idle
  BY DEF Stage, Idle
<1>4. running'.op = op /\ running'.phase # "finalize"
  BY <1>3
<1>5. ~Committed(running.op)'
  BY <1>3, <1>4 DEF Settling, Alone
<1>6. ~Committed(op)'
  BY <1>4, <1>5 DEF Committed, Known, Unspent
<1>7. op.total \in Nat /\ op.burn \in Nat /\ op.kind \in {"deposit", "withdraw"}
  BY <1>1 DEF Booked, StagedOp
<1>8. \A a : /\ Account(a) = IF a \in DOMAIN agents THEN agents[a].balance_mc ELSE 0
             /\ Account(a)' = IF a \in DOMAIN agents' THEN agents'[a].balance_mc ELSE 0
  <2>1. BooksTypeOK'
    BY DEF Booked
  <2> QED
    BY <1>1, <1>6, <1>7, <2>1, NothingDue
<1> QED
  BY <1>1, <1>2, <1>8 DEF Unseen

\* A prune runs when nothing is staged, and drops no live coin.
LEMMA PruneUnseen ==
  ASSUME Booked, Settling, Booked', Prune
  PROVE  Unseen
<1>1. staged = {} /\ staged' = {} /\ agents' = agents
  BY DEF Settling, Alone, Prune, bridge, books
<1>2. \A h : /\ Unspent(h)' <=> Unspent(h)
             /\ Unspent(h) => ledger'[h] = ledger[h]
  <2>1. PICK old : /\ old = {h \in DOMAIN ledger : ~Unspent(h) /\
                               ledger[h].spent_at < clock - recovery_window}
                   /\ ledger' = [h \in DOMAIN ledger \ old |-> ledger[h]]
    BY DEF Prune
  <2> QED
    BY <2>1 DEF Unspent, Known
<1>3. Bearer' = Bearer
  BY <1>2, BearerCoins
<1>4. \A a : /\ Account(a) = IF a \in DOMAIN agents THEN agents[a].balance_mc ELSE 0
             /\ Account(a)' = IF a \in DOMAIN agents' THEN agents'[a].balance_mc ELSE 0
  <2>1. BooksTypeOK'
    BY DEF Booked
  <2> QED
    BY <1>1, <2>1, NothingDue
<1> QED
  BY <1>1, <1>3, <1>4 DEF Unseen

-----------------------------------------------------------------------------
\* Steps that are actions of CustodialCash.

\* A token spent elsewhere leaves.
LEMMA SpendLeaves ==
  ASSUME Booked, Settling, NEW k \in DOMAIN ledger, BearerSpend(k)
  PROVE  Custodial!Leave
<1>1. /\ k \notin CustodyKey /\ ledger' = [ledger EXCEPT ![k].spent_at = clock]
      /\ staged' = staged /\ agents' = agents /\ clock # NULL
  BY FleetAssumption DEF BearerSpend, bridge, books, Booked, BooksTypeOK, Time
<1>2. SameEntries
  BY <1>1 DEF SameEntries
<1>3. Done' = Done
  <2>1. \A op \in staged : Committed(op)' <=> Committed(op)
    BY <1>2, SameOutcome DEF Booked, Settling, Stands
  <2> QED
    BY <1>1, <2>1, Zenon DEF Done
<1>4. \A a : Account(a)' = Account(a)
  BY <1>1, <1>3, AccountsAre
<1>5. \A h : Unspent(h)' => Unspent(h) /\ ledger'[h] = ledger[h]
  <2>1. ledger[k] \in [amount : Nat, spent_at : 0..clock \cup {NULL}]
    BY DEF Booked, LedgerOK
  <2>2. ledger'[k].spent_at = clock /\ DOMAIN ledger' = DOMAIN ledger
    BY <1>1, <2>1
  <2>3. \A h \in DOMAIN ledger : h # k => ledger'[h] = ledger[h]
    BY <1>1
  <2> QED
    BY <1>1, <2>2, <2>3 DEF Unspent, Known
<1>6. Bearer' \subseteq Bearer
  BY <1>5, BearerCoins
<1>7. [a \in Agent |-> Account(a)]' = [a \in Agent |-> Account(a)]
  BY <1>4
<1> QED
  BY <1>6, <1>7 DEF Custodial!Leave

\* A transfer or a pull is a move between accounts; a pull from oneself is
\* nothing.
LEMMA MovesBetween ==
  ASSUME Booked, Booked', staged = {}, staged' = {}, ledger' = ledger,
         NEW a \in DOMAIN agents, NEW b \in DOMAIN agents, NEW n \in Amount, Moved(a, b, n)
  PROVE  Unseen \/ Custodial!Move(a, b)
<1>1. \A x : /\ Account(x) = IF x \in DOMAIN agents THEN agents[x].balance_mc ELSE 0
             /\ Account(x)' = IF x \in DOMAIN agents' THEN agents'[x].balance_mc ELSE 0
  <2>1. BooksTypeOK'
    BY DEF Booked
  <2> QED
    BY <2>1, NothingDue
<1>2. Bearer' = Bearer
  BY DEF Bearer, Unspent, Known
<1>3. /\ DOMAIN agents' = DOMAIN agents /\ agents[a].balance_mc >= n
      /\ \A x \in DOMAIN agents :
           agents'[x].balance_mc = agents[x].balance_mc
             - (IF x = a THEN n ELSE 0) + (IF x = b THEN n ELSE 0)
  BY DEF Moved, MayDebit
<1>4. \A x \in DOMAIN agents : x \in Agent /\ agents[x].balance_mc \in Int
  BY AgentRows DEF Booked
<1>5. n \in Nat \ {0}
  BY AmountAssumption
<1>6. CASE a = b
  <2>1. \A x \in DOMAIN agents : agents'[x].balance_mc = agents[x].balance_mc
    BY <1>3, <1>4, <1>5, <1>6
  <2> QED
    BY <1>1, <1>2, <1>3, <2>1 DEF Unseen
<1>7. CASE a # b
  <2>1. PICK f : f = [x \in Agent |-> Account(x)]
    OBVIOUS
  <2>2. PICK g : g = [x \in Agent |-> Account(x)']
    OBVIOUS
  <2>3. f[a] = agents[a].balance_mc /\ f[b] = agents[b].balance_mc
    BY <1>1, <1>4, <2>1
  <2>4. g[a] = f[a] - n /\ g[b] = f[b] + n
    BY <1>1, <1>3, <1>4, <1>5, <1>7, <2>2, <2>3
  <2>5. \A x \in Agent : x # a /\ x # b => g[x] = f[x]
    BY <1>1, <1>3, <1>4, <2>1, <2>2
  <2>6. g = [f EXCEPT ![a] = @ - n, ![b] = @ + n]
    BY <1>4, <1>7, <2>1, <2>2, <2>4, <2>5
  <2>7. n \in 1..f[a]
    BY <1>3, <1>4, <1>5, <2>3
  <2>8. [x \in Agent |-> Account(x)]' = g
    BY <2>2
  <2> QED
    BY <1>2, <2>1, <2>6, <2>7, <2>8 DEF Custodial!Move
<1> QED
  BY <1>6, <1>7

\* The books change accounts by moves alone.
LEMMA BooksMove ==
  ASSUME Booked, Settling, Booked', Settling', Books
  PROVE  Unseen \/ \E a, b \in Agent : Custodial!Move(a, b)
<1>1. staged = {} /\ staged' = {} /\ ledger' = ledger /\ BooksTypeOK /\ BooksTypeOK'
  BY DEF Settling, Alone, Books, bridge, Booked
<1>2. CASE Unmoved
  <2>1. \A x : /\ Account(x) = IF x \in DOMAIN agents THEN agents[x].balance_mc ELSE 0
               /\ Account(x)' = IF x \in DOMAIN agents' THEN agents'[x].balance_mc ELSE 0
    BY <1>1, NothingDue
  <2>2. Bearer' = Bearer
    BY <1>1 DEF Bearer, Unspent, Known
  <2>3. /\ DOMAIN agents \subseteq DOMAIN agents'
        /\ \A x \in DOMAIN agents : agents'[x].balance_mc = agents[x].balance_mc
        /\ \A x \in DOMAIN agents' \ DOMAIN agents : agents'[x].balance_mc = 0
    BY <1>2 DEF Unmoved
  <2> QED
    BY <2>1, <2>2, <2>3 DEF Unseen
<1>3. ASSUME NEW a \in DOMAIN agents, NEW b \in DOMAIN agents, NEW n \in Amount, Moved(a, b, n)
      PROVE  Unseen \/ \E x, y \in Agent : Custodial!Move(x, y)
  <2>1. a \in Agent /\ b \in Agent
    BY <1>1, AgentRows
  <2>2. Unseen \/ Custodial!Move(a, b)
    BY <1>1, <1>3, MovesBetween
  <2> QED
    BY <2>1, <2>2, Zenon
<1>4. BooksNext
  BY DEF Books
<1> QED
  BY <1>1, <1>2, <1>3, <1>4, BooksCases

-----------------------------------------------------------------------------
\* The exchange, which is the instant of a deposit and of a withdrawal.

\* CustodialCash counts and charges as the bridge does.
LEMMA CashWorth ==
  /\ \A coins : Custodial!Worth(coins) = Value(coins)
  /\ \A n, p : Custodial!ComputeBurn(n, p) = ComputeBurn(n, p)
<1>1. \A f : Custodial!Total(f) = Total(f)
  BY Zenon DEF Custodial!Total, Total, Custodial!Coins, Coins, Custodial!Cardinality, Cardinality
<1>2. Custodial!PPM = PPM
  BY DEF Custodial!PPM, PPM
<1>3. \A coins : Custodial!Worth(coins) = Value(coins)
  BY <1>1, Zenon DEF Custodial!Worth, Value
<1>4. \A n, p : Custodial!ComputeBurn(n, p) = ComputeBurn(n, p)
  BY <1>2, Zenon DEF Custodial!ComputeBurn, ComputeBurn
<1> QED
  BY <1>3, <1>4

\* Any instant has one of the two policies.
Published ==
  {burn_policy} \cup (IF burn_policy_next = NULL THEN {} ELSE {burn_policy_next.policy})

LEMMA PolicyPublished == \A now : PolicyAt(now) \in Published
  BY DEF PolicyAt, EffectivePolicy, Published

\* The accounts of an exchange.
LEMMA CommitPays ==
  ASSUME Booked, Settling, NEW op \in staged, ~Committed(op), Committed(op)',
         staged' = staged, agents' = agents, NEW a \in Agent
  PROVE  /\ Account(a) = IF a \in DOMAIN agents THEN agents[a].balance_mc ELSE 0
         /\ Account(a)' = Account(a) + IF a = op.agent THEN PaidIn(op) - PaidOut(op) ELSE 0
<1>1. staged = {op} /\ staged' = {op} /\ op \notin Done /\ op \in Done'
  BY DEF Settling, Alone, Done
<1>2. a \in DOMAIN agents => agents[a].balance_mc \in Int
  BY AgentRows DEF Booked
<1>3. /\ op.total \in Nat /\ op.burn \in Nat /\ op.kind \in {"deposit", "withdraw"}
      /\ op.agent \in DOMAIN agents
  BY DEF Booked, StagedOp
<1>4. PaidIn(op) \in Nat /\ PaidOut(op) \in Nat
  BY <1>3 DEF PaidIn, PaidOut
<1>5. \A done : AccountIn(agents, {op}, done, a) =
        IF a \in DOMAIN agents
        THEN agents[a].balance_mc
               + IF op.agent = a /\ op \in done THEN PaidIn(op) - PaidOut(op) ELSE 0
        ELSE 0
  BY <1>2, <1>3, AccountOne
<1>6. Account(a) = AccountIn(agents, {op}, Done, a)
  BY <1>1, AccountsAre
<1>7. Account(a)' = AccountIn(agents, {op}, Done', a)
  BY <1>1, AccountsAre
<1>8. Account(a) = IF a \in DOMAIN agents THEN agents[a].balance_mc ELSE 0
  <2>1. AccountIn(agents, {op}, Done, a) =
          IF a \in DOMAIN agents THEN agents[a].balance_mc + 0 ELSE 0
    BY <1>1, <1>5
  <2> QED
    BY <1>2, <1>6, <2>1
<1>9. Account(a)' =
        IF a \in DOMAIN agents
        THEN agents[a].balance_mc + IF op.agent = a THEN PaidIn(op) - PaidOut(op) ELSE 0
        ELSE 0
  BY <1>1, <1>5, <1>7
<1> QED
  BY <1>2, <1>3, <1>4, <1>8, <1>9

\* The record an exchange commits.
LEMMA CommittedRecord ==
  ASSUME Booked, Settling, Settling', ExchangeCommits
  PROVE  \E op \in staged :
           /\ ~Committed(op) /\ Committed(op)' /\ staged' = staged /\ agents' = agents
           /\ Accepts(op.inputs, op.outputs) /\ ledger' = Exchanged(op.inputs, op.outputs)
<1>1. PICK op \in staged : op = running.op
  BY DEF ExchangeCommits, Booked
<1>2. /\ running # Idle /\ running.phase = "exchange"
      /\ Accepts(op.inputs, op.outputs) /\ ledger' = Exchanged(op.inputs, op.outputs)
      /\ running' = [running EXCEPT !.phase = "finalize"]
      /\ staged' = staged /\ agents' = agents
  BY <1>1 DEF ExchangeCommits, books
<1>3. /\ running \in [op : staged, phase : {"exchange", "finalize", "unwind"}]
      /\ running.phase = "finalize" <=> Committed(running.op)
  BY <1>2 DEF Settling, Alone
<1>4. ~Committed(op)
  BY <1>1, <1>2, <1>3
<1>5. running'.op = op /\ running'.phase = "finalize"
  BY <1>1, <1>2, <1>3
<1>6. running' # Idle
  BY <1>5 DEF Idle
<1>7. Committed(running.op)'
  BY <1>5, <1>6 DEF Settling, Alone
<1>8. Committed(op)'
  BY <1>5, <1>7 DEF Committed, Known, Unspent
<1> QED
  BY <1>1, <1>2, <1>4, <1>8

\* A deposit takes in what was presented.
LEMMA DepositBearer ==
  ASSUME Booked, Settling, NEW op \in staged, Asked(op), op.kind = "deposit",
         Accepts(op.inputs, op.outputs), ledger' = Exchanged(op.inputs, op.outputs)
  PROVE  Bearer' \subseteq Bearer /\ Bearer \ Bearer' = op.inputs
<1>1. op.inputs \in Deposits /\ op.outputs = {[hash |-> op.key, amount |-> op.total]}
  BY DEF Asked
<1>2. /\ \A c \in op.inputs : c = [hash |-> c.hash, amount |-> c.amount]
      /\ \A c \in op.inputs : c.hash \notin CustodyKey
  BY <1>1, BridgeAssumption
<1>3. op.key \in CustodyKey
  BY DEF Booked, StagedOp, RowsOK
<1>4. Keys(op.outputs) = {op.key}
  BY <1>1 DEF Keys
<1>5. clock \in Nat
  BY WindowAssumption DEF Booked, BooksTypeOK, Time
<1>6. /\ \A h \in Keys(op.inputs) : Unspent(h) /\ Known(h)' /\ ~Unspent(h)'
      /\ \A h : h \notin Keys(op.inputs) /\ Known(h) => Known(h)' /\ ledger'[h] = ledger[h]
      /\ \A h : Known(h)' /\ ~Known(h) => h \in Keys(op.outputs)
  BY <1>5, ExchangedEntries DEF Booked
<1>7. \A h : Unspent(h)' /\ h \notin CustodyKey =>
        Unspent(h) /\ ledger'[h] = ledger[h] /\ h \notin Keys(op.inputs)
  BY <1>3, <1>4, <1>6 DEF Unspent, Known
<1>8. \A h : Unspent(h) /\ h \notin Keys(op.inputs) => Unspent(h)' /\ ledger'[h] = ledger[h]
  BY <1>6 DEF Unspent, Known
<1>9. Bearer' \subseteq Bearer
  BY <1>7, BearerCoins
<1>10. ASSUME NEW c \in op.inputs PROVE c \in Bearer \ Bearer'
  <2>1. Unspent(c.hash) /\ ledger[c.hash].amount = c.amount
    BY DEF Accepts
  <2>2. c \in Bearer
    BY <1>2, <2>1, BearerCoins
  <2>3. c.hash \in Keys(op.inputs)
    BY DEF Keys
  <2>4. ~Unspent(c.hash)'
    BY <1>6, <2>3
  <2>5. c \notin Bearer'
    <3> SUFFICES ASSUME c \in Bearer' PROVE FALSE
      OBVIOUS
    <3>1. PICK h : Unspent(h)' /\ c = [hash |-> h, amount |-> ledger'[h].amount]
      BY BearerCoins
    <3>2. c.hash = h
      BY <3>1
    <3> QED
      BY <2>4, <3>1, <3>2 DEF Unspent, Known
  <2> QED
    BY <2>2, <2>5
<1>11. ASSUME NEW c \in Bearer, c \notin Bearer' PROVE c \in op.inputs
  <2>1. PICK h : /\ Unspent(h) /\ h \notin CustodyKey
                 /\ c = [hash |-> h, amount |-> ledger[h].amount]
    BY BearerCoins
  <2>2. h \in Keys(op.inputs)
    <3> SUFFICES ASSUME h \notin Keys(op.inputs) PROVE FALSE
      OBVIOUS
    <3>1. Unspent(h)' /\ ledger'[h] = ledger[h]
      BY <1>8, <2>1
    <3>2. c = [hash |-> h, amount |-> ledger'[h].amount]
      BY <2>1, <3>1
    <3>3. c \in Bearer'
      BY <2>1, <3>1, <3>2, BearerCoins
    <3> QED
      BY <1>11, <3>3
  <2>3. PICK d \in op.inputs : d.hash = h
    BY <2>2 DEF Keys
  <2>4. ledger[h].amount = d.amount
    BY <2>3 DEF Accepts
  <2>5. d = [hash |-> d.hash, amount |-> d.amount]
    BY <1>2
  <2> QED
    BY <2>1, <2>3, <2>4, <2>5
<1> QED
  BY <1>9, <1>10, <1>11

\* A withdrawal puts out what was asked for.
LEMMA WithdrawBearer ==
  ASSUME Booked, Settling, NEW op \in staged, op.kind = "withdraw",
         Accepts(op.inputs, op.outputs), ledger' = Exchanged(op.inputs, op.outputs),
         NEW asked \in Withdrawals, {c \in op.outputs : c.hash \notin CustodyKey} = asked
  PROVE  Bearer \subseteq Bearer' /\ Bearer' \ Bearer = asked
<1>1. /\ \A c \in asked : c = [hash |-> c.hash, amount |-> c.amount]
      /\ \A c \in asked : c.hash \notin CustodyKey /\ c \in op.outputs
  BY BridgeAssumption
<1>2. \A h \in Keys(op.inputs) : h \in CustodyKey
  BY DEF Booked, StagedOp, Reserved, RowsOK
<1>3. clock \in Nat
  BY WindowAssumption DEF Booked, BooksTypeOK, Time
<1>4. /\ \A h : h \notin Keys(op.inputs) /\ Known(h) => Known(h)' /\ ledger'[h] = ledger[h]
      /\ \A c \in op.outputs : ~Known(c.hash) /\ Unspent(c.hash)'
                               /\ ledger'[c.hash].amount = c.amount
      /\ \A h : Known(h)' /\ ~Known(h) => h \in Keys(op.outputs)
  BY <1>3, ExchangedEntries DEF Booked
<1>5. \A h : h \notin CustodyKey /\ Known(h) =>
        (Unspent(h)' <=> Unspent(h)) /\ ledger'[h] = ledger[h]
  BY <1>2, <1>4 DEF Unspent, Known
<1>6. Bearer \subseteq Bearer'
  BY <1>5, BearerCoins DEF Unspent
<1>7. ASSUME NEW c \in asked PROVE c \in Bearer' \ Bearer
  <2>1. ~Known(c.hash) /\ Unspent(c.hash)' /\ ledger'[c.hash].amount = c.amount
    BY <1>1, <1>4
  <2>2. c = [hash |-> c.hash, amount |-> ledger'[c.hash].amount]
    BY <1>1, <2>1
  <2>3. c \in Bearer'
    BY <1>1, <2>1, <2>2, BearerCoins
  <2>4. c \notin Bearer
    <3> SUFFICES ASSUME c \in Bearer PROVE FALSE
      OBVIOUS
    <3>1. PICK h : Unspent(h) /\ c = [hash |-> h, amount |-> ledger[h].amount]
      BY BearerCoins
    <3>2. c.hash = h
      BY <3>1
    <3> QED
      BY <2>1, <3>1, <3>2 DEF Unspent
  <2> QED
    BY <2>3, <2>4
<1>8. ASSUME NEW c \in Bearer', c \notin Bearer PROVE c \in asked
  <2>1. PICK h : /\ Unspent(h)' /\ h \notin CustodyKey
                 /\ c = [hash |-> h, amount |-> ledger'[h].amount]
    BY BearerCoins
  <2>2. ~Known(h)
    <3> SUFFICES ASSUME Known(h) PROVE FALSE
      OBVIOUS
    <3>1. Unspent(h) /\ ledger'[h] = ledger[h]
      BY <1>5, <2>1
    <3>2. c = [hash |-> h, amount |-> ledger[h].amount]
      BY <2>1, <3>1
    <3>3. c \in Bearer
      BY <2>1, <3>1, <3>2, BearerCoins
    <3> QED
      BY <1>8, <3>3
  <2>3. Known(h)'
    BY <2>1 DEF Unspent
  <2>4. PICK d \in op.outputs : d.hash = h
    BY <1>4, <2>2, <2>3 DEF Keys
  <2>5. d \in asked /\ ledger'[h].amount = d.amount
    BY <1>4, <2>1, <2>4
  <2>6. d = [hash |-> d.hash, amount |-> d.amount]
    BY <1>1, <2>5
  <2> QED
    BY <2>1, <2>4, <2>5, <2>6
<1> QED
  BY <1>6, <1>7, <1>8

\* An exchange that commits is a whole deposit or a whole withdrawal.
LEMMA CommitsCash ==
  ASSUME Booked, Settling, Settling', AllAsked, ExchangeCommits
  PROVE  \E a \in Agent : Custodial!Deposit(a) \/ Custodial!Withdraw(a)
<1>1. PICK op \in staged :
        /\ ~Committed(op) /\ Committed(op)' /\ staged' = staged /\ agents' = agents
        /\ Accepts(op.inputs, op.outputs) /\ ledger' = Exchanged(op.inputs, op.outputs)
  BY CommittedRecord
<1>2. Asked(op) /\ StagedOp(op) /\ Permitted(op)
  BY DEF AllAsked, Booked, Settling, Stands
<1>3. op.agent \in DOMAIN agents /\ op.agent \in Agent /\ agents[op.agent].balance_mc \in Int
  BY <1>2, AgentRows DEF StagedOp, Booked
<1>4. PICK f : f = [x \in Agent |-> Account(x)]
  OBVIOUS
<1>5. PICK g : g = [x \in Agent |-> Account(x)']
  OBVIOUS
<1>6. [x \in Agent |-> Account(x)]' = g
  BY <1>5
<1>7. /\ \A x \in Agent : Account(x) = IF x \in DOMAIN agents THEN agents[x].balance_mc ELSE 0
      /\ \A x \in Agent :
           Account(x)' = Account(x) + IF x = op.agent THEN PaidIn(op) - PaidOut(op) ELSE 0
  BY <1>1, CommitPays
<1>8. \A x \in Agent : Account(x) \in Int
  BY <1>7, AgentRows DEF Booked
<1>9. op.total \in Nat /\ op.burn \in Nat
  BY <1>2 DEF StagedOp
<1>10. PICK n : n = PaidIn(op) - PaidOut(op)
  OBVIOUS
<1>11. n \in Int
  BY <1>9, <1>10 DEF PaidIn, PaidOut
<1>12. g = [f EXCEPT ![op.agent] = @ + n]
  <2>1. g[op.agent] = f[op.agent] + n
    BY <1>3, <1>4, <1>5, <1>7, <1>10
  <2>2. \A x \in Agent : x # op.agent => g[x] = f[x]
    <3>1. \A x \in Agent : x # op.agent => Account(x)' = Account(x) + 0
      BY <1>7
    <3> QED
      BY <1>4, <1>5, <1>8, <3>1
  <2> QED
    BY <1>4, <1>5, <2>1, <2>2
<1>13. f[op.agent] = agents[op.agent].balance_mc
  BY <1>3, <1>4, <1>7
<1>14. CASE op.kind = "deposit"
  <2>1. Bearer' \subseteq Bearer /\ Bearer \ Bearer' = op.inputs
    BY <1>1, <1>2, <1>14, DepositBearer
  <2>2. op.inputs \in Deposits /\ op.outputs = {[hash |-> op.key, amount |-> op.total]}
    BY <1>2, <1>14 DEF Asked
  <2>3. op.inputs # {} /\ Value(op.inputs) \in Nat
    BY <2>2, BridgeAssumption, PresentedCoins
  <2>4. PICK p : p = PolicyAt(clock)
    OBVIOUS
  <2>5. p \in Published
    BY <2>4, PolicyPublished
  <2>6. BurnOf(op.inputs, clock) = ComputeBurn(Value(op.inputs), p)
    BY <2>4 DEF BurnOf
  <2>7. Value(op.outputs) + BurnOf(op.inputs, clock) = Value(op.inputs)
    BY <1>1 DEF Accepts
  <2>8. Value(op.outputs) = op.total
    <3>1. PICK c : c = [hash |-> op.key, amount |-> op.total]
      OBVIOUS
    <3>2. [d \in op.outputs |-> d.amount] = [d \in {c} |-> op.total]
      BY <2>2, <3>1
    <3>3. Total([d \in {c} |-> op.total]) = op.total
      BY <1>9, TotalOfOne
    <3> QED
      BY <3>2, <3>3 DEF Value
  <2>9. BurnOf(op.inputs, clock) \in Nat
    BY <2>3, BurnOfCoins
  <2>10. n = op.total
    BY <1>9, <1>10, <1>14 DEF PaidIn, PaidOut
  <2>11. f[op.agent] + n
           = f[op.agent] + Value(op.inputs) - ComputeBurn(Value(op.inputs), p)
    BY <1>3, <1>9, <1>13, <2>3, <2>6, <2>7, <2>8, <2>9, <2>10
  <2>12. g = [f EXCEPT ![op.agent] = @ + Value(op.inputs) - ComputeBurn(Value(op.inputs), p)]
    BY <1>12, <2>11, Zenon
  <2>13. /\ Custodial!Worth(Bearer \ Bearer') = Value(op.inputs)
         /\ Custodial!ComputeBurn(Value(op.inputs), p) = ComputeBurn(Value(op.inputs), p)
    BY <2>1, CashWorth
  <2>14. Bearer' # Bearer
    BY <2>1, <2>3
  <2>15. Custodial!Deposit(op.agent)
    BY <1>4, <1>6, <2>1, <2>5, <2>12, <2>13, <2>14, Zenon DEF Custodial!Deposit, Published
  <2> QED
    BY <1>3, <2>15
<1>15. CASE op.kind = "withdraw"
  <2>1. PICK asked \in Withdrawals :
          /\ {c \in op.outputs : c.hash \notin CustodyKey} = asked
          /\ op.total = Value(asked) /\ op.burn = BurnOf(asked, op.t)
    BY <1>2, <1>15 DEF Asked
  <2>2. Bearer \subseteq Bearer' /\ Bearer' \ Bearer = asked
    BY <1>1, <1>15, <2>1, WithdrawBearer
  <2>3. asked # {}
    BY BridgeAssumption
  <2>4. PICK p : p = PolicyAt(op.t)
    OBVIOUS
  <2>5. p \in Published
    BY <2>4, PolicyPublished
  <2>6. op.burn = ComputeBurn(Value(asked), p)
    BY <2>1, <2>4 DEF BurnOf
  <2>7. f[op.agent] >= op.total + op.burn
    BY <1>2, <1>13, <1>15 DEF Permitted
  <2>8. n = 0 - (op.total + op.burn)
    BY <1>9, <1>10, <1>15 DEF PaidIn, PaidOut
  <2>9. f[op.agent] + n = f[op.agent] - op.total - op.burn
    BY <1>3, <1>9, <1>13, <2>8
  <2>10. g = [f EXCEPT ![op.agent] = @ - Value(asked) - ComputeBurn(Value(asked), p)]
    BY <1>12, <2>1, <2>6, <2>9, Zenon
  <2>11. f[op.agent] >= Value(asked) + ComputeBurn(Value(asked), p)
    BY <2>1, <2>6, <2>7
  <2>12. /\ Custodial!Worth(Bearer' \ Bearer) = Value(asked)
         /\ Custodial!ComputeBurn(Value(asked), p) = ComputeBurn(Value(asked), p)
    BY <2>2, CashWorth
  <2>13. Bearer' # Bearer
    BY <2>2, <2>3
  <2>14. Custodial!Withdraw(op.agent)
    BY <1>4, <1>6, <2>2, <2>5, <2>10, <2>11, <2>12, <2>13, Zenon
       DEF Custodial!Withdraw, Published
  <2> QED
    BY <1>3, <2>14
<1> QED
  BY <1>2, <1>14, <1>15 DEF StagedOp

\* Every step of the bridge is one of CustodialCash, or invisible to it.
LEMMA StepIsCustodial ==
  ASSUME NoneRaises, Booked, Settling, Booked', Settling', AllAsked, [Next]_vars
  PROVE  [Custodial!Next]_(Custodial!vars)
<1> SUFFICES ASSUME ~Unseen PROVE Custodial!Next
  BY UnseenStutters
<1>1. /\ Alone
      /\ running # Idle => running.op \in staged /\ mode = "up"
  BY DEF Booked, Settling
<1>2. CASE Books
  BY <1>2, BooksMove, Zenon DEF Custodial!Next
<1>3. ASSUME NEW a \in Agent, NEW tokens \in Deposits, StageDeposit(a, tokens) PROVE FALSE
  BY <1>3, StagedUnseen DEF StageDeposit
<1>4. ASSUME NEW a \in Agent, NEW outputs \in Withdrawals, StageWithdraw(a, outputs)
      PROVE  FALSE
  BY <1>4, StagedUnseen, WithdrawalStaged DEF StageWithdraw
<1>5. CASE ExchangeCommits
  BY <1>5, CommitsCash, Zenon DEF Custodial!Next
<1>6. ASSUME ExchangeRejected PROVE FALSE
  BY <1>6, QuietUnseen DEF ExchangeRejected, books
<1>7. ASSUME Finalize PROVE FALSE
  <2>1. PICK op \in staged : op = running.op
    BY <1>1, <1>7 DEF Finalize
  <2>2. running # Idle /\ running.phase = "finalize" /\ RollForward(op) /\ ledger' = ledger
    BY <1>7, <2>1 DEF Finalize
  <2>3. Committed(op)
    BY <1>1, <2>1, <2>2 DEF Alone
  <2> QED
    BY <2>2, <2>3, RolledUnseen
<1>8. ASSUME Discard PROVE FALSE
  <2>1. PICK op \in staged : op = running.op
    BY <1>1, <1>8 DEF Discard
  <2>2. running # Idle /\ running.phase = "unwind" /\ Unwind(op) /\ ledger' = ledger
    BY <1>8, <2>1 DEF Discard
  <2>3. ~Committed(op)
    BY <1>1, <2>1, <2>2 DEF Alone
  <2> QED
    BY <2>2, <2>3, UnwoundUnseen
<1>9. ASSUME NEW op \in staged, Recover(op) PROVE FALSE
  <2>1. /\ ledger' = ledger
        /\ Committed(op) => RollForward(op)
        /\ ~Committed(op) => Unwind(op)
    BY <1>9 DEF Recover
  <2> QED
    BY <2>1, RolledUnseen, UnwoundUnseen
<1>10. ~Fail
  BY <1>1 DEF Fail, Alone, NoneRaises
<1>11. ASSUME Crash \/ Restart \/ Recovered \/ Tick \/ UNCHANGED vars PROVE FALSE
  <2>1. ledger' = ledger /\ staged' = staged /\ agents' = agents
    BY <1>11 DEF Crash, Restart, Recovered, Tick, vars, books, bridge
  <2> QED
    BY <2>1, QuietUnseen
<1>12. ASSUME NEW h \in DOMAIN ledger, BearerSpend(h) PROVE Custodial!Next
  BY <1>12, SpendLeaves, Zenon DEF Custodial!Next
<1>13. ASSUME Prune PROVE FALSE
  BY <1>13, PruneUnseen
<1> QED
  BY <1>2, <1>3, <1>4, <1>5, <1>6, <1>7, <1>8, <1>9, <1>10, <1>11, <1>12, <1>13, Zenon
     DEF Next, Handler, Recovery

\* The bridge implements CustodialCash: a deposit or a withdrawal takes effect
\* whole, at the instant its exchange commits and at the price its agent was
\* quoted, whatever crash interrupts its handler and whenever recovery settles
\* its record (supervision.py, agent_deposit, agent_withdraw and
\* _recover_pending).
THEOREM BridgeImplementsCustodialCash ==
  ASSUME NoneRaises
  PROVE  Spec => CustodialSpec
<1>1. Init => Custodial!Init
  <2> SUFFICES ASSUME Init PROVE Custodial!Init
    OBVIOUS
  <2>1. DOMAIN agents = {}
    BY DEF Init, InitBooks
  <2>2. \A a : Account(a) = 0
    BY <2>1 DEF Account
  <2> QED
    BY <2>2 DEF Custodial!Init
<1>2. /\ Booked /\ Settling /\ Sound /\ AllAsked
      /\ (Booked /\ Settling /\ Sound)' /\ [Next]_vars
      => [Custodial!Next]_(Custodial!vars)
  BY StepIsCustodial
<1> QED
  BY <1>1, <1>2, AlwaysSettling, AlwaysAsked, PTL DEF Spec, CustodialSpec, Custodial!Spec
=============================================================================
