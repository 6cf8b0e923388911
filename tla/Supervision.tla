----------------------------- MODULE Supervision ----------------------------
(***************************************************************************)
(* Component C10 (impl/aicash/supervision.py), the bridge between bearer   *)
(* tokens and custodial balances, over the books of Accounts.              *)
(*                                                                         *)
(* A deposit or a withdrawal is three transactions: it stages a record and *)
(* the custody secrets, calls the ledger's exchange, and then finalizes or *)
(* unwinds.  The handler holds the one lock of _SupCore throughout, but    *)
(* the process can stop between any two of them, and a transaction can     *)
(* fail; what is left staged is settled by _recover_pending at start-up.   *)
(*                                                                         *)
(* The ledger (C04) is reduced to what the bridge sees of it: which keys   *)
(* exist, with what amount, and since when they are spent.                 *)
(***************************************************************************)
EXTENDS Accounts

CONSTANTS
  CustodyKey,        \* keys of the secrets the mint draws
  InitialCoins,      \* bearer coins at the start
  Deposits,          \* the sets of tokens agents present
  Withdrawals,       \* the sets of outputs agents ask for
  burn_policy, burn_policy_next, recovery_window,
  MaxCrashes,        \* bound of the model
  MaxFailures        \* bound of the model: transactions that raise

INSTANCE BurnCalc

\* A token is its key and its amount.  A custody secret is drawn by the mint and
\* never leaves it: no token an agent holds, presents or asks for has its key.
ASSUME BridgeAssumption ==
  /\ IsFiniteSet(CustodyKey) /\ NULL \notin CustodyKey
  /\ \A c \in InitialCoins : c.hash \notin CustodyKey /\ c.amount \in Nat \ {0}
  /\ \A S \in Deposits \cup Withdrawals :
       /\ IsFiniteSet(S) /\ S # {}
       /\ \A c \in S : c.hash \notin CustodyKey /\ c.amount \in Nat \ {0}
       /\ \A c \in S : c = [hash |-> c.hash, amount |-> c.amount]
  /\ burn_policy \in BurnPolicy
  /\ burn_policy_next # NULL => burn_policy_next.policy \in BurnPolicy
  /\ recovery_window \in Nat /\ MaxCrashes \in Nat /\ MaxFailures \in Nat

VARIABLES
  custody,   \* sup_custody: key -> [amount, state]
  staged,    \* sup_pending_ops
  absorbed,  \* sup_mint.absorbed_mc
  ledger,    \* the entries: key -> [amount, spent_at]
  running,   \* the handler that holds the lock: its op and phase
  mode,      \* of the process
  crashes, failures

\* No handler holds the lock.
Idle == [op |-> NULL, phase |-> "idle"]

bridge == <<custody, staged, absorbed, running>>
vars == <<clock, books, bridge, ledger, mode, crashes, failures>>

Value(coins) == Total([c \in coins |-> c.amount])
Keys(coins) == {c.hash : c \in coins}

-----------------------------------------------------------------------------
\* The ledger, as the bridge uses it.
PolicyAt(now) == EffectivePolicy(burn_policy, burn_policy_next, now)
BurnOf(coins, now) == ComputeBurn(Value(coins), PolicyAt(now))

Known(h) == h \in DOMAIN ledger
Unspent(h) == Known(h) /\ ledger[h].spent_at = NULL

Accepts(in, out) ==
  /\ \A c \in in : Unspent(c.hash) /\ ledger[c.hash].amount = c.amount
  /\ \A c \in out : c.amount > 0 /\ ~Known(c.hash)
  /\ \A c, d \in out : c.hash = d.hash => c = d
  /\ Value(out) + BurnOf(in, clock) = Value(in)

Exchanged(in, out) ==
  [h \in DOMAIN ledger \cup Keys(out) |->
     IF h \in Keys(in) THEN [ledger[h] EXCEPT !.spent_at = clock]
     ELSE IF Known(h) THEN ledger[h]
     ELSE [amount |-> (CHOOSE c \in out : c.hash = h).amount, spent_at |-> NULL]]

-----------------------------------------------------------------------------
\* The custody table.
Added(rows, key, n) ==
  [h \in DOMAIN rows \cup {key} |->
     IF h = key THEN [amount |-> n, state |-> "pending"] ELSE rows[h]]

Marked(rows, keys, from, to) ==
  [h \in DOMAIN rows |->
     IF h \in keys /\ rows[h].state = from
     THEN [rows[h] EXCEPT !.state = to] ELSE rows[h]]

Dropped(rows, key) ==
  [h \in {g \in DOMAIN rows : ~(g = key /\ rows[g].state = "pending")} |-> rows[h]]

InState(state) == {h \in DOMAIN custody : custody[h].state = state}

\* Smallest first, until the sum covers the outputs and its own burn.
SmallestFirst ==
  {S \in SUBSET InState("unspent") :
     \A h \in S, g \in InState("unspent") \ S : custody[h].amount <= custody[g].amount}

CustodyCoins(S) == {[hash |-> h, amount |-> custody[h].amount] : h \in S}

Covers(S, n) ==
  LET coins == CustodyCoins(S)
  IN  S # {} /\ Value(coins) - BurnOf(coins, clock) >= n

Selections(n) ==
  {S \in SmallestFirst :
     /\ Covers(S, n)
     /\ \A T \in SmallestFirst : T \subseteq S /\ T # S => ~Covers(T, n)}

FreshKeys == CustodyKey \ (DOMAIN custody \cup DOMAIN ledger)
FreshKey == CHOOSE k \in FreshKeys : TRUE

-----------------------------------------------------------------------------
\* Staging: the record and every secret are on disk before the exchange.
\* Mutant: the lock is not held across the exchange.
ServingUnlocked == mode = "up"

\* A handler takes the lock of _SupCore for all it does.
Serving == mode = "up" /\ running = Idle

\* Mutant: no record of what is under way.
StageUnrecorded(op) ==
  /\ running' = [op |-> op, phase |-> "exchange"]
  /\ UNCHANGED <<clock, books, staged, absorbed, ledger, mode, crashes, failures>>

Stage(op) ==
  /\ staged' = staged \cup {op}
  /\ running' = [op |-> op, phase |-> "exchange"]
  /\ UNCHANGED <<clock, books, absorbed, ledger, mode, crashes, failures>>

\* A deposit is not refused to a frozen agent.
StageDeposit(a, tokens) ==
  /\ Serving
  /\ a \in DOMAIN agents
  /\ FreshKeys # {}
  /\ LET net == Value(tokens) - BurnOf(tokens, clock)
     IN  /\ custody' = Added(custody, FreshKey, net)
         /\ Stage([kind |-> "deposit", agent |-> a, t |-> clock,
                   probe |-> FreshKey, key |-> FreshKey, inputs |-> tokens,
                   outputs |-> {[hash |-> FreshKey, amount |-> net]},
                   total |-> net, burn |-> 0, absorbed |-> 0])

\* The agent pays the burn of what it asks for; the mint bears the rest of
\* the burn of the coins it picked.
StageWithdraw(a, outputs) ==
  /\ Serving
  /\ a \in DOMAIN agents
  /\ ~agents[a].frozen
  /\ ~agents[a].no_bearer_withdrawal
  /\ FreshKeys # {}
  /\ LET total == Value(outputs)
         burn == BurnOf(outputs, clock)
     IN  /\ ~CapViolation(a, total + burn, clock)
         /\ agents[a].balance_mc >= total + burn
         /\ \E S \in Selections(total) :
              \E probe \in {h \in S : \A g \in S : custody[h].amount <= custody[g].amount} :
                LET in == CustodyCoins(S)
                    ledger_burn == BurnOf(in, clock)
                    change == Value(in) - total - ledger_burn
                    key == IF change > 0 THEN FreshKey ELSE NULL
                    reserved == Marked(custody, S, "unspent", "reserved")
                IN  /\ custody' = IF key = NULL THEN reserved
                                  ELSE Added(reserved, key, change)
                    /\ Stage([kind |-> "withdraw", agent |-> a, t |-> clock,
                              probe |-> probe, key |-> key, inputs |-> in,
                              outputs |-> outputs \cup
                                (IF key = NULL THEN {}
                                 ELSE {[hash |-> key, amount |-> change]}),
                              total |-> total, burn |-> burn,
                              absorbed |-> ledger_burn - burn])

-----------------------------------------------------------------------------
\* The exchange, at the ledger's own instant.
ExchangeCommits ==
  /\ running # Idle /\ running.phase = "exchange"
  /\ Accepts(running.op.inputs, running.op.outputs)
  /\ ledger' = Exchanged(running.op.inputs, running.op.outputs)
  /\ running' = [running EXCEPT !.phase = "finalize"]
  /\ UNCHANGED <<clock, books, custody, staged, absorbed, mode, crashes, failures>>

\* Mutant: a refusal is followed up like a success.
ExchangeRejectedUnseen ==
  /\ running # Idle /\ running.phase = "exchange"
  /\ ~Accepts(running.op.inputs, running.op.outputs)
  /\ running' = [running EXCEPT !.phase = "finalize"]
  /\ UNCHANGED <<clock, books, custody, staged, absorbed, ledger, mode, crashes, failures>>

ExchangeRejected ==
  /\ running # Idle /\ running.phase = "exchange"
  /\ ~Accepts(running.op.inputs, running.op.outputs)
  /\ running' = [running EXCEPT !.phase = "unwind"]
  /\ UNCHANGED <<clock, books, custody, staged, absorbed, ledger, mode, crashes, failures>>

-----------------------------------------------------------------------------
\* The follow-up, in one transaction, on the request path or at recovery.
FinalizeDeposit(op) ==
  /\ op.kind = "deposit"
  /\ custody' = Marked(custody, {op.key}, "pending", "unspent")
  /\ agents' = [agents EXCEPT ![op.agent].balance_mc = @ + op.total]
  /\ journal' = Post(journal, op.agent, op.t, "deposit", op.total)
  /\ staged' = staged \ {op}
  /\ UNCHANGED <<auths, pulled, statements, absorbed>>

\* What a withdrawal's follow-up does to the custody rows, the absorbed burn
\* and the lines, each after a mutant that forgets or repeats a part.
ConsumedNoChange(op) == Marked(custody, Keys(op.inputs), "reserved", "spent")

Consumed(op) ==
  Marked(Marked(custody, Keys(op.inputs), "reserved", "spent"),
         {op.key}, "pending", "unspent")

AbsorbingNothing(op) == absorbed

Absorbing(op) == absorbed + op.absorbed

WithdrawalLinesGross(op) ==
  Post(Post(journal, op.agent, op.t, "withdrawal", op.total + op.burn),
       op.agent, op.t, "burn", op.burn)

WithdrawalLines(op) ==
  Post(Post(journal, op.agent, op.t, "withdrawal", op.total),
       op.agent, op.t, "burn", op.burn)

FinalizeWithdraw(op) ==
  /\ op.kind = "withdraw"
  /\ custody' = Consumed(op)
  /\ agents' = [agents EXCEPT ![op.agent].balance_mc = @ - (op.total + op.burn)]
  /\ absorbed' = Absorbing(op)
  /\ journal' = WithdrawalLines(op)
  /\ staged' = staged \ {op}
  /\ UNCHANGED <<auths, pulled, statements>>

\* The inputs of a deposit are not custody rows.
Unwind(op) ==
  /\ custody' = Dropped(IF op.kind = "withdraw"
                        THEN Marked(custody, Keys(op.inputs), "reserved", "unspent")
                        ELSE custody, op.key)
  /\ staged' = staged \ {op}
  /\ UNCHANGED <<books, absorbed>>

RollForward(op) == FinalizeDeposit(op) \/ FinalizeWithdraw(op)

Finalize ==
  /\ running # Idle /\ running.phase = "finalize"
  /\ RollForward(running.op)
  /\ running' = Idle
  /\ UNCHANGED <<clock, ledger, mode, crashes, failures>>

Discard ==
  /\ running # Idle /\ running.phase = "unwind"
  /\ Unwind(running.op)
  /\ running' = Idle
  /\ UNCHANGED <<clock, ledger, mode, crashes, failures>>

\* Any transaction of a handler after the staging one raises something other
\* than ExchangeRejected: it is rolled back, the caller gets a 500, the record
\* stays staged and the mint goes on serving.
Fail ==
  /\ running # Idle
  /\ failures < MaxFailures
  /\ failures' = failures + 1
  /\ running' = Idle
  /\ UNCHANGED <<clock, books, custody, staged, absorbed, ledger, mode, crashes>>

-----------------------------------------------------------------------------
\* Crash, restart and recovery.
Crash ==
  /\ mode # "down"
  /\ crashes < MaxCrashes
  /\ crashes' = crashes + 1
  /\ mode' = "down"
  /\ running' = Idle
  /\ UNCHANGED <<clock, books, custody, staged, absorbed, ledger, failures>>

Restart ==
  /\ mode = "down"
  /\ mode' = "recovering"
  /\ UNCHANGED <<clock, books, bridge, ledger, crashes, failures>>

\* Mutant: the change, which not every withdrawal has, is probed.
CommittedByChange(op) == Known(op.key)

\* What recovery reads out of the probed key.
Committed(op) ==
  IF op.kind = "deposit" THEN Known(op.probe)
  ELSE Known(op.probe) /\ ~Unspent(op.probe)

Recover(op) ==
  /\ mode = "recovering"
  /\ IF Committed(op) THEN RollForward(op) ELSE Unwind(op)
  /\ UNCHANGED <<clock, running, ledger, mode, crashes, failures>>

\* Mutant: serving begins before recovery ends.
RecoveredEarly ==
  /\ mode = "recovering"
  /\ mode' = "up"
  /\ UNCHANGED <<clock, books, bridge, ledger, crashes, failures>>

Recovered ==
  /\ mode = "recovering"
  /\ staged = {}
  /\ mode' = "up"
  /\ UNCHANGED <<clock, books, bridge, ledger, crashes, failures>>

-----------------------------------------------------------------------------
\* Whoever holds a bearer token spends it elsewhere.
BearerSpend(h) ==
  /\ mode = "up"
  /\ h \notin CustodyKey
  /\ Unspent(h)
  /\ ledger' = [ledger EXCEPT ![h].spent_at = clock]
  /\ UNCHANGED <<clock, books, bridge, mode, crashes, failures>>

\* The ledger's prune.  That no handler lasts as long as the recovery window
\* is an assumption; without it a prune could come between an exchange and
\* the crash that interrupts its follow-up.
Prune ==
  /\ Serving
  /\ LET old == {h \in DOMAIN ledger : ~Unspent(h) /\
                   ledger[h].spent_at < clock - recovery_window}
     IN  /\ old # {}
         /\ ledger' = [h \in DOMAIN ledger \ old |-> ledger[h]]
  /\ UNCHANGED <<clock, books, bridge, mode, crashes, failures>>

Tick ==
  /\ clock < MaxTime
  /\ clock' = clock + 1
  /\ UNCHANGED <<books, bridge, ledger, mode, crashes, failures>>

-----------------------------------------------------------------------------
Init ==
  /\ InitBooks
  /\ custody = [h \in {} |-> NULL]
  /\ staged = {}
  /\ absorbed = 0
  /\ ledger = [h \in Keys(InitialCoins) |->
                 [amount |-> (CHOOSE c \in InitialCoins : c.hash = h).amount,
                  spent_at |-> NULL]]
  /\ running = Idle
  /\ mode = "up"
  /\ crashes = 0 /\ failures = 0

Books ==
  /\ Serving
  /\ BooksNext
  /\ UNCHANGED <<bridge, ledger, mode, crashes, failures>>

Handler == ExchangeCommits \/ ExchangeRejected \/ Finalize \/ Discard
Recovery == Recovered \/ \E op \in staged : Recover(op)

Next ==
  \/ Books
  \/ \E a \in Agent, tokens \in Deposits : StageDeposit(a, tokens)
  \/ \E a \in Agent, outputs \in Withdrawals : StageWithdraw(a, outputs)
  \/ Handler
  \/ Fail
  \/ Crash
  \/ Restart
  \/ Recovery
  \/ \E h \in DOMAIN ledger : BearerSpend(h)
  \/ Prune
  \/ Tick

Spec == Init /\ [][Next]_vars

\* A handler's thread runs on, and the launcher restarts the process.
FairSpec == Spec /\ WF_vars(Handler) /\ WF_vars(Restart) /\ WF_vars(Recovery)

-----------------------------------------------------------------------------
(***************************************************************************)
(* Properties.                                                             *)
(***************************************************************************)
Row == [amount : Nat, state : {"pending", "unspent", "reserved", "spent"}]

\* The state is well formed.  The substance: the mint never absorbs a
\* negative burn, and a balance never goes below zero although it is checked
\* when a withdrawal is staged and debited two transactions later.
TypeOK ==
  /\ BooksTypeOK
  /\ \A a \in DOMAIN agents : agents[a].balance_mc >= 0
  /\ DOMAIN custody \subseteq CustodyKey /\ \A h \in DOMAIN custody : custody[h] \in Row
  /\ absorbed \in Nat
  /\ \A op \in staged : op.absorbed \in Nat /\ op.total \in Nat /\ op.burn \in Nat
                        /\ op.agent \in DOMAIN agents /\ op.t \in 0..clock
  /\ \A h \in DOMAIN ledger : ledger[h].spent_at \in 0..clock \cup {NULL}
  /\ running # Idle => running.op \in staged /\ mode = "up"
  /\ mode \in {"up", "recovering", "down"}

\* The stored balance of every agent is what its lines add up to: op_statement
\* recomputes it and raises when it is not (supervision.py:1196).
JournalAgrees ==
  \A a \in DOMAIN agents :
    agents[a].balance_mc = BalanceFromLines(a, Time)

\* "sum(unspent custody) == sum(agent balances) - absorbed_mc"
\* (supervision.py:428), where what an unfinished withdrawal has reserved
\* counts as held: no crash or failure makes the books create or lose money.
Held == InState("unspent") \cup InState("reserved")

CustodyAccounted ==
  Total([h \in Held |-> custody[h].amount]) + absorbed + Sum(Agent \X Time \X DEBIT_KINDS)
    = Sum(Agent \X Time \X CREDIT_KINDS)

\* Every custody row a withdrawal may select is an unspent entry of the ledger
\* with the same amount: "a crashed withdrawal can never wedge the selector on
\* ledger-spent rows" (supervision.py:45).
CustodyReal ==
  \A h \in InState("unspent") : Unspent(h) /\ ledger[h].amount = custody[h].amount

\* Every live entry that only a custody secret can spend has that secret in
\* the custody table, free to be selected or held by an operation that is yet
\* to be settled: "no money is lost: every secret was
\* durable before its exchange could commit" (supervision.py:1869).
NoMoneyLost ==
  \A h \in DOMAIN ledger \cap CustodyKey :
    Unspent(h) =>
      /\ h \in DOMAIN custody
      /\ custody[h].amount = ledger[h].amount
      /\ \/ custody[h].state = "unspent"
         \/ \E op \in staged : h \in Keys(op.inputs \cup op.outputs)

\* What an operator was told about a closed period stays true: a line
\* is posted at the instant of its staging, which may be long past when
\* recovery posts it, but no statement can have been made in between.
StatementsFinal ==
  \A s \in statements : s.closing = BalanceFromLines(s.agent, 0..s.to)

\* No grant pays more in any trailing day than it says, whatever order pulls
\* and ticks come in.
PullBound ==
  \A i \in DOMAIN auths, now \in Time :
    LET day == {t \in Time : now - DAY_MS < t /\ t <= now}
    IN  Total([t \in day |-> pulled[<<i, t>>]]) <= auths[i].bounds.cap_mc_per_day

\* A debit that is applied leaves the agent within each of its caps as they
\* stand at that moment: "a debit that would exceed a cap fails"
\* (aicash-spec-v0.4.md:314, pulls and the burn of withdrawals included).
CapsHold ==
  [][\A a \in DOMAIN agents :
       Debits(a, Time)' > Debits(a, Time) => ~CapViolation(a, 0, clock)']_vars

\* A freeze halts every outflow: no step debits an agent that is frozen, not
\* even one that applies a withdrawal staged before a crash.
FrozenStill ==
  [][\A a \in DOMAIN agents :
       agents[a].frozen => Debits(a, Time)' = Debits(a, Time)]_vars

\* While all agents of an operator carry the no-bearer flag, no step takes
\* value out of the fleet: not a withdrawal, not a transfer, and not a pull
\* on a grant that was given before the flag.
Fleet(o) == {a \in DOMAIN agents : agents[a].operator_id = o}

PerimeterHolds ==
  [][\A o \in Operator :
       (\A a \in Fleet(o) : agents[a].no_bearer_withdrawal)
         => Total([a \in Fleet(o) |-> agents'[a].balance_mc])
              >= Total([a \in Fleet(o) |-> agents[a].balance_mc])]_vars

\* A staged operation is settled, by its handler or after a restart.
StagedSettled == staged # {} ~> staged = {}

-----------------------------------------------------------------------------
(***************************************************************************)
(* The bridge implements CustodialCash: an operation takes effect at the   *)
(* instant its exchange commits, whatever happens to its handler, because  *)
(* the account is its stored balance and what is staged but not applied.   *)
(***************************************************************************)
Bearer ==
  {[hash |-> h, amount |-> ledger[h].amount] :
     h \in {g \in DOMAIN ledger \ CustodyKey : Unspent(g)}}

Due(a, kind) ==
  {op \in staged : op.agent = a /\ op.kind = kind /\ Committed(op)}

Account(a) ==
  IF a \notin DOMAIN agents THEN 0
  ELSE agents[a].balance_mc
         + Total([op \in Due(a, "deposit") |-> op.total])
         - Total([op \in Due(a, "withdraw") |-> op.total + op.burn])

Custodial == INSTANCE CustodialCash WITH
  bearer <- Bearer,
  accounts <- [a \in Agent |-> Account(a)],
  Policies <- {burn_policy} \cup
    (IF burn_policy_next = NULL THEN {} ELSE {burn_policy_next.policy})

\* Every step of the bridge is a whole deposit, a whole withdrawal, a move
\* between accounts, or invisible: _recover_pending's promise that a staged
\* operation rolls forward or back and never half way (supervision.py:1860).
CustodialSpec == Custodial!Spec
=============================================================================
