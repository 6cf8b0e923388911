------------------------------- MODULE Wallet -------------------------------
(***************************************************************************)
(* Component C07 (impl/aicash/wallet.py): the bearer client's store, its   *)
(* operations, and its recovery, against a mint it reaches over a network  *)
(* that loses and delays requests and answers.                             *)
(*                                                                         *)
(* A coin is its ledger key; amounts are module CoinSelection's concern.   *)
(* Every transaction of the store, every request and every answer is a     *)
(* step of its own, so a process can die between any two of them.          *)
(***************************************************************************)
EXTENDS Integers, Sequences, FiniteSets

CONSTANTS
  Proc,          \* processes (or request threads) that opened the store
  Coins,         \* ledger keys; fresh ones are drawn in ascending order
  Held,          \* coins the wallet starts with
  Foreign,       \* live coins whose token strings somebody sent us
  Calls,         \* which of "pay", "receive", "receive_batch", "handle_refused"
  MAX_ATTEMPTS,  \* transport attempts of one operation
  Lingering,     \* whether a request can outlive the call that sent it
  NULL,          \* not reserved
  MaxOps,        \* bound of the model: operations planned
  MaxCrashes,    \* bound of the model: deaths of a process
  MaxPolicy      \* bound of the model: changes of the burn policy

\* What the constants must be; the module that instantiates this one assumes it.
ConstantsOK ==
  /\ Coins \subseteq Nat /\ IsFiniteSet(Coins)
  /\ Held \cup Foreign \subseteq Coins /\ Held \cap Foreign = {}
  /\ Calls \subseteq {"pay", "receive", "receive_batch", "handle_refused"}
  /\ MAX_ATTEMPTS \in Nat \ {0} /\ Lingering \in BOOLEAN
  /\ {MaxOps, MaxCrashes, MaxPolicy} \subseteq Nat
  /\ NULL \notin 0..MaxOps

VARIABLES
  tokens,    \* wallet_tokens: keys to rows
  ops,       \* wallet_ops, in the order of their rowid
  ledger,    \* the mint's entries: "unspent" or "spent"
  idem,      \* the mint's idempotency table: op_id to its answer
  policy,    \* the burn policy in force, as a count of its changes
  requests,  \* exchange requests under way, by op_id
  given,     \* coins whose token strings others hold
  pc, call, op, coins, tries, todo, seen,   \* what each process is doing
  crashes

store == <<tokens, ops>>
mint == <<ledger, idem, policy>>
mem == <<pc, call, op, coins, tries, todo, seen>>
vars == <<tokens, ops, ledger, idem, policy, requests, given,
          pc, call, op, coins, tries, todo, seen, crashes>>

Token == [state : {"pending", "confirmed", "handed_over", "spent_out", "orphan"},
          role : {"receive", "payment", "change", "refund"},
          op_id : 0..MaxOps, reserved_by : 1..MaxOps \cup {NULL}]
Operation == [kind : {"receive", "pay", "refused"},
              state : {"planned", "done", "failed"},
              inputs : SUBSET Coins, outputs : SUBSET Coins, policy : Nat]
Answer == [ok : BOOLEAN, bad : SUBSET Coins]
Status == {"unknown", "unspent", "spent"}

TypeOK ==
  /\ DOMAIN tokens \subseteq Coins /\ \A k \in DOMAIN tokens : tokens[k] \in Token
  /\ Len(ops) <= MaxOps /\ \A o \in DOMAIN ops : ops[o] \in Operation
  /\ DOMAIN ledger \subseteq Coins /\ \A k \in DOMAIN ledger : ledger[k] \in {"unspent", "spent"}
  /\ DOMAIN idem \subseteq 1..MaxOps /\ \A o \in DOMAIN idem : idem[o] \in Answer
  /\ policy \in 0..MaxPolicy
  /\ requests \subseteq DOMAIN ops
  /\ given \subseteq Coins
  /\ pc \in [Proc -> {"idle", "selected", "planned", "sent", "answered",
                      "marking", "recover", "probed", "weighed"}]
  /\ call \in [Proc -> Calls \cup {"none"}]
  /\ op \in [Proc -> 0..MaxOps]
  /\ coins \in [Proc -> SUBSET Coins]
  /\ tries \in [Proc -> 0..MAX_ATTEMPTS]
  /\ todo \in [Proc -> SUBSET (1..MaxOps)]
  /\ \A p \in Proc : DOMAIN seen[p] \subseteq Coins /\ \A k \in DOMAIN seen[p] : seen[p][k] \in Status
  /\ crashes \in 0..MaxCrashes

-----------------------------------------------------------------------------
Nothing == [k \in {} |-> "unknown"]

Init ==
  /\ tokens = [k \in Held |-> [state |-> "confirmed", role |-> "receive",
                               op_id |-> 0, reserved_by |-> NULL]]
  /\ ops = <<>>
  /\ ledger = [k \in Held \cup Foreign |-> "unspent"]
  /\ idem = [o \in {} |-> NULL]
  /\ policy = 0
  /\ requests = {}
  /\ given = Foreign
  /\ pc = [p \in Proc |-> "idle"]
  /\ call = [p \in Proc |-> "none"]
  /\ op = [p \in Proc |-> 0]
  /\ coins = [p \in Proc |-> {}]
  /\ tries = [p \in Proc |-> 0]
  /\ todo = [p \in Proc |-> {}]
  /\ seen = [p \in Proc |-> Nothing]
  /\ crashes = 0

Goto(p, label) == pc' = [pc EXCEPT ![p] = label]

\* A call returns or raises: its memory is gone.
Leave(p) ==
  /\ Goto(p, "idle")
  /\ call' = [call EXCEPT ![p] = "none"]
  /\ op' = [op EXCEPT ![p] = 0]
  /\ coins' = [coins EXCEPT ![p] = {}]
  /\ tries' = [tries EXCEPT ![p] = 0]
  /\ todo' = [todo EXCEPT ![p] = {}]
  /\ seen' = [seen EXCEPT ![p] = Nothing]

\* What a dead or departed caller leaves in the network.
Abandoned(p) ==
  requests' = IF Lingering THEN requests ELSE requests \ {op[p]}

StatusOf(k) == IF k \in DOMAIN ledger THEN ledger[k] ELSE "unknown"
Ours(S) == S \cap DOMAIN tokens

-----------------------------------------------------------------------------
\* Planning an operation.

\* _held_coins: what pay may select from.
Free == {k \in DOMAIN tokens : tokens[k].state = "confirmed"
                               /\ tokens[k].reserved_by = NULL}

Begin(p, kind, S) ==
  /\ pc[p] = "idle"
  /\ kind \in Calls
  /\ S # {}
  /\ Len(ops) < MaxOps
  /\ call' = [call EXCEPT ![p] = kind]
  /\ coins' = [coins EXCEPT ![p] = S]
  /\ Goto(p, "selected")
  /\ UNCHANGED <<store, mint, requests, given, op, tries, todo, seen, crashes>>

\* pay, pay_many: the coins are read and chosen; nothing is reserved yet.
SelectCoins(p) == \E S \in SUBSET Free : Begin(p, "pay", S)
ReceiveToken(p) == \E k \in given : Begin(p, "receive", {k})
ReceiveBatch(p) == \E S \in SUBSET given : Begin(p, "receive_batch", S)
HandleRefused(p) ==
  \E S \in SUBSET (given \cap DOMAIN tokens) : Begin(p, "handle_refused", S)

KindOf(c) == CASE c = "pay" -> "pay"
               [] c = "handle_refused" -> "refused"
               [] OTHER -> "receive"

Unused == Coins \ (DOMAIN tokens \cup DOMAIN ledger \cup given)
Draw(n) == {k \in Unused : Cardinality({j \in Unused : j < k}) < n}

\* The roles of the outputs: pay makes a payment and perhaps change.
Roles(c, outputs) ==
  [k \in outputs |-> CASE c = "pay" /\ \A j \in outputs : k <= j -> "payment"
                       [] c = "pay" -> "change"
                       [] c = "handle_refused" -> "refund"
                       [] OTHER -> "receive"]

\* Input keys that get reserved_by: none for a received string, even if it is
\* one of ours.
Reserved(c, S) == IF c \in {"pay", "handle_refused"} THEN Ours(S) ELSE {}

\* _persist_plan, one transaction: the op, its outputs, its reservations.
Persist(p) ==
  /\ pc[p] = "selected"
  /\ Len(ops) < MaxOps
  /\ \E n \in IF call[p] = "pay" THEN {1, 2} ELSE {1} :
       LET o == Len(ops) + 1
           outputs == Draw(n)
           role == Roles(call[p], outputs)
       IN  /\ Cardinality(outputs) = n
           /\ ops' = Append(ops, [kind |-> KindOf(call[p]), state |-> "planned",
                                  inputs |-> coins[p], outputs |-> outputs,
                                  policy |-> policy])
           /\ tokens' = [k \in DOMAIN tokens \cup outputs |->
                IF k \in outputs
                THEN [state |-> "pending", role |-> role[k], op_id |-> o,
                      reserved_by |-> NULL]
                ELSE IF k \in Reserved(call[p], coins[p])
                     THEN [tokens[k] EXCEPT !.reserved_by = o] ELSE tokens[k]]
           /\ op' = [op EXCEPT ![p] = o]
  /\ tries' = [tries EXCEPT ![p] = 0]
  /\ Goto(p, "planned")
  /\ UNCHANGED <<mint, requests, given, call, coins, todo, seen, crashes>>

-----------------------------------------------------------------------------
\* _send_exchange.

\* _assert_persisted, over a fresh connection, before the first attempt.
Persisted(o) ==
  /\ ops[o].state = "planned"
  /\ \A k \in ops[o].outputs : tokens[k].state = "pending"

Send(p) ==
  /\ pc[p] = "planned"
  /\ tries[p] = 0 => Persisted(op[p])
  /\ requests' = requests \cup {op[p]}
  /\ tries' = [tries EXCEPT ![p] = @ + 1]
  /\ Goto(p, "sent")
  /\ UNCHANGED <<store, mint, given, call, op, coins, todo, seen, crashes>>

\* RuntimeError: another process has settled this operation already.
NotPersisted(p) ==
  /\ pc[p] = "planned" /\ tries[p] = 0
  /\ ~Persisted(op[p])
  /\ Leave(p)
  /\ UNCHANGED <<store, mint, requests, given, crashes>>

GetAnswer(p) ==
  /\ pc[p] = "sent"
  /\ op[p] \notin requests
  /\ op[p] \in DOMAIN idem
  /\ Goto(p, "answered")
  /\ UNCHANGED <<store, mint, requests, given, call, op, coins, tries, todo, seen,
                 crashes>>

\* MintUnavailable with attempts left: the same key and bytes again.
Retry(p) ==
  /\ pc[p] = "sent"
  /\ tries[p] < MAX_ATTEMPTS
  /\ Goto(p, "planned")
  /\ UNCHANGED <<store, mint, requests, given, call, op, coins, tries, todo, seen,
                 crashes>>

GiveUpFailed(p) ==   \* mutant: silence is taken for a rejection
  /\ pc[p] = "sent"
  /\ tries[p] = MAX_ATTEMPTS
  /\ tokens' = [k \in DOMAIN tokens |->
       IF tokens[k].op_id = op[p] THEN [tokens[k] EXCEPT !.state = "orphan"]
       ELSE tokens[k]]
  /\ ops' = [ops EXCEPT ![op[p]].state = "failed"]
  /\ Leave(p)
  /\ Abandoned(p)
  /\ UNCHANGED <<mint, given, crashes>>

GiveUpForgets(p) ==   \* mutant: an unanswered plan is rolled back, its secrets with it
  /\ pc[p] = "sent"
  /\ tries[p] = MAX_ATTEMPTS
  /\ tokens' = [k \in DOMAIN tokens \ ops[op[p]].outputs |-> tokens[k]]
  /\ ops' = [ops EXCEPT ![op[p]].state = "failed"]
  /\ Leave(p)
  /\ Abandoned(p)
  /\ UNCHANGED <<mint, given, crashes>>

\* The last attempt failed too: the operation stays planned.
GiveUp(p) ==
  /\ pc[p] = "sent"
  /\ tries[p] = MAX_ATTEMPTS
  /\ Leave(p)
  /\ Abandoned(p)
  /\ UNCHANGED <<store, mint, given, crashes>>

-----------------------------------------------------------------------------
\* Settling an answered operation.

AnsweredAnyhow(p) == TRUE   \* mutant: a rejection is not told apart
Succeeded(p) == idem[op[p]].ok

SettleRowKept(o, row) ==   \* mutant: the reservation outlives the spend
  CASE row.op_id = o /\ row.state = "pending" ->
         [row EXCEPT !.state = IF row.role = "payment" THEN "handed_over"
                               ELSE "confirmed"]
    [] row.reserved_by = o -> [row EXCEPT !.reserved_by = NULL]
    [] OTHER -> row

SettleRow(o, row) ==
  CASE row.op_id = o /\ row.state = "pending" /\ row.role = "payment" ->
         [row EXCEPT !.state = "handed_over"]
    [] row.op_id = o /\ row.state = "pending" /\ row.role # "payment" ->
         [row EXCEPT !.state = "confirmed"]
    [] row.reserved_by = o ->
         [row EXCEPT !.state = "spent_out", !.reserved_by = NULL]
    [] OTHER -> row

SettleDone(o, state) ==   \* mutant: a failed operation stays planned
  ops' = IF state = "done" THEN [ops EXCEPT ![o].state = state] ELSE ops

Settle(o, state) == ops' = [ops EXCEPT ![o].state = state]

ResolveSuccess(p) ==
  /\ pc[p] = "answered"
  /\ Succeeded(p)
  /\ tokens' = [k \in DOMAIN tokens |-> SettleRow(op[p], tokens[k])]
  /\ Settle(op[p], "done")
  /\ Goto(p, "marking")
  /\ UNCHANGED <<mint, requests, given, call, op, coins, tries, todo, seen, crashes>>

FailRow(o, row) ==
  IF row.op_id = o /\ row.state = "pending" THEN [row EXCEPT !.state = "orphan"]
  ELSE IF row.reserved_by = o THEN [row EXCEPT !.reserved_by = NULL] ELSE row

\* A rejection is final for the operation.  pay and receive raise; the batch
\* calls drop the inputs the mint named and go round again, unless it named
\* none.
ResolveFailed(p) ==
  /\ pc[p] = "answered"
  /\ ~Succeeded(p)
  /\ tokens' = [k \in DOMAIN tokens |-> FailRow(op[p], tokens[k])]
  /\ Settle(op[p], "failed")
  /\ IF call[p] \in {"receive_batch", "handle_refused"} /\ idem[op[p]].bad # {}
     THEN /\ Goto(p, "marking")
          /\ UNCHANGED <<call, op, coins, tries, todo, seen>>
     ELSE Leave(p)
  /\ UNCHANGED <<mint, requests, given, crashes>>

\* _mark_dead_if_ours, each a transaction of its own.
Dead(p) == IF Succeeded(p) THEN coins[p] ELSE idem[op[p]].bad
Unmarked(p) == {k \in Ours(Dead(p)) : tokens[k].state \in {"confirmed", "handed_over"}}

MarkDead(p) ==
  /\ pc[p] = "marking"
  /\ call[p] # "pay"
  /\ \E k \in Unmarked(p) : tokens' = [tokens EXCEPT ![k].state = "spent_out"]
  /\ UNCHANGED <<ops, mint, requests, given, mem, crashes>>

\* The dropped inputs are marked: retry the rest under a fresh key.
NextRound(p) ==
  /\ pc[p] = "marking"
  /\ ~Succeeded(p)
  /\ Unmarked(p) = {}
  /\ LET rest == coins[p] \ idem[op[p]].bad
     IN  IF rest = {} THEN Leave(p)
         ELSE /\ coins' = [coins EXCEPT ![p] = rest]
              /\ Goto(p, "selected")
              /\ UNCHANGED <<call, op, tries, todo, seen>>
  /\ UNCHANGED <<store, mint, requests, given, crashes>>

Payments(o) == {k \in ops[o].outputs : tokens[k].role = "payment"}

\* The call returns; pay hands its payment strings to the caller.
Return(p) ==
  /\ pc[p] = "marking"
  /\ Succeeded(p)
  /\ call[p] # "pay" => Unmarked(p) = {}
  /\ given' = IF call[p] = "pay" THEN given \cup Payments(op[p]) ELSE given
  /\ Leave(p)
  /\ UNCHANGED <<store, mint, requests, crashes>>

-----------------------------------------------------------------------------
\* recover.

BeginRecover(p) ==
  /\ pc[p] = "idle"
  /\ \E o \in DOMAIN ops : ops[o].state = "planned"
  /\ todo' = [todo EXCEPT ![p] = {o \in DOMAIN ops : ops[o].state = "planned"}]
  /\ Goto(p, "recover")
  /\ UNCHANGED <<store, mint, requests, given, call, op, coins, tries, seen, crashes>>

PendingOutputs(o) ==
  {k \in DOMAIN tokens : tokens[k].op_id = o /\ tokens[k].state = "pending"}

\* The op_ids are random, so any of the remaining ones may be next.
Probe(p) ==
  /\ pc[p] = "recover"
  /\ \E o \in todo[p] :
       /\ op' = [op EXCEPT ![p] = o]
       /\ todo' = [todo EXCEPT ![p] = @ \ {o}]
       /\ seen' = [seen EXCEPT ![p] = [k \in PendingOutputs(o) |-> StatusOf(k)]]
  /\ Goto(p, "probed")
  /\ UNCHANGED <<store, mint, requests, given, call, coins, tries, crashes>>

Committed(p) == \E k \in DOMAIN seen[p] : seen[p][k] # "unknown"

PlanInputs(o) == Ours(ops[o].inputs)
NextOp(p) == /\ Goto(p, "recover")
             /\ seen' = [seen EXCEPT ![p] = Nothing]
             /\ op' = [op EXCEPT ![p] = 0]

\* Some output is on the ledger: the exchange committed.
Confirm(p) ==
  /\ pc[p] = "probed"
  /\ Committed(p)
  /\ tokens' = [k \in DOMAIN tokens |->
       IF k \in PlanInputs(op[p])
       THEN [tokens[k] EXCEPT !.state = "spent_out", !.reserved_by = NULL]
       ELSE IF k \in DOMAIN seen[p] /\ tokens[k].state = "pending"
       THEN [tokens[k] EXCEPT !.state =
               IF seen[p][k] = "unspent" THEN "confirmed" ELSE "spent_out"]
       ELSE tokens[k]]
  /\ Settle(op[p], "done")
  /\ NextOp(p)
  /\ UNCHANGED <<mint, requests, given, call, coins, tries, todo, crashes>>

\* No output is: ask for the inputs before writing anything.
Weigh(p) ==
  /\ pc[p] = "probed"
  /\ ~Committed(p)
  /\ seen' = [seen EXCEPT ![p] = [k \in PlanInputs(op[p]) |-> StatusOf(k)]]
  /\ Goto(p, "weighed")
  /\ UNCHANGED <<store, mint, requests, given, call, op, coins, tries, todo, crashes>>

Restored(answer) == IF answer = "unspent" THEN "confirmed" ELSE "spent_out"

\* None is: what is left of the plan failed, and its inputs are what they are.
Orphan(p) ==
  /\ pc[p] = "weighed"
  /\ tokens' = [k \in DOMAIN tokens |->
       IF k \in DOMAIN seen[p]
       THEN [tokens[k] EXCEPT !.state = Restored(seen[p][k]), !.reserved_by = NULL]
       ELSE IF k \in PendingOutputs(op[p])
       THEN [tokens[k] EXCEPT !.state = "orphan"] ELSE tokens[k]]
  /\ Settle(op[p], "failed")
  /\ NextOp(p)
  /\ UNCHANGED <<mint, requests, given, call, coins, tries, todo, crashes>>

RecoverReturns(p) ==
  /\ pc[p] = "recover"
  /\ todo[p] = {}
  /\ Leave(p)
  /\ UNCHANGED <<store, mint, requests, given, crashes>>

\* A status call fails: MintUnavailable, what is settled stays settled.
RecoverRaises(p) ==
  /\ pc[p] \in {"recover", "probed"}
  /\ Leave(p)
  /\ UNCHANGED <<store, mint, requests, given, crashes>>

-----------------------------------------------------------------------------
\* The mint, the network, the other holders of strings, and crashes.

BadInputs(o) == {k \in ops[o].inputs : StatusOf(k) # "unspent"}
Accepted(o) == BadInputs(o) = {} /\ ops[o].policy = policy

\* Component C04: a known key is replayed; a batch is refused with the inputs
\* that are spent or unknown, or for a sum priced under another policy.
Execute(o) ==
  IF o \in DOMAIN idem THEN UNCHANGED <<ledger, idem>>
  ELSE /\ ledger' = IF Accepted(o)
                    THEN [k \in DOMAIN ledger \cup ops[o].outputs |->
                            IF k \in ops[o].inputs THEN "spent"
                            ELSE IF k \in ops[o].outputs THEN "unspent" ELSE ledger[k]]
                    ELSE ledger
       /\ idem' = [x \in DOMAIN idem \cup {o} |->
                     IF x = o THEN [ok |-> Accepted(o), bad |-> BadInputs(o)]
                     ELSE idem[x]]

Deliver ==
  \E o \in requests :
    /\ Execute(o)
    /\ requests' = requests \ {o}
    /\ UNCHANGED <<store, policy, given, mem, crashes>>

Lose ==
  \E o \in requests :
    /\ requests' = requests \ {o}
    /\ UNCHANGED <<store, mint, given, mem, crashes>>

\* Whoever holds a string redeems it.
Redeem ==
  \E k \in given :
    /\ StatusOf(k) = "unspent"
    /\ ledger' = [ledger EXCEPT ![k] = "spent"]
    /\ UNCHANGED <<store, idem, policy, requests, given, mem, crashes>>

ChangePolicy ==
  /\ policy < MaxPolicy
  /\ policy' = policy + 1
  /\ UNCHANGED <<store, ledger, idem, requests, given, mem, crashes>>

\* The process dies and is started again; only the store survives.
Crash(p) ==
  /\ crashes < MaxCrashes
  /\ pc[p] # "idle"
  /\ crashes' = crashes + 1
  /\ Leave(p)
  /\ Abandoned(p)
  /\ UNCHANGED <<store, mint, given>>

Steps(p) ==
  \/ Persist(p)
  \/ Send(p) \/ NotPersisted(p) \/ GetAnswer(p) \/ Retry(p) \/ GiveUp(p)
  \/ ResolveSuccess(p) \/ ResolveFailed(p)
  \/ MarkDead(p) \/ NextRound(p) \/ Return(p)

Recovery(p) ==
  \/ BeginRecover(p)
  \/ Probe(p) \/ Confirm(p) \/ Weigh(p) \/ Orphan(p) \/ RecoverReturns(p)

Next ==
  \/ \E p \in Proc :
       \/ SelectCoins(p) \/ ReceiveToken(p) \/ ReceiveBatch(p) \/ HandleRefused(p)
       \/ Steps(p)
       \/ Recovery(p) \/ RecoverRaises(p)
       \/ Crash(p)
  \/ Deliver \/ Lose \/ Redeem \/ ChangePolicy

Spec == Init /\ [][Next]_vars

\* A process that is running makes progress, and recover is called until it
\* finds nothing planned, by a user the exception sends there; a mint that is
\* asked again and again answers in the end.
FairSpec ==
  /\ Spec
  /\ \A p \in Proc : WF_vars(Steps(p)) /\ WF_vars(Recovery(p))
  /\ \A p \in Proc : SF_vars(Probe(p)) /\ SF_vars(Confirm(p)) /\ SF_vars(Weigh(p))

-----------------------------------------------------------------------------
\* Properties.

Live(k) == StatusOf(k) = "unspent"

\* No value whose secret this wallet made is stranded, at whatever step a
\* process dies, an answer is lost or a call gives up: a live coin of the
\* store is held, handed over, or an output that recovery will still ask for.
NothingStranded ==
  \A k \in DOMAIN tokens : Live(k) =>
    \/ tokens[k].state \in {"confirmed", "handed_over"}
    \/ tokens[k].state = "pending" /\ ops[tokens[k].op_id].state = "planned"

\* balance() and the coins pay may select are real: a free held coin whose
\* string never left the wallet is live at the mint.
BalanceReal == \A k \in Free \ given : Live(k)

\* A coin is reserved by the operation that spends it, as long as that is
\* planned and no longer.
ReservationsExact ==
  /\ \A k \in DOMAIN tokens :
       LET o == tokens[k].reserved_by
       IN  o # NULL => ops[o].state = "planned" /\ k \in ops[o].inputs
  /\ \A o \in DOMAIN ops : ops[o].kind = "pay" /\ ops[o].state = "planned" =>
       \A k \in ops[o].inputs \ given : tokens[k].reserved_by = o

\* Persist before send: whatever the ledger credits under an operation of this
\* wallet, its secret is on disk; with several processes on the store too.
SecretsDurable ==
  \A o \in DOMAIN ops : \A k \in ops[o].outputs :
    k \in DOMAIN ledger \/ o \in requests => k \in DOMAIN tokens

\* The strings pay returns are worth their face when it returns them.
PaidLive == \A k \in given' \ given : Live(k)
PaidStringsLive == [][PaidLive]_vars

RefusalSettled(p) == /\ call[p] = "handle_refused"
                     /\ pc[p] = "marking"
                     /\ ops[op[p]].state = "done"

\* handle_refused makes the payee's copies dead: once it has settled, none of
\* the strings it was given can be redeemed.
RefusedRetired ==
  \A p \in Proc : RefusalSettled(p) => \A k \in coins[p] : ~Live(k)

\* An output is orphaned only when its exchange definitively failed.
OrphansDead ==
  \A k \in DOMAIN tokens : tokens[k].state = "orphan" => k \notin DOMAIN ledger

\* Value in flight to a payee is never counted in the balance.
InFlightNotCounted == Free \cap given = {}

Planned(o) == IF o \in DOMAIN ops THEN ops[o].state = "planned" ELSE FALSE

\* Every planned operation is settled in the end.
PlansSettled == \A o \in 1..MaxOps : Planned(o) ~> ~Planned(o)
=============================================================================
