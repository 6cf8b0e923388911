# AICash in TLA+

A model-checked and partly proved specification of the AICash mint, its ledger,
its clients and the protocols built over it.  Paths are those of the repository;
`impl/aicash/` is left out where it is clear.

## The system

An AICash **mint** keeps a table of *entries*, each the SHA-256 digest of a
32-byte token secret with an amount in millicoins and at most one lock.  Whoever
knows the secret owns the amount.  Everything a client does with money is one
operation, `exchange`: spend some entries, create others, burn a small fee.

| Component | State it keeps | Operations | Talks to |
|---|---|---|---|
| C01 `tokencodec.py` | none | parse/format tokens, base64url, canonical JSON, `ledger_key` | used by all |
| C02 `lockeval.py` | none | `validate_lock`, `evaluate` | called by C04 |
| C03 `burncalc.py` | none | `compute_burn`, `effective_policy`, `validate_notice` | C04, C06, every client |
| C04 `ledgerstore.py` | sqlite: `entries`, `supply`, `idempotency` | `exchange`, `issue`, `prune`, `status`, `supply` | called by C06, C10, the prune thread |
| C05 `signing.py` | none | Ed25519 over canonical JSON | C06, C09, C10, C12 |
| C06 `mintapi.py` | `snapshot_seq`, activity counters, counted keys; a reserved block of sequence numbers and the file lock in memory | HTTP routes: exchange, status, descriptor, admin issue | C04 |
| C07 `wallet.py` | sqlite: `wallet_tokens` (pending, confirmed, handed_over, spent_out, orphan), `wallet_ops` | receive, pay, pay_many, handle_refused, recover | C06 over HTTP |
| C08 `channels.py` | payer and payee objects in memory | open, draw, refund; accept, on_draw, settle | two wallets, one mint |
| C09 `escrow.py` | payer, payee, arbiter objects in memory | fund, verify, vote, reveal, redeem, refund; commit-then-accept | wallets, one mint |
| C10 `supervision.py` | sqlite: operators, agents, caps, freezes, pulls, journal lines, custody, staged operations, absorbed burn | register, caps, freeze, flags, pull, transfer, deposit, withdraw, statement, start-up recovery | C04 |
| C11 `swap.py` | two parties' secrets in memory | fund, claim, refund across two mints | two wallets, two mints |
| C12 `receipts.py` | none | receipts, disputes, attestations, envelopes | C05 |
| `run_mint.py` | key file, token file, the ledger's retention pins | launch, prune loop, shutdown and drain | C06, C04 |
| `gui/mintctl.py` | state file, token digests | status, start, stop of a mint process | `run_mint.py` |
| `gui/walletops.py`, `gui/app.py` | the payment journal, cause rows in the wallet's store | pay, deliver, receive, recover, history | C07 |
| `mint_console.py`, `gui/app.py`, `mintapi.py` | sessions; each an HTTP server of its own | parse, refuse, route, answer, keep alive or close | C06, C07, C10 |
| `wallet_cli.py` | none | one call of C07 per process | C07 |

**How they interact.**  The mint is one process with a thread per request, a
prune thread and one sqlite file.  C04's writers serialise on sqlite's write
lock; C06 and C10 keep their tables in the same file but in transactions of
their own, so a request is *several* transactions and a crash can fall between
them.  Clients reach the mint over HTTP: a request or its answer can be lost or
late, and clients retry under one idempotency key.  Locks (hash and time)
connect the parties of channels, escrows and swaps through the mint's clock.

**What is hard.**  Calls that read the clock and then wait; retries racing the
call they repeat; retention that forgets the history duplicate checks rely on;
operations spread over two transactions with recovery by probing; secrets that
live in memory only; two clocks.  `PROJECT.json` lists each hazard at its line.

**What makes each part correct.**

- C04: value is conserved, an entry pays once, a retry is answered truthfully,
  a locked entry goes down exactly one path, retention drops nothing early.
- C06: signed snapshots are jointly monotone across threads, crashes and
  processes; an exchange is counted at most once.
- C07: no value whose secret this wallet made is lost, whatever is lost or
  delayed, and no coin is counted twice.
- C10: custody equals the balances less what was absorbed; no debit exceeds a
  cap; a frozen or flagged agent's value does not move; recovery is exact.
- C08, C09, C11: each party ends with what it is due or its refund.
- The launcher and mint control: what a mint publishes of itself stands across
  starts, and no running mint is reported as stopped.
- The payment journal: it says what was watched happen, and never takes it back.
- The HTTP servers: answers stay in step with requests on one connection.

## The modules

| Module | Stands for |
|---|---|
| `LockEval` | C02: the truth table of `evaluate`, with the boundary instant |
| `BurnCalc` | C03: the burn of a call and the policy in force |
| `Millicoins` | sums of amounts, as the number of coins in a family (no recursion, so facts about sums are provable) |
| `LedgerStore` | C04: `exchange`, `issue`, `prune` over the three tables, in interleaved calls |
| `BearerCash` | what C04 promises about value: coins, issued, burned, two actions |
| `MCLedgerStore` | the instances of it TLC checks |
| `Accounts` | C10, the custodial books: agents, caps, freezes, flags, journal, grants, pulls, transfers, statements |
| `Supervision` | C10, the bridge over those books: staged deposits and withdrawals, custody, failures, crashes, recovery |
| `CustodialCash` | what the bridge promises: coins become balance and balance becomes coins, all at once |
| `MCSupervision` | the instances of it TLC checks |
| `MintApi` | C06: the process around the ledger: claim, handlers, snapshot numbers, activity counts |
| `HttpConnection` | one connection to the HTTP server of the mint, of the GUI or of the console |
| `Wallet` | C07: the store, one step per transaction, request and answer, and recovery |
| `CoinSelection` | C07: `_select` and `_decompose`, to the coin |
| `PaymentJournal` | the GUI's record of its payments over the wallet's store |
| `Swap` | C11: two parties, two ledgers, two clocks |
| `Channel` | C08: funding by tranche, draws, settlement, refund |
| `Escrow`, `CommitThenAccept` | C09: one milestone with its panel; the pay locked to the payer's own preimage |
| `Launcher` | `run_mint.py`: concurrent launches on one directory |
| `MintControl` | `gui/mintctl.py`: desktop processes that look after one mint |
| `Clients` | the payment journal and an HTTP connection side by side, and their properties |
| `Programs` | the launcher, the mint control and the bearer wallet side by side |
| `Protocols` | the swap, the channel, the escrow and commit-then-accept side by side |
| `MCClients`, `MCProtocols`, `MCPaymentJournal` | the instances of these TLC checks |
| `MillicoinsProofs`, `BurnCalcProofs`, `LedgerStoreProofs`, `MintApiProofs`, `AccountsProofs`, `SupervisionProofs` | the theorems about these components and their proofs |
| `ProtocolProofs`, `ProgramProofs` | the theorems about the protocols, and about the programs and the bearer wallet |

`LedgerStore` takes the definitions of `LockEval` and `BurnCalc` by INSTANCE
and is shown to implement `BearerCash` under `coins <- Live`, the amounts of the
unspent rows.  `Supervision` extends `Accounts`, takes `BurnCalc` by INSTANCE
and is shown to implement `CustodialCash`.  `CoinSelection` extends `BurnCalc`.

The modules over C06 and above see the ledger as what C04 promises: an exchange
that is refused, or that commits once and is replayed under its key.  None of
them repeats `LedgerStore`; each keeps only the entries, the answers or the
counters its component looks at.

### LedgerStore and the code

| Code | Model |
|---|---|
| `entries`, `supply`, `idempotency` (`_SCHEMA`) | `entries`, `issued`, `burned`, `idem` |
| the injected clock | `clock`, moved by `Tick` |
| a call between `now = self._clock()` and the end of `BEGIN IMMEDIATE` | a record in `pending`, with the captured `now` |
| `_resolve_input`, `evaluate` | `InputVerdict`, `Evaluate` |
| `_resolve_output`, `_storable_int`, `validate_lock` | `OutputVerdict`, `WellFormed` |
| the conservation block | `Assessable`, `Conserves`, `Burn` |
| `_exchange_locked` | `Replay`, `Reject`, `Exchange`: one action per way the transaction ends |
| `issue` | `Issue`, `RefuseIssue` |
| `prune` | `Prune` |
| busy timeout, exception and rollback, death of the process before COMMIT | `Abandon` |

A transaction under `BEGIN IMMEDIATE` excludes every other writer, so it is one
action; what really interleaves is the *arrival* of a call, where the clock is
read, and its commit.  A waiting call may wait for ever or be abandoned: no
fairness is assumed, and all properties of this module are safety.

What the model leaves out of the code, and why:

- Byte strings.  Secrets and keys are model values, the digest of `w` is the
  tagged value `Sha256(w)`.  Inputs and outputs that fail to parse are the kind
  `"malformed"` and the hash `NULL`, with the verdict the code gives them.
- `created_at` of entries, which nothing reads.
- The wording of rejections, and which message accompanies an issue.
- `adopt_burn_policy_next`: it runs at boot, before serving, so the policy is
  a constant of a behaviour.
- The clock never runs backwards.  The code assumes the same of its clock and
  does not check it.
- Two calls with the same key, body and instant waiting together are one member
  of `pending`.  The second would only find the first one's record.

### Accounts, Supervision and the code

| Code | Model |
|---|---|
| `sup_agents`, `sup_lines`, `sup_pull_auths`, `sup_pull_uses` | `agents`, `journal`, `auths`, `pulled` |
| `sup_custody`, `sup_pending_ops`, `sup_mint.absorbed_mc` | `custody`, `staged`, `absorbed` |
| C04's entries, as far as the bridge sees them | `ledger`: amount, and since when spent |
| the RLock of `_SupCore`, held by `dispatch` | `running`, the operation under way; `Serving` guards every other handler |
| `op_agents`, `op_caps`, `_set_frozen`, `op_flags`, `agent_authorize_pull`, `agent_revoke_pull`, `agent_pull`, `agent_transfer`, `op_statement` | `RegisterAgent`, `SetCaps`, `SetFrozen`, `SetFlag`, `AuthorizePull`, `RevokePull`, `Pull`, `Transfer`, `Statement` |
| `agent_deposit`, `agent_withdraw` up to their first COMMIT | `StageDeposit`, `StageWithdraw` |
| `ledger.exchange` | `ExchangeCommits`, `ExchangeRejected`, at the ledger's own instant |
| `_finalize_deposit`, `_finalize_withdraw`, `_unwind_withdraw` and the deposit's discard | `FinalizeDeposit`, `FinalizeWithdraw`, `Unwind` |
| any other exception: rollback, re-raise, a 500, the lock released | `Fail` |
| death of the process, start, `_recover_pending` | `Crash`, `Restart`, `Recover`, `Recovered` |
| the prune thread; holders of tokens | `Prune`; `BearerSpend` |

An operation of the books is one transaction under the lock, hence one action.
A deposit or a withdrawal is three, and they are three actions, between which
the clock, the prune thread, the holders of tokens, failures and crashes move.
Recovery settles each staged operation in a transaction of its own and can
itself be cut short by a crash.

What these two modules leave out, and why:

- The journal is kept as totals by agent, instant and kind: every query of the
  code (`_debits_since`, `_balance_from_lines`) is such a total.  Amount-0 lines
  of freezes are therefore not kept.
- Operators are a constant set: one that has registered and done nothing more
  is not observable.  Authentication is left out; each action is taken by who
  may take it.
- A statement is its closing balance for one agent.  The fleet's is the sum.
- The order of custody rows of one amount is by hash in the code; here any of
  them may come first.
- A key drawn for custody is never one known before (`FreshKey`).
- `Prune` does not fall inside a handler: no handler lasts as long as the
  recovery window, which is an assumption.  Prune is guarded by `Serving`
  because the launcher starts it after recovery.

### MintApi and the code

| Code | Model |
|---|---|
| `MintServer.start`, `stop` | `Start`; `Shutdown` (no new connection), then `Release` (the claim let go) |
| `_claim_single_writer` and the `flock` on the ledger file | `Claimable`, `flock` |
| a daemon thread per connection | a `Handler`: `Accept`, `HangUp`, and what it answers |
| `_Core._lock` | `mutex`, per server |
| `descriptor` | `BeginSnapshot` (lock, time), `ReadSupply`, `TakeNumber` |
| `_next_snapshot_seq`, `_SEQ_BLOCK`, `mintapi_state` | `DrawFromBlock`, `DrawFromNewBlock`, `seq_next`, `seq_limit`, `snapshot_seq` |
| `_Core.exchange`, then `_record_activity` | `Exchange`, then `RecordActivity` or `RecordFails`, a transaction of its own |
| `admin_issue` | `AdminIssue` |
| death of the process: the claim goes with it | `Crash` |

`snapshots` and `answered` are history: what was signed and what was answered
200.  `Overlap` says whether a server may start while threads of a stopped one
in its process live; the properties are stated for `Overlap = FALSE` (see the
findings).  The ledger is its two counters and the set of executed keys.

### HttpConnection and the code

A peer's octets are units in a row: of each request its empty lines, its head,
the parts of its body.  A place `<<i, k>>` is the `k`-th unit of request `i`;
`arrived` is the place after which nothing comes any more, `pos` the place of
the last unit the server consumed, and `Finds` says what it reads next.  The three servers share
`framing_verdict` and differ in what they refuse, in which order, and whether
they then close: `MintRefuses`, `GuiRefuses`, `ConsoleRefuses`, `MintLineEnds`,
`GuiLineEnds`, `ConsoleLineEnds`.  The steps are those of the handler: a line
that ends the connection (`LineEnds`), an empty line before a request
(`EmptyLine`), the head (`ReadHead`), the transport rules (`RefuseHead`,
`AdmitHead`), the session gate (`NoSession`), the route (`Unrouted`, `Routed`),
the body (`RefuseBody`, `Reset`, `ReadBody`) and the answer (`Dispatch`).
Requests that are not `WellMeant` (octets without a stated length behind a
method that has no body) are left out: nothing tells such octets from a next
request, and no server promises to.

### Wallet, CoinSelection and the code

| Code | Model |
|---|---|
| `wallet_tokens`, `wallet_ops` | `tokens`, `ops` (in the order of rowid) |
| `receive`, `receive_batch`, `pay`, `pay_many`, `handle_refused` up to the plan | `ReceiveToken`, `ReceiveBatch`, `SelectCoins`, `HandleRefused` |
| `_persist_plan`, `_assert_persisted` | `Persist`; `NotPersisted` |
| `_send_exchange`, its attempts under one `op_id` | `Send`, `GetAnswer`, `Retry`, `GiveUp` |
| `_resolve_success`, `_resolve_failed`, `_mark_dead_if_ours` | `ResolveSuccess`, `ResolveFailed`, `MarkDead` |
| the next round after a rejection that names inputs | `NextRound` |
| `recover`: probe the outputs, then settle or ask for the inputs | `BeginRecover`, `Probe`, `Confirm`, `Weigh`, `Orphan`, `RecoverReturns`, `RecoverRaises` |
| the mint; a thread of it that takes a request up | `Execute`; `Deliver` |
| a request lost; a holder of a string; a new burn policy | `Lose`; `Redeem`; `ChangePolicy` |
| a process killed, the store left | `Crash` |

Each transaction, each request and each answer is a step.  `Lingering` says
whether a request can outlive the call that sent it: without it a call that
gives up has lost its request.  The properties of recovery are stated without
it, as `recover` assumes (see the findings); the area with two processes on
one store has it.

`CoinSelection` has the amounts `Wallet` leaves out: `_select`'s largest-first
choice (`Pick`, `Refuse`, `Selected`), the consolidation sweep (`Sweep`) and the
decomposition of change (`Decompose`), with coins of a rung as a count.  There
the network is left out: a batch that balances is accepted.

### PaymentJournal and the code

A payment is one `wallet_ops` row and one token string, whose story is in three
places: the store (`op`, `row`), the cause rows that `pay` leaves when it raised
(`stranded`), and the journal (`intended`, `record`).  `Pay`, `PayCommits`,
`PayAnswered`, `PayRefused`, `PayUnanswered`, `SettleCause` are `WalletOps.pay`;
`Intend`, `Begin`, `HandOver` the route around it; `Receive`, `TakeOpens`,
`TakeCommits`, `TakeAnswered`, `TakeRefused`, `TakeUnanswered` the receiving
wallet; `Settle` is `settle_delivery`; `Recover`, `PayeeRecovers` the recover
routes.  `MintStops` and `MintStarts` are the mint control beside it, `Crash`
the death of the GUI between any two writes, and a write of the journal that
fails is swallowed (`BestEffort`), as `_write` does.  The op_id a page sends
with a delivery is taken as true.  Two things the properties allow for, because
the code does: a record "undelivered, already spent" can be of a payment whose
own first attempt arrived unanswered, and a GUI killed inside `pay` leaves no
cause row.

### The protocols and the code

- `Swap`: `AFund`, `AClaim`, `ARefund`; `BMeasure` to `BQuotes` (the margin and
  the retention check of `b_fund`), `BFund`, `BAsk` to `BClaim` (the polling loop
  of `b_poll_and_claim` and `_claim_at_other`), `BRefund`; evaluation and commit
  of a claim are two steps at two instants, as in C04; `Prune` is mint 2's.  The
  mints' clocks differ by `Ahead`.  Left out: the error of measuring that
  difference (the factor 10 of `_latency_ms` covers it), the descriptor fetch
  before B's claim, and the response to the last unsuccessful poll.  A tick is
  many milliseconds, so the margin's precision term is 0.
- `Channel`: `FundTranche`, `Accept`, `Draw`, `OnDraw`, `BeginSettle` to
  `SettleReturns`, `BeginRefund` to `RefundReturns`.  The witness of increment
  `i` is the number `i`, one step down the chain is `i - 1`.  One descriptor
  read decides for all tranches, so the margin must exceed the tranches times
  the latency.  A settle answer that is lost loses the secret of the new token,
  and later settles fail at that tranche; `mishap` records it.
- `Escrow`: rungs of several arbiters, honest and faulty, votes, reveals up to a
  deadline, `BeginRedeem`/`Redeem` racing `RefundStatus`/`Refund`.  The margin
  must exceed two latencies: the call under way and the one that finds it.
- `CommitThenAccept`: `PayerCommit`, `WorkerStatus`, `WorkerVerify`,
  `PayerReveal`, `Handover`, `WorkerRedeem`, `PayerRefund`.

In all four a party that keeps to its times is modelled by `due`: the clock does
not pass the instant by which its call under way has committed.

### Launcher, MintControl and the code

`Launcher` has one step per file a launch reads or writes: `LoadKeys`,
`GenerateKeys` or `CompleteKeys`, `WriteKeys`, `Configure`, `Start` (with the
claim) or `BindFails`, `StoreToken`, `ReadPins`, `WritePins`, `PersistFails`,
`Prune`, `Signal`, `Drained`, and `Die` anywhere.  A file is replaced in one
step, but what it replaces was read steps before.  `claims` is the history of
what descriptors published.

`MintControl` has `Call`, `Match` and `Adopt` (`_process_matches`,
`_adopt_orphan`), `Preflight`, `Spawn`, `WriteState`, `ChildExited`, `Answered`
or `TimesOut`, `Remember`, `Find`, `SignalTerm`, `SignalKill`, `Gone`, `Mark`; the
mint's own steps are `Boots`, `StoresToken`, `Wedges`, `Drains`, `Dies`.  `fresh`
is what was alive since a call began to look.  Left out: a foreign mint with
another id on the port, and an OSError of `_write_state`.

## The runs

| Run | What it shows |
|---|---|
| `ledger_htlc` | An entry `h1` is issued, funded into a lock on `h3`, then claimed by `x` or refunded by `r`, each under either key, with the calls waiting across the expiry and prunes in between. `TypeOK`, `CountersStorable`, `RecordBacked`, `SpendRecordTruthful`, `FundingReplayable`, `UnspentKept`, `KeptForWindow` |
| `ledger_batches` | Splits, a merge, an input named twice, an output named twice, a lock past the horizon, a change of burn policy at 2, and a window of 1, so that keys are pruned and created again. `SupplyInvariant`, `SingleSpend`, and `CashSpec`, the refinement |
| `ledger_commit_time` | Violated: a claim that captured its instant before the expiry commits after it |
| `supervision_bridge` | One agent deposits `t1` (100 mc), `t2` (110 mc) or both, withdraws 99 or 120, with a freeze, a statement, a rival spend, a prune, a policy that becomes free at 1, and a crash at any step. `TypeOK`, `CustodyReal`, `NoMoneyLost`, `StatementsFinal`, `StagedSettled`, and `CustodialSpec`, the refinement |
| `supervision_failures` | The same with one transaction that raises. `JournalAgrees` and `CustodyAccounted`: the tables agree with each other whatever is left staged |
| `supervision_controls` | Two agents under one or two operators, with transfers, a grant, pulls, freezes and flags in every order. `FrozenStill`, `PerimeterHolds` |
| `supervision_caps` | Two agents with an hourly cap of one amount and a lifetime cap of two, a grant of one amount per day, and a withdrawal. `CapsHold`, `PullBound` |
| `supervision_lost` | Violated: after a follow-up raised and prune dropped the probed row, recovery deletes the secret of a live change entry |
| `supervision_cap_lapse` | Violated: after a follow-up raised, a second withdrawal passes a cap that recovery then exceeds |
| `clients` | Four clients side by side (below). `PaymentsSound`, `ReportHonest`, `InStep`, `JournalHonest`, `PlansSettled` |
| `protocols` | The mint's process, the protocols, the wallet and the launchers side by side (below). `SnapshotsMonotone`, `ActivityHonest`, `NothingStranded`, `BalanceReal`, `RefusedRetired`, `BothOrNeither`, `DrawsHonoured`, `EscrowHonoured`, `AcceptedIsPaid`, `LaunchesStand`, `NoMintLost`, `SecretsDurable`, `PaidStringsLive` |
| `journal_stopped` | Violated: a mint that commits the payee's exchange and then stops is recorded as having consumed nothing |

**Side by side.**  `clients` and `protocols` each check several modules in one
run.  The modules share no state: a behaviour belongs to one *area*, chosen
initially and never changed, whose module takes all the steps, and the
variables of the other areas keep one value.  So the states of the run are the
disjoint union of the states of the areas, and each property speaks of its
area.  Modules `Clients`, `Programs` and `Protocols` are such compositions, with
the constants of their parts as their own, so that the properties the runs check
are those the theorems state: `BothOrNeither`, say, is `protocol = "swap"`
implying the types and `BothOrNeither` of `Swap`, of `ProtocolSpec`.  The MC
modules add what only TLC needs.  In `protocols` servers and handlers are told
apart by nothing but their names, which the symmetry `Alike` uses; the run has
no liveness property.

| Area of `clients` | Instance |
|---|---|
| settles | one wallet process pays and receives, one attempt, one crash, two operations: small enough for `PlansSettled` |
| selection | a ladder 1, 10, 100 with the steepest legal rate and an exemption up to 100, payments of 1, 37 and 107, at most 150 held |
| journal | one payment, two deaths of the GUI, two stops of the mint |
| http | two pipelined requests out of every kind the servers tell apart, at each of the three, cut anywhere |

| Area of `protocols` | Instance |
|---|---|
| snapshots, activity | two servers, two handlers, blocks of 2, four numbers, one crash; with snapshots and one exchange, and with two exchanges and no snapshot |
| wallet | one wallet process that pays, receives, takes batches that lose members and hands refused payments back; two attempts, one crash, one new policy, three operations, the third under the first policy and with one coin to spend: `NothingStranded`, `BalanceReal`, `RefusedRetired`, `PaidStringsLive` |
| shared | two processes on one store, with requests that outlive their callers: `SecretsDurable` |
| swap | the horizons that just fit clocks that agree and clocks 4 apart, a recovery window that is long enough for both or for none, and one setting with a late B, which is promised nothing |
| channel | two tranches of two increments, the third with a lock no preimage opens |
| escrow | two honest arbiters and a faulty one, a quorum of two, a payer that may lock for too short or leave an output out |
| accept | an expiry that is too short, just long enough, and long |
| launcher | two launchers, three starts, six command lines, a key file that is absent, old or complete |
| control | two desktops, two mints, three calls, one crash |

**Bounds.**  Two calls wait at a time and there are two idempotency keys: the
write lock makes calls atomic, so a race needs two calls, a retry two with one
key, a conflict two bodies under one key.  The clock stops at `MaxTime`, which
is past the lock's expiry plus the recovery window.  `IntMax` is chosen just
under two issues (`ledger_htlc`), so the supply column is met.  Idempotency keys
are symmetric: no definition tells them apart.

In the bridge, one crash and one failure are enough: recovery treats each staged
record alone, a second crash only repeats the first, and two records can be
staged together only after a failure.  100 mc is the least amount the burn is not
zero for, 120 mc draws on two custody rows and leaves the mint a burn to absorb,
99 mc takes a row exactly, with no change.  `HOUR_MS` is 1 and `DAY_MS` 2
instants, with a clock that runs past both.  `MaxOutflow` bounds how much an
agent passes on, which is otherwise unbounded: two agents can send one amount
to and fro for ever.  `CHECK_DEADLOCK FALSE`: a behaviour may end with the clock
at its bound and every token spent.

In the wallet's areas, two operations are enough for one to use the outcome of
the other, and a third is there for the payment that is refused; two attempts
let the answer to the first come after the second was sent.  In the mint's, a
block of 2 and four numbers let each of two servers draw from a block, leave
the rest of it behind and reserve a new one.  In the protocols a call takes
a tick or two, the expiries lie just inside and just outside what the margins
allow, and the clock passes every one of them.  The mutants of these properties
are margins left out: the skew of the clocks, the time to settle, the deadline
check of the payee, the window of the worker.
`CHECK_DEADLOCK FALSE` in these runs too: a protocol ends, a connection closes,
and the bounds on operations, starts and calls are reached.

**Fairness.**  `StagedSettled` assumes weak fairness of the handler that holds
the lock (a thread is scheduled), of `Restart` (`Restart=on-failure` in the
service unit of `DEPLOYMENT.md`) and of recovery, which runs in the constructor
before anything is served; crashes are bounded.  It is checked without failures:
after `Fail` a record stays staged until some restart, which nothing forces.

`PlansSettled` assumes, as `FairSpec` of `Wallet` states, weak fairness of a
running process and of recovery (`MintUnavailable` sends the user to `recover`,
and a plan that stays planned is offered again), and strong fairness of
recovery's three answers: a mint that is asked again and again answers in the
end, though any single call may fail (`RecoverRaises`).  Crashes are bounded.
Nothing is assumed of the network, and no other property uses fairness.

**FundingReplayable** holds when the recovery window is at least the lock
horizon, as in the run.  The code does not enforce this: `MintConfig` only
demands a finite horizon when it prunes.

**The findings.**  `exchange` reads the clock at `ledgerstore.py:705`, before
`BEGIN IMMEDIATE`.  The specification (`aicash-spec-v0.4.md:145`) says locks are
evaluated at commit time.  A claim can wait up to the busy timeout and commit
after the expiry.  The record it leaves is consistent (`SpendRecordTruthful`
holds: `spent_at` is the captured instant); what differs is the promise to the
funder that from the expiry on only a refund can commit.

The two others are of the bridge, and need a follow-up transaction that raises
(a full disk, the write lock held beyond the busy timeout): the code rolls it
back, answers 500 and serves on, with the record staged until the next start.

- `supervision_lost`: `_recover_pending` unwinds a withdrawal unless its first
  input is *spent* on the ledger.  If the recovery window passes first, prune
  has dropped that row, the answer is *unknown*, and a committed withdrawal is
  unwound: the change secret is deleted, the spent inputs become selectable
  (`CustodyReal` fails in the same state), the agent keeps its balance.
- `supervision_cap_lapse`: meanwhile caps and balance do not count the staged
  debit, so the agent can withdraw the same allowance again while other custody
  rows cover it, and the restart posts both.

Crashes alone do no such harm, as `supervision_bridge` shows: recovery comes
before serving, and prune comes with serving.

`journal_stopped` is of the GUI.  A `receive` that got no answer is blamed on a
stopped mint when the process is gone by the time the call fails, and the record
then says for good that nothing was consumed.  The mint may have committed first.

Nine more were met with TLC while modelling.  They have no run of their own;
each is a property stated in its module (or one of a passing run) that fails
with the constants named here, and `PROJECT.json` quotes the code and the text
it departs from.

| Property | Module | To see it |
|---|---|---|
| `RefusalHonest` | `CoinSelection` | rungs 1, 10, 100, `exempt_below_mc` 1000, `rate_ppm` 10000; hold ten 100s and five 1s, pay 999: refused although the ten 100s cover it |
| `PlanBalances` | `CoinSelection` | the same with `exempt_below_mc` 2000; hold twenty 100s and ten 1s, pay 2000: the sweep makes the burn 20 and the change -10 |
| `OrphansDead` | `Wallet` | `Lingering = TRUE`: a request commits after `recover` found its outputs unknown |
| `InFlightNotCounted` | `Wallet` | `Calls` with `handle_refused`: it is cut short, and `recover` restores a handed-over coin to the balance |
| `ReservationsExact` | `Wallet` | two processes: both reserve one coin |
| `SnapshotsMonotone` | `MintApi` | `Overlap = TRUE`: a handler of a stopped server draws its number after the next server's |
| `IssuanceAsAsked` | `Launcher` | the constants of `protocols`: open issuance without supervision is gated |
| `ClaimsStand` | `Launcher` | `RacingFirstStart = TRUE`: two first launches both make a key |
| `CredentialsRemembered` | `MintControl` | the constants of `protocols`: the digest is taken before the token file is written |

The passing runs keep the conditions under which the rest holds
(`Lingering = FALSE` in the areas about recovery, `Overlap = FALSE`,
`RacingFirstStart = FALSE`, a `Steep` policy whose exemption is small), so that
they speak about everything else.

## The proofs

Each theorem holds for every value of the constants that satisfies the module's
assumptions: any finite set of keys, any batches, any valid policies, any window
and horizon, any fleet, any panel, any number of processes, any bound on the
crashes.  What a theorem assumes beyond them is in its statement, and listed
below.

| Module | Theorem | Statement |
|---|---|---|
| `LedgerStoreProofs` | `TypeCorrectness` | `Spec => []TypeOK` |
| | `SupplyIsConserved` | `Spec => []SupplyInvariant` |
| | `CountersStayStorable` | `Spec => []CountersStorable` |
| | `ReplaysAreBacked` | `Spec => []RecordBacked` |
| | `NothingPaysTwice` | `Spec => []SingleSpend` |
| | `SpendRecordsAreEvidence` | `Spec => []SpendRecordTruthful` |
| | `UnspentRowsAreKept` | `Spec => UnspentKept` (action property) |
| | `RetentionIsHonoured` | `Spec => KeptForWindow` (action property) |
| | `FundingsCanBeReplayed` | `Spec => []FundingReplayable`, under `WindowCoversLocks` |
| | `LedgerImplementsCash` | `Spec => CashSpec` (refinement) |
| `BurnCalcProofs` | `OnlyIncreasesRaise` | a change that is no increase raises the burn of no sum |
| | `LockedFundsKeepTheirPrice` | until a lock accepted before the announcement expires, no sum burns more than when it was accepted |
| `MintApiProofs` | `SnapshotOrder` | `~Overlap => (Spec => []SnapshotsMonotone)` |
| | `ActivityIsExact` | `Spec => []ActivityHonest` |
| `AccountsProofs` | `BalancesAreLines` | `Spec => []JournalAgrees` |
| | `MoneyIsConserved` | `Spec => []CustodyAccounted` |
| | `GrantsAreBounded` | `Spec => []PullBound` |
| `SupervisionProofs` | `BalancesStayPositive` | `Spec => []TypeOK`, under `NoneRaises`, like all of this module |
| | `CustodyRowsAreCoins` | `Spec => []CustodyReal` |
| | `NoCrashLosesMoney` | `Spec => []NoMoneyLost` |
| | `StatementsStayTrue` | `Spec => []StatementsFinal` |
| | `DebitsStayWithinCaps` | `Spec => CapsHold` (action property) |
| | `FrozenPayNothing` | `Spec => FrozenStill` (action property) |
| | `NothingLeavesThePerimeter` | `Spec => PerimeterHolds` (action property) |
| | `BridgeImplementsCustodialCash` | `Spec => CustodialSpec` (refinement) |
| `ProtocolProofs` | `SwapIsAtomic` | `ProtocolSpec => []BothOrNeither`, under `SafeEstimate` |
| | `AcceptanceIsPaid` | `ProtocolSpec => []AcceptedIsPaid`, under `RedeemsInTime` |
| | `EscrowIsHonoured` | `ProtocolSpec => []EscrowHonoured`, under `RedeemsTwice` |
| | `DefectionIsBounded` | `Escrow`: `[]DefectionBounded`, whatever the times |
| | `DrawsAreHonoured` | `ProtocolSpec => []DrawsHonoured`, under `SettlesInTime` |
| | `DrawsMakeUp` | `Channel`: `[]DrawsSubsume`, whatever the times |
| `ProgramProofs` | `ReportsAreHonest` | `ClientSpec => []ReportHonest` |
| | `RecordsAreKept` | `ClientSpec => JournalHonest` (action property) |
| | `AnswersStayInStep` | `ClientSpec => []InStep` |
| | `LaunchesAreKept` | `ProgramSpec => []LaunchesStand`, under `OneFirstStart` |
| | `MintsAreFound` | `ProgramSpec => []NoMintLost` |
| | `SecretsAreKept` | `Wallet`: `[]SecretsDurable`, any processes and requests |
| | `NothingIsStranded` | `ProgramSpec => []NothingStranded`, under `Alone`, like the three below |
| | `BalancesAreReal` | `ProgramSpec => []BalanceReal`, exact reservations included |
| | `RefusalsRetire` | `ProgramSpec => []RefusedRetired` |
| | `PaidStringsAreLive` | `ProgramSpec => PaidStringsLive` (action property) |

The theorems about `ProtocolSpec`, `ClientSpec` and `ProgramSpec` state the very
definitions the runs check, the types of the component among them.  Each takes
the invariant of one component over to the composition: the selecting variable
never changes, and a step of the composition is a step of the selected component
or leaves its variables alone.

### What is assumed

- `WindowCoversLocks`: the recovery window is no shorter than the longest lock
  the mint accepts, and operators issue no locked tokens.  The defaults of
  `MintConfig` (30 and 90 days, `mintapi.py:860`) satisfy it; no code enforces it.
- `NoneRaises` (`MaxFailures = 0`): no follow-up transaction of the bridge
  raises.  It cannot be dropped: the mint serves on with a record left staged,
  and `supervision_lost` and `supervision_cap_lapse` show what that breaks.
  The three theorems of `AccountsProofs` do without it.
- `~Overlap` and `OneFirstStart` (`~RacingFirstStart`): no mint starts while
  threads of a stopped one live, and no two launches complete the key file at
  once.  The table above says how TLC shows that both are needed.
- `Alone`: the store of a bearer wallet is opened by one process, and no
  request outlives its caller.  `SecretsAreKept` does without it; that exact
  reservations, a part of `BalanceReal`, cannot is in the table above.
- `SafeEstimate` (`2 * Latency <= Estimate`): a request lasts at most half of
  what `compute_margin` takes it to last, which is ten times the latency the
  mint attests (`swap.py:105`).
- `RedeemsInTime` (`HandoverTime < Grace + RedeemMargin`), `RedeemsTwice`
  (`2 * Latency < Grace + RedeemMargin`): one, or two, requests fit the time between
  the reveal deadline and the expiry.  The margins are 60 s by default
  (`escrow.py:685`, `:920`, `:1286`) and the client times out after 30 s (`wallet.py:158`), so
  that the default margin alone gives the first and any grace the second.
- `SettlesInTime` (`Last * Latency <= Grace + SettleMargin`): all exchanges of
  one `settle` fit the grace and the margin.  `settle` looks at the clock once,
  before the first of them, and no code relates the margin to the number of
  tranches or to the client's timeout: with the default margin and grace (5 s
  each, `channels.py:564` and `mintapi.py:858`) every exchange has to come back
  well before the 30 s after which the client gives up.
- The constants: `BridgeAssumption` keeps custody keys and outside keys apart
  and the bounds natural numbers; each `ConstantsOK` says what its module's
  parameters are, and the runs evaluate them in the assumptions of the MC
  modules.  `MCProtocols` also assumes `SafeEstimate`, `SettlesInTime`,
  `RedeemsTwice`, `RedeemsInTime`, `OneFirstStart` and `Alone`, so that its run is
  an instance of what the theorems speak of.

### The ledger

1. `MillicoinsProofs`: a total is a natural number, the total of a disjoint
   union is the sum of the totals, and a one-to-one renaming of the members
   leaves it alone.  Sums are cardinalities, so these follow from the library's
   facts about finite sets, with no induction.
2. `TypeOK` is inductive.  An accepted exchange only spends existing unspent
   rows and only creates new keys, because no member of the batch failed.
3. `SupplyInvariant` is inductive with `TypeOK`: an exchange replaces rows of
   total `S` by rows of total `S - burn`; issue adds the same total to the rows
   and to the counter; prune drops spent rows only.
4. `CountersStorable` follows: `burned = issued - Outstanding <= issued`.
5. `RecordBacked` is inductive because `Prune` uses one cutoff for both tables
   and a spent row's instant is its record's instant.
6. `SingleSpend` needs `RecordBacked` as its strengthening: a new accepted call
   spends unspent rows, and the inputs of every recorded call are spent.
7. `SpendRecordTruthful` follows from the truth table of `Evaluate`.
8. `KeptForWindow` needs `SpendsStamped`: a spent row has an instant, so that
   the comparison in `Prune` is one of numbers.
9. `FundingReplayable` says nothing about how old a record is, so a prune could
   take it away.  `FundingCovered` ties the instant of the record to the expiry
   of the lock; with a window no shorter than the horizon, what is old enough
   to prune has an expired lock.
10. The refinement: `coins <- Live`.  An accepted exchange is `BearerCash`'s
    exchange, with the coins it removes and adds; a replay, a refusal, a prune
    and a tick change no unspent row and stutter.

### The order of snapshots and the activity

`SnapshotsMonotone` speaks of what was signed and is not inductive: nothing in
it keeps a handler from holding an old reading or a used number.  `SnapshotInv`
adds

- `Sole`, `Claimed`: at most one server is not down, and the one that serves
  holds the flock (here `~Overlap` is used);
- `Attached`, `Busy`, `Inside`: a handler that reads or numbers is inside the
  lock of a live server, so there is one such handler at a time;
- `Numbers`: no number is used before it is reserved on disk, and what is left
  of a block is above every number drawn, so a crash only leaves a gap;
- `Supplies`: no snapshot shows more than the ledger has, or more than a handler
  that is about to draw a number has read.

A new snapshot is then above all others in number and shows no less.

The argument for the activity: a handler that counts has executed (`Ripe`), no
key is counted on a day later than the one on disk (`Days`), and the keys counted
today are a finite set, so that counting one more is adding 1 to a cardinality.
It needs nothing about the claim, so it holds with overlapping servers.

### The burn policy

Floor division and multiplication are monotone (proved from a difference, since
the solver does no nonlinear arithmetic), so the burn is monotone in each of the
three parameters that `is_increase` reads.  With the notice `validate_notice`
demands, an increase takes effect no earlier than the last expiry a lock
accepted before the announcement may have.  The second theorem needs a lock
horizon: without one (`max_lock_expiry_ms` absent) locks have no last expiry and
seven days are all there is.

### The custodial books and the bridge

The journal is a function on cells (agent, instant, kind), and every figure the
code derives from it is a sum over a block of cells.  The lemmas on sums say
what one posting adds to each block, so that `Agree` (a balance is its credits
less its debits), `Accounted` (the identity of the custody table) and
`PullBound` are each kept by each action.  What they rest on is `Booked`: a
staged record names a pending row for what it will add, has reserved the rows it
will consume, and its figures add up; two staged records touch disjoint rows
(`Apart`); and cells of agents that do not exist are zero.  None of this needs the ledger to have done as it was told, so
it survives a transaction that raises.

`SupervisionProofs` adds `Settling`: the ledger shows which way each staged
record will go (`Outcome`), at most one record is staged while the mint is up
(it belongs to the call that holds the lock), its agent's balance, caps, flags
and freeze still permit it (`Permitted`), and no statement covers the instant at
which its lines will be posted.  This is what makes a check
made two transactions earlier, or before a restart, good for the debit.
`Sound` (no balance below zero, `CustodyReal`, `NoMoneyLost`, `StatementsFinal`)
is inductive with it, and the three action properties follow, one action at a
time.

The refinement maps a committed record that is not yet settled to its effect:
the abstract balance of an agent is the stored one with the staged records that
the ledger has committed applied.  So the exchange is the abstract deposit or
withdrawal, and staging, settling, unwinding, crashing and recovering stutter.
`AllAsked` is needed for it: a record says what its caller asked for, at the
price of the instant it was staged.

### The protocols

Each is linear arithmetic over the instants of the parties, and the invariant is
what a property about outcomes leaves out: where each party may be at each
instant, as long as it keeps to its schedule.

- `Swap`: `OnTime`, `Claims`, `Funds`, `Polls` and `Reads` bound the instants at
  which B reads a status and the claim that follows it, in the clock of its
  mint, from the margin `b_fund` quoted; a leg 2 claim is then seen, and leg 1
  claimed, before leg 1 can be refunded.
- `CommitThenAccept`: `Payable` says that between the payer's acceptance and the
  worker's redemption the entry stands and the redemption is due.
- `Escrow`: `Due` bounds the payee's calls when an award is owed: one call under
  way when the preimages arrive, and one with them.  `PanelInv` is separate and
  has no times: claimed rungs were revealed (`Vouched`), an honest arbiter only
  reveals what a quorum voted, and a quorum is more than the faulty members.
- `Channel`: `Counted` and `Settling` say how far `settle` is, and that it is as
  far as its time allows.

### The programs

- `PaymentJournal`: `RowsAgree`, `PayerPlaced` and `PayeePlaced` tie the rows and
  the mint's entry to where the payer's and the payee's calls are, and
  `RecordsVouched` keeps what a record claims true of the payee and of the mint.
- `HttpConnection`: between two requests the reader is before the head of one or
  at its end (`Between`), and a request that is being handled without a close is
  consumed to its end by the time it is answered (`Handled`).  For a GET this is
  the verdict on its framing, for a POST the body that was read, and on the
  console, which speaks HTTP/1.0, the close itself.  `InOrder` counts: one answer
  for each request behind, none for those ahead.
- `Launcher`: `KeysStand` says the key file is completed once, by one process,
  before anything is published, and `PinsStand` that whoever publishes that its
  records may go has said so in the file for the launches after it.
- `MintControl`: `Sighted` says that what a look saw alive and lost sight of is
  dead; ties between the look and the files on disk are not needed.
- `Wallet`: `SecretsDurable` needs only that the outputs of a plan are rows
  (`OutputsKept`), which no step undoes, so it holds with any processes and
  requests.  The other five follow from `BearerInv`:
  - `RowsTold`, `PlansTold`: a pending row belongs to a planned operation that
    lists it, a plan has outputs, and an orphan's plan has failed;
  - `AnswersTold`: the mint has the outputs of a plan if and only if it took the
    plan, and never takes one that the store calls failed;
  - `ReservationsTold`: a reservation is a planned payment's, and a coin of the
    wallet's own that is gone and not yet marked so is reserved by the plan that
    took it.  Without the last, nothing says that a free coin is live;
  - `CallTold`: a request belongs to the plan of the call in progress, which is
    where `Alone` is used: with a lingering request a plan can be given up and
    executed afterwards (`OrphansDead` in the table above);
  - `RecoveryTold`: what recovery was told about a plan is still so when it acts
    on it.  An output reported unknown stays unknown, because no request is left.

### Only model-checked

- Liveness: `StagedSettled`, `PlansSettled` are out of the prover's reach.
- `PaymentsSound` (`CoinSelection`) speaks of what recursive functions and folds
  over sequences compute for every input, which is induction over data.
- `Wallet` with several processes on one store.  The run's `SecretsDurable` is of
  such an instance; `SecretsAreKept` proves it of every instance of `Wallet`.
- That the compositions of the MC modules, with their areas and their bounds on
  what TLC explores (`ThirdIsPlain`, `LateOnce`), are behaviours of the
  specifications proved about: they restrict them, and nothing is concluded from
  that but the runs themselves.

## The plan

Done: C02, C03, C04, C06, C07, C08, C09, C10, C11, the launcher, the mint
control, the payment journal and the HTTP connections are modelled and checked;
every safety and action property of a passing run is proved except those listed
above, and both refinements are.  Left, in this order:

1. `CoinSelection` without folds: the sweep and the decomposition as steps of an
   action each, so that what they compute is an invariant instead of an
   induction.
2. The schedule of several milestones of an escrow.

## Not modelled

- C01, C05, C12 and the clock: formats, cryptography, documents.  They keep no
  state; the models take their values as given (a key determines its secret, a
  signature is there or not).
- The presentation in `gui/app.py`, `gui/walletops.py`, `gui/page.html` and
  `mint_console.py`: rows, notes, sentences, tables and the proxied routes of
  the mint.  This is most of those files.  What they do to state is in
  `PaymentJournal`, `MintControl` and `HttpConnection`.
- C06: the fields of the descriptor, of `MintConfig` and of wire items, and the
  transport limits (deadlines, sizes, the number of connections).
- C04: `adopt_burn_policy_next`, which runs once before serving, and the
  `status` loop, which reads.  A status batch is read in one step by the models
  that ask for one: none of the callers modelled relates two entries of a batch.
- C07: `quote`, the limit on a batch of `pay_many`, parsing.
- C08: the amounts and burns of the funding calls; a payee that restarts, which
  has lost its witnesses.  A failed `open` leaves the first tranches without a
  `ChannelInfo`, which `refund` needs: the code has no recovery to check.
- C09: several milestones, how an amount is cut into rungs, fee outputs,
  disputes.
- C11: a party that dies.  Its secrets are in memory only.
- `run_mint.py`: the file of supervision secrets and the provisioned operator.
- `wallet_cli.py` is one call of C07 in a process of its own, which `Wallet`
  has; the examples and tests are read as documentation.
