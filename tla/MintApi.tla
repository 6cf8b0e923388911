---------------------------- MODULE MintApi ----------------------------
(***************************************************************************)
(* C06, the mint's HTTP process around its ledger: who may sign a supply   *)
(* snapshot, in which order the numbers and the supply of the snapshots    *)
(* are taken, and how the exchanges of a day are counted.                  *)
(*                                                                         *)
(* A server is one MintServer object in a process of its own.  A handler   *)
(* is the thread of one connection; stop() ends the accepting of new       *)
(* connections and leaves the threads of the old ones running.  The        *)
(* handlers of one server are ordered by its lock, those of two servers    *)
(* only by the file: the flock, and one transaction at a time.  The ledger *)
(* (C04) appears as the counters a snapshot reads and the calls it ran.    *)
(***************************************************************************)
EXTENDS Integers, FiniteSets

CONSTANTS
    Server,     \* the MintServer objects that may serve this ledger file
    Handler,    \* connection threads
    Key,        \* idempotency keys of the exchanges
    NULL,
    SEQ_BLOCK,  \* _SEQ_BLOCK: snapshot numbers reserved with one write
    Overlap,    \* may a mint start while the threads of a stopped one live?
    MaxIssued, MaxTime, MaxSeq, MaxCrashes    \* bounds

ASSUME BlockAssumption == SEQ_BLOCK \in Nat \ {0}
ASSUME BoundAssumption == MaxIssued \in Nat /\ MaxTime \in Nat /\ MaxSeq \in Nat /\ MaxCrashes \in Nat
ASSUME NullAssumption == NULL \notin Server \cup Handler \cup Key
ASSUME OverlapAssumption == Overlap \in BOOLEAN

VARIABLES
    clock,          \* the mint clock, in days
    issued, burned, \* the ledger's cumulative counters
    executed,       \* the keys whose exchange has committed
    snapshot_seq,   \* mintapi_state: the highest number reserved
    activity_day, activity_count,
    counted,        \* mintapi_counted: for each key the day it was counted, -1 for not yet
    flock,          \* the single-writer claim on the ledger file
    status,         \* of each server: down, up, closing, stopped
    seq_next, seq_limit,  \* of each server: what is left of its block
    mutex,          \* of each server: the handler inside _lock
    conn,           \* of each handler: the server it serves for
    pc,             \* of each handler: idle, supply, number, count
    call,           \* of each handler: the key of the exchange it answers
    seen,           \* of each handler: the time and supply it has read
    snapshots,      \* history: every snapshot a number was drawn for
    answered,       \* history: the keys answered 200
    crashes

ledgerVars == <<issued, burned, executed>>
fileVars == <<snapshot_seq, activity_day, activity_count, counted, flock>>
serverVars == <<status, seq_next, seq_limit, mutex>>
handlerVars == <<conn, pc, call, seen>>
history == <<snapshots, answered, crashes>>
vars == <<clock, ledgerVars, fileVars, serverVars, handlerVars, history>>

\* What a descriptor has read when it draws its number.
Reading == [time : 0..MaxTime, issued : 0..MaxIssued, burned : 0..MaxIssued]
Snapshot == [seq : 1..MaxSeq, supply : Reading]
Blank == [time |-> 0, issued |-> 0, burned |-> 0]

TypeOK ==
    /\ clock \in 0..MaxTime /\ issued \in 0..MaxIssued /\ burned \in 0..MaxIssued
    /\ executed \subseteq Key /\ answered \subseteq Key
    /\ snapshot_seq \in 0..MaxSeq
    /\ activity_day \in -1..MaxTime /\ activity_count \in Nat
    /\ counted \in [Key -> -1..MaxTime]
    /\ flock \in Server \cup {NULL}
    /\ status \in [Server -> {"down", "up", "closing", "stopped"}]
    /\ seq_next \in [Server -> 0..(MaxSeq + 1)] /\ seq_limit \in [Server -> 0..(MaxSeq + 1)]
    /\ mutex \in [Server -> Handler \cup {NULL}]
    /\ conn \in [Handler -> Server \cup {NULL}]
    /\ pc \in [Handler -> {"idle", "supply", "number", "count"}]
    /\ call \in [Handler -> Key \cup {NULL}]
    /\ seen \in [Handler -> Reading]
    /\ snapshots \subseteq Snapshot
    /\ crashes \in 0..MaxCrashes

\* A new file: CREATE TABLE, and the one row of mintapi_state.
Init ==
    /\ clock = 0 /\ issued = 0 /\ burned = 0 /\ executed = {}
    /\ snapshot_seq = 0 /\ activity_day = -1 /\ activity_count = 0
    /\ counted = [k \in Key |-> -1]
    /\ flock = NULL
    /\ status = [s \in Server |-> "down"]
    /\ seq_next = [s \in Server |-> 0] /\ seq_limit = [s \in Server |-> 0]
    /\ mutex = [s \in Server |-> NULL]
    /\ conn = [h \in Handler |-> NULL] /\ pc = [h \in Handler |-> "idle"]
    /\ call = [h \in Handler |-> NULL] /\ seen = [h \in Handler |-> Blank]
    /\ snapshots = {} /\ answered = {} /\ crashes = 0

-----------------------------------------------------------------------------
(* The single writer.                                                      *)

\* _claim_single_writer goes through when s holds the flock or nobody does.
Claimable(s) == flock \in {s, NULL}

\* MintServer.start: claim, bind, serve.  Another process at work on the
\* file refuses it.
Start(s) ==
    /\ status[s] \in {"down", "stopped"}
    /\ Claimable(s)
    /\ Overlap \/ \A o \in Server \ {s} : status[o] # "stopped"
    /\ flock' = s
    /\ status' = [status EXCEPT ![s] = "up"]
    /\ UNCHANGED <<clock, ledgerVars, snapshot_seq, activity_day, activity_count, counted,
                   seq_next, seq_limit, mutex, handlerVars, history>>

\* MintServer.stop: the accepting thread is shut down and joined ...
Shutdown(s) ==
    /\ status[s] = "up"
    /\ status' = [status EXCEPT ![s] = "closing"]
    /\ UNCHANGED <<clock, ledgerVars, fileVars, seq_next, seq_limit, mutex, handlerVars, history>>

\* ... and the claim is released; the daemon threads were not waited for.
Release(s) ==
    /\ status[s] = "closing"
    /\ status' = [status EXCEPT ![s] = "stopped"]
    /\ flock' = IF flock = s THEN NULL ELSE flock
    /\ UNCHANGED <<clock, ledgerVars, snapshot_seq, activity_day, activity_count, counted,
                   seq_next, seq_limit, mutex, handlerVars, history>>

\* The process ends, in the middle of anything: its threads, its block and
\* its lock are gone, and the kernel drops the flock.
Crash(s) ==
    /\ status[s] # "down" /\ crashes < MaxCrashes
    /\ crashes' = crashes + 1
    /\ status' = [status EXCEPT ![s] = "down"]
    /\ flock' = IF flock = s THEN NULL ELSE flock
    /\ seq_next' = [seq_next EXCEPT ![s] = 0]
    /\ seq_limit' = [seq_limit EXCEPT ![s] = 0]
    /\ mutex' = [mutex EXCEPT ![s] = NULL]
    /\ conn' = [h \in Handler |-> IF conn[h] = s THEN NULL ELSE conn[h]]
    /\ pc' = [h \in Handler |-> IF conn[h] = s THEN "idle" ELSE pc[h]]
    /\ call' = [h \in Handler |-> IF conn[h] = s THEN NULL ELSE call[h]]
    /\ seen' = [h \in Handler |-> IF conn[h] = s THEN Blank ELSE seen[h]]
    /\ UNCHANGED <<clock, ledgerVars, snapshot_seq, activity_day, activity_count, counted,
                   snapshots, answered>>

-----------------------------------------------------------------------------
(* Connections and the descriptor.                                         *)

\* A connection is accepted: a thread of its own serves its requests.
Accept(s, h) ==
    /\ status[s] = "up" /\ conn[h] = NULL
    /\ conn' = [conn EXCEPT ![h] = s]
    /\ UNCHANGED <<clock, ledgerVars, fileVars, serverVars, pc, call, seen, history>>

\* The peer hangs up between two requests.
HangUp(h) ==
    /\ conn[h] # NULL /\ pc[h] = "idle"
    /\ conn' = [conn EXCEPT ![h] = NULL]
    /\ UNCHANGED <<clock, ledgerVars, fileVars, serverVars, pc, call, seen, history>>

\* The handler can take the next request of its connection.
Ready(h) == conn[h] # NULL /\ pc[h] = "idle"

\* descriptor: inside the lock, with the claim held or taken, read the clock.
BeginSnapshot(h) ==
    /\ Ready(h) /\ mutex[conn[h]] = NULL /\ Claimable(conn[h])
    /\ mutex' = [mutex EXCEPT ![conn[h]] = h]
    /\ flock' = conn[h]
    /\ seen' = [seen EXCEPT ![h] = [Blank EXCEPT !.time = clock]]
    /\ pc' = [pc EXCEPT ![h] = "supply"]
    /\ UNCHANGED <<clock, ledgerVars, snapshot_seq, activity_day, activity_count, counted,
                   status, seq_next, seq_limit, conn, call, history>>

\* ... ledger.supply(), one statement ...
ReadSupply(h) ==
    /\ pc[h] = "supply"
    /\ seen' = [seen EXCEPT ![h] = [time |-> seen[h].time, issued |-> issued, burned |-> burned]]
    /\ pc' = [pc EXCEPT ![h] = "number"]
    /\ UNCHANGED <<clock, ledgerVars, fileVars, serverVars, conn, call, history>>

\* Mutant: the block starts at the last number of the one before it.
BlockStartShared(high) == high - SEQ_BLOCK

\* The first number of the block that was reserved up to high.
BlockStart(high) == high - SEQ_BLOCK + 1

\* _next_snapshot_seq from a block with numbers left ...
DrawFromBlock(s) ==
    /\ seq_next[s] < seq_limit[s]
    /\ seq_next' = [seq_next EXCEPT ![s] = @ + 1]
    /\ UNCHANGED <<snapshot_seq, seq_limit>>

\* ... or from the next one, whose upper end is on disk before it is used.
DrawFromNewBlock(s) ==
    /\ seq_next[s] >= seq_limit[s]
    /\ snapshot_seq + SEQ_BLOCK <= MaxSeq
    /\ snapshot_seq' = snapshot_seq + SEQ_BLOCK
    /\ seq_next' = [seq_next EXCEPT ![s] = BlockStart(snapshot_seq') + 1]
    /\ seq_limit' = [seq_limit EXCEPT ![s] = snapshot_seq' + 1]

\* ... then a number, the day's activity, out of the lock, and the signature.
TakeNumber(h) ==
    /\ pc[h] = "number"
    /\ DrawFromBlock(conn[h]) \/ DrawFromNewBlock(conn[h])
    /\ snapshots' = snapshots \cup {[seq |-> seq_next'[conn[h]] - 1, supply |-> seen[h]]}
    /\ mutex' = [mutex EXCEPT ![conn[h]] = NULL]
    /\ pc' = [pc EXCEPT ![h] = "idle"]
    /\ seen' = [seen EXCEPT ![h] = Blank]
    /\ UNCHANGED <<clock, ledgerVars, activity_day, activity_count, counted, flock, status,
                   conn, call, answered, crashes>>

-----------------------------------------------------------------------------
(* Exchanges, their activity, and the issue of new cash.                   *)

\* exchange: the ledger runs the call, or replays what it answered before.
Exchange(h, k) ==
    /\ Ready(h)
    /\ executed' = executed \cup {k}
    /\ \E burn \in 0..1 :
         /\ burned + burn <= issued /\ (k \in executed => burn = 0)
         /\ burned' = burned + burn
    /\ pc' = [pc EXCEPT ![h] = "count"]
    /\ call' = [call EXCEPT ![h] = k]
    /\ UNCHANGED <<clock, issued, fileVars, serverVars, conn, seen, history>>

\* Mutant: every answer is counted, a replayed one too.
UncountedAlways(k) == k \in Key

\* The INSERT OR IGNORE into mintapi_counted went in.
Uncounted(k) == counted[k] = -1

\* The counters of the day, where the first exchange of a day resets them.
CountInWindow == IF activity_day = clock THEN activity_count + 1 ELSE 1

\* _record_activity: a transaction of its own, inside the lock.
RecordActivity(h) ==
    /\ pc[h] = "count" /\ mutex[conn[h]] = NULL
    /\ IF Uncounted(call[h])
         THEN /\ counted' = [counted EXCEPT ![call[h]] = clock]
              /\ activity_day' = clock
              /\ activity_count' = CountInWindow
         ELSE UNCHANGED <<counted, activity_day, activity_count>>
    /\ answered' = answered \cup {call[h]}
    /\ pc' = [pc EXCEPT ![h] = "idle"]
    /\ call' = [call EXCEPT ![h] = NULL]
    /\ UNCHANGED <<clock, ledgerVars, snapshot_seq, flock, serverVars, conn, seen,
                   snapshots, crashes>>

\* The transaction raises: rolled back, and the caller is answered 500 for a
\* call that is done.
RecordFails(h) ==
    /\ pc[h] = "count"
    /\ pc' = [pc EXCEPT ![h] = "idle"]
    /\ call' = [call EXCEPT ![h] = NULL]
    /\ UNCHANGED <<clock, ledgerVars, fileVars, serverVars, conn, seen, history>>

\* admin_issue.
AdminIssue(h) ==
    /\ Ready(h) /\ issued < MaxIssued
    /\ issued' = issued + 1
    /\ UNCHANGED <<clock, burned, executed, fileVars, serverVars, handlerVars, history>>

Tick ==
    /\ clock < MaxTime
    /\ clock' = clock + 1
    /\ UNCHANGED <<ledgerVars, fileVars, serverVars, handlerVars, history>>

Next ==
    \/ \E s \in Server : Start(s) \/ Shutdown(s) \/ Release(s) \/ Crash(s)
    \/ \E s \in Server, h \in Handler : Accept(s, h)
    \/ \E h \in Handler : HangUp(h) \/ BeginSnapshot(h) \/ ReadSupply(h) \/ TakeNumber(h)
    \/ \E h \in Handler, k \in Key : Exchange(h, k)
    \/ \E h \in Handler : RecordActivity(h) \/ RecordFails(h) \/ AdminIssue(h)
    \/ Tick

Spec == Init /\ [][Next]_vars

-----------------------------------------------------------------------------
(* Properties.                                                             *)

AtMost(a, b) == a.time <= b.time /\ a.issued <= b.issued /\ a.burned <= b.burned

\* Of any two snapshots the one with the higher number shows the later or
\* equal time and at least the issue and the burn of the other, whichever
\* processes signed them and wherever one of them died; two with one number
\* show the same supply.  The order is made by three things together: the
\* flock, the lock around reading and numbering, and the block whose end is
\* on disk first.
SnapshotsMonotone ==
    \A a, b \in snapshots : a.seq <= b.seq => AtMost(a.supply, b.supply)

\* Every exchange that was answered is in the activity figures of one day,
\* once, however often it was answered, failed to be counted or crashed on
\* the way; what is counted did execute; and the figure on disk is the number
\* of exchanges counted on its day.
ActivityHonest ==
    /\ answered \subseteq {k \in Key : counted[k] # -1}
    /\ {k \in Key : counted[k] # -1} \subseteq executed
    /\ activity_count = Cardinality({k \in Key : counted[k] # -1 /\ counted[k] = activity_day})
=============================================================================
