--------------------------- MODULE MintApiProofs ---------------------------
(***************************************************************************)
(* The snapshots of a mint, for every number of servers, handlers, calls   *)
(* and crashes and every block size: their numbers and their supplies are  *)
(* in one order, provided no mint starts while threads of another live.    *)
(* And the activity figures of its exchanges, without that proviso.        *)
(***************************************************************************)
EXTENDS MintApi, FiniteSetTheorems, TLAPS

-----------------------------------------------------------------------------
\* The strengthening.

\* One server at most is not down: the flock keeps every other from starting.
Sole == \A s, o \in Server : status[s] # "down" /\ status[o] # "down" => s = o
Claimed == \A s \in Server : status[s] \in {"up", "closing"} => flock = s

\* A connection is of a server that has not ended, a handler at work has one,
\* one that counts knows its call, and one that is reading or numbering is
\* inside its server's lock.
Attached == \A h \in Handler : conn[h] # NULL => status[conn[h]] # "down"
Busy == \A h \in Handler : /\ pc[h] # "idle" => conn[h] # NULL
                           /\ pc[h] = "count" => call[h] \in Key
Inside == \A h \in Handler : pc[h] \in {"supply", "number"} => mutex[conn[h]] = h

\* No number of a block is used before it is reserved, and what is left of a
\* block is above every number drawn.
Fresh(s) ==
  /\ status[s] = "down" => seq_next[s] = seq_limit[s]
  /\ seq_next[s] < seq_limit[s] =>
       seq_next[s] > 0 /\ \A x \in snapshots : x.seq < seq_next[s]
  /\ seq_limit[s] <= snapshot_seq + 1
Numbers ==
  /\ \A s \in Server : Fresh(s)
  /\ \A x \in snapshots : x.seq <= snapshot_seq

\* No snapshot shows more than the ledger now does, or than a handler that is
\* about to draw a number has read.
Current(r) == r.time <= clock /\ r.issued <= issued /\ r.burned <= burned
Supplies ==
  /\ \A x \in snapshots : Current(x.supply)
  /\ \A h \in Handler : pc[h] = "supply" =>
       seen[h].time <= clock /\ \A x \in snapshots : x.supply.time <= seen[h].time
  /\ \A h \in Handler : pc[h] = "number" =>
       Current(seen[h]) /\ \A x \in snapshots : AtMost(x.supply, seen[h])

Order == Sole /\ Claimed /\ Attached /\ Busy /\ Inside
SnapshotInv == TypeOK /\ Order /\ Numbers /\ Supplies /\ SnapshotsMonotone

-----------------------------------------------------------------------------
\* Types.

LEMMA ReadingType ==
  ASSUME NEW t \in 0..MaxTime, NEW i \in 0..MaxIssued, NEW b \in 0..MaxIssued
  PROVE  [time |-> t, issued |-> i, burned |-> b] \in Reading
BY DEF Reading

LEMMA BlankType == Blank \in Reading
BY BoundAssumption DEF Blank, Reading

\* Every handler's reading stays a reading when one is replaced.
LEMMA SeenType ==
  ASSUME NEW f \in [Handler -> Reading], NEW h \in Handler, NEW r \in Reading
  PROVE  [f EXCEPT ![h] = r] \in [Handler -> Reading]
OBVIOUS

\* A number that is drawn is above every number drawn before, is reserved, and
\* leaves what remains of the block above it.
LEMMA Drawn ==
  ASSUME TypeOK, Numbers, NEW s \in Server, DrawFromBlock(s) \/ DrawFromNewBlock(s)
  PROVE  /\ seq_next' \in [Server -> 0..(MaxSeq + 1)]
         /\ seq_limit' \in [Server -> 0..(MaxSeq + 1)]
         /\ snapshot_seq' \in 0..MaxSeq /\ snapshot_seq <= snapshot_seq'
         /\ seq_next'[s] - 1 \in 1..MaxSeq /\ seq_next'[s] - 1 <= snapshot_seq'
         /\ \A x \in snapshots : x.seq < seq_next'[s] - 1
         /\ seq_limit'[s] <= snapshot_seq' + 1
         /\ \A o \in Server \ {s} : seq_next'[o] = seq_next[o] /\ seq_limit'[o] = seq_limit[o]
<1> USE BlockAssumption, BoundAssumption
<1>1. /\ snapshot_seq \in 0..MaxSeq
      /\ seq_next \in [Server -> 0..(MaxSeq + 1)]
      /\ seq_limit \in [Server -> 0..(MaxSeq + 1)]
      /\ \A x \in snapshots : x.seq \in 1..MaxSeq
  BY DEF TypeOK, Snapshot
<1>2. Fresh(s) /\ \A x \in snapshots : x.seq <= snapshot_seq
  BY DEF Numbers
<1>3. CASE DrawFromBlock(s)
  BY <1>1, <1>2, <1>3 DEF DrawFromBlock, Fresh
<1>4. CASE DrawFromNewBlock(s)
  <2>1. /\ snapshot_seq' = snapshot_seq + SEQ_BLOCK /\ snapshot_seq' <= MaxSeq
        /\ seq_next' = [seq_next EXCEPT ![s] = snapshot_seq + 2]
        /\ seq_limit' = [seq_limit EXCEPT ![s] = snapshot_seq' + 1]
    BY <1>1, <1>4 DEF DrawFromNewBlock, BlockStart
  <2> QED
    BY <1>1, <1>2, <2>1
<1> QED
  BY <1>3, <1>4

\* Type correctness of the mint's process, whatever the bounds are.
LEMMA TypeStep == TypeOK /\ Busy /\ Numbers /\ [Next]_vars => TypeOK'
<1> SUFFICES ASSUME TypeOK, Busy, Numbers, [Next]_vars
             PROVE  TypeOK'
  OBVIOUS
<1> USE BlockAssumption, BoundAssumption, NullAssumption
<1>1. ASSUME NEW s \in Server, Start(s)
      PROVE  TypeOK'
  BY <1>1 DEF TypeOK, Start, ledgerVars, handlerVars, history
<1>2. ASSUME NEW s \in Server, Shutdown(s)
      PROVE  TypeOK'
  BY <1>2 DEF TypeOK, Shutdown, ledgerVars, fileVars, handlerVars, history
<1>3. ASSUME NEW s \in Server, Release(s)
      PROVE  TypeOK'
  BY <1>3 DEF TypeOK, Release, ledgerVars, handlerVars, history
<1>4. ASSUME NEW s \in Server, Crash(s)
      PROVE  TypeOK'
  <2>1. seen' \in [Handler -> Reading]
    BY <1>4, BlankType DEF TypeOK, Crash
  <2>2. /\ seq_next' \in [Server -> 0..(MaxSeq + 1)]
        /\ seq_limit' \in [Server -> 0..(MaxSeq + 1)]
        /\ crashes' \in 0..MaxCrashes
    BY <1>4 DEF TypeOK, Crash
  <2>3. /\ status' \in [Server -> {"down", "up", "closing", "stopped"}]
        /\ flock' \in Server \cup {NULL}
        /\ mutex' \in [Server -> Handler \cup {NULL}]
        /\ conn' \in [Handler -> Server \cup {NULL}]
        /\ pc' \in [Handler -> {"idle", "supply", "number", "count"}]
        /\ call' \in [Handler -> Key \cup {NULL}]
    BY <1>4 DEF TypeOK, Crash
  <2> QED
    BY <1>4, <2>1, <2>2, <2>3 DEF TypeOK, Crash, ledgerVars
<1>5. ASSUME NEW s \in Server, NEW h \in Handler, Accept(s, h)
      PROVE  TypeOK'
  BY <1>5 DEF TypeOK, Accept, ledgerVars, fileVars, serverVars, history
<1>6. ASSUME NEW h \in Handler, HangUp(h)
      PROVE  TypeOK'
  BY <1>6 DEF TypeOK, HangUp, ledgerVars, fileVars, serverVars, history
<1>7. ASSUME NEW h \in Handler, BeginSnapshot(h)
      PROVE  TypeOK'
  <2>1. [Blank EXCEPT !.time = clock] \in Reading
    BY DEF TypeOK, Blank, Reading
  <2>2. seen' \in [Handler -> Reading]
    BY <1>7, <2>1, SeenType DEF TypeOK, BeginSnapshot
  <2>3. conn[h] \in Server
    BY <1>7 DEF TypeOK, BeginSnapshot, Ready
  <2> QED
    BY <1>7, <2>2, <2>3 DEF TypeOK, BeginSnapshot, ledgerVars, history
<1>8. ASSUME NEW h \in Handler, ReadSupply(h)
      PROVE  TypeOK'
  <2>1. seen[h].time \in 0..MaxTime
    BY DEF TypeOK, Reading
  <2>2. [time |-> seen[h].time, issued |-> issued, burned |-> burned] \in Reading
    BY <2>1, ReadingType DEF TypeOK
  <2>3. seen' \in [Handler -> Reading]
    BY <1>8, <2>2, SeenType DEF TypeOK, ReadSupply
  <2> QED
    BY <1>8, <2>3 DEF TypeOK, ReadSupply, ledgerVars, fileVars, serverVars, history
<1>9. ASSUME NEW h \in Handler, TakeNumber(h)
      PROVE  TypeOK'
  <2>1. conn[h] \in Server
    BY <1>9 DEF TypeOK, TakeNumber, Busy
  <2> DEFINE n == seq_next'[conn[h]] - 1
  <2>2. /\ seq_next' \in [Server -> 0..(MaxSeq + 1)]
        /\ seq_limit' \in [Server -> 0..(MaxSeq + 1)]
        /\ snapshot_seq' \in 0..MaxSeq
        /\ n \in 1..MaxSeq
    BY <1>9, <2>1, Drawn DEF TakeNumber
  <2>3. [seq |-> n, supply |-> seen[h]] \in Snapshot
    <3> HIDE DEF n
    <3> QED
      BY <2>2 DEF TypeOK, Snapshot
  <2>4. snapshots' \subseteq Snapshot
    BY <1>9, <2>3 DEF TypeOK, TakeNumber
  <2>5. seen' \in [Handler -> Reading]
    BY <1>9, BlankType, SeenType DEF TypeOK, TakeNumber
  <2> HIDE DEF n
  <2> QED
    BY <1>9, <2>1, <2>2, <2>4, <2>5 DEF TypeOK, TakeNumber, ledgerVars
<1>10. ASSUME NEW h \in Handler, NEW k \in Key, Exchange(h, k)
       PROVE  TypeOK'
  <2>1. burned' \in 0..MaxIssued
    BY <1>10 DEF TypeOK, Exchange
  <2> QED
    BY <1>10, <2>1 DEF TypeOK, Exchange, fileVars, serverVars, history
<1>11. ASSUME NEW h \in Handler, RecordActivity(h)
       PROVE  TypeOK'
  <2>1. call[h] \in Key
    BY <1>11 DEF RecordActivity, Busy
  <2>2. answered' \subseteq Key
    BY <1>11, <2>1 DEF TypeOK, RecordActivity
  <2>3. /\ counted' \in [Key -> -1..MaxTime]
        /\ activity_day' \in -1..MaxTime /\ activity_count' \in Nat
    BY <1>11, <2>1 DEF TypeOK, RecordActivity, CountInWindow
  <2>4. pc' \in [Handler -> {"idle", "supply", "number", "count"}]
    BY <1>11 DEF TypeOK, RecordActivity
  <2>5. call' \in [Handler -> Key \cup {NULL}]
    BY <1>11 DEF TypeOK, RecordActivity
  <2> QED
    BY <1>11, <2>2, <2>3, <2>4, <2>5 DEF TypeOK, RecordActivity, ledgerVars, serverVars
<1>12. ASSUME NEW h \in Handler, RecordFails(h)
       PROVE  TypeOK'
  BY <1>12 DEF TypeOK, RecordFails, ledgerVars, fileVars, serverVars, history
<1>13. ASSUME NEW h \in Handler, AdminIssue(h)
       PROVE  TypeOK'
  BY <1>13 DEF TypeOK, AdminIssue, fileVars, serverVars, handlerVars, history
<1>14. CASE Tick
  BY <1>14 DEF TypeOK, Tick, ledgerVars, fileVars, serverVars, handlerVars, history
<1>15. CASE UNCHANGED vars
  BY <1>15 DEF TypeOK, vars, ledgerVars, fileVars, serverVars, handlerVars, history
<1> QED
  BY <1>1, <1>2, <1>3, <1>4, <1>5, <1>6, <1>7, <1>8, <1>9, <1>10, <1>11, <1>12,
     <1>13, <1>14, <1>15 DEF Next

-----------------------------------------------------------------------------
\* One server at a time.

\* The order of the servers, their claims, handlers and locks outlives every
\* step, when no mint starts while threads of a stopped one live.
LEMMA OrderStep ==
  ASSUME ~Overlap, TypeOK, Order, [Next]_vars
  PROVE  Order'
<1> USE NullAssumption DEF Order
<1>1. ASSUME NEW s \in Server, Start(s)
      PROVE  Order'
  <2>1. \A o \in Server \ {s} : status[o] = "down"
    BY <1>1 DEF TypeOK, Start, Claimable, Claimed
  <2>2. Sole' /\ Claimed'
    BY <1>1, <2>1 DEF TypeOK, Start, Sole, Claimed
  <2>3. Attached' /\ Busy' /\ Inside'
    BY <1>1 DEF TypeOK, Start, Attached, Busy, Inside, handlerVars
  <2> QED
    BY <2>2, <2>3
<1>2. ASSUME NEW s \in Server, Shutdown(s) \/ Release(s)
      PROVE  Order'
  <2>1. Sole'
    BY <1>2 DEF TypeOK, Shutdown, Release, Sole
  <2>2. Claimed'
    BY <1>2 DEF TypeOK, Shutdown, Release, Sole, Claimed, fileVars
  <2>3. Attached' /\ Busy' /\ Inside'
    BY <1>2 DEF TypeOK, Shutdown, Release, Attached, Busy, Inside, handlerVars
  <2> QED
    BY <2>1, <2>2, <2>3
<1>3. ASSUME NEW s \in Server, Crash(s)
      PROVE  Order'
  <2>1. Sole' /\ Claimed'
    BY <1>3 DEF TypeOK, Crash, Sole, Claimed
  <2>2. Attached' /\ Busy'
    BY <1>3 DEF TypeOK, Crash, Attached, Busy
  <2>3. Inside'
    BY <1>3 DEF TypeOK, Crash, Busy, Inside
  <2> QED
    BY <2>1, <2>2, <2>3
<1>4. ASSUME NEW s \in Server, NEW h \in Handler, Accept(s, h)
      PROVE  Order'
  BY <1>4 DEF TypeOK, Accept, Sole, Claimed, Attached, Busy, Inside, fileVars, serverVars
<1>5. ASSUME NEW h \in Handler, HangUp(h)
      PROVE  Order'
  BY <1>5 DEF TypeOK, HangUp, Sole, Claimed, Attached, Busy, Inside, fileVars, serverVars
<1>6. ASSUME NEW h \in Handler, BeginSnapshot(h)
      PROVE  Order'
  <2>1. conn[h] \in Server /\ status[conn[h]] # "down"
    BY <1>6 DEF TypeOK, BeginSnapshot, Ready, Attached
  <2>2. Sole' /\ Claimed'
    BY <1>6, <2>1 DEF BeginSnapshot, Sole, Claimed
  <2>3. Attached' /\ Busy'
    BY <1>6, <2>1 DEF TypeOK, BeginSnapshot, Attached, Busy
  <2>4. Inside'
    BY <1>6, <2>1 DEF TypeOK, BeginSnapshot, Busy, Inside
  <2> QED
    BY <2>2, <2>3, <2>4
<1>7. ASSUME NEW h \in Handler, ReadSupply(h)
      PROVE  Order'
  BY <1>7 DEF TypeOK, ReadSupply, Sole, Claimed, Attached, Busy, Inside, fileVars, serverVars
<1>8. ASSUME NEW h \in Handler, TakeNumber(h)
      PROVE  Order'
  <2>1. Sole' /\ Claimed' /\ Attached' /\ Busy'
    BY <1>8 DEF TypeOK, TakeNumber, Sole, Claimed, Attached, Busy
  <2>2. Inside'
    BY <1>8 DEF TypeOK, TakeNumber, Busy, Inside
  <2> QED
    BY <2>1, <2>2
<1>9. ASSUME NEW h \in Handler, NEW k \in Key, Exchange(h, k)
      PROVE  Order'
  BY <1>9 DEF TypeOK, Exchange, Ready, Sole, Claimed, Attached, Busy, Inside, fileVars, serverVars
<1>10. ASSUME NEW h \in Handler, RecordActivity(h)
       PROVE  Order'
  <2>1. /\ pc' = [pc EXCEPT ![h] = "idle"] /\ call' = [call EXCEPT ![h] = NULL]
        /\ UNCHANGED <<flock, status, mutex, conn>>
    BY <1>10 DEF RecordActivity, serverVars
  <2> QED
    BY <2>1 DEF TypeOK, Sole, Claimed, Attached, Busy, Inside
<1>11. ASSUME NEW h \in Handler, RecordFails(h)
       PROVE  Order'
  BY <1>11 DEF TypeOK, RecordFails, Sole, Claimed, Attached, Busy, Inside, fileVars, serverVars
<1>12. ASSUME NEW h \in Handler, AdminIssue(h)
       PROVE  Order'
  BY <1>12 DEF AdminIssue, Sole, Claimed, Attached, Busy, Inside,
     fileVars, serverVars, handlerVars
<1>13. CASE Tick
  BY <1>13 DEF Tick, Sole, Claimed, Attached, Busy, Inside, fileVars, serverVars, handlerVars
<1>14. CASE UNCHANGED vars
  BY <1>14 DEF vars, Sole, Claimed, Attached, Busy, Inside, fileVars, serverVars, handlerVars
<1> QED
  BY <1>1, <1>2, <1>3, <1>4, <1>5, <1>6, <1>7, <1>8, <1>9, <1>10, <1>11, <1>12, <1>13, <1>14
     DEF Next

-----------------------------------------------------------------------------
\* Numbers.

\* A server that serves is the only one: the block of every other is empty.
LEMMA OthersDown ==
  ASSUME TypeOK, Order, NEW h \in Handler, conn[h] # NULL
  PROVE  /\ conn[h] \in Server
         /\ \A o \in Server \ {conn[h]} : status[o] = "down"
BY DEF TypeOK, Order, Sole, Attached

\* What is reserved stays ahead of what is drawn, in every process.
LEMMA NumbersStep ==
  ASSUME TypeOK, Order, Numbers, [Next]_vars
  PROVE  Numbers'
<1> USE BlockAssumption, BoundAssumption, NullAssumption
<1>1. ASSUME NEW s \in Server, Start(s) \/ Shutdown(s) \/ Release(s)
      PROVE  Numbers'
  BY <1>1 DEF TypeOK, Start, Shutdown, Release, Numbers, Fresh, fileVars, history
<1>2. ASSUME NEW s \in Server, Crash(s)
      PROVE  Numbers'
  BY <1>2 DEF TypeOK, Crash, Numbers, Fresh
<1>3. ASSUME NEW h \in Handler, TakeNumber(h)
      PROVE  Numbers'
  <2>1. PICK s \in Server : /\ s = conn[h]
                            /\ \A o \in Server \ {s} : status[o] = "down"
    BY <1>3, OthersDown DEF TakeNumber, Order, Busy
  <2>2. /\ seq_next'[s] \in 0..(MaxSeq + 1)
        /\ snapshot_seq \in 0..MaxSeq /\ snapshot_seq' \in 0..MaxSeq
        /\ snapshot_seq <= snapshot_seq'
        /\ seq_next'[s] - 1 \in 1..MaxSeq /\ seq_next'[s] - 1 <= snapshot_seq'
        /\ \A x \in snapshots : x.seq < seq_next'[s] - 1
        /\ seq_limit'[s] <= snapshot_seq' + 1
        /\ \A o \in Server \ {s} : seq_next'[o] = seq_next[o] /\ seq_limit'[o] = seq_limit[o]
    BY <1>3, <2>1, Drawn DEF TakeNumber, TypeOK
  <2>3. status' = status /\ status[s] # "down"
    BY <1>3, <2>1 DEF TakeNumber, Order, Busy, Attached
  <2>4. snapshots' = snapshots \cup {[seq |-> seq_next'[s] - 1, supply |-> seen[h]]}
    <3>1. snapshots' = snapshots \cup {[seq |-> seq_next'[conn[h]] - 1, supply |-> seen[h]]}
      BY <1>3 DEF TakeNumber
    <3> QED
      BY <2>1, <3>1, Zenon
  <2>5. \A x \in snapshots : x.seq \in 1..MaxSeq
    BY DEF TypeOK, Snapshot
  <2>6. \A x \in snapshots' : x.seq < seq_next'[s] /\ x.seq <= snapshot_seq'
    BY <2>2, <2>4, <2>5
  <2>7. Fresh(s)'
    BY <2>2, <2>3, <2>6 DEF Fresh
  <2>8. ASSUME NEW o \in Server \ {s}
        PROVE  Fresh(o)'
    <3>1. seq_next[o] \in 0..(MaxSeq + 1) /\ seq_limit[o] \in 0..(MaxSeq + 1)
      BY DEF TypeOK
    <3>2. seq_next[o] = seq_limit[o] /\ seq_limit[o] <= snapshot_seq + 1
      BY <2>1 DEF Numbers, Fresh
    <3> QED
      BY <2>2, <3>1, <3>2 DEF Fresh
  <2> QED
    BY <2>6, <2>7, <2>8 DEF Numbers
<1>4. ASSUME UNCHANGED <<status, seq_next, seq_limit, snapshot_seq, snapshots>>
      PROVE  Numbers'
  BY <1>4 DEF Numbers, Fresh
<1>5. ASSUME NEW h \in Handler,
             \/ \E s \in Server : Accept(s, h)
             \/ \E k \in Key : Exchange(h, k)
      PROVE  Numbers'
  BY <1>4, <1>5 DEF Accept, Exchange, fileVars, serverVars, history
<1>6. ASSUME NEW h \in Handler, RecordActivity(h) \/ RecordFails(h) \/ AdminIssue(h)
      PROVE  Numbers'
  BY <1>4, <1>6 DEF RecordActivity, RecordFails, AdminIssue, fileVars, serverVars, history
<1>7. CASE Tick \/ UNCHANGED vars
  BY <1>4, <1>7 DEF Tick, vars, fileVars, serverVars, history
<1>8. ASSUME NEW h \in Handler, HangUp(h) \/ BeginSnapshot(h) \/ ReadSupply(h)
      PROVE  Numbers'
  BY <1>4, <1>8 DEF HangUp, BeginSnapshot, ReadSupply, fileVars, serverVars, history
<1> QED
  BY <1>1, <1>2, <1>3, <1>5, <1>6, <1>7, <1>8 DEF Next

-----------------------------------------------------------------------------
\* Supplies.

\* The clock and the counters only grow.
LEMMA Growth ==
  ASSUME TypeOK, [Next]_vars
  PROVE  clock <= clock' /\ issued <= issued' /\ burned <= burned'
<1> USE BoundAssumption DEF TypeOK
<1>1. ASSUME NEW s \in Server, Start(s) \/ Shutdown(s) \/ Release(s) \/ Crash(s)
      PROVE  clock <= clock' /\ issued <= issued' /\ burned <= burned'
  BY <1>1 DEF Start, Shutdown, Release, Crash, ledgerVars
<1>2. ASSUME NEW h \in Handler, NEW s \in Server, Accept(s, h)
      PROVE  clock <= clock' /\ issued <= issued' /\ burned <= burned'
  BY <1>2 DEF Accept, ledgerVars
<1>3. ASSUME NEW h \in Handler,
             HangUp(h) \/ BeginSnapshot(h) \/ ReadSupply(h) \/ TakeNumber(h)
      PROVE  clock <= clock' /\ issued <= issued' /\ burned <= burned'
  BY <1>3 DEF HangUp, BeginSnapshot, ReadSupply, TakeNumber, ledgerVars
<1>4. ASSUME NEW h \in Handler, NEW k \in Key, Exchange(h, k)
      PROVE  clock <= clock' /\ issued <= issued' /\ burned <= burned'
  BY <1>4 DEF Exchange
<1>5. ASSUME NEW h \in Handler, RecordActivity(h) \/ RecordFails(h)
      PROVE  clock <= clock' /\ issued <= issued' /\ burned <= burned'
  BY <1>5 DEF RecordActivity, RecordFails, ledgerVars
<1>6. ASSUME NEW h \in Handler, AdminIssue(h)
      PROVE  clock <= clock' /\ issued <= issued' /\ burned <= burned'
  BY <1>6 DEF AdminIssue
<1>7. CASE Tick \/ UNCHANGED vars
  BY <1>7 DEF Tick, vars, ledgerVars
<1> QED
  BY <1>1, <1>2, <1>3, <1>4, <1>5, <1>6, <1>7 DEF Next

\* A step that draws no number and lets no handler begin or go on with a
\* snapshot keeps what the snapshots show behind what the ledger does.
LEMMA QuietStep ==
  ASSUME TypeOK, TypeOK', Supplies, [Next]_vars, snapshots' = snapshots,
         \A h \in Handler : /\ pc'[h] = "supply" => pc[h] = "supply" /\ seen'[h] = seen[h]
                            /\ pc'[h] = "number" => pc[h] = "number" /\ seen'[h] = seen[h]
  PROVE  Supplies'
<1> USE BoundAssumption
<1>1. /\ clock \in Nat /\ issued \in Nat /\ burned \in Nat
      /\ clock' \in Nat /\ issued' \in Nat /\ burned' \in Nat
      /\ clock <= clock' /\ issued <= issued' /\ burned <= burned'
  BY Growth DEF TypeOK
<1>2. ASSUME NEW r \in Reading, Current(r)
      PROVE  Current(r)'
  <2>1. r.time \in Nat /\ r.issued \in Nat /\ r.burned \in Nat
    BY DEF Reading
  <2> QED
    BY <1>1, <1>2, <2>1 DEF Current
<1>3. \A x \in snapshots : x.supply \in Reading /\ x.supply.time \in Nat
  BY DEF TypeOK, Snapshot, Reading
<1>4. \A h \in Handler : seen[h] \in Reading /\ seen[h].time \in Nat
  BY DEF TypeOK, Reading
<1>5. \A x \in snapshots' : Current(x.supply)'
  BY <1>2, <1>3 DEF Supplies
<1>6. ASSUME NEW h \in Handler, pc'[h] = "supply"
      PROVE  seen'[h].time <= clock' /\ \A x \in snapshots' : x.supply.time <= seen'[h].time
  <2>1. pc[h] = "supply" /\ seen'[h] = seen[h]
    BY <1>6
  <2>2. seen[h].time <= clock /\ \A x \in snapshots : x.supply.time <= seen[h].time
    BY <2>1, Zenon DEF Supplies
  <2>3. seen[h].time <= clock'
    BY <1>1, <1>4, <2>2
  <2> QED
    BY <2>1, <2>2, <2>3, Zenon
<1>7. ASSUME NEW h \in Handler, pc'[h] = "number"
      PROVE  Current(seen[h])' /\ \A x \in snapshots' : AtMost(x.supply, seen'[h])
  <2>1. Current(seen[h]) /\ \A x \in snapshots : AtMost(x.supply, seen[h])
    BY <1>7 DEF Supplies
  <2>2. seen'[h] = seen[h] /\ seen[h] \in Reading
    BY <1>4, <1>7
  <2>3. Current(seen[h])'
    <3>1. /\ seen[h].time <= clock' /\ seen[h].issued <= issued' /\ seen[h].burned <= burned'
      <4>1. seen[h].time \in Nat /\ seen[h].issued \in Nat /\ seen[h].burned \in Nat
        BY <2>2 DEF Reading
      <4> QED
        BY <1>1, <2>1, <4>1 DEF Current
    <3>2. /\ seen'[h].time <= clock' /\ seen'[h].issued <= issued'
          /\ seen'[h].burned <= burned'
      BY <2>2, <3>1, Zenon
    <3> QED
      BY <3>2 DEF Current
  <2>4. \A x \in snapshots' : AtMost(x.supply, seen'[h])
    BY <2>1, <2>2, Zenon
  <2> QED
    BY <2>3, <2>4
<1> QED
  BY <1>5, <1>6, <1>7 DEF Supplies

\* Nothing is signed that runs ahead of the ledger, and a handler about to
\* draw a number has read at least what any snapshot shows.
LEMMA SuppliesStep ==
  ASSUME TypeOK, TypeOK', Order, Supplies, [Next]_vars
  PROVE  Supplies'
<1> USE BoundAssumption, NullAssumption
<1>1. ASSUME NEW s \in Server, Start(s) \/ Shutdown(s) \/ Release(s)
      PROVE  Supplies'
  BY <1>1, QuietStep DEF Start, Shutdown, Release, handlerVars, history
<1>2. ASSUME NEW s \in Server, Crash(s)
      PROVE  Supplies'
  <2>1. /\ snapshots' = snapshots
        /\ \A h \in Handler : (pc'[h] = "idle") \/ (pc'[h] = pc[h] /\ seen'[h] = seen[h])
    BY <1>2 DEF Crash
  <2> QED
    BY <2>1, QuietStep
<1>3. ASSUME NEW h \in Handler, (\E s \in Server : Accept(s, h)) \/ HangUp(h)
      PROVE  Supplies'
  BY <1>3, QuietStep DEF Accept, HangUp, history
<1>4. ASSUME NEW h \in Handler, NEW k \in Key, Exchange(h, k)
      PROVE  Supplies'
  <2>1. /\ snapshots' = snapshots /\ seen' = seen
        /\ \A o \in Handler : pc'[o] = pc[o] \/ pc'[o] = "count"
    BY <1>4 DEF Exchange, TypeOK, history
  <2> QED
    BY <2>1, QuietStep
<1>5. ASSUME NEW h \in Handler, RecordActivity(h) \/ RecordFails(h)
      PROVE  Supplies'
  <2>1. /\ snapshots' = snapshots /\ seen' = seen
        /\ \A o \in Handler : pc'[o] = pc[o] \/ pc'[o] = "idle"
    BY <1>5 DEF RecordActivity, RecordFails, TypeOK, history
  <2> QED
    BY <2>1, QuietStep
<1>6. ASSUME NEW h \in Handler, AdminIssue(h)
      PROVE  Supplies'
  BY <1>6, QuietStep DEF AdminIssue, handlerVars, history
<1>7. CASE Tick \/ UNCHANGED vars
  BY <1>7, QuietStep DEF Tick, vars, handlerVars, history
<1>8. ASSUME NEW h \in Handler, BeginSnapshot(h)
      PROVE  Supplies'
  <2>1. /\ UNCHANGED <<clock, issued, burned, snapshots>>
        /\ pc' = [pc EXCEPT ![h] = "supply"]
        /\ seen' = [seen EXCEPT ![h] = [Blank EXCEPT !.time = clock]]
    BY <1>8 DEF BeginSnapshot, ledgerVars, history
  <2>2. [Blank EXCEPT !.time = clock].time = clock
    BY DEF Blank
  <2>3. clock \in Nat /\ seen'[h].time = clock
    <3>1. seen'[h] = [Blank EXCEPT !.time = clock]
      BY <2>1, Zenon DEF TypeOK
    <3>2. clock \in Nat
      BY DEF TypeOK
    <3> QED
      BY <2>2, <3>1, <3>2, Zenon
  <2>4. \A x \in snapshots : Current(x.supply)
    BY DEF Supplies
  <2>5. \A o \in Handler \ {h} : pc'[o] = pc[o] /\ seen'[o] = seen[o]
    BY <2>1 DEF TypeOK
  <2>6. pc'[h] = "supply"
    BY <2>1 DEF TypeOK
  <2>7. \A o \in Handler : pc'[o] = "number" => o # h
    BY <2>6
  <2>8. \A x \in snapshots' : Current(x.supply)'
    BY <2>1, <2>4 DEF Current
  <2>9. \A x \in snapshots' : x.supply.time <= seen'[h].time
    BY <2>1, <2>3, <2>4, Zenon DEF Current
  <2>10. ASSUME NEW o \in Handler, pc'[o] = "supply"
         PROVE  seen'[o].time <= clock' /\ \A x \in snapshots' : x.supply.time <= seen'[o].time
    <3>1. CASE o = h
      BY <2>1, <2>3, <2>9, <3>1
    <3>2. CASE o # h
      BY <2>1, <2>5, <2>10, <3>2 DEF Supplies
    <3> QED
      BY <3>1, <3>2
  <2>11. ASSUME NEW o \in Handler, pc'[o] = "number"
         PROVE  Current(seen[o])' /\ \A x \in snapshots' : AtMost(x.supply, seen'[o])
    BY <2>1, <2>5, <2>7, <2>11 DEF Supplies, Current
  <2> QED
    BY <2>8, <2>10, <2>11 DEF Supplies
<1>9. ASSUME NEW h \in Handler, ReadSupply(h)
      PROVE  Supplies'
  <2> DEFINE r == [time |-> seen[h].time, issued |-> issued, burned |-> burned]
  <2>1. /\ UNCHANGED <<clock, issued, burned, snapshots>>
        /\ pc' = [pc EXCEPT ![h] = "number"] /\ seen' = [seen EXCEPT ![h] = r]
        /\ pc[h] = "supply"
    BY <1>9 DEF ReadSupply, ledgerVars, history
  <2>2. /\ \A o \in Handler \ {h} : pc'[o] = pc[o] /\ seen'[o] = seen[o]
        /\ pc'[h] = "number" /\ seen'[h] = r
    BY <2>1 DEF TypeOK
  <2>3. r.time = seen[h].time /\ r.issued = issued /\ r.burned = burned
    OBVIOUS
  <2> HIDE DEF r
  <2>4. /\ seen[h].time <= clock /\ \A x \in snapshots : x.supply.time <= seen[h].time
        /\ \A x \in snapshots : Current(x.supply)
    BY <2>1 DEF Supplies
  <2>5. /\ issued <= issued /\ burned <= burned
    BY DEF TypeOK
  <2>6. Current(r) /\ \A x \in snapshots : AtMost(x.supply, r)
    BY <2>3, <2>4, <2>5, Zenon DEF Current, AtMost
  <2>7. \A x \in snapshots' : Current(x.supply)'
    BY <2>1, <2>4 DEF Current
  <2>8. Current(seen[h])' /\ \A x \in snapshots' : AtMost(x.supply, seen'[h])
    BY <2>1, <2>2, <2>6, Zenon DEF Current
  <2>9. ASSUME NEW o \in Handler, pc'[o] = "supply"
        PROVE  seen'[o].time <= clock' /\ \A x \in snapshots' : x.supply.time <= seen'[o].time
    BY <2>1, <2>2, <2>9 DEF Supplies
  <2>10. ASSUME NEW o \in Handler, pc'[o] = "number"
         PROVE  Current(seen[o])' /\ \A x \in snapshots' : AtMost(x.supply, seen'[o])
    <3>1. CASE o = h
      BY <2>8, <3>1
    <3>2. CASE o # h
      BY <2>1, <2>2, <2>10, <3>2 DEF Supplies, Current
    <3> QED
      BY <3>1, <3>2
  <2> QED
    BY <2>7, <2>9, <2>10 DEF Supplies
<1>10. ASSUME NEW h \in Handler, TakeNumber(h)
       PROVE  Supplies'
  <2>1. PICK n : snapshots' = snapshots \cup {[seq |-> n, supply |-> seen[h]]}
    BY <1>10, Zenon DEF TakeNumber
  <2>2. /\ UNCHANGED <<clock, issued, burned>>
        /\ pc[h] = "number" /\ pc' = [pc EXCEPT ![h] = "idle"]
    BY <1>10 DEF TakeNumber, ledgerVars
  <2>3. \A o \in Handler : pc'[o] \notin {"supply", "number"}
    <3>1. ASSUME NEW o \in Handler, pc[o] \in {"supply", "number"}
          PROVE  o = h
      <4>1. conn[o] # NULL /\ conn[h] # NULL
        BY <2>2, <3>1 DEF Order, Busy
      <4>2. conn[o] = conn[h]
        BY <4>1 DEF TypeOK, Order, Sole, Attached
      <4> QED
        BY <2>2, <3>1, <4>2 DEF Order, Inside
    <3>2. \A o \in Handler : pc'[o] = IF o = h THEN "idle" ELSE pc[o]
      BY <2>2 DEF TypeOK
    <3>3. pc'[h] = "idle"
      BY <3>2
    <3>4. ASSUME NEW o \in Handler, o # h
          PROVE  pc'[o] \notin {"supply", "number"}
      <4>1. pc[o] \notin {"supply", "number"}
        BY <3>1, <3>4
      <4>2. pc'[o] = pc[o]
        BY <3>2, <3>4
      <4> QED
        BY <4>1, <4>2
    <3> QED
      BY <3>3, <3>4
  <2>4. Current(seen[h]) /\ \A x \in snapshots : Current(x.supply)
    BY <2>2 DEF Supplies
  <2>5. \A x \in snapshots' : Current(x.supply)
    <3> DEFINE y == [seq |-> n, supply |-> seen[h]]
    <3>1. y.supply = seen[h]
      OBVIOUS
    <3> HIDE DEF y
    <3>2. snapshots' = snapshots \cup {y}
      BY <2>1 DEF y
    <3> QED
      BY <2>4, <3>1, <3>2, Zenon
  <2>6. \A x \in snapshots' : Current(x.supply)'
    BY <2>2, <2>5 DEF Current
  <2> QED
    BY <2>3, <2>6 DEF Supplies
<1> QED
  BY <1>1, <1>2, <1>3, <1>4, <1>5, <1>6, <1>7, <1>8, <1>9, <1>10 DEF Next

-----------------------------------------------------------------------------
\* The order of the snapshots.

\* A new snapshot has the highest number and shows the latest supply.
LEMMA MonotoneStep ==
  ASSUME TypeOK, Order, Numbers, Supplies, SnapshotsMonotone, [Next]_vars
  PROVE  SnapshotsMonotone'
<1> USE BoundAssumption, NullAssumption
<1>1. CASE snapshots' = snapshots
  BY <1>1 DEF SnapshotsMonotone, AtMost
<1>2. ASSUME NEW h \in Handler, TakeNumber(h)
      PROVE  SnapshotsMonotone'
  <2>1. conn[h] \in Server /\ pc[h] = "number"
    BY <1>2 DEF TypeOK, TakeNumber, Order, Busy
  <2>2. PICK n : /\ n = seq_next'[conn[h]] - 1
                 /\ snapshots' = snapshots \cup {[seq |-> n, supply |-> seen[h]]}
    BY <1>2, Zenon DEF TakeNumber
  <2>3. n \in Nat /\ \A x \in snapshots : x.seq < n
    <3>1. seq_next'[conn[h]] - 1 \in 1..MaxSeq
      BY <1>2, <2>1, Drawn DEF TakeNumber
    <3>2. \A x \in snapshots : x.seq < seq_next'[conn[h]] - 1
      BY <1>2, <2>1, Drawn DEF TakeNumber
    <3>3. n \in 1..MaxSeq
      BY <2>2, <3>1, Zenon
    <3> QED
      BY <2>2, <3>2, <3>3
  <2>4. \A x \in snapshots : AtMost(x.supply, seen[h])
    BY <2>1 DEF Supplies
  <2>5. \A x \in snapshots : x.seq \in Nat
    BY DEF TypeOK, Snapshot
  <2>6. AtMost(seen[h], seen[h])
    BY DEF AtMost, TypeOK, Reading
  <2>7. ASSUME NEW a \in snapshots', NEW b \in snapshots', a.seq <= b.seq
        PROVE  AtMost(a.supply, b.supply)
    <3> DEFINE y == [seq |-> n, supply |-> seen[h]]
    <3>1. y.seq = n /\ y.supply = seen[h]
      OBVIOUS
    <3> HIDE DEF y
    <3>2. a \in snapshots \cup {y} /\ b \in snapshots \cup {y}
      BY <2>2 DEF y
    <3>3. CASE a \in snapshots /\ b \in snapshots
      BY <2>7, <3>3 DEF SnapshotsMonotone
    <3>4. CASE b = y /\ a \in snapshots
      BY <2>4, <3>1, <3>4
    <3>5. CASE b = y /\ a = y
      BY <2>6, <3>1, <3>5
    <3>6. CASE a = y /\ b \in snapshots
      BY <2>3, <2>5, <2>7, <3>1, <3>6
    <3> QED
      BY <3>2, <3>3, <3>4, <3>5, <3>6
  <2> QED
    BY <2>7 DEF SnapshotsMonotone, AtMost
<1>3. ASSUME NEW s \in Server, Start(s) \/ Shutdown(s) \/ Release(s) \/ Crash(s)
      PROVE  SnapshotsMonotone'
  BY <1>1, <1>3 DEF Start, Shutdown, Release, Crash, history
<1>4. ASSUME NEW h \in Handler, NEW s \in Server, Accept(s, h)
      PROVE  SnapshotsMonotone'
  BY <1>1, <1>4 DEF Accept, history
<1>5. ASSUME NEW h \in Handler, HangUp(h) \/ BeginSnapshot(h) \/ ReadSupply(h)
      PROVE  SnapshotsMonotone'
  BY <1>1, <1>5 DEF HangUp, BeginSnapshot, ReadSupply, history
<1>6. ASSUME NEW h \in Handler, NEW k \in Key, Exchange(h, k)
      PROVE  SnapshotsMonotone'
  BY <1>1, <1>6 DEF Exchange, history
<1>7. ASSUME NEW h \in Handler, RecordActivity(h) \/ RecordFails(h) \/ AdminIssue(h)
      PROVE  SnapshotsMonotone'
  BY <1>1, <1>7 DEF RecordActivity, RecordFails, AdminIssue, history
<1>8. CASE Tick \/ UNCHANGED vars
  BY <1>1, <1>8 DEF Tick, vars, history
<1> QED
  BY <1>2, <1>3, <1>4, <1>5, <1>6, <1>7, <1>8 DEF Next

\* A new file with no mint on it.
LEMMA SnapshotInit == Init => SnapshotInv
<1> SUFFICES ASSUME Init
             PROVE  SnapshotInv
  OBVIOUS
<1> USE BoundAssumption, NullAssumption
<1>1. TypeOK
  <2>1. seen \in [Handler -> Reading]
    BY BlankType DEF Init
  <2> QED
    BY <2>1 DEF Init, TypeOK
<1>2. Order
  BY DEF Init, Order, Sole, Claimed, Attached, Busy, Inside
<1>3. Numbers /\ Supplies /\ SnapshotsMonotone
  BY DEF Init, Numbers, Fresh, Supplies, SnapshotsMonotone
<1> QED
  BY <1>1, <1>2, <1>3 DEF SnapshotInv

\* The strengthening is inductive when no mint starts on the file while the
\* threads of a stopped one are still at work.
LEMMA SnapshotInductive == ~Overlap /\ SnapshotInv /\ [Next]_vars => SnapshotInv'
<1> SUFFICES ASSUME ~Overlap, SnapshotInv, [Next]_vars
             PROVE  SnapshotInv'
  OBVIOUS
<1>1. TypeOK /\ Order /\ Numbers /\ Supplies /\ SnapshotsMonotone
  BY DEF SnapshotInv
<1>2. TypeOK'
  BY <1>1, TypeStep DEF Order
<1>3. Order'
  BY <1>1, OrderStep
<1>4. Numbers'
  BY <1>1, NumbersStep
<1>5. Supplies'
  BY <1>1, <1>2, SuppliesStep
<1>6. SnapshotsMonotone'
  BY <1>1, MonotoneStep
<1> QED
  BY <1>2, <1>3, <1>4, <1>5, <1>6 DEF SnapshotInv

\* Signed snapshots are in one order, by number, by time and by supply, over
\* any number of processes, connection threads, crashes and blocks, as long as
\* a mint is not started while threads of a stopped one live (mintapi.py:
\* descriptor, _next_snapshot_seq, _claim_single_writer).
THEOREM SnapshotOrder == ~Overlap => (Spec => []SnapshotsMonotone)
<1>1. SnapshotInv => SnapshotsMonotone
  BY DEF SnapshotInv
<1>2. ASSUME ~Overlap
      PROVE  Spec => []SnapshotsMonotone
  <2>1. SnapshotInv /\ [Next]_vars => SnapshotInv'
    BY <1>2, SnapshotInductive
  <2> QED
    BY <1>1, <2>1, SnapshotInit, PTL DEF Spec
<1> QED
  BY <1>2

-----------------------------------------------------------------------------
\* Activity.

Today == {k \in Key : counted[k] # -1 /\ counted[k] = activity_day}

Label == {"idle", "supply", "number", "count"}

\* The types of what counting an exchange reads and writes.
ActivityTypes ==
  /\ clock \in Nat /\ activity_day \in Int /\ activity_count \in Nat
  /\ counted \in [Key -> Int]
  /\ pc \in [Handler -> Label] /\ call \in [Handler -> Key \cup {NULL}]
  /\ answered \subseteq Key /\ executed \subseteq Key

\* A handler counts only what has executed, and nothing was counted on a day
\* after the one on disk: a new day's figure starts from nothing.
Ripe == \A h \in Handler : pc[h] = "count" => call[h] \in executed
Days ==
  /\ -1 <= activity_day /\ activity_day <= clock
  /\ \A k \in Key : -1 <= counted[k] /\ counted[k] <= activity_day
ActivityInv == ActivityTypes /\ Ripe /\ Days /\ IsFiniteSet(Today) /\ ActivityHonest

\* No exchange is taken back.
LEMMA ActivityFrame ==
  ASSUME ActivityInv, clock' \in Nat, clock <= clock',
         UNCHANGED <<activity_day, activity_count, counted, answered>>,
         executed \subseteq executed', executed' \subseteq Key,
         pc' \in [Handler -> Label], call' \in [Handler -> Key \cup {NULL}],
         \A h \in Handler : pc'[h] = "count" => call'[h] \in executed'
  PROVE  ActivityInv'
<1>1. Today' = Today
  BY DEF Today
<1>2. ActivityTypes' /\ Ripe'
  BY DEF ActivityInv, ActivityTypes, Ripe
<1>3. Days'
  BY DEF ActivityInv, ActivityTypes, Days
<1>4. ActivityHonest'
  BY DEF ActivityInv, ActivityHonest
<1> QED
  BY <1>1, <1>2, <1>3, <1>4 DEF ActivityInv

\* The counting of an exchange: a key that is counted joins the figure of its
\* day, which is a new one when the day is.
LEMMA ActivityCounts ==
  ASSUME ActivityInv, NEW h \in Handler, RecordActivity(h)
  PROVE  ActivityInv'
<1> USE NullAssumption
<1>1. call[h] \in Key /\ call[h] \in executed
  BY DEF ActivityInv, ActivityTypes, Ripe, RecordActivity
<1>2. /\ UNCHANGED <<clock, executed>>
      /\ answered' = answered \cup {call[h]}
      /\ pc' = [pc EXCEPT ![h] = "idle"] /\ call' = [call EXCEPT ![h] = NULL]
  BY DEF RecordActivity, ledgerVars
<1>3. /\ pc' \in [Handler -> Label] /\ call' \in [Handler -> Key \cup {NULL}]
      /\ Ripe' /\ answered' \subseteq Key
  BY <1>1, <1>2 DEF ActivityInv, ActivityTypes, Ripe, Label
<1>4. CASE ~Uncounted(call[h])
  <2>1. UNCHANGED <<counted, activity_day, activity_count>>
    BY <1>4 DEF RecordActivity
  <2>2. Today' = Today
    BY <2>1 DEF Today
  <2>3. ActivityTypes' /\ Days'
    BY <1>2, <1>3, <2>1 DEF ActivityInv, ActivityTypes, Days
  <2>4. ActivityHonest'
    BY <1>1, <1>2, <1>4, <2>1 DEF ActivityInv, ActivityHonest, Uncounted
  <2> QED
    BY <1>3, <2>2, <2>3, <2>4 DEF ActivityInv
<1>5. CASE Uncounted(call[h])
  <2>1. /\ counted' = [counted EXCEPT ![call[h]] = clock]
        /\ activity_day' = clock /\ activity_count' = CountInWindow
        /\ counted[call[h]] = -1
    BY <1>5 DEF RecordActivity, Uncounted
  <2>2. /\ clock \in Nat /\ counted \in [Key -> Int] /\ activity_count \in Nat
        /\ activity_day \in Int /\ activity_day <= clock
        /\ \A k \in Key : -1 <= counted[k] /\ counted[k] <= activity_day
        /\ IsFiniteSet(Today) /\ activity_count = Cardinality(Today)
    BY DEF ActivityInv, ActivityTypes, Days, ActivityHonest, Today
  <2>3. \A k \in Key : counted'[k] = IF k = call[h] THEN clock ELSE counted[k]
    BY <2>1, <2>2
  <2>4. ActivityTypes' /\ Days'
    <3>1. activity_count' \in Nat
      BY <2>1, <2>2 DEF CountInWindow
    <3>2. counted' \in [Key -> Int]
      <4>1. clock \in Int
        BY <2>2
      <4> QED
        BY <2>1, <2>2, <4>1, Zenon
    <3>3. Days'
      BY <1>2, <2>1, <2>2, <2>3 DEF Days
    <3> QED
      BY <1>2, <1>3, <2>1, <2>2, <3>1, <3>2, <3>3 DEF ActivityInv, ActivityTypes
  <2>5. IsFiniteSet(Today') /\ activity_count' = Cardinality(Today')
    <3>1. CASE activity_day = clock
      <4>1. Today' = Today \cup {call[h]} /\ call[h] \notin Today
        BY <1>1, <2>1, <2>2, <2>3, <3>1 DEF Today
      <4>2. activity_count' = activity_count + 1
        BY <2>1, <3>1 DEF CountInWindow
      <4> QED
        BY <2>2, <4>1, <4>2, FS_AddElement
    <3>2. CASE activity_day # clock
      <4>1. Today' = {} \cup {call[h]}
        BY <1>1, <2>1, <2>2, <2>3, <3>2 DEF Today
      <4>2. activity_count' = 1
        BY <2>1, <3>2 DEF CountInWindow
      <4>3. IsFiniteSet({}) /\ Cardinality({}) = 0
        BY FS_EmptySet
      <4>4. /\ IsFiniteSet({} \cup {call[h]})
            /\ Cardinality({} \cup {call[h]}) = IF call[h] \in {} THEN 0 ELSE 0 + 1
        BY <4>3, FS_AddElement, Zenon
      <4> QED
        BY <4>1, <4>2, <4>4
    <3> QED
      BY <3>1, <3>2
  <2>6. {k \in Key : counted'[k] # -1} = {k \in Key : counted[k] # -1} \cup {call[h]}
    BY <1>1, <2>2, <2>3
  <2>7. ActivityHonest'
    BY <1>1, <1>2, <2>5, <2>6 DEF ActivityInv, ActivityHonest, Today
  <2> QED
    BY <1>3, <2>4, <2>5, <2>7 DEF ActivityInv
<1> QED
  BY <1>4, <1>5

\* Every step of the mint keeps its figures exact.
LEMMA ActivityStep == ActivityInv /\ [Next]_vars => ActivityInv'
<1> SUFFICES ASSUME ActivityInv, [Next]_vars
             PROVE  ActivityInv'
  OBVIOUS
<1> USE NullAssumption
<1>0. /\ clock \in Nat /\ executed \subseteq Key
      /\ pc \in [Handler -> Label] /\ call \in [Handler -> Key \cup {NULL}]
      /\ \A h \in Handler : pc[h] = "count" => call[h] \in executed
  BY DEF ActivityInv, ActivityTypes, Ripe
<1>1. ASSUME NEW s \in Server, Start(s) \/ Shutdown(s) \/ Release(s)
      PROVE  ActivityInv'
  BY <1>0, <1>1, ActivityFrame
     DEF Start, Shutdown, Release, ledgerVars, fileVars, handlerVars, history
<1>2. ASSUME NEW s \in Server, Crash(s)
      PROVE  ActivityInv'
  <2>1. /\ UNCHANGED <<clock, executed, activity_day, activity_count, counted, answered>>
        /\ pc' \in [Handler -> Label] /\ call' \in [Handler -> Key \cup {NULL}]
        /\ \A h \in Handler : (pc'[h] = "idle") \/ (pc'[h] = pc[h] /\ call'[h] = call[h])
    BY <1>0, <1>2 DEF Crash, ledgerVars, Label
  <2> QED
    BY <1>0, <2>1, ActivityFrame
<1>3. ASSUME NEW h \in Handler, (\E s \in Server : Accept(s, h)) \/ HangUp(h)
      PROVE  ActivityInv'
  BY <1>0, <1>3, ActivityFrame DEF Accept, HangUp, ledgerVars, fileVars, history
<1>4. ASSUME NEW h \in Handler, BeginSnapshot(h) \/ ReadSupply(h) \/ TakeNumber(h)
      PROVE  ActivityInv'
  <2>1. /\ UNCHANGED <<clock, executed, activity_day, activity_count, counted, answered, call>>
        /\ \E l \in {"supply", "number", "idle"} : pc' = [pc EXCEPT ![h] = l]
    BY <1>4 DEF BeginSnapshot, ReadSupply, TakeNumber, ledgerVars, fileVars, history
  <2>2. /\ pc' \in [Handler -> Label]
        /\ \A o \in Handler : pc'[o] = "count" => pc[o] = "count"
    BY <1>0, <2>1 DEF Label
  <2> QED
    BY <1>0, <2>1, <2>2, ActivityFrame
<1>5. ASSUME NEW h \in Handler, NEW k \in Key, Exchange(h, k)
      PROVE  ActivityInv'
  <2>1. /\ UNCHANGED <<clock, activity_day, activity_count, counted, answered>>
        /\ executed' = executed \cup {k}
        /\ pc' = [pc EXCEPT ![h] = "count"] /\ call' = [call EXCEPT ![h] = k]
    BY <1>5 DEF Exchange, fileVars, history
  <2>2. /\ pc' \in [Handler -> Label] /\ call' \in [Handler -> Key \cup {NULL}]
        /\ \A o \in Handler : pc'[o] = "count" => call'[o] \in executed'
    BY <1>0, <2>1 DEF Label
  <2> QED
    BY <1>0, <2>1, <2>2, ActivityFrame
<1>6. ASSUME NEW h \in Handler, RecordActivity(h)
      PROVE  ActivityInv'
  BY <1>6, ActivityCounts
<1>7. ASSUME NEW h \in Handler, RecordFails(h)
      PROVE  ActivityInv'
  <2>1. /\ UNCHANGED <<clock, executed, activity_day, activity_count, counted, answered>>
        /\ pc' = [pc EXCEPT ![h] = "idle"] /\ call' = [call EXCEPT ![h] = NULL]
    BY <1>7 DEF RecordFails, ledgerVars, fileVars, history
  <2>2. /\ pc' \in [Handler -> Label] /\ call' \in [Handler -> Key \cup {NULL}]
        /\ \A o \in Handler : pc'[o] = "count" => call'[o] \in executed
    BY <1>0, <2>1 DEF Label
  <2> QED
    BY <1>0, <2>1, <2>2, ActivityFrame
<1>8. ASSUME NEW h \in Handler, AdminIssue(h)
      PROVE  ActivityInv'
  BY <1>0, <1>8, ActivityFrame DEF AdminIssue, fileVars, handlerVars, history
<1>9. CASE Tick
  BY <1>0, <1>9, ActivityFrame DEF Tick, ledgerVars, fileVars, handlerVars, history
<1>10. CASE UNCHANGED vars
  BY <1>0, <1>10, ActivityFrame DEF vars, ledgerVars, fileVars, handlerVars, history
<1> QED
  BY <1>1, <1>2, <1>3, <1>4, <1>5, <1>6, <1>7, <1>8, <1>9, <1>10 DEF Next

\* Every exchange that was answered is in the activity figures of one day,
\* once, and the figure on disk is exact, for any number of processes and
\* whether or not they overlap (mintapi.py: exchange, _record_activity).
THEOREM ActivityIsExact == Spec => []ActivityHonest
<1>1. Init => ActivityInv
  <2> SUFFICES ASSUME Init
               PROVE  ActivityInv
    OBVIOUS
  <2>1. Today = {}
    BY DEF Init, Today
  <2>2. IsFiniteSet({}) /\ Cardinality({}) = 0
    BY FS_EmptySet
  <2>3. ActivityTypes /\ Ripe /\ Days
    BY DEF Init, ActivityTypes, Ripe, Days, Label
  <2>4. ActivityHonest
    BY <2>1, <2>2 DEF Init, ActivityHonest, Today
  <2> QED
    BY <2>1, <2>2, <2>3, <2>4 DEF ActivityInv
<1>2. ActivityInv => ActivityHonest
  BY DEF ActivityInv
<1> QED
  BY <1>1, <1>2, ActivityStep, PTL DEF Spec
=============================================================================
