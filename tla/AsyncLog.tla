------------------------------ MODULE AsyncLog ------------------------------
(***************************************************************************)
(* One node's log, its storage writer and what waits for the disk          *)
(* (storage_writer.go, raft_log.go, the deferred writes of node.go, the    *)
(* follower's side of node_replication.go and node_snapshot.go).           *)
(*                                                                         *)
(* The event loop owns `node', a record; one action is one turn of it.     *)
(* The writer goroutine owns `writer.batch' and all of `store' but the     *)
(* snapshot, which snapshot goroutines replace.  The rest of the group is  *)
(* `leader': the log of the current leader, and how much of it is          *)
(* committed.  A request is any slice of that log, so requests are lost,   *)
(* repeated, delayed and reordered at will within a term.                  *)
(***************************************************************************)
EXTENDS RaftLog

CONSTANTS
  BatchWriter,       \* the store writes hard state and entries as one record
  MaxBatchEntries,   \* maxBatchEntries
  MaxUnstable,       \* unstableLimit, in entries; 0 for none
  CommitInterval,    \* commitRecordInterval; 0 if the store is no CommitRecorder
  Threshold,         \* SnapshotThreshold; 0 for no local snapshots
  Trailing,          \* TrailingLogs
  Installs,          \* whether the leader sends snapshots
  Failures,          \* whether a storage call may fail
  Delayed,           \* whether a request may reach behind what is compacted
  MaxRequest,        \* bound on the entries of a request
  MaxTerm,           \* bound on the terms explored
  MaxLog,            \* bound on the leader's log
  MaxWrites,         \* bound on the writes queued in one life of the node
  MaxStops           \* bound on crashes and stops

ASSUME AsyncLogConstants ==
  /\ BatchWriter \in BOOLEAN /\ Installs \in BOOLEAN
  /\ Failures \in BOOLEAN /\ Delayed \in BOOLEAN
  /\ MaxBatchEntries \in Nat \ {0} /\ MaxRequest \in Nat \ {0}
  /\ \A k \in {MaxUnstable, CommitInterval, Threshold, Trailing,
               MaxTerm, MaxLog, MaxWrites, MaxStops} : k \in Nat

VARIABLES
  node,     \* the event loop's state
  writer,   \* the storage writer's state
  store,    \* stable storage
  snapping, \* the local snapshot under way
  install,  \* the installation under way
  leader,   \* the leader of the newest term: [term, log, commit]
  log,      \* history: the terms of the log from index 1 on, as Raft means it
  acked,    \* history: acknowledgements sent, [term, log]
  stops     \* how often the node has crashed or stopped

vars == <<node, writer, store, snapping, install, leader, log, acked, stops>>

-----------------------------------------------------------------------------
(* The event loop's state. *)

(* New: what a node makes of storage s. *)
New(s) ==
  [rl |-> newRaftLog(s), currentTerm |-> s.term, unsafeTermSeq |-> 0,
   completedWriteSeq |-> 0, deferredWrites |-> {}, commitIndex |-> 0,
   lastApplied |-> s.snap.index, recordedCommit |-> s.commit]

saveTerm(n, t) ==
  [n EXCEPT !.rl = enqueue(@, "HardState", <<>>, 0, t),
            !.unsafeTermSeq = n.rl.nextSeq + 1, !.currentTerm = t]

becomeFollower(n, t) == IF t > n.currentTerm THEN saveTerm(n, t) ELSE n

(* Mutant of sendGate: the term is not waited for. *)
logGate(n, seq) == seq

sendGate(n, seq) == Max({n.unsafeTermSeq, seq})

(* What the apply loop may be told. *)
applicable(n) == Min({n.commitIndex, stableIndex(n.rl)})

maybeRecordCommit(n) ==
  IF CommitInterval = 0 \/ applicable(n) < n.recordedCommit + CommitInterval THEN n
  ELSE [n EXCEPT !.recordedCommit = applicable(n),
                 !.rl = enqueue(@, "CommitIndex", <<>>, applicable(n), 0)]

setCommitIndex(n, index) ==
  IF index <= n.commitIndex THEN n
  ELSE maybeRecordCommit([n EXCEPT !.commitIndex = index])

(* afterWrite: the acknowledgement `ack' waits for write seq, unless it    *)
(* has completed or there is none.                                         *)
AtOnce(n, seq) == seq = 0 \/ seq <= n.completedWriteSeq

deferred(n, seq, ack) ==
  IF AtOnce(n, seq) THEN n
  ELSE [n EXCEPT !.deferredWrites = @ \cup {[seq |-> seq, ack |-> ack]}]

(* A turn of the event loop leaves node n and sends `acks'. *)
(* (The exploration keeps a write for the term it is behind by.)           *)
turn(n, acks) ==
  /\ n.rl.nextSeq + (IF leader.term > n.currentTerm THEN 1 ELSE 0) <= MaxWrites
  /\ node' = n
  /\ acked' = acked \cup acks
  /\ writer' = [writer EXCEPT !.wake = @ \/ n.rl.queue # node.rl.queue]

reply(n, seq, ack) == turn(deferred(n, seq, ack), {a \in {ack} : AtOnce(n, seq)})

Running == ~writer.closed

-----------------------------------------------------------------------------
(* AppendEntries from the leader: `count' entries after prev. *)

Slice(l, prev, count) == [i \in 1..count |-> [index |-> prev + i, term |-> l[prev + i]]]

(* The first entry the log does not hold, 0 if it holds all of them. *)
firstNew(rl, es) == SelectInSeq(es, LAMBDA e : termAt(rl, e.index) # e.term)

(* Append what is new, truncating a conflicting suffix first. *)
merge(rl, es) ==
  LET i == firstNew(rl, es)
      fresh == SubSeq(es, i, Len(es)) IN
  IF i = 0 THEN rl
  ELSE IF termAt(rl, es[i].index) = 0 THEN append(rl, fresh)
  ELSE append(truncateSuffix(rl, es[i].index), fresh)

(* The log once entries es have been accepted: unless it holds them all,   *)
(* it ends with them, and is the leader's up to there.                     *)
Merged(l, es) ==
  IF \A e \in ToSet(es) : e.index <= Len(l) /\ l[e.index] = e.term THEN l
  ELSE SubSeq(leader.log, 1, LastIndex(es))

Refusal(n) == [term |-> n.currentTerm, log |-> <<>>]

(* The backlog of unwritten entries is full: an error, and nothing else. *)
refuseBacklog(n, es) ==
  /\ MaxUnstable > 0 /\ es # <<>> /\ Len(unstable(n.rl.segs)) >= MaxUnstable
  /\ turn(n, {})
  /\ UNCHANGED log

refuseMismatch(n, prev) ==
  /\ prev > 0 /\ termAt(n.rl, prev) # leader.log[prev]
  /\ reply(n, sendGate(n, 0), Refusal(n))
  /\ UNCHANGED log

(* Mutant of coveredCommit: as far as the log goes. *)
commitToLast(rl, commit, covered) == Min({commit, lastLogIndex(rl)})

(* The request vouches for nothing beyond what it covers. *)
coveredCommit(rl, commit, covered) == Min({commit, covered})

acceptEntries(n, prev, es, commit) ==
  LET merged == [n EXCEPT !.rl = merge(@, es)]
      covered == prev + Len(es)
      committed == setCommitIndex(merged, coveredCommit(merged.rl, commit, covered))
      writeSeq == IF merged.rl = n.rl THEN 0 ELSE merged.rl.nextSeq
      gate == IF es = <<>> THEN writeSeq
              ELSE Max({writeSeq, writeSeqCovering(committed.rl, covered)}) IN
  /\ prev > 0 => termAt(n.rl, prev) = leader.log[prev]
  /\ MaxUnstable = 0 \/ es = <<>> \/ Len(unstable(n.rl.segs)) < MaxUnstable
  /\ reply(committed, sendGate(committed, gate),
           [term |-> n.currentTerm,
            log |-> IF es = <<>> THEN <<>> ELSE SubSeq(leader.log, 1, covered)])
  /\ log' = Merged(log, es)

(* The leader's log need not have been this long when it sent the request, *)
(* nor its commit index this high.  Only a delayed request begins behind   *)
(* what the node has compacted since.                                      *)
handleAppendEntries ==
  LET n == becomeFollower(node, leader.term) IN
  /\ Running /\ leader.term > 0
  /\ \E prev \in 0..Len(leader.log), count \in 0..MaxRequest, commit \in {0, leader.commit} :
       /\ prev + count <= Len(leader.log)
       /\ Delayed \/ prev + 1 >= IF node.rl.first = 0 THEN node.rl.snap.index + 1 ELSE node.rl.first
       /\ LET es == Slice(leader.log, prev, count) IN
          \/ refuseMismatch(n, prev)
          \/ (prev > 0 => termAt(n.rl, prev) = leader.log[prev]) /\ refuseBacklog(n, es)
          \/ acceptEntries(n, prev, es, commit)
  /\ UNCHANGED <<store, snapping, install, leader, stops>>

-----------------------------------------------------------------------------
(* The storage writer. *)

Idle == [pc |-> "wait", batch |-> <<>>, done |-> <<>>, failed |-> FALSE,
         closed |-> FALSE, wake |-> FALSE, notify |-> FALSE]

(* How many of the queued operations are taken as one run: a single one,   *)
(* or as many appends as fit, behind a hard state if the store can take    *)
(* the two together.                                                       *)
runLength(q) ==
  LET first == IF BatchWriter /\ Len(q) > 1 /\ q[1].kind = "HardState" /\ q[2].kind = "Append"
               THEN 1 ELSE 0
      size(k) == Len(unstable(SubSeq(q, first + 1, k))) IN
  IF first = 0 /\ q[1].kind # "Append" THEN 1
  ELSE Max({k \in first+1..Len(q) :
              /\ \A i \in first+1..k : q[i].kind = "Append"
              /\ k = first + 1 \/ size(k) <= MaxBatchEntries})

(* Mutant of take: a closed writer leaves its queue. *)
takeUnlessClosed ==
  LET q == node.rl.queue
      k == runLength(q) IN
  /\ writer.pc = "take"
  /\ \/ /\ q = <<>> \/ writer.closed
        /\ writer' = [writer EXCEPT !.pc = IF writer.closed THEN "exited" ELSE "wait"]
        /\ UNCHANGED node
     \/ /\ q # <<>> /\ ~writer.closed
        /\ writer' = [writer EXCEPT !.pc = "execute", !.batch = SubSeq(q, 1, k)]
        /\ node' = [node EXCEPT !.rl.queue = SubSeq(q, k + 1, Len(q))]
  /\ UNCHANGED <<store, snapping, install, leader, log, acked, stops>>

take ==
  LET q == node.rl.queue
      k == runLength(q) IN
  /\ writer.pc = "take"
  /\ \/ /\ q = <<>>
        /\ writer' = [writer EXCEPT !.pc = IF writer.closed THEN "exited" ELSE "wait"]
        /\ UNCHANGED node
     \/ /\ q # <<>>
        /\ writer' = [writer EXCEPT !.pc = "execute", !.batch = SubSeq(q, 1, k)]
        /\ node' = [node EXCEPT !.rl.queue = SubSeq(q, k + 1, Len(q))]
  /\ UNCHANGED <<store, snapping, install, leader, log, acked, stops>>

awaken ==
  /\ writer.pc = "wait" /\ writer.wake
  /\ writer' = [writer EXCEPT !.pc = "take", !.wake = FALSE]
  /\ UNCHANGED <<node, store, snapping, install, leader, log, acked, stops>>

reported(batch, err) ==
  [i \in 1..Len(batch) |->
     [seq |-> batch[i].seq, durableAfter |-> batch[i].durableAfter, err |-> err]]

(* What the writer does after a run: look for more. *)
ThenWait == "wait"
ThenTake == "take"

(* After a failure no storage call is made any more.  A call that fails    *)
(* may have had its effect, or part of it.                                 *)
execute ==
  LET b == writer.batch IN
  /\ writer.pc = "execute"
  /\ \E err \in BOOLEAN :
       /\ \/ err = FALSE /\ ~writer.failed /\ store' = performAll(store, b)
          \/ err = TRUE /\ writer.failed /\ UNCHANGED store
          \/ /\ err = TRUE /\ ~writer.failed /\ Failures
             /\ \E k \in 0..Len(b) : store' = performAll(store, SubSeq(b, 1, k))
       /\ writer' = [writer EXCEPT !.pc = ThenTake, !.batch = <<>>, !.notify = TRUE,
                                   !.failed = @ \/ err, !.done = @ \o reported(b, err)]
  /\ UNCHANGED <<node, snapping, install, leader, log, acked, stops>>

-----------------------------------------------------------------------------
(* Completions. *)

stillWaiting(ws, seq) == {w \in ws : w.seq > seq}

(* One completion.  A failed one fails everything that waits. *)
completeOne(n, d) ==
  IF d.err THEN [n EXCEPT !.completedWriteSeq = Max({@, d.seq}), !.deferredWrites = {}]
  ELSE [n EXCEPT !.rl = stabilize(@, d), !.completedWriteSeq = Max({@, d.seq}),
                 !.unsafeTermSeq = IF d.seq >= @ THEN 0 ELSE @,
                 !.deferredWrites = stillWaiting(@, d.seq)]

RECURSIVE complete(_, _)
complete(n, done) ==
  IF done = <<>> THEN n ELSE complete(completeOne(n, Head(done)), Tail(done))

(* What completions `done' release of the writes deferred on n: up to the  *)
(* first failure.                                                          *)
released(n, done) ==
  LET ok == SelectSeq(done, LAMBDA d : ~d.err) IN
  {w.ack : w \in {x \in n.deferredWrites : ok # <<>> /\ x.seq <= Last(ok).seq}}

handleWriteCompletions ==
  LET done == writer.done
      n == complete(node, done) IN
  /\ Running /\ writer.notify
  /\ node' = IF done = <<>> THEN node ELSE maybeRecordCommit(n)
  /\ node'.rl.nextSeq <= MaxWrites
  /\ acked' = acked \cup released(node, done)
  /\ writer' = [writer EXCEPT !.done = <<>>, !.notify = FALSE,
                              !.wake = @ \/ node'.rl.queue # node.rl.queue]
  /\ UNCHANGED <<store, snapping, install, leader, log, stops>>

-----------------------------------------------------------------------------
(* Applying, and snapshots of what has been applied. *)

Nothing == [phase |-> "none"]
Snapshot(meta, ack) == [phase |-> "writing", meta |-> meta, ack |-> ack]

(* handleApplyResult with maybeSnapshot: the apply loop reads the entry    *)
(* from storage, so it is told only what is there.                         *)
handleApplyResult ==
  LET i == node.lastApplied + 1
      n == [node EXCEPT !.lastApplied = i]
      due == /\ Threshold > 0 /\ snapping = Nothing
             /\ i >= n.rl.snap.index + Threshold /\ termAt(n.rl, i) # 0 IN
  /\ Running
  /\ i <= applicable(node)
  /\ node' = n
  /\ \/ due /\ snapping' = Snapshot([index |-> i, term |-> termAt(n.rl, i)], {})
     \/ ~due /\ UNCHANGED snapping
  /\ UNCHANGED <<writer, store, install, leader, log, acked, stops>>

trailingLogs == IF Threshold > 0 THEN Min({Trailing, Threshold - 1}) ELSE Trailing

(* Another goroutine writes the snapshot. *)
writeSnapshot ==
  /\ snapping.phase = "writing"
  /\ store' = [store EXCEPT !.snap = snapping.meta]
  /\ snapping' = [snapping EXCEPT !.phase = "saved"]
  /\ UNCHANGED <<node, writer, install, leader, log, acked, stops>>

(* The log is cut behind the snapshot, less a tail, and then rebased. *)
handleSnapshotResult ==
  LET meta == snapping.meta
      keepFrom == IF trailingLogs >= meta.index + 1 THEN 1 ELSE meta.index + 1 - trailingLogs
      rl == [truncatePrefix(node.rl, keepFrom) EXCEPT !.snap = meta] IN
  /\ Running /\ snapping.phase = "saved"
  /\ turn([node EXCEPT !.rl = rl], {})
  /\ snapping' = Nothing
  /\ UNCHANGED <<store, install, leader, log, stops>>

(* The last chunk of a snapshot of the leader's first `index' entries: one *)
(* that is not news is answered, any other is written before it is.        *)
handleInstallSnapshot ==
  LET n == becomeFollower(node, leader.term) IN
  /\ Running /\ Installs /\ install = Nothing
  /\ \E index \in 1..leader.commit :
       LET ack == [term |-> leader.term, log |-> SubSeq(leader.log, 1, index)] IN
       \/ /\ index <= node.lastApplied
          /\ reply(n, sendGate(n, 0), ack)
          /\ UNCHANGED install
       \/ /\ index > node.lastApplied
          /\ install' = Snapshot([index |-> index, term |-> leader.log[index]], {ack})
          /\ turn(n, {})
  /\ UNCHANGED <<store, snapping, leader, log, stops>>

runSnapshotInstall ==
  /\ install.phase = "writing"
  /\ store' = [store EXCEPT !.snap = install.meta]
  /\ install' = [install EXCEPT !.phase = "written"]
  /\ UNCHANGED <<node, writer, snapping, leader, log, acked, stops>>

(* It is read back: a different one there is an error, and the end of it. *)
loadInstalled ==
  /\ install.phase = "written"
  /\ install' = IF store.snap.index = install.meta.index
                THEN [install EXCEPT !.phase = "saved"] ELSE Nothing
  /\ UNCHANGED <<node, writer, store, snapping, leader, log, acked, stops>>

(* The leader is answered; then the log, the commit index and what counts  *)
(* as applied move to the snapshot, unless they are past it.               *)
handleSnapInstallResult ==
  LET meta == install.meta
      stale == meta.index <= node.lastApplied
      based == [node EXCEPT !.rl = installSnapshot(@, meta), !.lastApplied = meta.index]
      n == IF stale THEN node ELSE setCommitIndex(based, meta.index)
      seq == sendGate(node, 0)
      agrees == meta.index <= Len(log) /\ log[meta.index] = meta.term
      ack == CHOOSE a \in install.ack : TRUE IN
  /\ Running /\ install.phase = "saved"
  /\ reply(n, seq, ack)
  /\ log' = IF stale \/ agrees THEN log ELSE ack.log
  /\ install' = Nothing
  /\ UNCHANGED <<store, snapping, leader, stops>>

-----------------------------------------------------------------------------
(* The rest of the group. *)

(* A new leader has every committed entry, and adds its no-op. *)
newLeader ==
  /\ leader.term < MaxTerm
  /\ node.rl.nextSeq < MaxWrites
  /\ \E old \in {leader.log, log}, k \in leader.commit..MaxLog - 1 :
       /\ k <= Len(old) /\ IsPrefix(SubSeq(leader.log, 1, leader.commit), old)
       /\ leader' = [leader EXCEPT !.term = @ + 1,
                                   !.log = Append(SubSeq(old, 1, k), leader.term + 1)]
  /\ UNCHANGED <<node, writer, store, snapping, install, log, acked, stops>>

leaderAppends ==
  /\ leader.term > 0 /\ Len(leader.log) < MaxLog
  /\ leader' = [leader EXCEPT !.log = Append(@, leader.term)]
  /\ UNCHANGED <<node, writer, store, snapping, install, log, acked, stops>>

(* The leader commits entries of its own term, and the others with them. *)
leaderCommits ==
  /\ \E k \in leader.commit+1..Len(leader.log) :
       leader.log[k] = leader.term /\ leader' = [leader EXCEPT !.commit = k]
  /\ UNCHANGED <<node, writer, store, snapping, install, log, acked, stops>>

-----------------------------------------------------------------------------
(* Crashes, stops and restarts. *)

(* The log a node finds in storage s.  What a snapshot stands for is       *)
(* committed.                                                              *)
Recovered(s) ==
  [i \in 1..lastLogIndex(newRaftLog(s)) |->
     IF i < FirstIndex(s.entries) \/ s.entries = <<>> THEN leader.log[i]
     ELSE s.entries[i - FirstIndex(s.entries) + 1].term]

start(s) ==
  /\ stops < MaxStops
  /\ stops' = stops + 1
  /\ store' = s
  /\ node' = New(s)
  /\ log' = Recovered(s)
  /\ writer' = Idle
  /\ snapping' = Nothing /\ install' = Nothing
  /\ UNCHANGED leader

(* A crash cuts the run being written anywhere. *)
Crash ==
  /\ \E k \in 0..Len(writer.batch) : start(performAll(store, SubSeq(writer.batch, 1, k)))
  /\ UNCHANGED acked

(* Stop closes the writer, which carries on until its queue is empty. *)
Stop ==
  /\ Running /\ stops < MaxStops
  /\ writer' = [writer EXCEPT !.closed = TRUE, !.wake = TRUE]
  /\ UNCHANGED <<node, store, snapping, install, leader, log, acked, stops>>

(* The event loop then releases what was completed and fails the rest. *)
drain ==
  /\ writer.pc = "exited"
  /\ acked' = acked \cup released(node, writer.done)
  /\ node' = [node EXCEPT !.deferredWrites = {}]
  /\ writer' = [writer EXCEPT !.pc = "stopped", !.done = <<>>]
  /\ UNCHANGED <<store, snapping, install, leader, log, stops>>

Restart == writer.pc = "stopped" /\ start(store) /\ UNCHANGED acked

-----------------------------------------------------------------------------
Init ==
  /\ store = EmptyStore
  /\ node = New(EmptyStore)
  /\ writer = Idle
  /\ snapping = Nothing /\ install = Nothing
  /\ leader = [term |-> 0, log |-> <<>>, commit |-> 0]
  /\ log = <<>> /\ acked = {} /\ stops = 0

Next ==
  \/ newLeader \/ leaderAppends \/ leaderCommits
  \/ handleAppendEntries
  \/ take \/ awaken \/ execute \/ handleWriteCompletions
  \/ handleApplyResult \/ writeSnapshot \/ handleSnapshotResult
  \/ handleInstallSnapshot \/ runSnapshotInstall \/ loadInstalled \/ handleSnapInstallResult
  \/ Crash \/ Stop \/ drain \/ Restart

Spec == Init /\ [][Next]_vars

(* The writer goroutine runs, and the event loop gets round to completions *)
(* and, once stopped, to its last turn.                                    *)
Fairness ==
  /\ WF_vars(take \/ awaken \/ execute)
  /\ WF_vars(handleWriteCompletions \/ drain)

FairSpec == Spec /\ Fairness

-----------------------------------------------------------------------------
(* Properties. *)

Entry == [index : 1..MaxLog, term : 1..MaxTerm]
Meta == [index : 0..MaxLog, term : 0..MaxTerm]
OpOK(op) ==
  /\ op.kind \in {"Append", "TruncateSuffix", "TruncatePrefix", "HardState", "CommitIndex"}
  /\ op.seq \in 1..MaxWrites /\ op.durableAfter \in 0..MaxLog
  /\ (op.kind = "Append") = (op.entries # <<>>)

(* The state of the event loop, the writer and storage has its type, and   *)
(* the sequence numbers of queued writes, of the segments and of what      *)
(* waits lie between what has completed and what was handed out.           *)
TypeOK ==
  /\ node.currentTerm \in 0..MaxTerm /\ store.term \in 0..MaxTerm
  /\ node.rl.snap \in Meta /\ store.snap \in Meta
  /\ {node.commitIndex, node.lastApplied, node.rl.first, node.rl.last} \subseteq 0..MaxLog
  /\ \A i \in 1..Len(store.entries) : store.entries[i] \in Entry
  /\ \A op \in ToSet(writer.batch \o node.rl.queue) : OpOK(op)
  /\ writer.pc \in {"wait", "take", "execute", "exited", "stopped"}
  /\ node.completedWriteSeq <= node.rl.nextSeq /\ node.unsafeTermSeq <= node.rl.nextSeq
  /\ \A w \in node.deferredWrites : w.seq \in node.completedWriteSeq+1..node.rl.nextSeq
  /\ \A g \in ToSet(node.rl.segs) : g.seq \in 1..node.rl.nextSeq

(* What storage holds and will hold after each of the writes under way.    *)
(* After a failure there are no more.                                      *)
Queued == IF writer.failed THEN <<>> ELSE writer.batch \o node.rl.queue
RECURSIVE StoresFrom(_, _)
StoresFrom(s, ops) ==
  IF ops = <<>> THEN <<s>> ELSE <<s>> \o StoresFrom(perform(s, Head(ops)), Tail(ops))
Stores == StoresFrom(store, Queued)

(* Whether storage s holds the log's entry at index i. *)
Holds(s, l, i) ==
  \/ i <= s.snap.index
  \/ /\ s.entries # <<>> /\ i \in FirstIndex(s.entries)..LastIndex(s.entries)
     /\ s.entries[i - FirstIndex(s.entries) + 1] = [index |-> i, term |-> l[i]]

(* The cached ends of the log and its runs of terms (termAt, termRunStart, *)
(* lastIndexOfTerm, which never read storage) say what the log itself      *)
(* says, after any truncation, compaction or restart.                      *)
TermsAreTheLogs ==
  LET rl == node.rl
      held == IF rl.first = 0 THEN {} ELSE rl.first..rl.last IN
  /\ lastLogIndex(rl) = Len(log)
  /\ lastLogTerm(rl) = IF log = <<>> THEN 0 ELSE Last(log)
  /\ \A i \in held \cup ({rl.snap.index} \ {0}) : termAt(rl, i) = log[i]
  /\ \A i \in held : termRunStart(rl, i) = Min({j \in held : j <= i /\ \A k \in j..i : log[k] = log[i]})
  /\ \A i \in held : lastIndexOfTerm(rl, log[i]) = Max({j \in held : log[j] = log[i]})

(* Reading any range of the log gives the log, wherever the writer is: an  *)
(* entry comes from storage only if storage holds this one.                *)
EntriesAreTheLog ==
  LET rl == node.rl IN
  \A lo, hi \in IF rl.first = 0 THEN {} ELSE rl.first..rl.last :
    lo <= hi => entries(rl, store, lo, hi + 1) = Slice(log, lo - 1, hi - lo + 1)

(* Up to stableIndex storage holds the log, and none of the writes still   *)
(* queued will ever take that away.                                        *)
StableIsOnDisk ==
  /\ stableIndex(node.rl) <= Len(log)
  /\ \A s \in ToSet(Stores) : \A i \in 1..stableIndex(node.rl) :
       Holds(s, log, i) \/ node.rl.first = 0 \/ i < node.rl.first

(* Whatever the node has told a leader is on its disk: the term it spoke   *)
(* in and, for as long as it has not moved to a later term, the entries it *)
(* acknowledged.  A crash at any point leaves them there.                  *)
AckedIsDurable ==
  LET stores == ToSet(Stores) IN
  \A a \in acked :
    /\ a.term <= store.term
    /\ a.term = node.currentTerm =>
         \A s \in stores : \A i \in 1..Len(a.log) : Holds(s, a.log, i)

(* Every append the writer will ask for starts right after the last entry  *)
(* storage will then hold (the contract of Storage.AppendLogEntries), or   *)
(* in storage without entries leaves no gap behind the snapshot.           *)
AppendsAreContiguous ==
  LET stores == Stores IN
  \A k \in 1..Len(Queued) :
    LET before == stores[k]
        begins == FirstIndex(Queued[k].entries) IN
    Queued[k].kind = "Append" =>
      IF before.entries = <<>> THEN begins <= before.snap.index + 1
      ELSE begins = LastIndex(before.entries) + 1

(* What the apply loop is told to apply it reads from storage: the entry   *)
(* there is the committed one, not one of an abandoned history.            *)
AppliesTheCommitted ==
  \A i \in node.lastApplied+1..applicable(node) : Holds(store, leader.log, i)

(* The commit index a recovery finds on disk claims no entry that is not   *)
(* there or that was never committed.                                      *)
RecordedIsCommitted ==
  \A i \in 1..store.commit : i <= leader.commit /\ Holds(store, leader.log, i)

(* Nothing is called durable before it is: what the event loop counts as   *)
(* stable, and what it has acknowledged (stableIndex, writeSeqCovering,    *)
(* afterWrite).                                                            *)
DurableIsOnDisk == TypeOK /\ StableIsOnDisk /\ AckedIsDurable


(* Neither the apply loop nor the recorded commit index sees an entry that *)
(* is not committed and on disk (notifyApply, applicable, recordCommit).   *)
OnlyTheCommitted == AppliesTheCommitted /\ RecordedIsCommitted

(* A graceful stop loses nothing the node had accepted: it comes back with *)
(* the log and the term it went down with, unless storage failed.          *)
StopKeepsTheLog ==
  [][writer.pc = "stopped" /\ ~writer'.closed /\ ~writer.failed
       => log' = log /\ node'.currentTerm = node.currentTerm]_vars

(* Whatever waits for a write is answered: the writer does not go to sleep *)
(* on a queue, nor completions on the event loop.  (The bound on writes    *)
(* ends what can begin to wait.)                                           *)
WaitingIsAnswered == []<>(node.deferredWrites = {})

(* Without snapshots the node, its writer and its storage implement        *)
(* DurableLog: what the loop acts on is what storage will hold once every  *)
(* queued write is done, a crash leaves a state the node passed through,   *)
(* and an acknowledgement is true of the disk when it is sent.             *)
Image(s) == [term |-> s.term, log |-> [i \in 1..Len(s.entries) |-> s.entries[i].term]]
RECURSIVE Images(_)
Images(ss) == IF ss = <<>> THEN <<>> ELSE <<Image(Head(ss))>> \o Images(Tail(ss))
Durable == INSTANCE DurableLog WITH
  memory <- [term |-> node.currentTerm, log |-> log],
  disk <- Image(store),
  pending <- Images(Tail(Stores)),
  acked <- acked
ImplementsDurableLog == Durable!Spec
=============================================================================
