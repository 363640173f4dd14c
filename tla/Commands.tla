------------------------------ MODULE Commands ------------------------------
(***************************************************************************)
(* Commands on one node, from the proposal to the answer: handleProposals  *)
(* and handleApplyResult on the event loop (node_loop.go), the apply loop  *)
(* (node.go, apply_batch.go), the exactly-once table (client_dedup.go)     *)
(* and the snapshots that carry it (node_snapshot.go).                     *)
(*                                                                         *)
(* Two goroutines and the channels between them.  `ev' is the event loop's *)
(* state, `ap' the apply loop's with the state machine, `ch' the channels, *)
(* `disk' what a restart finds.  The log is durable here and its entries   *)
(* commit when the rest of the group says so: AsyncLog and Replication are *)
(* about how.                                                              *)
(*                                                                         *)
(* The state machine is the sequence of the commands it was given, and the *)
(* result of a command its place there, so applying a command twice, or in *)
(* another order, is a different state and a different answer.             *)
(***************************************************************************)
EXTENDS Integers, Sequences, SequencesExt, FiniteSetsExt

CONSTANT Situations     \* what a node may meet, by name

VARIABLES given, log, ev, ap, ch, disk, told, trouble
vars == <<given, log, ev, ap, ch, disk, told, trouble>>

(* `longest' bounds the log, `troubles' the elections, step-downs,         *)
(* installations and restarts.                                             *)
situation == Situations[given]

-----------------------------------------------------------------------------
(* Commands and log entries. *)

Noop == [op |-> "noop"]
Plain == [op |-> "plain"]
Once(client, seq) == [op |-> "once", client |-> client, seq |-> seq]
Cap(k) == [op |-> "cap", cap |-> k]
CommitQuorum == [op |-> "quorum"]

isConfigEntry(e) == e.op \in {"cap", "quorum"}
isDedupCmd(e) == e.op = "once"

(* Entries carry the index they were given. *)
At(e, i) == [cmd |-> e, index |-> i]

-----------------------------------------------------------------------------
(* clientLRU: the most recently written first; 0 is no bound. *)

Holds(table, client) == \E i \in DOMAIN table : table[i].client = client
get(table, client) == table[SelectInSeq(table, LAMBDA r : r.client = client)]

put(table, cap, r) ==
  LET t == <<r>> \o SelectSeq(table, LAMBDA x : x.client # r.client) IN
  IF cap > 0 /\ Len(t) > cap /\ ~Holds(table, r.client) THEN Front(t) ELSE t

setCap(table, cap) == IF cap > 0 /\ Len(table) > cap THEN SubSeq(table, 1, cap) ELSE table

(* records are in eviction order, and name a client once. *)
loadFrom(records, cap) == setCap(records, cap)

-----------------------------------------------------------------------------
(* The state machine, and what a run of entries does to the apply loop.    *)

(* A command of an unlucky client fails on an empty state machine: an      *)
(* outcome that every replica agrees on.                                   *)
Rejects(sm, cmd) == isDedupCmd(cmd) /\ cmd.client \in situation.unlucky /\ sm = <<>>

Apply(sm, cmd) ==
  IF Rejects(sm, cmd) THEN [sm |-> sm, err |-> TRUE, val |-> 0]
  ELSE [sm |-> Append(sm, cmd), err |-> FALSE, val |-> Len(sm) + 1]

Result(e, err, val) == [index |-> e.index, cmd |-> e.cmd, err |-> err, val |-> val]

(* applyPending: the run of entries `pending' is applied, in order; then   *)
(* each result is recorded and sent.                                       *)
RECURSIVE applyPending(_, _)
applyPending(a, pending) ==
  IF pending = <<>> THEN a
  ELSE LET e == Head(pending)
           out == Apply(a.sm, e.cmd) IN
       applyPending([a EXCEPT !.sm = out.sm, !.last = e.index,
                              !.out = Append(@, Result(e, out.err, out.val)),
                              !.table = IF isDedupCmd(e.cmd) /\ ~out.err
                                        THEN put(@, a.cap, [client |-> e.cmd.client,
                                                            seq |-> e.cmd.seq, res |-> out.val])
                                        ELSE @],
                    Tail(pending))

answerHere(a, e, val) ==
  [a EXCEPT !.last = e.index, !.out = Append(@, Result(e, FALSE, val))]

(* The entries fetched, one after the other.  A configuration entry, and a *)
(* duplicate whose answer is known, end the run that is pending; anything  *)
(* else joins it, and the table is not written until the run is applied.   *)
RECURSIVE applyToSet(_, _, _)
applyToSet(a, pending, entries) ==
  IF entries = <<>> THEN applyPending(a, pending)
  ELSE LET e == Head(entries)
           rest == Tail(entries)
           flushed == applyPending(a, pending) IN
       IF isConfigEntry(e.cmd)
       THEN LET k == IF e.cmd.op = "cap" THEN e.cmd.cap ELSE flushed.cap IN
            applyToSet(answerHere([flushed EXCEPT !.cap = k, !.table = setCap(@, k)], e, 0),
                       <<>>, rest)
       ELSE IF /\ isDedupCmd(e.cmd) /\ Holds(a.table, e.cmd.client)
               /\ get(a.table, e.cmd.client).seq = e.cmd.seq
       THEN applyToSet(answerHere(flushed, e, get(a.table, e.cmd.client).res), <<>>, rest)
       ELSE applyToSet(a, Append(pending, e), rest)

(* What entries l[lo..hi] make of it, applied one at a time. *)
RECURSIVE replayFrom(_, _, _)
replayFrom(a, l, hi) ==
  IF a.last >= hi THEN a ELSE replayFrom(applyToSet(a, <<>>, <<l[a.last + 1]>>), l, hi)

Fresh(cap) == [sm |-> <<>>, table |-> <<>>, cap |-> cap, last |-> 0, out |-> <<>>]
Replay(l, hi) == replayFrom(Fresh(situation.cap), l, hi)

-----------------------------------------------------------------------------
(* The event loop. *)

(* Mutant of notified: what the apply loop has not read yet is kept. *)
keepNotice(index) == IF ch.notify # 0 THEN ch.notify ELSE index

(* notifyApply: the channel holds one index, the latest. *)
notified(index) == IF index = 0 THEN ch.notify ELSE index

Answer(p, kind, val) == [cmd |-> p, kind |-> kind, val |-> val]

(* handleProposals, one proposal after the other.  st holds the event      *)
(* loop's state, the entries to append and the answers given; `room' is    *)
(* how many commands the backlog of unwritten entries still takes.         *)
consider(st, p, room) ==
  LET e == st.ev
      idx == Len(log) + Len(st.entries) + 1
      refuse(kind) == [st EXCEPT !.told = @ \cup {Answer(p, kind, 0)}]
      cached == get(e.table, p.client) IN
  IF isConfigEntry(p) /\ e.pendingConfig # 0 THEN refuse("busy")
  ELSE IF isDedupCmd(p) /\ Holds(e.table, p.client) /\ p.seq < cached.seq THEN refuse("obsolete")
  ELSE IF isDedupCmd(p) /\ Holds(e.table, p.client) /\ p.seq = cached.seq
       THEN [st EXCEPT !.told = @ \cup {Answer(p, "ok", cached.res)}]
  ELSE IF st.taken >= room THEN refuse("full")
  ELSE [st EXCEPT !.entries = Append(@, At(p, idx)), !.taken = @ + 1,
                  !.ev.pending = @ \cup {[index |-> idx, cmd |-> p]},
                  !.ev.pendingConfig = IF isConfigEntry(p) THEN idx ELSE @]

RECURSIVE considerAll(_, _, _)
considerAll(st, props, room) ==
  IF props = <<>> THEN st
  ELSE considerAll(consider(st, Head(props), room), Tail(props), room)

(* The bound of the table goes ahead of the first command it records, and  *)
(* the configured commit quorum ahead of everything.  Each takes the index *)
(* after the last of the log.                                              *)
withCap(st, props) ==
  LET idx == Len(log) + 1 IN
  IF ~ev.replicated /\ ev.capPending = 0 /\ \E i \in DOMAIN props : isDedupCmd(props[i])
  THEN [st EXCEPT !.entries = Append(@, At(Cap(situation.cap), idx)),
                  !.ev.capPending = idx, !.ev.replicated = TRUE]
  ELSE st

withQuorum(st) ==
  LET idx == Len(log) + 1 IN
  IF situation.quorum /\ ~ev.quorumAgreed /\ ~ev.quorumLatest /\ ev.quorumPending = 0 /\ ev.pendingConfig = 0
  THEN [st EXCEPT !.entries = Append(@, At(CommitQuorum, idx)),
                  !.ev.quorumPending = idx, !.ev.pendingConfig = idx, !.ev.quorumLatest = TRUE]
  ELSE st

(* noteAppendedConfig *)
noteAppendedConfig(e, entries) ==
  [e EXCEPT !.replicated = @ \/ \E i \in DOMAIN entries : entries[i].cmd.op = "cap",
            !.quorumLatest = @ \/ \E i \in DOMAIN entries : entries[i].cmd.op = "quorum"]

(* What clients ask.  A client numbers its commands in order.  It repeats  *)
(* one that the leader remembers, or `early': that another leader may have *)
(* in its log, and that the leader it asks has not yet applied.            *)
New(p) == ~isDedupCmd(p) \/ situation.early \/
  \A e \in ToSet(log) : isDedupCmd(e.cmd) /\ e.cmd.client = p.client => e.cmd.seq < p.seq
Remembered(p) == /\ isDedupCmd(p) /\ Holds(ev.table, p.client)
                 /\ get(ev.table, p.client).seq >= p.seq

Proposals ==
  {Plain} \cup {Cap(k) : k \in situation.resize}
  \cup {Once(k, s) : k \in situation.clients, s \in 1..situation.seqs}

Batches == UNION {[1..k -> {p \in Proposals : New(p) \/ Remembered(p)}] : k \in 1..situation.batch}

(* A batch with a command twice is one client asking twice at once. *)
Sensible(props) ==
  situation.early \/ \A i, j \in DOMAIN props :
    i < j /\ isDedupCmd(props[i]) /\ isDedupCmd(props[j]) /\ props[i].client = props[j].client
    => props[i].seq < props[j].seq

refuseAll(props) ==
  /\ ~ev.leader \/ situation.transfers
  /\ told' = told \cup {Answer(p, IF ev.leader THEN "transferring" ELSE "notLeader", 0) :
                          p \in ToSet(props)}
  /\ UNCHANGED <<log, ev>>

acceptSome(props, room) ==
  LET st == considerAll(withQuorum(withCap([ev |-> ev, entries |-> <<>>, taken |-> 0, told |-> {}],
                                           props)),
                        props, room) IN
  /\ ev.leader
  /\ Len(log) + Len(st.entries) <= situation.longest
  /\ log' = log \o st.entries
  /\ ev' = noteAppendedConfig(st.ev, st.entries)
  /\ told' = told \cup st.told

handleProposals ==
  /\ \E props \in Batches :
       /\ Sensible(props)
       /\ \/ refuseAll(props)
          \/ \E room \in situation.room : acceptSome(props, room)
  /\ UNCHANGED <<given, ap, ch, disk, trouble>>

(* adoptClientTableCap *)
adoptClientTableCap(e, k) ==
  [e EXCEPT !.cap = k, !.agreed = TRUE, !.replicated = TRUE, !.table = setCap(@, k)]

(* applyConfigChange, as far as it is not about members (Membership). *)
applyConfigChange(e, r) ==
  LET adopted == [e EXCEPT !.configIndex = r.index,
                           !.pendingConfig = IF @ = r.index THEN 0 ELSE @] IN
  IF r.cmd.op = "cap"
  THEN [adoptClientTableCap(adopted, r.cmd.cap) EXCEPT !.capPending = IF @ = r.index THEN 0 ELSE @]
  ELSE [adopted EXCEPT !.quorumLatest = TRUE, !.quorumAgreed = TRUE,
                        !.quorumPending = IF @ = r.index THEN 0 ELSE @]


(* Only a success is remembered, and never behind a later one. *)
recordOutcome(e, r) ==
  IF /\ isDedupCmd(r.cmd) /\ ~r.err
     /\ Holds(e.table, r.cmd.client) => get(e.table, r.cmd.client).seq <= r.cmd.seq
  THEN [e EXCEPT !.table = put(@, e.cap, [client |-> r.cmd.client, seq |-> r.cmd.seq, res |-> r.val])]
  ELSE e

(* maybeSnapshot: what is applied here by now is labelled with the index   *)
(* the event loop knows of, and goes with the event loop's table.  A       *)
(* semaphore shared with other groups may put it off.                      *)
due(e) == /\ situation.threshold > 0 /\ ~e.snapshotting
          /\ e.lastApplied >= e.base + situation.threshold

trigger(e) ==
  [index |-> e.lastApplied, table |-> e.table, cap |-> e.cap, hasCap |-> e.agreed,
   quorum |-> e.quorumAgreed /\ e.quorumLatest]

handleApplyResult ==
  /\ ch.results # <<>>
  /\ LET r == Head(ch.results)
         moved == [ev EXCEPT !.lastApplied = IF r.index > @ THEN r.index ELSE @]
         changed == IF isConfigEntry(r.cmd) /\ ~r.err THEN applyConfigChange(moved, r) ELSE moved
         done == [recordOutcome(changed, r) EXCEPT
                    !.pending = {p \in @ : p.index # r.index}] IN
     /\ told' = told \cup {Answer(p.cmd, IF r.err THEN "failed" ELSE "ok", r.val) :
                             p \in {q \in ev.pending : q.index = r.index}}
     /\ \/ /\ due(done)
           /\ ev' = [done EXCEPT !.snapshotting = TRUE]
           /\ ch' = [ch EXCEPT !.results = Tail(@), !.trigger = <<trigger(done)>>]
        \/ /\ ~due(done) \/ situation.throttled
           /\ ev' = done
           /\ ch' = [ch EXCEPT !.results = Tail(@)]
  /\ UNCHANGED <<given, log, ap, disk, trouble>>


(* The log prefix goes, less a tail, and the snapshot is the new base; or  *)
(* the snapshot failed (0) and nothing changes.                            *)
handleSnapshotResult ==
  /\ ch.saved # <<>>
  /\ LET index == ch.saved[1]
         keepFrom == index + 1 - situation.trailing IN
     IF index = 0 THEN ev' = [ev EXCEPT !.snapshotting = FALSE] /\ UNCHANGED disk
     ELSE /\ disk' = [disk EXCEPT !.first = Max({keepFrom, @})]
          /\ ev' = [ev EXCEPT !.snapshotting = FALSE, !.base = index]
  /\ ch' = [ch EXCEPT !.saved = <<>>]
  /\ UNCHANGED <<given, log, ap, told, trouble>>

-----------------------------------------------------------------------------
(* The rest of the group: elections, commitment, other leaders.            *)

Troubled == /\ trouble < situation.troubles
            /\ trouble' = trouble + 1

(* Mutant of drained: proposals outlive the leadership. *)
keepPending(e) == [e EXCEPT !.leader = FALSE, !.pendingConfig = 0,
                            !.capPending = 0, !.quorumPending = 0]

(* applyFollowerTransition *)
drained(e) == [e EXCEPT !.leader = FALSE, !.pendingConfig = 0, !.capPending = 0,
                        !.quorumPending = 0, !.pending = {}]

stepDown ==
  /\ ev.leader
  /\ Troubled
  /\ ev' = drained(ev)
  /\ told' = told \cup {Answer(p.cmd, "notLeader", 0) : p \in ev.pending}
  /\ UNCHANGED <<given, log, ap, ch, disk>>

becomeLeader ==
  /\ ~ev.leader /\ Len(log) < situation.longest
  /\ Troubled
  /\ log' = Append(log, At(Noop, Len(log) + 1))
  /\ ev' = [ev EXCEPT !.leader = TRUE]
  /\ UNCHANGED <<given, ap, ch, disk, told>>

Settled == disk.settled

(* Every entry the table records comes after one that bounds the table. *)
BoundComesFirst(l) ==
  \A i \in DOMAIN l : isDedupCmd(l[i].cmd) => \E j \in 1..i-1 : l[j].cmd.op = "cap"

(* rebuildMembership, as far as it is not about members: from the snapshot *)
(* and the configuration entries of the log behind it.                     *)
rebuilt(e, l, snap, first) ==
  LET there == {i \in first..Len(l) : isConfigEntry(l[i].cmd)} IN
  [e EXCEPT !.configIndex = Max({snap.index} \cup there),
            !.replicated = snap.hasCap \/ \E i \in there : l[i].cmd.op = "cap",
            !.quorumLatest = snap.quorum \/ \E i \in there : l[i].cmd.op = "quorum"]

(* The membership is recomputed when the entry it came from is discarded. *)
afterTruncation(e, l, from) ==
  IF e.configIndex >= from THEN rebuilt(e, l, disk.snap, disk.first) ELSE e

(* handleAppendEntries with entries of another leader, which has what is   *)
(* settled and has bounded the table before using it.                      *)
handleAppendEntries ==
  /\ ~ev.leader
  /\ Troubled
  /\ \E k \in Settled..Len(log),
        cmds \in {<<Noop>>} \cup {<<p>> : p \in {q \in Proposals : New(q)}}
                 \cup {<<Cap(situation.cap), p>> : p \in {q \in Proposals : New(q)}} :
       LET entries == [i \in DOMAIN cmds |-> At(cmds[i], k + i)]
           kept == SubSeq(log, 1, k) IN
       /\ k + Len(entries) <= situation.longest
       /\ BoundComesFirst(kept \o entries)
       /\ situation.discards \/ \A i \in k+1..Len(log) : ~isConfigEntry(log[i].cmd)
       /\ log' = kept \o entries
       /\ ev' = noteAppendedConfig(IF k < Len(log) THEN afterTruncation(ev, kept, k + 1) ELSE ev,
                                   entries)
  /\ UNCHANGED <<given, ap, ch, disk, told>>

(* The commit index moves.  Where `situation.slow', one entry at a time    *)
(* and only when the last has been applied and reported.                   *)
Quiet == ap.pc = "top" /\ ch.notify = 0 /\ ch.results = <<>> /\ ch.trigger = <<>>

setCommitIndex ==
  /\ \E k \in ev.commit+1..Len(log) :
       /\ situation.slow => Quiet /\ k = 1 + Max({ev.commit, ev.lastApplied})
       /\ ev' = [ev EXCEPT !.commit = k]
       /\ ch' = [ch EXCEPT !.notify = notified(k)]
       /\ disk' = [disk EXCEPT !.settled = Max({k, @})]
  /\ UNCHANGED <<given, log, ap, told, trouble>>

-----------------------------------------------------------------------------
(* The apply loop. *)

(* Nothing to restore: wait for work.  A restore that arrives after this   *)
(* look competes with a commit index (`situation.races').                  *)
lookForRestore ==
  /\ ap.pc = "top" /\ ch.restore = <<>>
  /\ ap' = [ap EXCEPT !.pc = "wait"]
  /\ UNCHANGED <<given, log, ev, ch, disk, told, trouble>>

takeCommitIndex ==
  /\ ap.pc = "wait" /\ ch.notify # 0
  /\ situation.races \/ ch.restore = <<>>
  /\ ap' = [ap EXCEPT !.pc = IF ch.notify > ap.last THEN "run" ELSE "top", !.upTo = ch.notify]
  /\ ch' = [ch EXCEPT !.notify = 0]
  /\ UNCHANGED <<given, log, ev, disk, told, trouble>>

(* The range is read from storage.  What is no longer there is reported    *)
(* as an error and passed over; the rest is applied after it.              *)
Missing(i) == [index |-> i, cmd |-> Noop, err |-> TRUE, val |-> 0]

applyCommitted ==
  LET gone == SetToSortSeq({i \in ap.last+1..ap.upTo : i < disk.first}, <)
      skipped == [ap EXCEPT !.out = [i \in DOMAIN gone |-> Missing(gone[i])],
                            !.last = IF gone = <<>> THEN @ ELSE Last(gone)]
      done == applyToSet(skipped, <<>>, SubSeq(log, skipped.last + 1, ap.upTo)) IN
  /\ ap.pc = "run"
  /\ ch' = [ch EXCEPT !.results = @ \o done.out]
  /\ ap' = [done EXCEPT !.out = <<>>, !.pc = "top", !.upTo = 0]
  /\ UNCHANGED <<given, log, ev, disk, told, trouble>>

(* A state machine that is past the snapshot keeps what it has. *)
applyRestore(si) ==
  LET k == IF si.hasCap THEN si.cap ELSE ap.cap IN
  IF si.index <= ap.last THEN [ap EXCEPT !.pc = "top"]
  ELSE [ap EXCEPT !.pc = "top", !.sm = si.sm, !.last = si.index, !.cap = k,
                  !.table = loadFrom(si.table, k)]

restoreSnapshot ==
  /\ ap.pc \in {"top", "wait"} /\ ch.restore # <<>>
  /\ ap' = applyRestore(ch.restore[1])
  /\ ch' = [ch EXCEPT !.restore = <<>>]
  /\ UNCHANGED <<given, log, ev, disk, told, trouble>>

Image(trig) == [index |-> trig.index, sm |-> ap.sm, table |-> trig.table, cap |-> trig.cap,
                hasCap |-> trig.hasCap, quorum |-> trig.quorum]

(* A state machine that can be captured is written in the background. *)
takeTrigger ==
  /\ ap.pc = "wait" /\ ch.trigger # <<>>
  /\ ap' = [ap EXCEPT !.pc = "top"]
  /\ \/ /\ situation.capture
        /\ ch' = [ch EXCEPT !.trigger = <<>>, !.captured = <<Image(ch.trigger[1])>>]
        /\ UNCHANGED disk
     \/ /\ ~situation.capture
        /\ disk' = [disk EXCEPT !.snap = Image(ch.trigger[1])]
        /\ ch' = [ch EXCEPT !.trigger = <<>>, !.saved = <<ch.trigger[1].index>>]
  /\ UNCHANGED <<given, log, ev, told, trouble>>

writeSnapshot ==
  /\ ch.captured # <<>>
  /\ \/ /\ disk' = [disk EXCEPT !.snap = ch.captured[1]]
        /\ ch' = [ch EXCEPT !.captured = <<>>, !.saved = <<ch.captured[1].index>>]
     \/ /\ ch' = [ch EXCEPT !.captured = <<>>, !.saved = <<0>>]
        /\ UNCHANGED disk
  /\ UNCHANGED <<given, log, ev, ap, told, trouble>>

-----------------------------------------------------------------------------
(* A snapshot from the leader has been saved (handleSnapInstallResult),    *)
(* and a restart (New).                                                    *)

Exact(l, i) ==
  LET r == Replay(l, i)
      capped == \E j \in 1..i : l[j].cmd.op = "cap" IN
  [index |-> i, sm |-> r.sm, table |-> r.table, cap |-> r.cap, hasCap |-> capped,
   quorum |-> \E j \in 1..i : l[j].cmd.op = "quorum"]

handleSnapInstallResult ==
  /\ situation.installs /\ ~ev.leader /\ ch.captured = <<>> /\ ch.saved = <<>>
  /\ Troubled
  /\ \E l \in {log} \cup {Append(log, At(Noop, Len(log) + 1))} :
       \E s \in ev.lastApplied+1..Len(l) :
         LET si == Exact(l, s)
             capped == IF si.hasCap THEN adoptClientTableCap(ev, si.cap) ELSE ev IN
         /\ Len(l) <= situation.longest /\ BoundComesFirst(l)
         /\ situation.races \/ s > ev.commit
         /\ l # log => s = Len(l)
         /\ log' = l
         /\ disk' = [disk EXCEPT !.snap = si, !.first = s + 1,
                                 !.settled = Max({s, @})]
         /\ ev' = rebuilt([capped EXCEPT !.table = loadFrom(si.table, capped.cap), !.base = s,
                                         !.lastApplied = s,
                                         !.commit = Max({s, @}), !.quorumAgreed = TRUE],
                         l, si, s + 1)
         /\ ch' = [ch EXCEPT !.restore = <<si>>]
  /\ UNCHANGED <<given, ap, told>>

(* New.  A durable state machine keeps what it has applied; the tables     *)
(* come from the snapshot.                                                 *)
None == [index |-> 0, sm |-> <<>>, table |-> <<>>, cap |-> 0, hasCap |-> FALSE, quorum |-> FALSE]


(* The apply loop's table at the start. *)
seed(snap, k, restored) == IF restored THEN loadFrom(snap.table, k) ELSE <<>>

started(snap, sm, last, l) ==
  LET k == IF snap.hasCap THEN snap.cap ELSE situation.cap
      restored == last < snap.index
      base == IF restored THEN snap.index ELSE last IN
  /\ ev' = rebuilt([leader |-> FALSE, commit |-> 0, lastApplied |-> base,
                    table |-> loadFrom(snap.table, k), cap |-> k, agreed |-> snap.hasCap,
                    replicated |-> FALSE, quorumAgreed |-> snap.index > 0, quorumLatest |-> FALSE, capPending |-> 0,
                    quorumPending |-> 0, pendingConfig |-> 0, pending |-> {},
                    snapshotting |-> FALSE, base |-> snap.index, configIndex |-> 0],
                   l, snap, disk.first)
  /\ ap' = [sm |-> IF restored THEN snap.sm ELSE sm, cap |-> k, last |-> base, out |-> <<>>,
            table |-> seed(snap, k, restored), pc |-> "top", upTo |-> 0]

NoMessages == [notify |-> 0, results |-> <<>>, trigger |-> <<>>, captured |-> <<>>,
               saved |-> <<>>, restore |-> <<>>]

restart ==
  /\ situation.crashes
  /\ Troubled
  /\ \/ situation.durable /\ started(disk.snap, ap.sm, ap.last, log)
     \/ ~situation.durable /\ started(disk.snap, <<>>, 0, log)
  /\ ch' = NoMessages
  /\ UNCHANGED <<given, log, disk, told>>

-----------------------------------------------------------------------------
Init ==
  /\ given \in DOMAIN Situations
  /\ log = <<>> /\ told = {} /\ trouble = 0
  /\ disk = [snap |-> None, first |-> 1, settled |-> 0]
  /\ ev = [leader |-> FALSE, commit |-> 0, lastApplied |-> 0, table |-> <<>>,
           cap |-> situation.cap, agreed |-> FALSE, replicated |-> FALSE,
           quorumAgreed |-> FALSE, quorumLatest |-> FALSE, capPending |-> 0, quorumPending |-> 0, pendingConfig |-> 0,
           pending |-> {}, snapshotting |-> FALSE, base |-> 0, configIndex |-> 0]
  /\ ap = [sm |-> <<>>, cap |-> situation.cap, last |-> 0, out |-> <<>>, table |-> <<>>,
           pc |-> "top", upTo |-> 0]
  /\ ch = NoMessages

EventLoop == handleProposals \/ handleApplyResult \/ handleSnapshotResult
             \/ handleSnapInstallResult \/ handleAppendEntries \/ setCommitIndex
             \/ becomeLeader \/ stepDown
ApplyLoop == lookForRestore \/ takeCommitIndex \/ applyCommitted \/ restoreSnapshot \/ takeTrigger

Next == EventLoop \/ ApplyLoop \/ writeSnapshot \/ restart

Spec == Init /\ [][Next]_vars

-----------------------------------------------------------------------------
(* Properties. *)

(* Types.  Only a leader has proposals waiting, and a client has one place *)
(* in a table.                                                             *)
TypeOK ==
  /\ \A i \in DOMAIN log : log[i].index \in 1..situation.longest
  /\ ev.commit \in 0..Len(log) /\ ev.lastApplied \in 0..Len(log) /\ ap.last \in 0..Len(log)
  /\ ap.pc \in {"top", "wait", "run"} /\ ap.out = <<>>
  /\ \A t \in {ev.table, ap.table, disk.snap.table} :
       \A i, j \in DOMAIN t : t[i].client = t[j].client => i = j
  /\ \A p \in ev.pending : p.index \in 1..Len(log) /\ ev.leader
  /\ \A s \in {ch.trigger, ch.captured, ch.saved, ch.restore} : Len(s) <= 1

(* The entries passed over are those a snapshot still to be restored has. *)
Restoring == ch.restore # <<>> /\ ch.restore[1].index > ap.last


Count(sm, cmd) == Cardinality({i \in DOMAIN sm : sm[i] = cmd})


(* The two tables, of the event loop and of the apply loop, hold the same  *)
(* whenever the one has heard all of the other (applyLoop: "updated from   *)
(* the same sequence of entries, so the two hold the same contents").      *)
TablesAgree ==
  /\ ch.results = <<>> /\ ch.restore = <<>> /\ ~situation.durable
  => ev.table = ap.table /\ (ev.agreed => ev.cap = ap.cap)

(* A client is answered with the result of its own command, never with     *)
(* that of an entry that took its place in the log                         *)
(* (applyFollowerTransition drains the proposals for this).                *)
AnswersAreOwn ==
  situation.threshold = 0 =>
    \A a \in told : a.kind = "ok" /\ ~isConfigEntry(a.cmd) =>
      a.val > Len(ap.sm) \/ ap.sm[a.val] = a.cmd

(* The bound of the table is in the log before the first command the table *)
(* records (handleProposals), unless another leader discards the bound.    *)
BoundIsFirst == ~situation.discards => BoundComesFirst(log)


(* No committed entry and no proposal is left behind by a lost             *)
(* notification: the commit index the event loop knows of is on its way to *)
(* the apply loop or being applied, and the answer to every proposal that  *)
(* is applied is on its way back (notifyApply replaces what is unread).    *)
AnswersAreOnTheirWay ==
  /\ ev.commit > ap.last => \/ ch.notify = ev.commit
                            \/ ap.pc = "run" /\ ap.upTo = ev.commit
                            \/ Restoring
  /\ \A p \in ev.pending : p.index <= ap.last =>
       \E i \in DOMAIN ch.results : ch.results[i].index = p.index

-----------------------------------------------------------------------------
(* Statements that do not hold of the code, see the README. *)

(* A snapshot's state is the state at its index (snapshotTrigger:          *)
(* "consistent with the SM state at meta.LastIncludedIndex").              *)
SnapshotIsItsIndex == disk.snap.sm = Replay(log, disk.snap.index).sm

(* With a table that forgets nobody, a numbered command is applied once.   *)
AppliedOnce ==
  \A i, j \in DOMAIN ap.sm : isDedupCmd(ap.sm[i]) /\ ap.sm[i] = ap.sm[j] => i = j

(* The entries of a batch have consecutive indices. *)
IndexesAreConsecutive == \A i \in DOMAIN log : log[i].index = i
=============================================================================
