------------------------------ MODULE SharedWAL ------------------------------
(***************************************************************************)
(* One write-ahead log for every group of a host (storage/sharedwal).      *)
(*                                                                         *)
(* Threads of the groups submit records to one syncer, which drains what   *)
(* waits, places each request whole in the active segment or a new one,    *)
(* writes, syncs, applies to memory and answers.  Opening the log replays  *)
(* the segments.  A truncated prefix is followed by a reclaim pass that    *)
(* rewrites what keeps an old segment alive and deletes what nothing needs.*)
(*                                                                         *)
(* A segment is a sequence of records, a record counts 1 towards its size  *)
(* and an entry 1 towards the rewrite threshold.  A kill keeps what was    *)
(* written; a power loss keeps of a segment the synced records and some of *)
(* the later ones, and may bring back a segment whose removal was not      *)
(* synced.  A snapshot file is one step: FileStore models that protocol.   *)
(***************************************************************************)
EXTENDS Integers, Sequences, FiniteSets, SequencesExt

CONSTANT Groups,        \* the groups of the host
         Situations     \* name |-> the operations, the faults and the bounds

VARIABLES wGiven,       \* the situation this behaviour is in
          wStatus,      \* "open", "closing", "failed", "down", "refused"
          wsegs,        \* WAL.segments: [seq, recs, safe, size, torn]
          limbo,        \* removed segments whose removal is not synced
          mem,          \* WAL.groups, and each segment's liveEntries and pins
          snapFiles,    \* the files under snap/
          queue,        \* WAL.writes
          batch,        \* what the syncer has in hand
          thr,          \* thread |-> what it waits for
          wLegal,       \* group |-> what may be read back
          wDone         \* operations and crashes, both bounded

wvars == <<wGiven, wStatus, wsegs, limbo, mem, snapFiles, queue, batch, thr, wLegal, wDone>>

WGiven == Situations[wGiven]

Threads == Groups \X {"log", "snap"}

\* Sequence numbers counted: more than a bounded behaviour uses.
MaxSegments == 16

NoHS == [term |-> 0]
NoSnap == [index |-> 0, term |-> 0]

(***************************************************************************)
(* Memory.  A location is a segment, a record of it and an entry of that.  *)
(* A location's segment is 0 for "none": sequence numbers start at 1.      *)
(***************************************************************************)
NewGroup == [known |-> FALSE, hs |-> NoHS, hsSeg |-> 0, first |-> 0, locs |-> <<>>,
             snap |-> NoSnap, snapSeg |-> 0, commit |-> 0, cmtSeg |-> 0]

\* born counts the groupStates made for an id; stale is the last one dropped, to which
\* a rewrite that began before still points.
EmptyMem == [groups |-> [g \in Groups |-> NewGroup], stale |-> [g \in Groups |-> NewGroup],
             born |-> [g \in Groups |-> 0],
             live |-> [q \in 1..MaxSegments |-> 0], pins |-> [q \in 1..MaxSegments |-> 0]]

last(G) == IF G.locs = <<>> THEN 0 ELSE G.first + Len(G.locs) - 1

\* WAL.group: the group's state, made when the log does not know the group.
group(m, g) ==
  IF m.groups[g].known THEN m
  ELSE [m EXCEPT !.groups[g].known = TRUE, !.born[g] = @ + 1]

HeldIn(locs, q) == Cardinality({i \in DOMAIN locs : locs[i].seg = q})

release(m, locs) == [m EXCEPT !.live = [q \in DOMAIN @ |-> @[q] - HeldIn(locs, q)]]

\* Mutant: the segment a newer record replaced stays pinned.
keepPin(m, q) == m

unpin(m, q) == IF q = 0 THEN m ELSE [m EXCEPT !.pins[q] = @ - 1]

pin(m, q) == [m EXCEPT !.pins[q] = @ + 1]

installHardState(m, g, q, hs) ==
  pin([unpin(m, m.groups[g].hsSeg) EXCEPT !.groups[g].hs = hs, !.groups[g].hsSeg = q], q)

installSnapshot(m, g, q, s) ==
  pin([unpin(m, m.groups[g].snapSeg) EXCEPT !.groups[g].snap = s, !.groups[g].snapSeg = q], q)

installCommit(m, g, q, i) ==
  LET G == m.groups[g] IN
  IF i <= G.commit /\ G.cmtSeg # 0 THEN m
  ELSE pin([unpin(m, G.cmtSeg) EXCEPT !.groups[g].commit = IF i > @ THEN i ELSE @,
                                      !.groups[g].cmtSeg = q], q)

dropSuffix(m, g, from) ==
  LET G == m.groups[g]
      keep == IF from <= G.first THEN 0 ELSE from - G.first
  IN IF G.locs = <<>> \/ from > last(G) THEN m
     ELSE [release(m, SubSeq(G.locs, keep + 1, Len(G.locs)))
             EXCEPT !.groups[g].locs = SubSeq(@, 1, keep)]

dropPrefix(m, g, to) ==
  LET G == m.groups[g]
      n == to - G.first
  IN IF G.locs = <<>> \/ to <= G.first THEN m
     ELSE IF to > last(G)
     THEN [release(m, G.locs) EXCEPT !.groups[g].locs = <<>>, !.groups[g].first = 0]
     ELSE [release(m, SubSeq(G.locs, 1, n))
             EXCEPT !.groups[g].locs = SubSeq(@, n + 1, Len(@)), !.groups[g].first = to]


installEntries(m, g, q, at, es) ==
  LET G == m.groups[g]
      anew == G.locs = <<>> \/ es[1].index < G.first
      cut == IF anew \/ es[1].index <= last(G) THEN dropSuffix(m, g, es[1].index) ELSE m
      locs == [k \in DOMAIN es |-> [seg |-> q, rec |-> at, k |-> k, term |-> es[k].term]]
  IN [cut EXCEPT !.groups[g].first = IF anew THEN es[1].index ELSE @,
                 !.groups[g].locs = (IF anew THEN <<>> ELSE @) \o locs,
                 !.live[q] = @ + Len(es)]

dropGroup(m, g) ==
  LET G == m.groups[g]
      m1 == unpin(unpin(unpin(release(m, G.locs), G.hsSeg), G.snapSeg), G.cmtSeg)
  IN [m1 EXCEPT !.groups[g] = NewGroup, !.stale[g] = G]

\* One record, when it has been synced and when it is read back.
replay(m0, q, at, r) ==
  LET m == group(m0, r.g) IN
  CASE r.kind = "entries" -> installEntries(m, r.g, q, at, r.entries)
    [] r.kind = "hs" -> installHardState(m, r.g, q, r.hs)
    [] r.kind = "suffix" -> dropSuffix(m, r.g, r.at)
    [] r.kind = "prefix" -> dropPrefix(m, r.g, r.at)
    [] r.kind = "snap" -> installSnapshot(m, r.g, q, r.snap)
    [] r.kind = "commit" -> installCommit(m, r.g, q, r.at)
    [] r.kind = "remove" -> dropGroup(m, r.g)

RECURSIVE ReplayFrom(_, _, _, _)
ReplayFrom(m, q, at, recs) ==
  IF recs = <<>> THEN m
  ELSE ReplayFrom(replay(m, q, at, Head(recs)), q, at + 1, Tail(recs))

\* What a copied segment's record of one group installs: only what is still the copied one.
copied(m, q, at, c) ==
  LET there == IF m.born[c.g] = c.born /\ m.groups[c.g].known THEN "groups" ELSE "stale"
      G == m[there][c.g]
      still == {p \in c.pinned : G[p] = c.seg}
      moved == [i \in DOMAIN G.locs |->
                  LET k == G.first + i - c.lo IN
                  IF /\ k \in DOMAIN c.entries
                     /\ G.locs[i].seg = c.seg
                     /\ G.locs[i].term = c.entries[k].term
                  THEN [seg |-> q, rec |-> at + Cardinality(c.pinned), k |-> k, term |-> G.locs[i].term]
                  ELSE G.locs[i]]
      n == HeldIn(G.locs, c.seg) - HeldIn(moved, c.seg)
      m1 == [m EXCEPT !.pins[c.seg] = @ - Cardinality(still),
                      !.live[c.seg] = @ - n,
                      ![there][c.g] = [p \in DOMAIN G |->
                         IF p \in still THEN q ELSE IF p = "locs" THEN moved ELSE G[p]]]
  IN [m1 EXCEPT !.pins[q] = @ + Cardinality(still), !.live[q] = @ + n]

(***************************************************************************)
(* Reading back.                                                           *)
(***************************************************************************)
SegAt(segments, q) == CHOOSE s \in Range(segments) : s.seq = q

Opened(segments, q) == \E s \in Range(segments) : s.seq = q

\* An entry whose segment is gone, or which is not the one its place says, is an error.
readRange(m, segments, g) ==
  LET G == m.groups[g]
      At(l) == SegAt(segments, l.seg).recs[l.rec].entries[l.k]
  IN IF \E i \in DOMAIN G.locs : \/ ~Opened(segments, G.locs[i].seg)
                                 \/ At(G.locs[i]).index # G.first + i - 1
     THEN <<[index |-> -1, term |-> 0]>>
     ELSE [i \in DOMAIN G.locs |-> At(G.locs[i])]

GroupLog(g) == readRange(mem, wsegs, g)

LoadSnapshot(g) ==
  IF mem.groups[g].snapSeg = 0 THEN NoSnap
  ELSE IF <<g, mem.groups[g].snap>> \in snapFiles THEN mem.groups[g].snap
  ELSE [index |-> -1, term |-> 0]

(***************************************************************************)
(* Threads and requests.                                                   *)
(***************************************************************************)
Running == wStatus \in {"open", "closing"}

\* A pass deleting segments holds WAL.mu.
Locked == \E t \in Threads : thr[t].pc = "deleting"

IdleThread == [pc |-> "idle", next |-> <<>>, segs |-> <<>>, works |-> <<>>, old |-> NoSnap]

\* A group's store is not in use while Remove takes the group away.
Free(t) ==
  /\ wStatus = "open" /\ thr[t].pc = "idle" /\ wDone.ops < WGiven.ops
  /\ "remove" \in WGiven.calls[t[1]] => thr[<<t[1], "log">>].pc = "idle"

\* A call of a group: its records are queued and what it may leave behind is noted.
submit(t, recs, pc, next) ==
  /\ queue' = Append(queue, [by |-> t, recs |-> recs, copy |-> <<>>])
  /\ thr' = [thr EXCEPT ![t] = [IdleThread EXCEPT !.pc = pc, !.next = next]]
  /\ wLegal' = [wLegal EXCEPT ![t[1]] = [p \in DOMAIN @ |->
                   IF p \in DOMAIN next THEN @[p] \cup {next[p]} ELSE @[p]]]
  /\ wDone' = [wDone EXCEPT !.ops = @ + 1]
  /\ UNCHANGED <<wGiven, wStatus, wsegs, limbo, mem, batch>>

Current(g) == mem.groups[g]

SaveHardState(g) ==
  /\ Free(<<g, "log">>) /\ "hs" \in WGiven.calls[g]
  /\ LET hs == [term |-> Current(g).hs.term + 1] IN
     submit(<<g, "log">>, <<[kind |-> "hs", g |-> g, hs |-> hs]>>, "saving", [hs |-> hs])
  /\ UNCHANGED snapFiles

\* SaveState: a hard state and the run of entries that came with it, synced together.
SaveState(g) ==
  /\ Free(<<g, "log">>) /\ "append" \in WGiven.calls[g]
  /\ LET G == Current(g)
         i == IF G.locs # <<>> THEN last(G) + 1 ELSE IF G.snap.index > 0 THEN G.snap.index + 1 ELSE 1
         e == [index |-> i, term |-> G.hs.term + 1]
         hs == [term |-> G.hs.term + 1]
     IN submit(<<g, "log">>, <<[kind |-> "hs", g |-> g, hs |-> hs],
                               [kind |-> "entries", g |-> g, entries |-> <<e>>]>>,
               "saving", [hs |-> hs, log |-> Append(GroupLog(g), e)])
  /\ UNCHANGED snapFiles

TruncateSuffix(g) ==
  /\ Free(<<g, "log">>) /\ "suffix" \in WGiven.calls[g]
  /\ \E from \in {GroupLog(g)[k].index : k \in DOMAIN GroupLog(g)} :
        submit(<<g, "log">>, <<[kind |-> "suffix", g |-> g, at |-> from]>>, "saving",
               [log |-> SelectSeq(GroupLog(g), LAMBDA e : e.index < from)])
  /\ UNCHANGED snapFiles

TruncatePrefix(g) ==
  /\ Free(<<g, "log">>) /\ "prefix" \in WGiven.calls[g]
  /\ \E to \in {GroupLog(g)[k].index + 1 : k \in DOMAIN GroupLog(g)} :
        submit(<<g, "log">>, <<[kind |-> "prefix", g |-> g, at |-> to]>>, "compacting",
               [log |-> SelectSeq(GroupLog(g), LAMBDA e : e.index >= to)])
  /\ UNCHANGED snapFiles

\* Queued, not waited for.
SaveCommitIndex(g) ==
  /\ Free(<<g, "log">>) /\ "commit" \in WGiven.calls[g]
  /\ LET i == Max(wLegal[g].commit) + 1 IN
     /\ queue' = Append(queue, [by |-> <<>>, recs |-> <<[kind |-> "commit", g |-> g, at |-> i]>>,
                                copy |-> <<>>])
     /\ wLegal' = [wLegal EXCEPT ![g].commit = @ \cup {i}]
  /\ wDone' = [wDone EXCEPT !.ops = @ + 1]
  /\ UNCHANGED <<wGiven, wStatus, wsegs, limbo, mem, snapFiles, batch, thr>>

\* The file first, then the record that makes it the group's snapshot.
SaveSnapshot(g) ==
  /\ Free(<<g, "snap">>) /\ "snap" \in WGiven.calls[g]
  /\ LET s == [index |-> LoadSnapshot(g).index + 1, term |-> 1] IN
     /\ snapFiles' = snapFiles \cup {<<g, s>>}
     /\ submit(<<g, "snap">>, <<[kind |-> "snap", g |-> g, snap |-> s]>>, "recording", [snap |-> s])

RemoveGroup(g) ==
  /\ Free(<<g, "log">>) /\ "remove" \in WGiven.calls[g]
  /\ thr[<<g, "snap">>].pc = "idle" /\ Current(g).known
  /\ submit(<<g, "log">>, <<[kind |-> "remove", g |-> g]>>, "removing",
            [hs |-> NoHS, log |-> <<>>, snap |-> NoSnap, commit |-> 0])
  /\ UNCHANGED snapFiles

(***************************************************************************)
(* The syncer.                                                             *)
(***************************************************************************)
NoBatch == [todo |-> <<>>, placed |-> <<>>, last |-> 0]

NewSegment(q) == [seq |-> q, recs |-> <<>>, safe |-> 0, size |-> 0, torn |-> FALSE]

createSegment(w) ==
  LET q == IF w.segs = <<>> THEN 1 ELSE Last(w.segs).seq + 1
  IN [w EXCEPT !.segs = Append(@, NewSegment(q))]

\* A rotation syncs the file it leaves, whose bytes of this batch are not written yet.
syncedSegment(s) == [s EXCEPT !.safe = Len(s.recs)]

RECURSIVE place(_, _)
place(w, reqs) ==
  IF reqs = <<>> THEN w
  ELSE LET r == Head(reqs)
           full == w.segs # <<>> /\ Last(w.segs).size > 0
                   /\ Last(w.segs).size + Len(r.recs) > WGiven.segmentSize
           left == IF full THEN [w EXCEPT !.segs[Len(w.segs)] = syncedSegment(@)] ELSE w
           w1 == IF w.segs = <<>> \/ full THEN createSegment(left) ELSE w
           s == Last(w1.segs)
       IN place([w1 EXCEPT !.segs[Len(w1.segs)].size = @ + Len(r.recs),
                           !.placed = Append(@, [req |-> r, seq |-> s.seq, at |-> s.size + 1])],
                Tail(reqs))

TakeBatch ==
  /\ Running /\ ~Locked /\ batch = NoBatch /\ queue # <<>>
  /\ LET w == place([segs |-> wsegs, placed |-> <<>>], queue) IN
     /\ wsegs' = w.segs
     /\ batch' = [todo |-> w.placed, placed |-> w.placed, last |-> 0]
  /\ queue' = <<>>
  /\ UNCHANGED <<wGiven, wStatus, limbo, mem, snapFiles, thr, wLegal, wDone>>

SyncSeq(segments, q) ==
  [i \in DOMAIN segments |-> IF segments[i].seq = q THEN syncedSegment(segments[i]) ELSE segments[i]]

WriteOne ==
  /\ Running /\ batch.todo # <<>>
  /\ LET p == Head(batch.todo)
         written == [i \in DOMAIN wsegs |-> IF wsegs[i].seq = p.seq
                       THEN [wsegs[i] EXCEPT !.recs = @ \o p.req.recs] ELSE wsegs[i]]
     IN /\ wsegs' = IF batch.last \notin {0, p.seq} THEN SyncSeq(written, batch.last) ELSE written
        /\ batch' = [batch EXCEPT !.todo = Tail(@), !.last = p.seq]
  /\ UNCHANGED <<wGiven, wStatus, limbo, mem, snapFiles, queue, thr, wLegal, wDone>>

SyncBatch ==
  /\ Running /\ batch.todo = <<>> /\ batch.last # 0
  /\ wsegs' = SyncSeq(wsegs, batch.last)
  /\ batch' = [batch EXCEPT !.last = 0]
  /\ UNCHANGED <<wGiven, wStatus, limbo, mem, snapFiles, queue, thr, wLegal, wDone>>

RECURSIVE applyAll(_, _)
applyAll(m, placed) ==
  IF placed = <<>> THEN m
  ELSE LET p == Head(placed) IN
       applyAll(IF p.req.copy = <<>> THEN ReplayFrom(m, p.seq, p.at, p.req.recs)
                ELSE copied(m, p.seq, p.at, p.req.copy), Tail(placed))

\* What a thread does next once its request is answered.
answered(T) ==
  CASE T.pc = "saving" -> IdleThread
    [] T.pc = "compacting" -> [IdleThread EXCEPT !.pc = "reclaim"]
    [] T.pc = "copying" -> [T EXCEPT !.pc = "rewriting"]
    [] T.pc \in {"recording", "removing"} -> [T EXCEPT !.pc = "replacing"]

ApplyBatch ==
  /\ Running /\ ~Locked /\ batch.placed # <<>> /\ batch.todo = <<>> /\ batch.last = 0
  /\ LET answers == {batch.placed[i].req.by : i \in DOMAIN batch.placed} \ {<<>>}
         Settles(g, p) == {t \in answers : t[1] = g /\ thr[t].pc # "copying" /\ p \in DOMAIN thr[t].next}
         old(t) == IF thr[t].pc \in {"recording", "removing"} THEN mem.groups[t[1]].snap ELSE NoSnap
     IN /\ mem' = applyAll(mem, batch.placed)
        /\ thr' = [t \in Threads |-> IF t \in answers
                     THEN answered([thr[t] EXCEPT !.old = old(t)]) ELSE thr[t]]
        /\ wLegal' = [g \in Groups |-> [p \in DOMAIN wLegal[g] |->
                        IF Settles(g, p) = {} THEN wLegal[g][p]
                        ELSE {thr[t].next[p] : t \in Settles(g, p)}]]
  /\ batch' = NoBatch
  /\ UNCHANGED <<wGiven, wStatus, wsegs, limbo, snapFiles, queue, wDone>>

\* A write or a sync fails: syncErr is set for good and every request is refused.
FailBatch ==
  /\ Running /\ "error" \in WGiven.faults
  /\ batch.todo # <<>> \/ batch.last # 0
  /\ wStatus' = "failed"
  /\ queue' = <<>> /\ batch' = NoBatch
  /\ thr' = [t \in Threads |-> IdleThread]
  /\ UNCHANGED <<wGiven, wsegs, limbo, mem, snapFiles, wLegal, wDone>>

\* The previous snapshot's file goes once the new record, or the removal, is durable.
ReplaceSnapshot(t) ==
  /\ Running /\ thr[t].pc = "replacing"
  /\ snapFiles' = IF thr[t].old = NoSnap \/ thr[t].old = thr[t].next.snap THEN snapFiles
                  ELSE snapFiles \ {<<t[1], thr[t].old>>}
  /\ thr' = [thr EXCEPT ![t] = IF t[2] = "snap" THEN IdleThread ELSE [IdleThread EXCEPT !.pc = "reclaim"]]
  /\ UNCHANGED <<wGiven, wStatus, wsegs, limbo, mem, queue, batch, wLegal, wDone>>

(***************************************************************************)
(* Reclaim.                                                                *)
(***************************************************************************)
reclaimable(m, q) == m.live[q] = 0 /\ m.pins[q] <= 0

\* A segment with more live entries than the threshold ends the list: "in order".
Kept(m, q) == m.live[q] > 0 /\ (WGiven.threshold = 0 \/ m.live[q] > WGiven.threshold)

rewriteList(m, qs) ==
  LET stop == {i \in DOMAIN qs : ~reclaimable(m, qs[i]) /\ Kept(m, qs[i])}
      upTo == IF stop = {} THEN Len(qs) ELSE Min(stop) - 1
  IN SelectSeq(SubSeq(qs, 1, upTo), LAMBDA q : ~reclaimable(m, q))

SeqsBut(segments) == [i \in 1..(Len(segments) - 1) |-> segments[i].seq]

StartReclaim(t) ==
  /\ Running /\ ~Locked /\ thr[t].pc = "reclaim"
  /\ thr' = [thr EXCEPT ![t].pc = "rewriting",
                        ![t].segs = IF wsegs = <<>> THEN <<>> ELSE rewriteList(mem, SeqsBut(wsegs))]
  /\ UNCHANGED <<wGiven, wStatus, wsegs, limbo, mem, snapFiles, queue, batch, wLegal, wDone>>

\* Everything of one group that keeps segment q: the whole tail from the first entry in it.
workOf(g, q) ==
  LET G == mem.groups[g]
      inside == {i \in DOMAIN G.locs : G.locs[i].seg = q}
  IN [g |-> g, seg |-> q, born |-> mem.born[g],
      pinned |-> {p \in {"hsSeg", "snapSeg", "cmtSeg"} : G[p] = q},
      hs |-> G.hs, snap |-> G.snap, commit |-> G.commit,
      lo |-> IF inside = {} THEN 0 ELSE G.first + Min(inside) - 1,
      hi |-> IF inside = {} THEN 0 ELSE last(G)]

\* rewriteSegment's first half, under the lock.
CollectWork(t) ==
  /\ Running /\ ~Locked /\ thr[t].pc = "rewriting" /\ thr[t].works = <<>> /\ thr[t].segs # <<>>
  /\ LET all == {workOf(g, Head(thr[t].segs)) : g \in {h \in Groups : mem.groups[h].known}}
     IN thr' = [thr EXCEPT ![t].segs = Tail(@),
                  ![t].works = SetToSeq({c \in all : c.pinned # {} \/ c.lo # 0})]
  /\ UNCHANGED <<wGiven, wStatus, wsegs, limbo, mem, snapFiles, queue, batch, wLegal, wDone>>

copyRecords(c, entries) ==
  (IF "hsSeg" \in c.pinned THEN <<[kind |-> "hs", g |-> c.g, hs |-> c.hs]>> ELSE <<>>)
  \o (IF "snapSeg" \in c.pinned THEN <<[kind |-> "snap", g |-> c.g, snap |-> c.snap]>> ELSE <<>>)
  \o (IF "cmtSeg" \in c.pinned THEN <<[kind |-> "commit", g |-> c.g, at |-> c.commit]>> ELSE <<>>)
  \o (IF entries # <<>> THEN <<[kind |-> "entries", g |-> c.g, entries |-> entries]>> ELSE <<>>)

\* Its second half: read the entries and submit, without the lock in between.
CopyWork(t) ==
  /\ Running /\ ~Locked /\ thr[t].pc = "rewriting" /\ thr[t].works # <<>>
  /\ LET c == Head(thr[t].works)
         G == mem.groups[c.g]
         fails == \/ wStatus = "closing"
                  \/ c.lo # 0 /\ (G.locs = <<>> \/ c.lo < G.first \/ c.hi > last(G))
         entries == IF c.lo = 0 THEN <<>>
                    ELSE SubSeq(GroupLog(c.g), c.lo - G.first + 1, c.hi - G.first + 1)
         copy == [k \in DOMAIN c \cup {"entries"} |-> IF k = "entries" THEN entries ELSE c[k]]
     IN IF fails
        THEN thr' = [thr EXCEPT ![t] = IdleThread] /\ UNCHANGED queue
        ELSE /\ thr' = [thr EXCEPT ![t].pc = "copying", ![t].works = Tail(@)]
             /\ queue' = Append(queue, [by |-> t, recs |-> copyRecords(c, entries), copy |-> copy])
  /\ UNCHANGED <<wGiven, wStatus, wsegs, limbo, mem, snapFiles, batch, wLegal, wDone>>

\* Every segment nothing needs goes, whatever lies before it.
StartDelete(t) ==
  /\ Running /\ ~Locked /\ thr[t].pc = "rewriting" /\ thr[t].works = <<>> /\ thr[t].segs = <<>>
  /\ LET victims == IF wsegs = <<>> THEN <<>>
                    ELSE SelectSeq(SeqsBut(wsegs), LAMBDA q : reclaimable(mem, q))
     IN thr' = [thr EXCEPT ![t] = IF victims = <<>> THEN IdleThread
                                  ELSE [IdleThread EXCEPT !.pc = "deleting", !.segs = victims]]
  /\ UNCHANGED <<wGiven, wStatus, wsegs, limbo, mem, snapFiles, queue, batch, wLegal, wDone>>

\* The names go one by one; the directory is synced once, after the last.
DeleteOne(t) ==
  /\ Running /\ thr[t].pc = "deleting" /\ thr[t].segs # <<>>
  /\ LET q == Head(thr[t].segs) IN
     /\ wsegs' = SelectSeq(wsegs, LAMBDA s : s.seq # q)
     /\ limbo' = limbo \cup {SegAt(wsegs, q)}
  /\ thr' = [thr EXCEPT ![t].segs = Tail(@)]
  /\ UNCHANGED <<wGiven, wStatus, mem, snapFiles, queue, batch, wLegal, wDone>>

SyncDelete(t) ==
  /\ Running /\ thr[t].pc = "deleting" /\ thr[t].segs = <<>>
  /\ limbo' = {}
  /\ thr' = [thr EXCEPT ![t] = IdleThread]
  /\ UNCHANGED <<wGiven, wStatus, wsegs, mem, snapFiles, queue, batch, wLegal, wDone>>

(***************************************************************************)
(* Close, crashes and Open.                                                *)
(***************************************************************************)
Close ==
  /\ wStatus = "open" /\ wDone.crashes < WGiven.crashes /\ "close" \in WGiven.faults
  /\ wStatus' = "closing"
  /\ wDone' = [wDone EXCEPT !.crashes = @ + 1]
  /\ UNCHANGED <<wGiven, wsegs, limbo, mem, snapFiles, queue, batch, thr, wLegal>>

Lost == /\ mem' = EmptyMem
        /\ queue' = <<>>
        /\ batch' = NoBatch
        /\ thr' = [t \in Threads |-> IdleThread]

\* The syncer has drained everything that was accepted.
Closed ==
  /\ wStatus = "closing" /\ queue = <<>> /\ batch = NoBatch
  /\ wStatus' = "down"
  /\ wLegal' = [g \in Groups |-> [wLegal[g] EXCEPT !.commit = {Max(@)}]]
  /\ Lost
  /\ UNCHANGED <<wGiven, wsegs, limbo, snapFiles, wDone>>

\* The unsynced records of a segment a power loss may keep: some first ones, and past
\* them bytes that read as no record.
LeftOf(s) == {[s EXCEPT !.recs = SubSeq(s.recs, 1, n), !.safe = n, !.torn = torn] :
                n \in s.safe..Len(s.recs), torn \in BOOLEAN}

Left(s) == {x \in LeftOf(s) : x.torn => Len(x.recs) < Len(s.recs)}

RECURSIVE InOrder(_)
InOrder(set) ==
  IF set = {} THEN <<>>
  ELSE LET s == CHOOSE x \in set : \A y \in set : x.seq <= y.seq
       IN <<s>> \o InOrder(set \ {s})

RECURSIVE AfterPowerLoss(_)
AfterPowerLoss(segments) ==
  IF segments = <<>> THEN {<<>>}
  ELSE {<<s>> \o rest : s \in Left(Head(segments)), rest \in AfterPowerLoss(Tail(segments))}

\* Unless they are reordered, removals reach the disk in the order they were made.
LaterToo(back) == \A s \in back, r \in limbo : r.seq > s.seq => r \in back

AfterKill(s) == [s EXCEPT !.size = Len(s.recs)]

Crash ==
  /\ Running \/ wStatus = "failed"
  /\ wDone.crashes < WGiven.crashes
  /\ \/ /\ "kill" \in WGiven.faults
        /\ wsegs' = [i \in DOMAIN wsegs |-> AfterKill(wsegs[i])]
        /\ UNCHANGED limbo
     \/ /\ WGiven.faults \cap {"power", "reordered"} # {}
        /\ \E back \in {b \in SUBSET limbo : "reordered" \in WGiven.faults \/ LaterToo(b)} :
             wsegs' \in AfterPowerLoss(InOrder(Range(wsegs) \cup back))
        /\ limbo' = {}
  /\ wStatus' = "down"
  /\ wDone' = [wDone EXCEPT !.crashes = @ + 1]
  /\ Lost
  /\ UNCHANGED <<wGiven, snapFiles, wLegal>>

RECURSIVE recover(_, _)
recover(m, segments) ==
  IF segments = <<>> THEN m
  ELSE recover(ReplayFrom(m, Head(segments).seq, 1, Head(segments).recs), Tail(segments))

pruneSnapshotFiles(m) ==
  {f \in snapFiles : m.groups[f[1]].snapSeg # 0 /\ m.groups[f[1]].snap.index = f[2].index}

Open ==
  /\ wStatus = "down"
  /\ IF \E i \in 1..(Len(wsegs) - 1) : wsegs[i].torn
     THEN /\ wStatus' = "refused"
          /\ UNCHANGED <<wsegs, mem, snapFiles, wLegal>>
     ELSE LET m == recover(EmptyMem, wsegs)
              cut == [i \in DOMAIN wsegs |-> [wsegs[i] EXCEPT !.torn = FALSE, !.size = Len(wsegs[i].recs)]]
          IN /\ wStatus' = "open"
             /\ mem' = m
             /\ wsegs' = cut
             /\ snapFiles' = pruneSnapshotFiles(m)
             /\ wLegal' = [g \in Groups |-> [p \in DOMAIN wLegal[g] |->
                   CASE p = "hs" -> wLegal[g].hs \cap {m.groups[g].hs}
                     [] p = "log" -> wLegal[g].log \cap {readRange(m, cut, g)}
                     [] p = "snap" -> wLegal[g].snap \cap {m.groups[g].snap}
                     [] p = "commit" -> wLegal[g].commit \cap {m.groups[g].commit}]]
  /\ UNCHANGED <<wGiven, limbo, queue, batch, thr, wDone>>

WInit ==
  /\ wGiven \in DOMAIN Situations
  /\ wStatus = "open" /\ wsegs = <<>> /\ limbo = {} /\ mem = EmptyMem /\ snapFiles = {}
  /\ queue = <<>> /\ batch = NoBatch
  /\ thr = [t \in Threads |-> IdleThread]
  /\ wLegal = [g \in Groups |-> [hs |-> {NoHS}, log |-> {<<>>}, snap |-> {NoSnap}, commit |-> {0}]]
  /\ wDone = [ops |-> 0, crashes |-> 0]

Call(g) ==
  \/ SaveHardState(g) \/ SaveState(g) \/ TruncateSuffix(g) \/ TruncatePrefix(g)
  \/ SaveCommitIndex(g) \/ SaveSnapshot(g) \/ RemoveGroup(g)

Reclaim(t) ==
  \/ ReplaceSnapshot(t) \/ StartReclaim(t) \/ CollectWork(t) \/ CopyWork(t)
  \/ StartDelete(t) \/ DeleteOne(t) \/ SyncDelete(t)

WNext ==
  \/ \E g \in Groups : Call(g)
  \/ \E t \in Threads : Reclaim(t)
  \/ TakeBatch \/ WriteOne \/ SyncBatch \/ ApplyBatch \/ FailBatch
  \/ Close \/ Closed \/ Crash \/ Open

WSpec == WInit /\ [][WNext]_wvars

(***************************************************************************)
(* Properties.                                                             *)
(***************************************************************************)
\* What group g reads back is what its own calls left there: after a crash, what was
\* answered, with or without the call in flight.
Keeps(p, g, value) == wStatus \in {"open", "failed"} => value \in wLegal[g][p]

\* A term or a vote a group was told is saved is never read back older: replaying the
\* segments ends at the last hard state installed (replay, rewriteSegment).
TermsSurvive == \A g \in Groups : Keeps("hs", g, mem.groups[g].hs)

\* No acknowledged entry is lost, no truncated or compacted one returns, and every entry
\* is read back at its own index, across rotations, rewrites, deletions and crashes.
EntriesSurvive == \A g \in Groups : Keeps("log", g, GroupLog(g))

\* The recorded snapshot is the last one saved, or the one being saved at the crash, and
\* its file is there (SaveSnapshot, pruneSnapshotFiles).
SnapshotsSurvive == \A g \in Groups : Keeps("snap", g, LoadSnapshot(g))

\* A commit index recorded without waiting was recorded once, and a clean Close keeps the
\* last one accepted.
CommitsSurvive == \A g \in Groups : Keeps("commit", g, mem.groups[g].commit)

\* A log only ever written by this code opens again: the torn tail a crash leaves is in the
\* last segment (recoverSegment).
OpensAgain == wStatus # "refused"

\* liveEntries and pins of a segment are the numbers of entries and of latest records that
\* point into it, so what reclaimable deletes nobody needs (release, unpin, rewriteSegment).
CountsAreExact ==
  wStatus = "open" => \A q \in 1..MaxSegments :
    /\ mem.live[q] = Cardinality({<<g, i>> \in Groups \X (1..WGiven.ops) :
                         i \in DOMAIN mem.groups[g].locs /\ mem.groups[g].locs[i].seg = q})
    /\ mem.pins[q] = Cardinality({<<g, p>> \in Groups \X {"hsSeg", "snapSeg", "cmtSeg"} :
                         mem.groups[g][p] = q})
==============================================================================
