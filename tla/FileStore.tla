------------------------------ MODULE FileStore ------------------------------
(***************************************************************************)
(* The file-backed store (storage/filestore): log segments with an index   *)
(* file each, the hard state in two slots, the snapshot, the commit index. *)
(*                                                                         *)
(* An operation is the list of system calls the code makes, carried out    *)
(* one per step, and a crash may fall between any two of them, those of    *)
(* recovery included.  Two faults: a kill keeps every call made so far; a  *)
(* power loss keeps of each file any mixture of what was last synced and   *)
(* what was written since, and of the directory the synced names with some *)
(* of the creations, renames and removals since.                           *)
(*                                                                         *)
(* A file is a sequence of cells: an entry, an offset, a slot, a snapshot. *)
(* Its checksum is what tells a whole cell from a torn one.                *)
(***************************************************************************)
EXTENDS Integers, Sequences, FiniteSets, SequencesExt

CONSTANT Situations     \* name |-> the operations, the faults and the bounds

VARIABLES fGiven,       \* the situation this behaviour is in
          disk,         \* names, the synced names and the calls since, files
          status,       \* "down", "open", or "refused": Open returned an error
          segs,         \* FileStore.segs
          hsSeq,        \* FileStore.hsSeq
          recorded,     \* FileStore.commitIdx
          doing,        \* thread |-> the calls still to make, and what follows
          fLegal,       \* what may be read back: logs, hard states, snapshots
          fDone         \* operations started and crashes, both bounded

fvars == <<fGiven, disk, status, segs, hsSeq, recorded, doing, fLegal, fDone>>

FGiven == Situations[fGiven]

Threads == {"log", "snap"}      \* raft.Storage: snapshots may overlap the rest
Torn == [torn |-> TRUE]
NoneSaved == [term |-> 0]       \* the zero HardState, and "no snapshot"

(***************************************************************************)
(* The file system.                                                        *)
(***************************************************************************)
LogName(q) == <<"log", q>>
IdxName(q) == <<"idx", q>>
LogTmp(q) == <<"log.tmp", q>>
IdxTmp(q) == <<"idx.tmp", q>>
Meta == <<"meta", 0>>
Commit == <<"commit", 0>>
Snap == <<"snap", 0>>
SnapTmp == <<"snap.tmp", 0>>

Exists(d, n) == n \in DOMAIN d.names

Content(d, n) == IF Exists(d, n) THEN d.files[d.names[n]].now ELSE <<>>

\* The directory after one creation, renaming or removal.
Named(names, c) ==
  CASE c.op = "create" -> [n \in DOMAIN names \cup {c.name} |->
                             IF n = c.name THEN c.file ELSE names[n]]
    [] c.op = "rename" -> [n \in (DOMAIN names \cup {c.to}) \ {c.name} |->
                             IF n = c.to THEN c.file ELSE names[n]]
    [] c.op = "remove" -> [n \in DOMAIN names \ {c.name} |-> names[n]]

Renaming(d, c) == [d EXCEPT !.names = Named(@, c), !.since = Append(@, c)]

Filled(d, n, cells) == [d EXCEPT !.files[d.names[n]].now = cells]

Put(cells, i, cell) ==
  [k \in 1..(IF i > Len(cells) THEN i ELSE Len(cells)) |->
     IF k = i THEN cell ELSE IF k <= Len(cells) THEN cells[k] ELSE Torn]

Call(d, c) ==
  CASE c.op = "create" ->
         IF Exists(d, c.name) THEN IF c.fresh THEN Filled(d, c.name, <<>>) ELSE d
         ELSE Renaming([d EXCEPT !.files = Append(@, [now |-> <<>>, safe |-> <<>>])],
                       [op |-> "create", name |-> c.name, file |-> Len(d.files) + 1])
    [] c.op = "rename" ->
         Renaming(d, [op |-> "rename", name |-> c.name, to |-> c.to,
                      file |-> d.names[c.name]])
    [] c.op = "remove" ->
         IF Exists(d, c.name) THEN Renaming(d, c) ELSE d
    [] c.op = "syncDir" -> [d EXCEPT !.synced = d.names, !.since = <<>>]
    [] c.op = "sync" -> [d EXCEPT !.files[d.names[c.name]].safe = Content(d, c.name)]
    [] c.op = "fill" -> Filled(d, c.name, c.cells)
    [] c.op = "truncate" ->
         IF c.len >= Len(Content(d, c.name)) THEN d
         ELSE Filled(d, c.name, SubSeq(Content(d, c.name), 1, c.len))
    [] c.op = "write" -> Filled(d, c.name, Put(Content(d, c.name), c.at, c.cell))

RECURSIVE Calls(_, _)
Calls(d, cs) == IF cs = <<>> THEN d ELSE Calls(Call(d, Head(cs)), Tail(cs))

create(n, fresh) == [op |-> "create", name |-> n, fresh |-> fresh]
rename(n, to) == [op |-> "rename", name |-> n, to |-> to]
remove(n) == [op |-> "remove", name |-> n]
syncDir == [op |-> "syncDir"]
sync(n) == [op |-> "sync", name |-> n]
fill(n, cells) == [op |-> "fill", name |-> n, cells |-> cells]
truncate(n, len) == [op |-> "truncate", name |-> n, len |-> len]
write(n, at, cell) == [op |-> "write", name |-> n, at |-> at, cell |-> cell]

syncSegment(q) == <<sync(LogName(q)), sync(IdxName(q))>>

\* What a power loss may leave of one file: a truncation happened or not; a write
\* leaves the cell it wrote, the one before it or a torn one, and any length on the way.
RECURSIVE Mixtures(_, _)
Mixtures(f, len) ==
  IF len = 0 THEN {<<>>}
  ELSE LET old == IF len <= Len(f.safe) THEN {f.safe[len]} ELSE {}
           new == IF len <= Len(f.now) THEN {f.now[len]} ELSE {}
           left == IF old = new THEN old ELSE old \cup new \cup {Torn}
       IN {Append(c, x) : c \in Mixtures(f, len - 1), x \in left}

AfterPowerLoss(f) ==
  IF Len(f.now) <= Len(f.safe) /\ IsPrefix(f.now, f.safe) THEN {f.now, f.safe}
  ELSE UNION {Mixtures(f, len) : len \in Len(f.safe)..Len(f.now)}

RECURSIVE FilesAfter(_)
FilesAfter(files) ==
  IF files = <<>> THEN {<<>>}
  ELSE {Append(fs, [now |-> c, safe |-> c]) :
          fs \in FilesAfter(Front(files)), c \in AfterPowerLoss(Last(files))}

\* The calls on the directory that survive: the earliest few on a file system that
\* keeps them in order, any of them on one that does not.
Survivors(since) ==
  IF FGiven.ordered THEN {SubSeq(since, 1, k) : k \in 0..Len(since)}
  ELSE {[k \in 1..Cardinality(S) |-> since[SetToSortSeq(S, <)[k]]] :
          S \in SUBSET (1..Len(since))}

AfterFault(d, fault) ==
  IF fault = "kill" THEN {d}
  ELSE {LET names == FoldLeft(Named, d.synced, kept)
            gone(i) == \A n \in DOMAIN names : names[n] # i
        IN [names |-> names, synced |-> names, since |-> <<>>,
            files |-> [i \in DOMAIN fs |->
                         IF gone(i) THEN [now |-> <<>>, safe |-> <<>>] ELSE fs[i]]] :
          kept \in Survivors(d.since), fs \in FilesAfter(d.files)}

(***************************************************************************)
(* Segments.  An entry is one cell of the log file; cell i of the index    *)
(* file is the offset of entry firstID + i - 1, and reads as 0 when it was *)
(* never written.                                                          *)
(***************************************************************************)
Slot(offset) == [offset |-> offset]

Offset(cell) == IF cell = Torn THEN 0 ELSE cell.offset

decodeEntryAt(cells, offset) ==
  IF offset + 1 \in DOMAIN cells THEN cells[offset + 1] ELSE Torn

EmptySeg(q) == [seq |-> q, first |-> 0, last |-> 0, size |-> 0, scan |-> FALSE]

openSegment(d, q) ==
  LET log == Content(d, LogName(q))
      idx == Content(d, IdxName(q))
      s == [EmptySeg(q) EXCEPT !.size = Len(log)]
      first == decodeEntryAt(log, Offset(idx[1]))
      last == decodeEntryAt(log, Offset(idx[Len(idx)]))
  IN IF idx = <<>> THEN s
     ELSE IF Torn \in {first, last} \/ last.index # first.index + Len(idx) - 1
          THEN [s EXCEPT !.scan = TRUE]
          ELSE [s EXCEPT !.first = first.index, !.last = last.index]

\* How many leading slots hold what they should.
validSlots(log, idx) ==
  {k \in 0..Len(idx) : \A i \in 1..k :
     /\ i > 1 => Offset(idx[i]) > Offset(idx[i - 1])
     /\ decodeEntryAt(log, Offset(idx[i])) # Torn
     /\ decodeEntryAt(log, Offset(idx[i])).index
          = decodeEntryAt(log, Offset(idx[1])).index + i - 1}

repairSegment(d, s) ==
  LET log == Content(d, LogName(s.seq))
      idx == Content(d, IdxName(s.seq))
      k == CHOOSE k \in validSlots(log, idx) : \A j \in validSlots(log, idx) : j <= k
      end == IF k = 0 THEN 0 ELSE Offset(idx[k]) + 1
      first == decodeEntryAt(log, Offset(idx[1])).index
  IN [calls |-> IF Len(idx) = k /\ Len(log) = end THEN <<>>
                ELSE <<truncate(LogName(s.seq), end), truncate(IdxName(s.seq), k)>>
                     \o syncSegment(s.seq),
      seg |-> IF k = 0 THEN EmptySeg(s.seq)
              ELSE [seq |-> s.seq, first |-> first, last |-> first + k - 1,
                    size |-> end, scan |-> FALSE]]

\* The segments kept: those that hold something, up to the first that does not
\* continue the one before it.
Full(ss) == SelectSeq(ss, LAMBDA s : s.first # 0)

Chained(ss) ==
  LET full == Full(ss)
      k == CHOOSE k \in 0..Len(full) :
             /\ \A i \in 2..k : full[i].first = full[i - 1].last + 1
             /\ k < Len(full) => k > 0 /\ full[k + 1].first # full[k].last + 1
  IN SubSeq(full, 1, k)

removeFiles(s) == <<remove(LogName(s.seq)), remove(IdxName(s.seq))>>

pruneSegments(ss) ==
  LET kept == Chained(ss)
      dropped == SelectSeq(ss, LAMBDA s : ~\E i \in DOMAIN kept : kept[i] = s)
  IN [segs |-> kept,
      calls |-> IF dropped = <<>> THEN <<>>
                ELSE FlattenSeq([i \in DOMAIN dropped |-> removeFiles(dropped[i])])
                     \o <<syncDir>>]

Repaired(d, ss, which) ==
  [i \in DOMAIN ss |-> IF i \in which THEN repairSegment(d, ss[i])
                       ELSE [calls |-> <<>>, seg |-> ss[i]]]

CallsOf(rs) == FlattenSeq([i \in DOMAIN rs |-> rs[i].calls])
SegsOf(rs) == [i \in DOMAIN rs |-> rs[i].seg]

recoverSegments(d, ss) ==
  LET one == Repaired(d, ss, {i \in DOMAIN ss : i = Len(ss) \/ ss[i].scan})
      two == pruneSegments(SegsOf(one))
      d2 == Calls(Calls(d, CallsOf(one)), two.calls)
      three == Repaired(d2, two.segs, {Len(two.segs)} \ {0})
      four == pruneSegments(SegsOf(three))
  IN IF two.calls = <<>> THEN [calls |-> CallsOf(one), segs |-> two.segs]
     ELSE [calls |-> CallsOf(one) \o two.calls \o CallsOf(three) \o four.calls,
           segs |-> four.segs]

\* A rewrite cut short: with both temporary files it has not begun, with the index's
\* alone it is finished.
recoverPendingTruncations(d) ==
  LET Of(kind) == {n[2] : n \in {m \in DOMAIN d.names : m[1] = kind}}
      Each(S, F(_)) == FlattenSeq([i \in 1..Cardinality(S) |-> F(SetToSortSeq(S, <)[i])])
      Undone(q) == <<remove(IdxTmp(q)), remove(LogTmp(q))>>
      Redone(q) == <<rename(IdxTmp(q), IdxName(q))>>
      Orphan(q) == <<remove(LogTmp(q))>>
      redo == Of("idx.tmp") \ Of("log.tmp")
  IN Each(Of("idx.tmp") \cap Of("log.tmp"), Undone) \o Each(redo, Redone)
     \o Each(Of("log.tmp") \ Of("idx.tmp"), Orphan)
     \o (IF redo = {} THEN <<>> ELSE <<syncDir>>)

loadSegments(d) == SetToSortSeq({n[2] : n \in {m \in DOMAIN d.names : m[1] = "log"}}, <)

(***************************************************************************)
(* The hard state: two slots written in turn, the newest whole one counts. *)
(* A file of one slot without a checksum is an older release's.            *)
(***************************************************************************)
\* Mutant: one slot, overwritten in place.
writeOneSlot(n, hs) == <<write(Meta, 1, [seq |-> n + 1, hs |-> hs]), sync(Meta)>>

writeMeta(n, hs) ==
  <<write(Meta, (n % 2) + 1, [seq |-> n + 1, hs |-> hs]), sync(Meta)>>

readMeta(d) ==
  LET cells == Content(d, Meta)
      whole == {cells[i] : i \in DOMAIN cells} \ {Torn}
      slots == {c \in whole : c.seq > 0}
  IN CASE cells = <<>> -> [ok |-> TRUE, seq |-> 0, hs |-> NoneSaved, legacy |-> FALSE]
       [] slots # {} -> LET best == CHOOSE c \in slots : \A b \in slots : b.seq <= c.seq
                        IN [ok |-> TRUE, seq |-> best.seq, hs |-> best.hs, legacy |-> FALSE]
       [] slots = {} /\ Len(cells) = 1 /\ whole # {} ->
            [ok |-> TRUE, seq |-> 1, hs |-> cells[1].hs, legacy |-> TRUE]
       [] OTHER -> [ok |-> FALSE, seq |-> 0, hs |-> NoneSaved, legacy |-> FALSE]

LoadCommitIndex(d) ==
  IF Content(d, Commit) \in {<<>>, <<Torn>>} THEN 0 ELSE Content(d, Commit)[1].index

LoadSnapshot(d) == IF Exists(d, Snap) THEN Content(d, Snap)[1] ELSE NoneSaved

GetLogEntries(d, ss) ==
  FlattenSeq([k \in DOMAIN ss |->
    [i \in 1..(IF ss[k].first = 0 THEN 0 ELSE ss[k].last - ss[k].first + 1) |->
       decodeEntryAt(Content(d, LogName(ss[k].seq)),
                     Offset(Content(d, IdxName(ss[k].seq))[i]))]])

(***************************************************************************)
(* Operations: the calls each makes and the segments it leaves.            *)
(***************************************************************************)
lock == [op |-> "lock"]

Rotates(ss) == ss = <<>> \/ (Last(ss).last # 0 /\ Last(ss).size >= FGiven.segSize)

createSegment(q) == <<create(LogName(q), FALSE), create(IdxName(q), FALSE), syncDir>>

rotate(ss) ==
  LET q == IF ss = <<>> THEN 0 ELSE Last(ss).seq + 1
  IN [calls |-> (IF ss = <<>> THEN <<>> ELSE syncSegment(q - 1)) \o createSegment(q),
      segs |-> Append(ss, EmptySeg(q))]

writeEntry(s, e) ==
  LET first == IF s.first = 0 THEN e.index ELSE s.first
      at == s.size + 1
  IN [calls |-> <<write(LogName(s.seq), at, Torn),      \* the header, then the payload
                  write(LogName(s.seq), at, e),
                  write(IdxName(s.seq), e.index - first + 1, Slot(s.size))>>,
      seg |-> [s EXCEPT !.first = first, !.last = e.index, !.size = at]]

Appending(done, e) ==
  LET r == IF Rotates(done.segs) THEN rotate(done.segs)
           ELSE [calls |-> <<>>, segs |-> done.segs]
      w == writeEntry(Last(r.segs), e)
  IN [calls |-> done.calls \o r.calls \o w.calls,
      segs |-> Append(Front(r.segs), w.seg)]

appendLocked(ss, es) ==
  LET done == FoldLeft(Appending, [calls |-> <<>>, segs |-> ss], es)
      dirty == SubSeq(done.segs, IF ss = <<>> THEN 1 ELSE Len(ss), Len(done.segs))
  IN [calls |-> done.calls \o FlattenSeq([i \in DOMAIN dirty |-> syncSegment(dirty[i].seq)]),
      segs |-> done.segs]

unlinkSegment(s) == <<remove(IdxName(s.seq)), remove(LogName(s.seq)), syncDir>>

Holds(s, i) == s.first # 0 /\ s.first <= i /\ i <= s.last

\* Mutant: the boundary segment is shortened before the later ones are gone.
shortenFirst(ss, b, from) ==
  LET s == ss[b]
      at == Offset(Content(disk, IdxName(s.seq))[from - s.first + 1])
      later == SubSeq(ss, b + 1, Len(ss))
  IN <<truncate(LogName(s.seq), at), truncate(IdxName(s.seq), from - s.first)>>
     \o syncSegment(s.seq)
     \o FlattenSeq([i \in DOMAIN later |-> unlinkSegment(later[i])])

\* The later segments go, the last first; then the boundary segment is shortened.
cutSuffix(ss, b, from) ==
  LET s == ss[b]
      at == Offset(Content(disk, IdxName(s.seq))[from - s.first + 1])
      later == Reverse(SubSeq(ss, b + 1, Len(ss)))
  IN FlattenSeq([i \in DOMAIN later |-> unlinkSegment(later[i])])
     \o (IF from <= s.first THEN unlinkSegment(s)
         ELSE <<truncate(LogName(s.seq), at), truncate(IdxName(s.seq), from - s.first)>>
              \o syncSegment(s.seq))

suffixCut(ss, b, from) ==
  IF from <= ss[b].first THEN SubSeq(ss, 1, b - 1)
  ELSE Append(SubSeq(ss, 1, b - 1),
              [ss[b] EXCEPT !.last = from - 1,
                            !.size = Offset(Content(disk, IdxName(ss[b].seq))[from - ss[b].first + 1])])

renameBoth(q) == <<rename(LogTmp(q), LogName(q)), rename(IdxTmp(q), IdxName(q))>>

\* The segment that straddles toIndex: emptied in place, or copied without its head
\* to temporary files that are renamed over it.
rewriteBoundarySegment(s, to) ==
  LET q == s.seq
      idx == Content(disk, IdxName(q))
      drop == to - s.first
      keep == s.last - to + 1
      base == Offset(idx[drop + 1])
  IN IF keep <= 0
     THEN [calls |-> <<lock, truncate(LogName(q), 0), truncate(IdxName(q), 0)>> \o syncSegment(q),
           seg |-> EmptySeg(q)]
     ELSE [calls |-> <<create(LogTmp(q), TRUE),
                       fill(LogTmp(q), SubSeq(Content(disk, LogName(q)), base + 1, s.size)),
                       sync(LogTmp(q)),
                       create(IdxTmp(q), TRUE),
                       fill(IdxTmp(q), [i \in 1..keep |-> Slot(Offset(idx[drop + i]) - base)]),
                       sync(IdxTmp(q)), lock>>
                     \o renameBoth(q) \o <<syncDir>>,
           seg |-> [s EXCEPT !.first = to, !.size = @ - base]]

\* Complete leading segments, at most all but one, go from the head outwards.
cutPrefix(ss, to) ==
  LET k == CHOOSE k \in 0..(Len(ss) - 1) :
             /\ \A i \in 1..k : ss[i].last # 0 /\ ss[i].last < to
             /\ k < Len(ss) - 1 => ~(ss[k + 1].last # 0 /\ ss[k + 1].last < to)
      gone == FlattenSeq([i \in 1..k |-> unlinkSegment(ss[i])])
      s == ss[k + 1]
      r == rewriteBoundarySegment(s, to)
  IN IF s.first # 0 /\ s.first < to
     THEN [calls |-> gone \o r.calls, segs |-> <<r.seg>> \o SubSeq(ss, k + 2, Len(ss))]
     ELSE [calls |-> gone, segs |-> SubSeq(ss, k + 1, Len(ss))]

(***************************************************************************)
(* Actions.                                                                *)
(***************************************************************************)
Idle == [todo |-> <<>>, held |-> FALSE, then |-> [op |-> "idle"]]

CurrentLog == GetLogEntries(disk, segs)

Settled == status = "open" /\ doing["log"] = Idle

\* A thread begins an operation: the calls it will make, what memory holds and what
\* may be read back when they are done, and what a crash before that may leave.
Begin(t, calls, then, legal) ==
  /\ status = "open"
  /\ doing[t] = Idle
  /\ fDone.ops < FGiven.ops
  /\ doing' = [doing EXCEPT ![t] = [todo |-> calls, held |-> FALSE, then |-> then]]
  /\ fLegal' = legal
  /\ fDone' = [fDone EXCEPT !.ops = @ + 1]
  /\ UNCHANGED <<fGiven, disk, status, segs, hsSeq, recorded>>

Then == [op |-> "log", segs |-> segs, hsSeq |-> hsSeq, legal |-> fLegal]

PrefixesOf(es) == {SubSeq(es, 1, k) : k \in 0..Len(es)}

SaveHardState(hs) ==
  /\ "SaveHardState" \in FGiven.may
  /\ Begin("log", <<lock>> \o writeMeta(hsSeq, hs),
           [Then EXCEPT !.hsSeq = hsSeq + 1, !.legal.hs = {hs}, !.legal.log = {CurrentLog}],
           [fLegal EXCEPT !.hs = {readMeta(disk).hs, hs}, !.log = {CurrentLog}])

\* The hard state is durable before the first entry is written.
saveStateCalls(meta, calls) == <<lock>> \o meta \o calls

\* SaveState without a hard state is AppendLogEntries.
SaveState(es, hs) ==
  LET withHS == hs # NoneSaved
      a == appendLocked(segs, es)
      log == CurrentLog
  IN /\ "AppendLogEntries" \in FGiven.may
     /\ Begin("log", saveStateCalls(IF withHS THEN writeMeta(hsSeq, hs) ELSE <<>>, a.calls),
              [Then EXCEPT !.segs = a.segs,
                           !.hsSeq = IF withHS THEN hsSeq + 1 ELSE hsSeq,
                           !.legal.hs = IF withHS THEN {hs} ELSE {readMeta(disk).hs},
                           !.legal.log = {log \o es}],
              [fLegal EXCEPT !.hs = {readMeta(disk).hs} \cup (IF withHS THEN {hs} ELSE {}),
                             !.log = {log \o some : some \in PrefixesOf(es)}])

TruncateSuffix(from) ==
  LET log == CurrentLog
      keep == from - log[1].index
  IN /\ "TruncateSuffix" \in FGiven.may
     /\ log # <<>>
     /\ \E b \in DOMAIN segs :
          /\ Holds(segs[b], from)
          /\ Begin("log", <<lock>> \o cutSuffix(segs, b, from),
                   [Then EXCEPT !.segs = suffixCut(segs, b, from),
                                !.legal.log = {SubSeq(log, 1, keep)}],
                   [fLegal EXCEPT !.log = {SubSeq(log, 1, k) : k \in keep..Len(log)}])

TruncatePrefix(to) ==
  LET log == CurrentLog
      p == cutPrefix(segs, to)
      drop == to - log[1].index
  IN /\ "TruncatePrefix" \in FGiven.may
     /\ log # <<>> /\ to > log[1].index /\ to <= Last(log).index + 1
     /\ Begin("log", p.calls,
              [Then EXCEPT !.segs = p.segs, !.legal.log = {SubSeq(log, drop + 1, Len(log))}],
              [fLegal EXCEPT !.log = {SubSeq(log, k, Len(log)) : k \in 1..(drop + 1)}])

snapshotCalls(s) ==
  <<create(SnapTmp, TRUE), fill(SnapTmp, <<s>>), sync(SnapTmp), lock,
    rename(SnapTmp, Snap), syncDir>>

SaveSnapshot(s) ==
  /\ "SaveSnapshot" \in FGiven.may
  /\ Begin("snap",
           snapshotCalls(s),
           [op |-> "snap", snap |-> s],
           [fLegal EXCEPT !.snap = {LoadSnapshot(disk), s}])

advances(i) == i > recorded

\* Under the lock, one call, never synced: a lower index is not written over a higher.
SaveCommitIndex(i) ==
  /\ "SaveCommitIndex" \in FGiven.may
  /\ status = "open"
  /\ \A t \in Threads : ~doing[t].held
  /\ advances(i)
  /\ fDone.ops < FGiven.ops
  /\ disk' = Call(disk, write(Commit, 1, [index |-> i]))
  /\ recorded' = i
  /\ fLegal' = [fLegal EXCEPT !.commit = @ \cup {i}]
  /\ fDone' = [fDone EXCEPT !.ops = @ + 1]
  /\ UNCHANGED <<fGiven, status, segs, hsSeq, doing>>

Open ==
  LET one == recoverPendingTruncations(disk) \o <<remove(SnapTmp)>>
             \o (IF Exists(disk, Meta) THEN <<>> ELSE <<create(Meta, FALSE), syncDir>>)
             \o <<create(Commit, FALSE)>>
      d1 == Calls(disk, one)
      qs == loadSegments(d1)
      two == [i \in DOMAIN qs |-> create(IdxName(qs[i]), FALSE)]
      d2 == Calls(d1, two)
      r == recoverSegments(d2, [i \in DOMAIN qs |-> openSegment(d2, qs[i])])
      m == readMeta(d2)
      migrate == IF m.legacy THEN writeMeta(1, m.hs) ELSE <<>>
  IN /\ status = "down"
     /\ doing["log"] = Idle
     /\ doing' = [doing EXCEPT !["log"] =
                    [todo |-> one \o two \o r.calls \o migrate, held |-> TRUE,
                     then |-> [op |-> "open", ok |-> m.ok, segs |-> r.segs,
                               hsSeq |-> IF m.legacy THEN 2 ELSE m.seq]]]
     /\ UNCHANGED <<fGiven, disk, status, segs, hsSeq, recorded, fLegal, fDone>>

\* The engine reads the recorded commit index back before it writes another.
Finish(d, then) ==
  /\ status' = IF then.op # "open" THEN status ELSE IF then.ok THEN "open" ELSE "refused"
  /\ segs' = IF then.op \in {"open", "log"} THEN then.segs ELSE segs
  /\ hsSeq' = IF then.op \in {"open", "log"} THEN then.hsSeq ELSE hsSeq
  /\ recorded' = IF then.op = "open" THEN LoadCommitIndex(d) ELSE recorded
  /\ fLegal' = CASE then.op = "log" -> [fLegal EXCEPT !.log = then.legal.log, !.hs = then.legal.hs]
                 [] then.op = "snap" -> [fLegal EXCEPT !.snap = {then.snap}]
                 [] OTHER -> fLegal

Step(t) ==
  LET job == doing[t]
      c == Head(job.todo)
      d == IF c.op = "lock" THEN disk ELSE Call(disk, c)
  IN /\ job.todo # <<>>
     /\ c.op = "lock" => \A o \in Threads \ {t} : ~doing[o].held
     /\ disk' = d
     /\ IF Len(job.todo) = 1
        THEN /\ doing' = [doing EXCEPT ![t] = Idle]
             /\ Finish(d, job.then)
        ELSE /\ doing' = [doing EXCEPT ![t].todo = Tail(@), ![t].held = @ \/ c.op = "lock"]
             /\ UNCHANGED <<status, segs, hsSeq, recorded, fLegal>>
     /\ UNCHANGED <<fGiven, fDone>>

Crash ==
  /\ status # "refused"
  /\ status = "open" \/ doing["log"] # Idle
  /\ fDone.crashes < FGiven.crashes
  /\ \E fault \in FGiven.faults : \E d \in AfterFault(disk, fault) : disk' = d
  /\ status' = "down"
  /\ segs' = <<>> /\ hsSeq' = 0 /\ recorded' = 0
  /\ doing' = [t \in Threads |-> Idle]
  /\ fDone' = [fDone EXCEPT !.crashes = @ + 1]
  /\ UNCHANGED <<fGiven, fLegal>>

FInit ==
  /\ fGiven \in DOMAIN Situations
  /\ LET f == IF FGiven.legacy THEN <<[seq |-> 0, hs |-> [term |-> 1]]>> ELSE <<>>
         names == IF FGiven.legacy THEN [n \in {Meta} |-> 1] ELSE [n \in {} |-> 1]
     IN disk = [names |-> names, synced |-> names, since |-> <<>>,
                files |-> IF FGiven.legacy THEN <<[now |-> f, safe |-> f]>> ELSE <<>>]
  /\ status = "down"
  /\ segs = <<>> /\ hsSeq = 0 /\ recorded = 0
  /\ doing = [t \in Threads |-> Idle]
  /\ fLegal = [log |-> {<<>>},
               hs |-> {IF FGiven.legacy THEN [term |-> 1] ELSE NoneSaved},
               snap |-> {NoneSaved}, commit |-> {0}]
  /\ fDone = [ops |-> 0, crashes |-> 0]

NextIndex == IF CurrentLog = <<>> THEN FGiven.start ELSE Last(CurrentLog).index + 1

Run(t) == [i \in 1..t[2] |-> [index |-> NextIndex + i - 1, term |-> t[1]]]

\* The engine's terms only grow, and it appends no entry of a term beyond its own.
Newer(hs) == hs.term > readMeta(disk).hs.term

InTerm(t, hs) == FGiven.paired => t <= (IF hs = NoneSaved THEN readMeta(disk).hs.term ELSE hs.term)

FNext ==
  \/ Open
  \/ \E t \in Threads : Step(t)
  \/ \E hs \in FGiven.hardStates : Settled /\ Newer(hs) /\ SaveHardState(hs)
  \/ \E t \in FGiven.terms, hs \in {NoneSaved} \cup FGiven.hardStates :
       /\ Settled
       /\ hs # NoneSaved => Newer(hs)
       /\ InTerm(t[1], hs)
       /\ SaveState(Run(t), hs)
  \/ \E i \in FGiven.indexes :
       \/ Settled /\ (TruncateSuffix(i) \/ TruncatePrefix(i))
       \/ SaveSnapshot([term |-> 1, index |-> i])
       \/ SaveCommitIndex(i)
  \/ Crash

FSpec == FInit /\ [][FNext]_fvars

(***************************************************************************)
(* Properties.                                                             *)
(***************************************************************************)
\* The variables have their types, no file has two names, and no open segment is empty
\* or waiting to be scanned.
FTypeOK ==
  /\ status \in {"down", "open", "refused"}
  /\ hsSeq \in Nat /\ recorded \in Nat
  /\ \A i \in DOMAIN disk.files : Cardinality({n \in DOMAIN disk.names : disk.names[n] = i}) <= 1
  /\ \A i \in DOMAIN segs : ~segs[i].scan /\ segs[i].last >= segs[i].first

\* What an operation acknowledged is what the log holds from then on, across crashes: no
\* acknowledged entry is lost, no truncated one comes back, and an operation a crash cut
\* short leaves a log it was on its way to (recoverSegments, TruncateSuffix,
\* TruncatePrefix, appendLocked).
LogSurvives == Settled => CurrentLog \in fLegal.log

\* The hard state read back is the last one saved, or the one being saved when the
\* process died (writeMeta and readMeta).
HardStateSurvives == Settled => readMeta(disk).hs \in fLegal.hs

\* Entries never outlive the record of the term they were received in: SaveState makes
\* the hard state durable first.
TermCoversLog ==
  Settled /\ FGiven.paired =>
    \A i \in DOMAIN CurrentLog : CurrentLog[i].term <= readMeta(disk).hs.term

\* Open refuses a directory only if no hard state was ever saved in it.
RefusesOnlyTheUnsaved == status = "refused" => fLegal.hs \cap {NoneSaved} # {}

\* The snapshot under its final name is whole, and it is the last saved or the one
\* being saved when the process died.
SnapshotSurvives ==
  status = "open" /\ doing["snap"] = Idle => LoadSnapshot(disk) \in fLegal.snap

\* The commit index read back was recorded once: never a torn one, never a larger one.
CommitIsARecord == LoadCommitIndex(disk) \in fLegal.commit

\* Whatever the file store acknowledged, its log, its hard state, its snapshot and its
\* commit index, is there after any crash, and no entry without its term (the operations
\* of filestore.go and commit.go).
FileSurvives ==
  /\ FTypeOK
  /\ LogSurvives /\ HardStateSurvives /\ TermCoversLog
  /\ SnapshotSurvives /\ CommitIsARecord

==============================================================================
