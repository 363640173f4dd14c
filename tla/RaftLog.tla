------------------------------ MODULE RaftLog ------------------------------
(***************************************************************************)
(* The in-memory log over asynchronous storage (raft_log.go): its cached   *)
(* ends, the segments still being written, the runs of equal terms, and    *)
(* the writes it queues.  A raftLog is a record and every method of        *)
(* raft_log.go an operator on it; modules that have one as part of their   *)
(* state take its steps.  An entry is [index, term]: the two determine its *)
(* command.  The storage calls are those of storage/memstore, which keeps  *)
(* entries in the order they were given; the hard state is its term alone. *)
(***************************************************************************)
EXTENDS Integers, Sequences, SequencesExt, FiniteSetsExt

NoSnapshot == [index |-> 0, term |-> 0]

(* The index of the last entry of a sequence of entries, 0 if it is empty. *)
LastIndex(es) == IF es = <<>> THEN 0 ELSE Last(es).index
FirstIndex(es) == IF es = <<>> THEN 0 ELSE Head(es).index

-----------------------------------------------------------------------------
(* Storage. *)

EmptyStore == [entries |-> <<>>, term |-> 0, snap |-> NoSnapshot, commit |-> 0]

TruncateSuffix(es, from) ==
  IF from > LastIndex(es) THEN es ELSE SubSeq(es, 1, from - FirstIndex(es))

TruncatePrefix(es, to) ==
  IF to <= FirstIndex(es) THEN es
  ELSE IF to > LastIndex(es) THEN <<>>
  ELSE SubSeq(es, to - FirstIndex(es) + 1, Len(es))

(* The effect of one queued operation. *)
perform(s, op) ==
  CASE op.kind = "Append" -> [s EXCEPT !.entries = @ \o op.entries]
    [] op.kind = "TruncateSuffix" -> [s EXCEPT !.entries = TruncateSuffix(@, op.index)]
    [] op.kind = "TruncatePrefix" -> [s EXCEPT !.entries = TruncatePrefix(@, op.index)]
    [] op.kind = "HardState" -> [s EXCEPT !.term = op.term]
    [] op.kind = "CommitIndex" -> [s EXCEPT !.commit = op.index]

RECURSIVE performAll(_, _)
performAll(s, ops) ==
  IF ops = <<>> THEN s ELSE performAll(perform(s, Head(ops)), Tail(ops))

-----------------------------------------------------------------------------
(* Runs: where each term begins. *)

RECURSIVE extendRuns(_, _)
extendRuns(runs, es) ==
  IF es = <<>> THEN runs
  ELSE extendRuns(IF runs # <<>> /\ Last(runs).term = Head(es).term THEN runs
                  ELSE Append(runs, [start |-> Head(es).index, term |-> Head(es).term]),
                  Tail(es))

truncateRunsFrom(runs, from) ==
  SubSeq(runs, 1, Max({0} \cup {i \in 1..Len(runs) : runs[i].start < from}))

(* The run covering an index, 0 for none. *)
runIndexFor(runs, index) == Max({0} \cup {i \in 1..Len(runs) : runs[i].start <= index})


truncateRunsBelow(runs, to) ==
  LET i == runIndexFor(runs, to) IN
  IF i = 0 THEN <<>> ELSE [SubSeq(runs, i, Len(runs)) EXCEPT ![1].start = to]

-----------------------------------------------------------------------------
(* Reading the log. *)

lastLogIndex(rl) == IF rl.last > 0 THEN rl.last ELSE rl.snap.index
lastLogTerm(rl) == rl.lastTerm

(* 0 when the log cannot tell. *)
termAt(rl, index) ==
  CASE index = 0 -> 0
    [] index # 0 /\ index = rl.snap.index -> rl.snap.term
    [] OTHER -> LET i == runIndexFor(rl.runs, index) IN
                IF rl.first = 0 \/ index \notin rl.first..rl.last \/ i = 0 THEN 0
                ELSE rl.runs[i].term

termRunStart(rl, index) ==
  LET i == runIndexFor(rl.runs, index) IN
  IF i = 0 \/ index > rl.last THEN 0 ELSE rl.runs[i].start

lastIndexOfTerm(rl, term) ==
  LET i == SelectLastInSeq(rl.runs, LAMBDA r : r.term = term) IN
  CASE i # 0 /\ i < Len(rl.runs) -> rl.runs[i + 1].start - 1
    [] i # 0 /\ i = Len(rl.runs) -> rl.last
    [] OTHER -> IF rl.first = 0 /\ rl.snap.index # 0 /\ rl.snap.term = term
                THEN rl.snap.index ELSE 0

RECURSIVE unstable(_)
unstable(segs) == IF segs = <<>> THEN <<>> ELSE Head(segs).entries \o unstable(Tail(segs))
unstableFirst(rl) == FirstIndex(unstable(rl.segs))

(* The highest index for which storage holds what the log holds there. *)
stableIndex(rl) ==
  LET d == Max({rl.durable, rl.snap.index})
      us == unstableFirst(rl) IN
  Min({IF us # 0 /\ d >= us THEN us - 1 ELSE d, lastLogIndex(rl)})

(* Mutant of writeSeqCovering: 0 unless this request queued a write. *)
coveredBefore(rl, index) == 0

(* The queued write that puts the entry at index on storage, 0 for none. *)
writeSeqCovering(rl, index) ==
  LET in == {i \in 1..Len(rl.segs) :
               /\ rl.segs[i].entries # <<>>
               /\ index \in FirstIndex(rl.segs[i].entries)..LastIndex(rl.segs[i].entries)} IN
  IF index = 0 \/ index <= stableIndex(rl) THEN 0
  ELSE IF in = {} THEN rl.nextSeq
  ELSE rl.segs[Min(in)].seq

Within(es, lo, hi) == SelectSeq(es, LAMBDA e : e.index >= lo /\ e.index < hi)

(* What reading [lo, hi) gives: storage below the unstable region, memory  *)
(* from there on.                                                          *)
entries(rl, s, lo, hi) ==
  LET us == unstableFirst(rl)
      storageHi == IF us # 0 /\ us < hi THEN us ELSE hi IN
  IF us # 0 /\ lo >= us THEN Within(unstable(rl.segs), lo, hi)
  ELSE Within(s.entries, lo, storageHi) \o Within(unstable(rl.segs), storageHi, hi)

isUpToDate(rl, lastIndex, lastTerm) ==
  \/ lastTerm > lastLogTerm(rl)
  \/ lastTerm = lastLogTerm(rl) /\ lastIndex >= lastLogIndex(rl)

-----------------------------------------------------------------------------
(* Segments: entries appended and not yet known to be on storage. *)

Begins(seg) == FirstIndex(seg.entries)
Ends(seg) == LastIndex(seg.entries)

dropUnstableFrom(segs, from) ==
  LET k == SelectLastInSeq(segs, LAMBDA g : g.entries # <<>> /\ Begins(g) < from) IN
  IF k = 0 THEN <<>>
  ELSE [SubSeq(segs, 1, k) EXCEPT ![k].entries = SelectSeq(@, LAMBDA e : e.index < from)]

dropUnstableBelow(segs, upto) ==
  LET k == SelectInSeq(segs, LAMBDA g : g.entries # <<>> /\ Ends(g) >= upto) IN
  IF k = 0 THEN <<>>
  ELSE [SubSeq(segs, k, Len(segs)) EXCEPT
          ![1].entries = SelectSeq(@, LAMBDA e : e.index >= upto)]

(* A write has completed without error. *)
stabilize(rl, done) ==
  [rl EXCEPT !.durable = done.durableAfter,
             !.segs = LET k == SelectInSeq(@, LAMBDA g : g.seq > done.seq) IN
                      IF k = 0 THEN <<>> ELSE SubSeq(@, k, Len(@))]

-----------------------------------------------------------------------------
(* Changing the log. *)

(* A log opened over storage s. *)
newRaftLog(s) ==
  [snap |-> s.snap, first |-> FirstIndex(s.entries), last |-> LastIndex(s.entries),
   lastTerm |-> IF s.entries = <<>> THEN s.snap.term ELSE Last(s.entries).term,
   segs |-> <<>>, runs |-> extendRuns(<<>>, s.entries),
   durable |-> LastIndex(s.entries), queuedDurable |-> LastIndex(s.entries),
   nextSeq |-> 0, queue |-> <<>>]

(* Hands one operation to the writer under the next sequence number. *)
enqueue(rl, kind, es, index, term) ==
  [rl EXCEPT !.nextSeq = @ + 1,
             !.queue = Append(@, [seq |-> rl.nextSeq + 1, kind |-> kind, entries |-> es,
                                  index |-> index, term |-> term,
                                  durableAfter |-> rl.queuedDurable])]

append(rl, es) ==
  IF es = <<>> THEN rl
  ELSE enqueue([rl EXCEPT !.segs = Append(@, [seq |-> rl.nextSeq + 1, entries |-> es]),
                          !.first = IF @ = 0 THEN FirstIndex(es) ELSE @,
                          !.runs = extendRuns(@, es),
                          !.last = LastIndex(es), !.lastTerm = Last(es).term,
                          !.queuedDurable = LastIndex(es)],
               "Append", es, 0, 0)

(* A log in which nothing is left above the snapshot it knows. *)
emptied(rl) == [rl EXCEPT !.first = 0, !.last = 0, !.lastTerm = rl.snap.term, !.runs = <<>>]

truncateSuffix(rl, from) ==
  LET lastTerm == IF from > rl.first /\ from > 1 THEN termAt(rl, from - 1) ELSE rl.snap.term
      queued == enqueue([rl EXCEPT !.runs = truncateRunsFrom(@, from),
                                   !.segs = dropUnstableFrom(@, from),
                                   !.queuedDurable = Min({@, from - 1})],
                        "TruncateSuffix", <<>>, from, 0) IN
  IF from <= rl.first THEN emptied(queued)
  ELSE [queued EXCEPT !.last = from - 1, !.lastTerm = lastTerm]

truncatePrefix(rl, to) ==
  LET queued == enqueue([rl EXCEPT !.segs = dropUnstableBelow(@, to),
                                   !.queuedDurable = IF to > rl.last THEN Min({@, to - 1}) ELSE @],
                        "TruncatePrefix", <<>>, to, 0) IN
  IF rl.first # 0 /\ to <= rl.first THEN rl
  ELSE IF to > rl.last THEN emptied(queued)
  ELSE [queued EXCEPT !.runs = truncateRunsBelow(@, to), !.first = to]

(* The snapshot `meta' becomes the base of the log.  Entries after it stay *)
(* only if the log agrees with it.                                         *)
installSnapshot(rl, meta) ==
  LET cut == IF termAt(rl, meta.index) = meta.term THEN truncatePrefix(rl, meta.index + 1)
             ELSE IF rl.first # 0 THEN truncateSuffix(rl, rl.first)
             ELSE rl
      based == [cut EXCEPT !.snap = meta] IN
  IF based.last = 0 THEN emptied(based) ELSE based

=============================================================================
