------------------------- MODULE ReplicationActions -------------------------
(***************************************************************************)
(* What followers and candidates do (handleRequestVote,                    *)
(* handleAppendEntries, becomeCandidate, stepDown): each of these handlers *)
(* is a step of ReplicationKinds, and those steps are sound.               *)
(***************************************************************************)
EXTENDS ReplicationKinds, ReplicationLogs

(* A write of the code. *)
LEMMA OpIs ==
  ASSUME NEW kind \in Kind, NEW im \in Image
  PROVE  /\ Op(kind, im) \in Write /\ Op(kind, im).kind = kind /\ Op(kind, im).image = im /\ Op(kind, im).then = {}
BY DEF Op, Write

(* A queue of one write. *)
LEMMA OneOp ==
  ASSUME NEW kind \in Kind, NEW im \in Image, NEW ops, ops = <<Op(kind, im)>>
  PROVE  /\ ops \in Seq(Write) /\ Len(ops) = 1 /\ ops[1] = Op(kind, im) /\ ops[1].kind = kind /\ ops[1].image = im
         /\ Unasked(ops) /\ OpImages(ops) = {im}
<1>1. Op(kind, im) \in Write /\ Op(kind, im).kind = kind /\ Op(kind, im).image = im /\ Op(kind, im).then = {}
  BY OpIs
<1>2. PICK o \in Write : o = Op(kind, im)
  BY <1>1
<1>3. ops \in Seq(Write) /\ Len(ops) = 1 /\ ops[1] = o /\ 1..1 = {1}
  BY <1>2
<1>4. Unasked(ops) /\ OpImages(ops) = {im}
  BY <1>1, <1>2, <1>3 DEF Unasked, OpImages
<1>5. QED BY <1>1, <1>2, <1>3, <1>4

(* replyWhenDurable queues. *)
LEMMA ReplyQueues ==
  ASSUME NEW n, NEW w, NEW gate, NEW R, replyWhenDurable(n, w, gate, R)
  PROVE  Queued(n, w, gate, R)
BY DEF replyWhenDurable, Queued, Asked, Sent

(* applyFollowerTransition. *)
LEMMA FollowerVars ==
  ASSUME Types, NEW n \in Node, applyFollowerTransition(n)
  PROVE  /\ state' \in [Node -> State] /\ nextIndex' \in [Node -> [Node -> Nat]]
         /\ matchIndex' \in [Node -> [Node -> Nat]] /\ termStart' \in [Node -> Nat]
         /\ state'[n] = "Follower"
         /\ \A p \in Node : p # n => /\ state'[p] = state[p] /\ termStart'[p] = termStart[p]
                                     /\ nextIndex'[p] = nextIndex[p] /\ matchIndex'[p] = matchIndex[p]
  BY DEF Types, applyFollowerTransition, NoPeers, State

(* saveHardState queues a write if the hard state is new. *)
LEMMA SavedIs ==
  ASSUME Types, NEW n \in Node, NEW t \in Term, NEW v \in Node \cup {None}
  PROVE  /\ Saved(n, t, v) \in Image /\ Saved(n, t, v).term = t /\ Saved(n, t, v).vote = v
         /\ Saved(n, t, v).log = mem[n].log
<1>1. mem[n] \in Image
  BY NodeTyped
<1>2. t \in 0..MaxTerm
  BY ReplicationConstants DEF Term
<1>3. QED BY Zenon, <1>1, <1>2 DEF Saved, Image

(* Taking over the term of a request. *)
LEMMA SteppedUpIs ==
  ASSUME Types, NEW n \in Node, NEW t \in Term, t >= mem[n].term
  PROVE  /\ SteppedUp(n, t) \in Image /\ SteppedUp(n, t).term = t /\ SteppedUp(n, t).log = mem[n].log
         /\ t = mem[n].term => SteppedUp(n, t) = mem[n]
         /\ \/ stepUp(n, t) = <<>> /\ SteppedUp(n, t) = mem[n]
            \/ stepUp(n, t) = <<Op("HardState", SteppedUp(n, t))>> /\ t > mem[n].term
<1>1. mem[n].term \in Nat /\ t \in Nat /\ mem[n] \in Image
  BY NodeTyped, ReplicationConstants DEF Term
<1>2. CASE t > mem[n].term
  BY SMTT(30), <1>1, <1>2, SavedIs DEF SteppedUp, stepUp, saveTerm, currentTerm
<1>3. CASE t = mem[n].term
  BY <1>1, <1>3 DEF SteppedUp, stepUp, currentTerm
<1>4. QED BY <1>1, <1>2, <1>3

(* setCommitIndex keeps the later of two. *)
LEMMA CommitTyped ==
  ASSUME commitIndex \in [Node -> Nat], NEW n \in Node, NEW l, NEW j \in Nat, NEW t, setCommitIndex(n, l, j, t)
  PROVE  /\ commitIndex' \in [Node -> Nat] /\ \A p \in Node : p # n => commitIndex'[p] = commitIndex[p]
         /\ commitIndex'[n] = (IF j >= commitIndex[n] THEN j ELSE commitIndex[n])
<1>1. PICK k \in Nat : k = commitIndex[n]
  OBVIOUS
<1>2. Max({k, j}) = IF k >= j THEN k ELSE j
  BY MaxOfTwo
<1>3. commitIndex' = [commitIndex EXCEPT ![n] = Max({k, j})]
  BY <1>1 DEF setCommitIndex
<1>4. QED BY <1>1, <1>2, <1>3

-----------------------------------------------------------------------------
(* A follower that accepts a request queues what mergeWrites writes, and   *)
(* its acknowledgement waits until the batch is on the disk.               *)
LEMMA acceptEntriesAccepts ==
  ASSUME Basics
  PROVE  \A L \in SomeLogs, n \in Node, m \in msgs :
           /\ MatchInv(L)
           /\ m.type = "AppendEntries"
           /\ acceptEntries(n, m)
           /\ UNCHANGED <<disk, restarts, given>>
           => IsAccepting(n, m, L)
(* The log of the follower. *)
<1>AcceptedLog.
    ASSUME NEW L \in SomeLogs, MatchInv(L), NEW n \in Node, NEW m \in msgs, m.type = "AppendEntries",
           PrevIsThere(mem[n].log, m)
    PROVE  /\ m \in AppendRequests /\ L[m.term] \in Seq(Entry)
           /\ MergedTo(Merged(mem[n].log, m), m.prev + Held(mem[n].log, m), mem[n].log, L[m.term], m)
  <2> USE <1>AcceptedLog
  <2>0. Types /\ RequestsOK(L) /\ ImagesOK(L) /\ LeaderLogs(L) /\ QueueOK(n)
    BY DEF MatchInv
  <2>1. m \in AppendRequests /\ m.term \in Term
    BY <2>0, MessageTyped DEF AppendRequests
  <2>2. PICK g \in Seq(Entry) : g = L[m.term] /\ Matching(L, g)
    BY <2>0, <2>1 DEF SomeLogs, LeaderLogs
  <2>3. PICK l0 \in Seq(Entry) : l0 = mem[n].log
    BY <2>0, NodeTyped
  <2>4. Matching(L, l0)
    <3>1. mem[n] \in Images(n)
      BY <2>0, MemIsImage
    <3>2. QED BY Zenon, <2>0, <2>3, <3>1 DEF ImagesOK
  <2>5. Alike(l0, g)
    BY <2>2, <2>4, MatchingAlike
  <2>6. RequestOK(L, m)
    BY <2>0 DEF RequestsOK
  <2>7. CASE Fragment(g, m)
    BY Zenon, <2>1, <2>2, <2>3, <2>5, <2>7, MergeWithPiece
  <2>8. CASE ~ Fragment(g, m)
    <3>1. m.entries = <<>>
      BY <2>2, <2>6, <2>8 DEF RequestOK
    <3>2. QED BY Zenon, <2>1, <2>2, <2>3, <3>1, MergeNothing
  <2>9. QED BY Zenon, <2>7, <2>8
(* handleAppendEntries truncates and appends, or writes nothing. *)
<1>mergeWritesAre.
    ASSUME NEW base \in Image, NEW m, NEW g, NEW l, NEW k, MergeOf(l, k, base.log, m),
           MergedTo(l, k, base.log, g, m), NEW ops, MergeWritesOf(ops, base, m)
    PROVE  MergeQueue(ops, base, k, l)
  <2> USE <1>mergeWritesAre
  <2>01. l = Merged(base.log, m) /\ k = m.prev + Held(base.log, m) /\ ops = mergeWrites(base, base.log, m)
    BY DEF MergeOf, MergeWritesOf
  <2>02. SUFFICES
           /\ ops \in Seq(Write) /\ Unasked(ops)
           /\ ops = <<>> => l = base.log
           /\ ops # <<>> => ops[Len(ops)].image = [base EXCEPT !.log = l]
           /\ \A i \in 1..Len(ops) : Through(base, base.log, k, l, ops[i].image)
    BY DEF MergeQueue
  <2> DEFINE l0 == base.log
             a == [base EXCEPT !.log = SubSeq(l0, 1, k)]
             b == [base EXCEPT !.log = l]
  <2>0. l0 \in Seq(Entry) /\ l \in Seq(Entry)
    BY DEF MergedTo, Image
  <2>1. b \in Image /\ b.term = base.term /\ b.vote = base.vote /\ b.log = l
    BY <2>0 DEF Image
  <2>2. CASE l = l0
    <3>1. ops = <<>>
      BY <2>01, <2>2 DEF mergeWrites
    <3>2. QED BY <2>2, <3>1, NoOps
  <2>3. CASE l # l0
    <3>1. a \in Image /\ a.term = base.term /\ a.vote = base.vote /\ a.log = SubSeq(l0, 1, k)
      <4>1. SubSeq(l0, 1, k) \in Seq(Entry)
        <5>1. k \in Nat /\ k <= Len(l0)
          BY Zenon, <2>3 DEF MergedTo
        <5>2. QED BY <2>0, <5>1, PrefixIs
      <4>2. QED BY Zenon, <4>1 DEF Image
    <3>2. Through(base, l0, k, l, a) /\ Through(base, l0, k, l, b)
      BY Zenon, <2>1, <2>3, <3>1 DEF Through
    <3>3. ops = <<Op("Truncate", a), Op("Append", b)>> \/ ops = <<Op("Append", b)>>
      BY <2>01, <2>3 DEF mergeWrites
    <3> HIDE DEF a, b
    <3>4. PICK o \in Write : o = Op("Truncate", a)
      BY Zenon, <3>1, OpIs DEF Kind
    <3>5. PICK q \in Write : q = Op("Append", b)
      BY <2>1, OpIs DEF Kind
    <3>6. o.then = {} /\ o.image = a /\ q.then = {} /\ q.image = b
      BY <2>1, <3>1, <3>4, <3>5, OpIs DEF Kind
    <3>7. CASE ops = <<o, q>>
      <4>1. ops \in Seq(Write) /\ Len(ops) = 2 /\ ops[1] = o /\ ops[2] = q /\ ops # <<>>
        BY <3>7
      <4>2. \A i \in 1..Len(ops) : i = 1 \/ i = 2
        BY <4>1
      <4>3. Unasked(ops)
        BY <3>6, <4>1, <4>2 DEF Unasked
      <4>4. QED BY <3>2, <3>6, <4>1, <4>2, <4>3 DEF b
    <3>8. CASE ops = <<q>>
      <4>1. ops \in Seq(Write) /\ Len(ops) = 1 /\ ops[1] = q /\ ops # <<>>
        BY <3>8
      <4>2. \A i \in 1..Len(ops) : i = 1
        BY <4>1
      <4>3. Unasked(ops)
        BY <3>6, <4>1, <4>2 DEF Unasked
      <4>4. QED BY <3>2, <3>6, <4>1, <4>2, <4>3 DEF b
    <3>9. QED BY <3>3, <3>4, <3>5, <3>7, <3>8
  <2>4. QED BY <2>2, <2>3
(* The writes of an acceptance, a new term first. *)
<1>AcceptOps.
    ASSUME Types, NEW n \in Node, NEW m, NEW t \in Term, t >= mem[n].term, NEW base, base = SteppedUp(n, t),
           NEW g, NEW l, NEW k, l = Merged(base.log, m), k = m.prev + Held(base.log, m),
           MergedTo(l, k, base.log, g, m), NEW ops, ops = stepUp(n, t) \o mergeWrites(base, base.log, m)
    PROVE  Leads(n, t, base, k, l, [base EXCEPT !.log = l], ops)
  <2> USE <1>AcceptOps
  <2> DEFINE im == [base EXCEPT !.log = l]
  <2>0. l \in Seq(Entry)
    BY SMTT(30) DEF MergedTo
  <2>1. /\ base \in Image /\ base.term = t
        /\ t = mem[n].term => base = mem[n]
        /\ \/ stepUp(n, t) = <<>> /\ base = mem[n]
           \/ stepUp(n, t) = <<Op("HardState", base)>> /\ t > mem[n].term
    BY SteppedUpIs
  <2>2. im \in Image /\ im.term = t /\ im.vote = base.vote /\ im.log = l /\ (l = base.log => im = base)
    BY ZenonT(60), <2>0, <2>1 DEF Image
  <2> HIDE DEF im
  <2>3. PICK q : q = mergeWrites(base, base.log, m)
    OBVIOUS
  <2>4. /\ q \in Seq(Write) /\ Unasked(q)
        /\ q = <<>> => l = base.log
        /\ q # <<>> => q[Len(q)].image = im
        /\ \A i \in 1..Len(q) : Through(base, base.log, k, l, q[i].image)
    <3>1. /\ q \in Seq(Write) /\ Unasked(q)
          /\ q = <<>> => l = base.log
          /\ q # <<>> => q[Len(q)].image = [base EXCEPT !.log = l]
          /\ \A i \in 1..Len(q) : Through(base, base.log, k, l, q[i].image)
      <4>1. MergeOf(l, k, base.log, m) /\ MergeWritesOf(q, base, m)
        BY <2>3 DEF MergeOf, MergeWritesOf
      <4>2. MergeQueue(q, base, k, l)
        BY Zenon, <2>1, <4>1, <1>mergeWritesAre
      <4>3. QED BY <4>2 DEF MergeQueue
    <3>2. im = [base EXCEPT !.log = l]
      BY DEF im
    <3>3. QED BY <3>1, <3>2, Zenon
  <2>5. CASE stepUp(n, t) = <<>> /\ base = mem[n]
    <3>1. ops = q
      BY <2>3, <2>4, <2>5
    <3>2. ops = <<>> => im = mem[n]
      BY <2>2, <2>4, <2>5, <3>1
    <3>3. t = mem[n].term
      BY SMTT(30), <2>1, <2>5
    <3>4. Leads(n, t, base, k, l, im, ops)
      BY <2>2, <2>4, <3>1, <3>2, <3>3 DEF Leads
    <3>5. QED BY <3>4 DEF im
  <2>6. CASE stepUp(n, t) = <<Op("HardState", base)>> /\ t > mem[n].term
    <3>1. PICK h \in Seq(Write) : /\ h = <<Op("HardState", base)>> /\ Len(h) = 1 /\ h[1].kind = "HardState" /\ h[1].image = base
                                  /\ Unasked(h)
      <4> DEFINE h == <<Op("HardState", base)>>
      <4>1. h \in Seq(Write) /\ Len(h) = 1 /\ h[1].kind = "HardState" /\ h[1].image = base /\ Unasked(h)
        BY <2>1, OneOp DEF Kind
      <4> HIDE DEF h
      <4>2. QED BY ZenonT(30), <4>1 DEF h
    <3>2. ops = h \o q
      BY <2>3, <2>6, <3>1, Zenon
    <3>3. /\ ops \in Seq(Write) /\ Len(ops) = 1 + Len(q) /\ Len(q) \in Nat
          /\ \A i \in 1..Len(h) : ops[i] = h[i]
          /\ \A i \in 1..Len(ops) : i > Len(h) => i - Len(h) \in 1..Len(q) /\ ops[i] = q[i - Len(h)]
          /\ \A i \in 1..Len(q) : ops[Len(h) + i] = q[i]
      BY <2>4, <3>1, <3>2, ExtendedIs
    <3>4. ops[1] = h[1] /\ ops # <<>> /\ 1 \in 1..Len(ops)
      BY SMTT(30), <3>1, <3>3
    <3>5. Unasked(ops)
      <4>1. SUFFICES ASSUME NEW i \in 1..Len(ops) PROVE ops[i].then = {}
        BY Zenon DEF Unasked
      <4>2. CASE i = 1
        BY <3>1, <3>4, <4>2 DEF Unasked
      <4>3. CASE i > 1
        BY ZenonT(30), <2>4, <3>1, <3>3, <4>3 DEF Unasked
      <4>4. QED BY SMTT(30), <3>3, <4>2, <4>3
    <3>6. \A i \in 1..Len(ops) : Through(base, base.log, k, l, ops[i].image)
      <4>1. SUFFICES ASSUME NEW i \in 1..Len(ops) PROVE Through(base, base.log, k, l, ops[i].image)
        OBVIOUS
      <4>2. CASE i = 1
        <5>1. Through(base, base.log, k, l, base)
          BY SMTT(30), <2>1 DEF Through
        <5>2. QED BY SMTT(30), <3>1, <3>4, <4>2, <5>1
      <4>3. CASE i > 1
        <5>1. i - 1 \in 1..Len(q) /\ ops[i] = q[i - 1]
          BY ZenonT(60), <3>1, <3>3, <4>3
        <5>2. QED BY <2>4, <5>1
      <4>4. QED BY SMTT(30), <3>3, <4>2, <4>3
    <3>7. ops[Len(ops)].image = im
      <4>1. CASE q = <<>>
        <5>1. Len(ops) = 1 /\ im = base
          BY <2>2, <2>4, <3>3, <4>1
        <5>2. QED BY <3>1, <3>4, <5>1
      <4>2. CASE q # <<>>
        <5>1. Len(q) \in 1..Len(q)
          BY SMTT(30), <2>4, <3>3, <4>2, SeqEmpty
        <5>2. ops[Len(ops)] = q[Len(q)]
          BY ZenonT(60), <3>1, <3>3, <5>1
        <5>3. QED BY ZenonT(60), <2>4, <4>2, <5>2
      <4>3. QED BY ZenonT(30), <4>1, <4>2
    <3>8. ops[1].kind = "HardState"
      BY <3>1, <3>4
    <3>9. Leads(n, t, base, k, l, im, ops)
      BY ZenonT(60), <2>2, <3>3, <3>4, <3>5, <3>6, <3>7, <3>8 DEF Leads
    <3>10. QED BY <3>9 DEF im
  <2>7. QED BY SMTT(30), <2>1, <2>5, <2>6
(* The order of the queue. *)
<1>LeadsQueue.
    ASSUME Types, NEW n \in Node, QueueOK(n), NEW t \in Term, t >= mem[n].term, NEW base, base.term = t, NEW k, NEW l, NEW im,
           NEW ops, Leads(n, t, base, k, l, im, ops), NEW w, w = writes[n] \o ops
    PROVE  QueueOf(n, disk[n], w, im) /\ w \in Seq(Write) /\ Len(w) \in Nat
  <2> USE <1>LeadsQueue
  <2>1. writes[n] \in Seq(Write) /\ ops \in Seq(Write) /\ Unasked(ops) /\ disk[n] \in Image /\ mem[n] \in Image
        /\ mem[n].term \in Nat /\ t \in Nat /\ t \in 0..MaxTerm
    BY SMTT(30), NodeTyped, ReplicationConstants DEF Leads, Term
  <2>2. w \in Seq(Write) /\ Len(w) \in Nat
    BY SMTT(30), <2>1, ExtendedIs, SeqLen
  <2>3. CASE ops = <<>>
    <3>1. w = writes[n] /\ im = mem[n]
      BY SMTT(30), <2>1, <2>3 DEF Leads
    <3>2. QED BY SMTT(30), <2>2, <3>1 DEF QueueOK
  <2>4. CASE ops # <<>>
    <3>1. \A i \in 1..Len(ops) : ops[i].image.term = t
      BY DEF Leads, Through
    <3>2. mem[n].term = t \/ ops[1].kind = "HardState"
      BY DEF Leads
    <3>3. mem[n].term <= t
      BY <2>1
    <3>4. QueueOf(n, disk[n], writes[n], mem[n])
      BY SMTT(30) DEF QueueOK
    <3>5. QueueOf(n, disk[n], w, ops[Len(ops)].image)
      BY ZenonT(30), <2>1, <2>4, <3>1, <3>2, <3>3, <3>4, ExtendedQueue
    <3>6. QED BY <2>2, <2>4, <3>5 DEF Leads
  <2>5. QED BY SMTT(30), <2>3, <2>4
(* What an acknowledgement waits for: from there on every image is of the  *)
(* request's term and holds the batch.                                     *)
<1>AcceptGate.
    ASSUME Types, NEW n \in Node, NEW w \in Seq(Write), NEW im \in Image, QueueOf(n, disk[n], w, im),
           NEW m \in AppendRequests, NEW l \in Seq(Entry), im.log = l,
           m.entries # <<>> => m.prev + Len(m.entries) <= Len(l)
    PROVE  /\ ackGate(n, w, l, m) \in 0..Len(w)
           /\ \A j \in ackGate(n, w, l, m)..Len(w) :
                /\ ImageOf(disk[n], w, j).term = im.term
                /\ m.entries # <<>> => SameTo(ImageOf(disk[n], w, j).log, l, m.prev + Len(m.entries))
  <2> USE <1>AcceptGate
  <2>1. Len(w) \in Nat /\ disk[n] \in Image /\ m.prev \in Nat /\ Len(m.entries) \in Nat
    BY SMTT(30), NodeTyped, SeqLen DEF AppendRequests
  <2>2. HasLogs(disk[n], w)
    <3>1. \A i \in 1..Len(w) : w[i].image \in Image
      <4>1. \A i \in 1..Len(w) : w[i] \in Write
        BY SeqItem
      <4>2. QED BY <4>1 DEF Write
    <3>2. QED BY <2>1, <3>1 DEF HasLogs, Image
  <2>3. PICK tg \in 0..Len(w) : tg = termGate(w) /\ \A h \in (tg + 1)..Len(w) : w[h].kind # "HardState"
    BY <2>1, TermGateIs
  <2>4. \A j \in tg..Len(w) : ImageOf(disk[n], w, j).term = im.term
    <3>1. SUFFICES ASSUME NEW j \in tg..Len(w) PROVE ImageOf(disk[n], w, j).term = im.term
      OBVIOUS
    <3>2. j \in 0..Len(w) /\ \A h \in (j + 1)..Len(w) : h \in (tg + 1)..Len(w)
      BY <2>1
    <3>3. \A h \in (j + 1)..Len(w) : w[h].kind # "HardState"
      BY SMTT(30), <2>3, <3>2
    <3>4. QED BY <3>2, <3>3 DEF QueueOf
  <2>5. CASE m.entries = <<>>
    BY SMTT(30), <2>3, <2>4, <2>5 DEF ackGate
  <2>6. CASE m.entries # <<>>
    <3>1. PICK i \in Nat : i = m.prev + Len(m.entries) /\ i <= Len(l)
      BY <2>1, <2>6
    <3>2. ImageOf(disk[n], w, Len(w)).log = l
      BY DEF QueueOf
    <3>3. PICK c \in 0..Len(w) : c = writeSeqCovering(disk[n], w, l, i) /\ \A j \in c..Len(w) : SameTo(ImageOf(disk[n], w, j).log, l, i)
      BY ZenonT(60), <2>2, <3>1, <3>2, CoverIs
    <3>4. ackGate(n, w, l, m) = Max({tg, c})
      BY <2>3, <2>6, <3>1, <3>3 DEF ackGate
    <3>5. PICK a \in 0..Len(w) : a = Max({tg, c}) /\ a >= tg /\ a >= c
      <4>1. tg \in Nat /\ c \in Nat
        OBVIOUS
      <4>2. Max({tg, c}) = IF tg >= c THEN tg ELSE c
        BY <4>1, MaxOfTwo
      <4>3. QED BY <4>1, <4>2
    <3>6. \A j \in a..Len(w) : j \in tg..Len(w) /\ j \in c..Len(w)
      BY <2>1, <3>5
    <3>7. \A j \in a..Len(w) : ImageOf(disk[n], w, j).term = im.term /\ SameTo(ImageOf(disk[n], w, j).log, l, i)
      BY <2>4, <3>3, <3>6
    <3>8. QED BY ZenonT(30), <3>1, <3>4, <3>5, <3>7
  <2>7. QED BY <2>5, <2>6
<1>acceptEntriesAccepts.
    ASSUME NEW L \in SomeLogs, MatchInv(L), NEW n \in Node, NEW m \in msgs, m.type = "AppendEntries",
           acceptEntries(n, m), UNCHANGED <<disk, restarts, given>>
    PROVE  IsAccepting(n, m, L)
  <2> USE <1>acceptEntriesAccepts
  <2>0. Types /\ QueueOK(n)
    BY DEF MatchInv
  <2>1. m.term >= mem[n].term /\ PrevIsThere(mem[n].log, m)
    BY DEF acceptEntries, currentTerm, log, PrevIsThere
  <2>2. /\ m \in AppendRequests /\ L[m.term] \in Seq(Entry)
        /\ MergedTo(Merged(mem[n].log, m), m.prev + Held(mem[n].log, m), mem[n].log, L[m.term], m)
    BY <2>1, <1>AcceptedLog
  <2>3. PICK t \in Term : t = m.term
    BY SMTT(30), <2>2 DEF AppendRequests
  <2>4. PICK base \in Image : base = SteppedUp(n, t) /\ base.term = t /\ base.log = mem[n].log /\ (t = mem[n].term => base = mem[n])
    BY <2>0, <2>1, <2>3, SteppedUpIs
  <2>5. PICK l, k : l = Merged(base.log, m) /\ k = m.prev + Held(base.log, m)
    OBVIOUS
  <2>6. MergedTo(l, k, base.log, L[m.term], m)
    BY <2>2, <2>4, <2>5
  <2>7. PICK ops : ops = stepUp(n, t) \o mergeWrites(base, base.log, m)
    BY Zenon
  <2>8. PICK im : im = [base EXCEPT !.log = l]
    BY Zenon
  <2>9. Leads(n, t, base, k, l, im, ops)
    <3>1. Leads(n, t, base, k, l, [base EXCEPT !.log = l], ops)
      BY Zenon, <2>0, <2>1, <2>3, <2>4, <2>5, <2>6, <2>7, <1>AcceptOps
    <3>2. QED BY <2>8, <3>1, Zenon
  <2>10. PICK w : w = writes[n] \o ops
    BY ZenonT(30)
  <2>11. QueueOf(n, disk[n], w, im) /\ w \in Seq(Write) /\ Len(w) \in Nat
    BY Zenon, <2>0, <2>1, <2>3, <2>4, <2>9, <2>10, <1>LeadsQueue
  <2>12. writes[n] \o stepUp(n, t) \o mergeWrites(base, base.log, m) = w
    <3>1. writes[n] \in Seq(Write)
      BY <2>0, NodeTyped
    <3>2. PICK u : u = stepUp(n, t)
      OBVIOUS
    <3>2a. u \in Seq(Write)
      <4>1. u = <<>> \/ u = <<Op("HardState", base)>>
        BY <2>0, <2>1, <2>3, <2>4, <3>2, SteppedUpIs
      <4>2. QED BY Zenon, <4>1, NoOps, OneOp DEF Kind
    <3>3. PICK v : v = mergeWrites(base, base.log, m)
      OBVIOUS
    <3>4. v \in Seq(Write)
      <4>1. MergeOf(l, k, base.log, m) /\ MergeWritesOf(v, base, m)
        BY SMTT(30), <2>5, <3>3 DEF MergeOf, MergeWritesOf
      <4>2. MergeQueue(v, base, k, l)
        BY Zenon, <2>6, <4>1, <1>mergeWritesAre
      <4>3. QED BY <4>2 DEF MergeQueue
    <3>5. (writes[n] \o u) \o v = writes[n] \o (u \o v)
      BY ZenonT(30), <3>1, <3>2a, <3>4, QueueAssociative
    <3>6. QED BY ZenonT(30), <2>7, <2>10, <3>2, <3>3, <3>5
  <2>13. l \in Seq(Entry) /\ im \in Image /\ im.log = l /\ im.term = t
    BY <2>6, <2>9 DEF MergedTo, Leads
  <2>14. m.entries # <<>> => m.prev + Len(m.entries) <= Len(l)
    BY <2>6 DEF MergedTo, SameTo
  <2>15. PICK gate : gate = ackGate(n, w, l, m)
    OBVIOUS
  <2>16. /\ gate \in 0..Len(w)
         /\ \A j \in gate..Len(w) :
              /\ ImageOf(disk[n], w, j).term = t
              /\ m.entries # <<>> => SameTo(ImageOf(disk[n], w, j).log, l, m.prev + Len(m.entries))
    <3>1. /\ ackGate(n, w, l, m) \in 0..Len(w)
          /\ \A j \in ackGate(n, w, l, m)..Len(w) :
                /\ ImageOf(disk[n], w, j).term = im.term
                /\ m.entries # <<>> => SameTo(ImageOf(disk[n], w, j).log, l, m.prev + Len(m.entries))
      BY <2>0, <2>2, <2>11, <2>13, <2>14, <1>AcceptGate
    <3>2. QED BY ZenonT(30), <2>13, <2>15, <3>1
  <2>17. /\ mem' = [mem EXCEPT ![n] = im]
         /\ applyFollowerTransition(n) /\ setCommitIndex(n, l, coveredCommit(l, m), m.term)
         /\ replyWhenDurable(n, w, gate, {accepted(m)})
    <3>1. LET l1 == Merged(log(n), m)
              w1 == writes[n] \o stepUp(n, m.term) \o mergeWrites(SteppedUp(n, m.term), log(n), m)
          IN  /\ mem' = [mem EXCEPT ![n] = [SteppedUp(n, m.term) EXCEPT !.log = l1]]
              /\ applyFollowerTransition(n) /\ setCommitIndex(n, l1, coveredCommit(l1, m), m.term)
              /\ replyWhenDurable(n, w1, ackGate(n, w1, l1, m), {accepted(m)})
      BY DEF acceptEntries
    <3>2. Merged(log(n), m) = l /\ log(n) = base.log /\ SteppedUp(n, m.term) = base /\ m.term = t
      BY <2>3, <2>4, <2>5 DEF log
    <3>3. writes[n] \o stepUp(n, m.term) \o mergeWrites(SteppedUp(n, m.term), log(n), m) = w
      BY ZenonT(30), <2>12, <3>2
    <3>4. QED BY Zenon, <2>8, <2>15, <3>1, <3>2, <3>3
  <2>18. Queued(n, w, gate, {accepted(m)})
    BY ZenonT(60), <2>17, ReplyQueues
  <2>19. \A a \in WaitImages(n, ops, gate) :
            a.term = m.term /\ (m.entries # <<>> => SameTo(a.log, l, m.prev + Len(m.entries)))
    BY <2>3, <2>10, <2>16 DEF WaitImages
  <2>20. Accepting(n, m, L, base, k, l, im, ops, gate)
    BY ZenonT(30), <2>1, <2>3, <2>4, <2>6, <2>9, <2>10, <2>16, <2>17, <2>18, <2>19 DEF Accepting
  <2>21. QED BY <2>20 DEF IsAccepting
<1>q. QED BY <1>acceptEntriesAccepts

(* Accepting a request is sound: the follower's log goes through logs that *)
(* match the leaders'.                                                     *)
LEMMA AcceptingIsSound ==
  \A L \in SomeLogs, n \in Node, m \in AppendRequests : \A base, k, l, im, ops, gate :
    /\ MatchInv(L)
    /\ m.to = n
    /\ Accepting(n, m, L, base, k, l, im, ops, gate)
    => /\ Sound(n, OpImages(ops), {accepted(m)}, WaitImages(n, ops, gate), L)
       /\ mem'[n] = im /\ \A a \in OpImages(ops) : Through(base, mem[n].log, k, l, a)
(* The acknowledgement. *)
<1>AcceptedIs.
    ASSUME NEW m \in AppendRequests
    PROVE  /\ accepted(m) \in AppendReplies /\ accepted(m).from = m.to /\ accepted(m).term = m.term
           /\ accepted(m).type = "AppendReply" /\ accepted(m).conflictIndex = 0 /\ accepted(m).last # -1
           /\ accepted(m).last = IF m.entries = <<>> THEN 0 ELSE m.prev + Len(m.entries)
  <2> USE <1>AcceptedIs
  <2>1. m.prev \in Nat /\ Len(m.entries) \in Nat
    BY SeqLen DEF AppendRequests
  <2>2. PICK e \in Nat : e = IF m.entries = <<>> THEN 0 ELSE m.prev + Len(m.entries)
    BY <2>1
  <2>3. accepted(m) = [type |-> "AppendReply", from |-> m.to, to |-> m.from, process |-> m.process,
                       term |-> m.term, last |-> e, prev |-> 0, conflictIndex |-> 0, conflictTerm |-> 0]
    BY <2>2 DEF accepted, AppendReply
  <2>4. 0 \in 0..MaxTerm
    BY ReplicationConstants
  <2>5. QED BY <2>2, <2>3, <2>4 DEF AppendReplies, AppendRequests
(* What the step adds. *)
<1>AcceptingMoves.
    ASSUME Types, \A p \in Node : QueueOK(p), NEW n \in Node, NEW m \in AppendRequests, m.to = n, NEW L,
           NEW base, NEW k, NEW l, NEW im, NEW ops, NEW gate, Accepting(n, m, L, base, k, l, im, ops, gate)
    PROVE  /\ Moves(n, OpImages(ops), {accepted(m)}, WaitImages(n, ops, gate))
           /\ (\A p \in Node : QueueOK(p)') /\ Types' /\ mem'[n] = im
           /\ \A a \in OpImages(ops) : Through(base, mem[n].log, k, l, a)
  <2> USE <1>AcceptingMoves
  <2>1. /\ accepted(m) \in AppendReplies /\ accepted(m).from = n /\ accepted(m).term = m.term
        /\ accepted(m).type = "AppendReply" /\ accepted(m).last # -1
    BY ZenonT(30), <1>AcceptedIs
  <2>2. /\ im \in Image /\ im.term = m.term /\ ops \in Seq(Write) /\ Unasked(ops) /\ (ops = <<>> => im = mem[n])
        /\ (ops # <<>> => ops[Len(ops)].image = im)
        /\ \A i \in 1..Len(ops) : Through(base, mem[n].log, k, l, ops[i].image)
        /\ m.term # mem[n].term => ops # <<>> /\ ops[1].kind = "HardState"
    BY ZenonT(30) DEF Accepting, Leads
  <2>3. mem' \in [Node -> Image] /\ mem'[n] = im /\ \A p \in Node : p # n => mem'[p] = mem[p]
    BY ZenonT(30), <2>2 DEF Accepting, Types
  <2>4. /\ state' \in [Node -> State] /\ nextIndex' \in [Node -> [Node -> Nat]]
        /\ matchIndex' \in [Node -> [Node -> Nat]] /\ termStart' \in [Node -> Nat]
        /\ \A p \in Node : p # n => state'[p] = state[p]
    BY ZenonT(30), FollowerVars DEF Accepting
  <2>5. Len(ops) \in Nat /\ (ops # <<>> => Len(ops) \in 1..Len(ops))
    BY SMTT(30), <2>2, SeqLen, SeqEmpty
  <2>6. mem'[n] \in {mem[n]} \cup OpImages(ops)
    BY <2>2, <2>3, <2>5 DEF OpImages
  <2>7. MayWait(gate, {accepted(m)})
    BY <2>1 DEF MayWait, Promise
  <2>8. Writing(n, ops, gate, {accepted(m)})
    BY ZenonT(30), <2>1, <2>2, <2>3, <2>4, <2>6, <2>7 DEF Writing, Accepting
  <2>9. Moves(n, OpImages(ops), {accepted(m)}, WaitImages(n, ops, gate)) /\ writes' \in [Node -> Seq(Write)]
    BY <2>8, WritingMoves
  <2>10. Leaves(n, ops)
    <3>1. CASE ops = <<>>
      BY ZenonT(60), <2>2, <2>3, <3>1 DEF Leaves
    <3>2. CASE ops # <<>>
      <4>1. \A i \in 1..Len(ops) : ops[i].image.term = m.term
        BY Zenon, <2>2 DEF Through, Accepting
      <4>2. m.term \in 0..MaxTerm /\ mem[n].term <= m.term
        <5>1. m.term \in Term /\ m.term >= mem[n].term
          BY Zenon DEF Accepting
        <5>2. mem[n].term \in Nat /\ m.term \in Nat /\ m.term \in 0..MaxTerm
          BY Zenon, <5>1, NodeTyped, TermIs
        <5>3. QED BY <5>1, <5>2
      <4>3. QED BY SMTT(30), <2>2, <2>3, <3>2, <4>1, <4>2 DEF Leaves
    <3>3. QED BY SMTT(30), <3>1, <3>2
  <2>11. AckTerms(n, ops, gate, {accepted(m)})
    <3>1. gate \in gate..Len(writes[n] \o ops)
      <4>1. gate \in 0..Len(writes[n] \o ops)
        BY Zenon DEF Accepting
      <4>2. QED BY <4>1
    <3>2. ImageOf(disk[n], writes[n] \o ops, gate) \in WaitImages(n, ops, gate)
      BY SMTT(30), <3>1 DEF WaitImages
    <3>3. ImageOf(disk[n], writes[n] \o ops, gate).term = m.term
      BY ZenonT(30), <3>2 DEF Accepting
    <3>4. QED BY ZenonT(30), <2>1, <3>3 DEF AckTerms
  <2>12. \A p \in Node : QueueOK(p)'
    BY SMTT(30), <2>8, <2>10, <2>11, WritingQueue
  <2>13. Types'
    <3>1. msgs' \subseteq Promise \cup AppendRequests
      <4>1. msgs' \subseteq msgs \cup {accepted(m)}
        BY ZenonT(30), <2>8 DEF Writing, Queued, Sent
      <4>2. QED BY ZenonT(30), <2>1, <4>1 DEF Types, Promise
    <3>2. commitIndex' \in [Node -> Nat]
      <4>1. PICK a \in Nat, b \in Nat : a = m.commit /\ b = m.prev + Len(m.entries)
        BY SeqLen DEF AppendRequests
      <4>2. Min({a, b}) = IF a <= b THEN a ELSE b
        BY MinOfTwo
      <4>3. coveredCommit(l, m) \in Nat
        BY SMTT(30), <4>1, <4>2 DEF coveredCommit
      <4>4. QED BY Zenon, <4>3, CommitTyped DEF Accepting, Types
    <3>3. given' \in DOMAIN Situations /\ disk' \in [Node -> Image] /\ restarts' \in [Node -> Nat]
      BY ZenonT(30) DEF Types, Accepting
    <3>4. QED BY SMTT(30), <2>3, <2>4, <2>9, <3>1, <3>2, <3>3 DEF Types
  <2>14. \A a \in OpImages(ops) : Through(base, mem[n].log, k, l, a)
    BY Zenon, <2>2 DEF OpImages
  <2>15. QED BY ZenonT(30), <2>3, <2>9, <2>12, <2>13, <2>14
<1>AcceptingIsSound.
    ASSUME NEW L \in SomeLogs, MatchInv(L), NEW n \in Node, NEW m \in AppendRequests, m.to = n,
           NEW base, NEW k, NEW l, NEW im, NEW ops, NEW gate, Accepting(n, m, L, base, k, l, im, ops, gate)
    PROVE  /\ Sound(n, OpImages(ops), {accepted(m)}, WaitImages(n, ops, gate), L)
           /\ mem'[n] = im /\ \A a \in OpImages(ops) : Through(base, mem[n].log, k, l, a)
  <2> USE <1>AcceptingIsSound
  <2>0. Types /\ (\A p \in Node : QueueOK(p)) /\ LeaderLogs(L) /\ ImagesOK(L)
    BY SMTT(30) DEF MatchInv
  <2> DEFINE New == OpImages(ops)
             R == {accepted(m)}
             Rep == WaitImages(n, ops, gate)
  <2>1. /\ Moves(n, New, R, Rep) /\ (\A p \in Node : QueueOK(p)') /\ Types' /\ mem'[n] = im
        /\ \A a \in New : Through(base, mem[n].log, k, l, a)
    BY ZenonT(30), <2>0, <1>AcceptingMoves
  <2>2. PICK t \in Term : t = m.term /\ t >= mem[n].term /\ mem[n].term \in Nat /\ t \in Nat
    <3>1. m.term \in Term /\ m.term >= mem[n].term
      BY Zenon DEF Accepting
    <3>2. QED BY Zenon, <2>0, <3>1, NodeTyped, TermIs
  <2>3. /\ base.term = t /\ (t = mem[n].term => base = mem[n]) /\ MergedTo(l, k, mem[n].log, L[t], m)
        /\ im.term = t /\ im.vote = base.vote
    BY Zenon, <2>2 DEF Accepting, Leads
  <2>4. PICK l0 \in Seq(Entry) : l0 = mem[n].log /\ Matching(L, l0) /\ \A i \in 1..Len(l0) : l0[i].term <= t
    <3>1. mem[n] \in Images(n)
      BY ZenonT(30), <2>0, MemIsImage
    <3>2. Matching(L, mem[n].log) /\ Timely(mem[n]) /\ mem[n].log \in Seq(Entry)
      BY SMTT(30), <2>0, <3>1, NodeTyped DEF ImagesOK
    <3>3. \A i \in 1..Len(mem[n].log) : mem[n].log[i].term <= t
      <4>1. SUFFICES ASSUME NEW i \in 1..Len(mem[n].log) PROVE mem[n].log[i].term <= t
        OBVIOUS
      <4>2. PICK u \in Nat : u = mem[n].log[i].term
        BY SMTT(30), <3>2, EntryOf
      <4>3. u <= mem[n].term
        BY <3>2, <4>2 DEF Timely
      <4>4. QED BY <2>2, <4>2, <4>3
    <3>4. QED BY ZenonT(30), <3>2, <3>3
  <2>5. Matching(L, L[t]) /\ EndsIn(L[t], t)
    BY SMTT(30), <2>0 DEF LeaderLogs
  <2>6. \A a \in New : Matching(L, a.log) /\ Timely(a)
    <3>1. SUFFICES ASSUME NEW a \in New PROVE Matching(L, a.log) /\ Timely(a)
      BY SMTT(30)
    <3>2. Through(base, l0, k, l, a) /\ MergedTo(l, k, l0, L[t], m)
      BY ZenonT(30), <2>1, <2>3, <2>4
    <3>3. QED BY ZenonT(30), <2>3, <2>4, <2>5, <3>2, ThroughMatches
  <2>7. /\ accepted(m) \in AppendReplies /\ accepted(m).type = "AppendReply"
    BY SMTT(30), <1>AcceptedIs
  <2>8. Voting(n, New, R, Rep)
    <3>1. \A x \in R : ~ IsVote(x) /\ x \in Promise
      BY SMTT(30), <2>7 DEF IsVote, Promise
    <3>2. \A a \in New : /\ a.term \in Nat /\ a.term >= mem[n].term
                         /\ a.term = mem[n].term /\ mem[n].vote # None => a.vote = mem[n].vote
      BY ZenonT(30), <2>1, <2>2, <2>3 DEF Through
    <3>3. state'[n] = "Follower"
      BY ZenonT(30), <2>0, FollowerVars DEF Accepting
    <3>4. mem'[n].term \in Nat
      BY ZenonT(30), <2>1, <2>2, <2>3
    <3> HIDE DEF New, R, Rep
    <3>5. QED BY ZenonT(30), <3>1, <3>2, <3>3, <3>4 DEF Voting
  <2>9. Leading(n)
    <3>1. state'[n] = "Follower" /\ \A p \in Node : p # n => termStart'[p] = termStart[p] /\ nextIndex'[p] = nextIndex[p]
      BY Zenon, <2>0, FollowerVars DEF Accepting
    <3>2. QED BY ZenonT(30), <3>1 DEF Leading
  <2>10. \A x \in R : x.type = "AppendEntries" => RequestOK(L, x)
    BY <2>7
  <2>11. QED BY ZenonT(30), <2>1, <2>6, <2>8, <2>9, <2>10 DEF Sound
<1>q. QED BY SMTT(30), <1>AcceptingIsSound

-----------------------------------------------------------------------------
(* A step that changes at most the hard state is sound: it keeps the log,  *)
(* never takes a vote back, and says a vote once the write of it is done.  *)
LEMMA RecastIsSound ==
  \A L \in SomeLogs, n \in Node : \A im, ops, gate, R :
    /\ MatchInv(L)
    /\ Recast(n, im, ops, gate, R)
    => /\ Sound(n, OpImages(ops), R, WaitImages(n, ops, gate), L)
       /\ OpImages(ops) \subseteq {im} /\ mem'[n] = im
(* The image after the last write. *)
<1>LastImage.
    ASSUME NEW w \in Seq(Write), NEW ops \in Seq(Write), ops # <<>>, NEW d
    PROVE  ImageOf(d, w \o ops, Len(w \o ops)) = ops[Len(ops)].image
  <2> USE <1>LastImage
  <2>1. Len(ops) \in Nat \ {0} /\ Len(w) \in Nat
    BY SeqEmpty, SeqLen
  <2>2. Len(w \o ops) = Len(w) + Len(ops) /\ \A k \in 1..Len(ops) : (w \o ops)[Len(w) + k] = ops[k]
    BY ExtendedIs
  <2>3. Len(ops) \in 1..Len(ops) /\ Len(w) + Len(ops) # 0
    BY <2>1
  <2>4. QED BY <2>2, <2>3 DEF ImageOf
(* What may become of a leader's variables. *)
<1>LeaderVarsTyped.
    ASSUME Types, NEW n \in Node, NEW im, Turns(n, im)
    PROVE  /\ state' \in [Node -> State] /\ nextIndex' \in [Node -> [Node -> Nat]]
           /\ matchIndex' \in [Node -> [Node -> Nat]] /\ termStart' \in [Node -> Nat]
           /\ \A p \in Node : p # n => /\ state'[p] = state[p] /\ termStart'[p] = termStart[p]
                                       /\ nextIndex'[p] = nextIndex[p] /\ matchIndex'[p] = matchIndex[p]
  <2> USE <1>LeaderVarsTyped
  <2>1. NoPeers \in [Node -> Nat]
    BY DEF NoPeers
  <2>2. /\ state \in [Node -> State] /\ nextIndex \in [Node -> [Node -> Nat]]
        /\ matchIndex \in [Node -> [Node -> Nat]] /\ termStart \in [Node -> Nat]
    BY DEF Types
  <2>3. CASE UNCHANGED <<state, leaderVars>>
    BY <2>2, <2>3 DEF leaderVars
  <2>4. CASE applyFollowerTransition(n)
    <3>1. /\ state' = [state EXCEPT ![n] = "Follower"] /\ nextIndex' = [nextIndex EXCEPT ![n] = NoPeers]
          /\ matchIndex' = [matchIndex EXCEPT ![n] = NoPeers] /\ termStart' = [termStart EXCEPT ![n] = 0]
      BY <2>4 DEF applyFollowerTransition
    <3>2. QED BY <2>1, <2>2, <3>1 DEF State
  <2>5. CASE state' = [state EXCEPT ![n] = "Candidate"] /\ UNCHANGED leaderVars
    BY ZenonT(60), <2>2, <2>5 DEF leaderVars, State
  <2>6. QED BY <2>3, <2>4, <2>5 DEF Turns
(* The queue after the step. *)
<1>RecastWrites.
    ASSUME Types, \A p \in Node : QueueOK(p), NEW n \in Node, NEW im, NEW ops, NEW gate, NEW R, Recast(n, im, ops, gate, R)
    PROVE  /\ Writing(n, ops, gate, R) /\ Leaves(n, ops) /\ AckTerms(n, ops, gate, R)
           /\ mem' \in [Node -> Image] /\ mem'[n] = im /\ OpImages(ops) \subseteq {im}
  <2> USE <1>RecastWrites
  <2>1. im \in Image /\ mem' = [mem EXCEPT ![n] = im] /\ mem \in [Node -> Image]
    BY DEF Recast, Types
  <2>2. mem' \in [Node -> Image] /\ mem'[n] = im /\ \A p \in Node : p # n => mem'[p] = mem[p]
    BY <2>1
  <2>3. \A p \in Node : p # n => state'[p] = state[p]
    BY ZenonT(60) DEF Recast, Turns, applyFollowerTransition, Types
  <2>4. CASE ops = <<>> /\ im = mem[n]
    <3>1. ops \in Seq(Write) /\ Unasked(ops) /\ OpImages(ops) = {}
      BY <2>4, NoOps
    <3>2. Leaves(n, ops)
      BY ZenonT(60), <2>2, <2>4 DEF Leaves
    <3>3. QED BY <2>2, <2>3, <2>4, <3>1, <3>2 DEF Recast, Writing, AckTerms, IsAck, MayWait
  <2>5. CASE ops = <<Op("HardState", im)>>
    <3>1. /\ ops \in Seq(Write) /\ Len(ops) = 1 /\ ops[1].kind = "HardState" /\ ops[1].image = im
          /\ Unasked(ops) /\ OpImages(ops) = {im}
      BY SMTT(30), <2>1, <2>5, OneOp DEF Kind
    <3>2. Leaves(n, ops)
      <4>0. ops # <<>>
        <5>1. Len(<<>>) = 0
          OBVIOUS
        <5>2. QED BY SMTT(30), <3>1, <5>1
      <4>1. ops # <<>> /\ \A k \in 1..Len(ops) : k = 1
        <5>1. PICK e : e = Len(ops) /\ e = 1
          BY <3>1
        <5>2. \A k \in 1..e : k = 1
          BY <5>1
        <5>3. QED BY <4>0, <5>1, <5>2, Zenon
      <4>2. im.term \in 0..MaxTerm
        BY ZenonT(60), <2>1 DEF Image
      <4>3. mem[n].term \in Int /\ im.term \in Int /\ mem[n].term <= im.term
        BY <4>2, NodeTyped, ReplicationConstants DEF Recast
      <4>4. QED BY SMTT(30), <2>2, <3>1, <4>1, <4>2, <4>3 DEF Leaves
    <3>3. QED BY SMTT(30), <2>2, <2>3, <3>1, <3>2 DEF Recast, Writing, AckTerms, IsAck, MayWait
  <2>6. QED BY <2>4, <2>5 DEF Recast
<1>RecastIsSound.
    ASSUME NEW L \in SomeLogs, MatchInv(L), NEW n \in Node, NEW im, NEW ops, NEW gate, NEW R, Recast(n, im, ops, gate, R)
    PROVE  /\ Sound(n, OpImages(ops), R, WaitImages(n, ops, gate), L)
           /\ OpImages(ops) \subseteq {im} /\ mem'[n] = im
  <2> USE <1>RecastIsSound
  <2>0. Types /\ (\A p \in Node : QueueOK(p)) /\ ImagesOK(L) /\ LeadersOK(L)
    BY DEF MatchInv
  <2>1. /\ Writing(n, ops, gate, R) /\ Leaves(n, ops) /\ AckTerms(n, ops, gate, R)
        /\ mem' \in [Node -> Image] /\ mem'[n] = im /\ OpImages(ops) \subseteq {im}
    BY <2>0, <1>RecastWrites
  <2>2. Moves(n, OpImages(ops), R, WaitImages(n, ops, gate)) /\ writes' \in [Node -> Seq(Write)]
    BY <2>0, <2>1, WritingMoves
  <2>3. \A p \in Node : QueueOK(p)'
    BY SMTT(30), <2>0, <2>1, WritingQueue
  <2>4. Turns(n, im) /\ UNCHANGED <<disk, given, restarts, commitIndex, committed>> /\ R \subseteq Promise
    BY ZenonT(30) DEF Recast
  <2>5. /\ state' \in [Node -> State] /\ nextIndex' \in [Node -> [Node -> Nat]]
        /\ matchIndex' \in [Node -> [Node -> Nat]] /\ termStart' \in [Node -> Nat]
        /\ \A p \in Node : p # n => termStart'[p] = termStart[p] /\ nextIndex'[p] = nextIndex[p]
    BY ZenonT(30), <2>0, <2>4, <1>LeaderVarsTyped
  <2>6. Types'
    <3>1. msgs' \subseteq Promise \cup AppendRequests
      BY SMTT(30), <2>0, <2>4 DEF Recast, Queued, Sent, Types
    <3>2. QED BY ZenonT(60), <2>0, <2>1, <2>2, <2>4, <2>5, <3>1 DEF Types
  <2>7. /\ im \in Image /\ im.log = mem[n].log /\ im.term >= mem[n].term
        /\ im.term = mem[n].term /\ mem[n].vote # None => im.vote = mem[n].vote
        /\ im.term \in Nat /\ mem[n].term \in Nat
    <3>1. /\ im \in Image /\ im.log = mem[n].log /\ im.term >= mem[n].term
          /\ im.term = mem[n].term /\ mem[n].vote # None => im.vote = mem[n].vote
      BY Zenon DEF Recast
    <3>2. im.term \in Nat
      BY <3>1 DEF Image
    <3>3. QED BY Zenon, <2>0, <3>1, <3>2, NodeTyped
  <2>8. Voting(n, OpImages(ops), R, WaitImages(n, ops, gate))
    <3>1. ASSUME NEW x \in R, IsVote(x)
          PROVE  /\ \A i \in WaitImages(n, ops, gate) : KeepsVote(x, i)
                 /\ \A y \in R : y = x
                 /\ \/ x.term > mem[n].term
                    \/ x.type = "VoteReply" /\ x.term = mem[n].term /\ mem[n].vote \in {None, Choice(x)}
                 /\ x.type = "RequestVote" => /\ x.lastIndex = Len(mem'[n].log)
                                              /\ x.lastTerm = termAt(mem'[n].log, Len(mem'[n].log))
                 /\ x.type = "VoteReply" => \E r \in msgs : r.type = "RequestVote" /\ r.from = x.to /\ r.term = x.term
      <4>1. R = {x} /\ gate = Len(writes[n] \o ops) /\ ops # <<>> /\ VoteOf(n, x, im)
        BY Zenon, <3>1 DEF Recast
      <4>2. x.term = im.term /\ Choice(x) = im.vote
        BY Zenon, <4>1 DEF VoteOf
      <4>3. \A i \in WaitImages(n, ops, gate) : i = im
        <5>1. ops \in Seq(Write) /\ writes[n] \in Seq(Write)
          BY Zenon, <2>0, <2>1, NodeTyped DEF Writing
        <5>2. ImageOf(disk[n], writes[n] \o ops, gate) = ops[Len(ops)].image
          BY ZenonT(30), <4>1, <5>1, <1>LastImage
        <5>3. ops[Len(ops)].image = im
          BY ZenonT(30), <2>1, <4>1 DEF Leaves
        <5>4. gate \in Nat
          BY Zenon, <4>1, <5>1, ExtendedIs, SeqLen
        <5>5. \A j \in gate..gate : j = gate
          BY <5>4
        <5>6. QED BY <4>1, <5>2, <5>3, <5>5 DEF WaitImages
      <4>4. \A i \in WaitImages(n, ops, gate) : KeepsVote(x, i)
        BY ZenonT(60), <4>2, <4>3 DEF KeepsVote
      <4>5. \/ x.term > mem[n].term
            \/ x.type = "VoteReply" /\ x.term = mem[n].term /\ mem[n].vote \in {None, Choice(x)}
        <5>1. im.term = mem[n].term \/ im.term > mem[n].term
          BY <2>7
        <5>2. QED BY Zenon, <4>1, <4>2, <5>1 DEF VoteOf
      <4>6. QED BY Zenon, <2>1, <2>7, <4>1, <4>4, <4>5 DEF VoteOf
    <3>2. state'[n] = "Candidate" =>
            \/ mem'[n].term > mem[n].term
            \/ state[n] = "Candidate" /\ mem'[n].term = mem[n].term /\ mem'[n].log = log(n)
      BY SMTT(30), <2>0, <2>1, <2>4, <2>7 DEF Turns, applyFollowerTransition, log, Types
    <3>3. \A i \in OpImages(ops) : /\ i.term \in Nat /\ i.term >= mem[n].term
                                   /\ i.term = mem[n].term /\ mem[n].vote # None => i.vote = mem[n].vote
      BY ZenonT(30), <2>1, <2>7
    <3>4. QED BY Zenon, <2>1, <2>4, <2>7, <3>1, <3>2, <3>3 DEF Voting
  <2>9. Leading(n)
    <3>1. state'[n] = "Leader" =>
            state[n] = "Leader" /\ im.term = mem[n].term /\ termStart'[n] = termStart[n] /\ nextIndex'[n] = nextIndex[n]
      BY SMTT(30), <2>0, <2>4 DEF Turns, applyFollowerTransition, leaderVars, Types
    <3>2. state[n] = "Leader" => \A p \in Node : nextIndex[n][p] >= 1
      BY Zenon, <2>0 DEF LeadersOK
    <3>3. QED BY ZenonT(60), <2>1, <2>5, <2>7, <3>1, <3>2 DEF Leading
  <2>10. \A i \in OpImages(ops) : Matching(L, i.log) /\ Timely(i)
    <3>1. Matching(L, mem[n].log) /\ Timely(mem[n])
      BY ZenonT(60), <2>0, MemIsImage DEF ImagesOK
    <3>2. Matching(L, im.log) /\ Timely(im)
      <4>1. \A i \in 1..Len(mem[n].log) : mem[n].log[i].term \in Nat /\ mem[n].log[i].term <= mem[n].term
        BY ZenonT(60), <2>0, <3>1, NodeTyped, EntryOf DEF Timely
      <4>2. \A i \in 1..Len(im.log) : im.log[i].term <= im.term
        <5>1. SUFFICES ASSUME NEW i \in 1..Len(mem[n].log) PROVE mem[n].log[i].term <= im.term
          BY Zenon, <2>7
        <5>2. PICK u \in Nat : u = mem[n].log[i].term /\ u <= mem[n].term
          BY Zenon, <4>1
        <5>3. u <= im.term
          BY <2>7, <5>2
        <5>4. QED BY Zenon, <5>2, <5>3
      <4>3. QED BY ZenonT(60), <2>7, <3>1, <4>2 DEF Timely
    <3>3. QED BY ZenonT(60), <2>1, <3>2
  <2>11. \A x \in R : x.type = "AppendEntries" => RequestOK(L, x)
    BY <2>4 DEF Promise, RequestVotes, VoteReplies, AppendReplies
  <2>12. Sound(n, OpImages(ops), R, WaitImages(n, ops, gate), L)
    BY ZenonT(30), <2>2, <2>3, <2>6, <2>8, <2>9, <2>10, <2>11 DEF Sound
  <2>13. QED BY <2>1, <2>12
<1>q. QED BY <1>RecastIsSound

(* Behind the write of a term every image is of the term. *)
LEMMA QueueGrows ==
  ASSUME Basics, Types, NEW n \in Node, NEW im \in Image, NEW ops, ops = <<>> \/ ops = <<Op("HardState", im)>>
  PROVE  /\ ops \in Seq(Write) /\ writes[n] \o ops \in Seq(Write) /\ Len(writes[n] \o ops) \in Nat
         /\ Len(writes[n] \o ops) \in 0..Len(writes[n] \o ops) /\ termGate(writes[n] \o ops) \in 0..Len(writes[n] \o ops)
         /\ ops = <<>> => writes[n] \o ops = writes[n]
<1>1. ops \in Seq(Write) /\ writes[n] \in Seq(Write)
  BY ZenonT(30), NoOps, OneOp, NodeTyped DEF Kind
<1>2. writes[n] \o ops \in Seq(Write) /\ Len(writes[n] \o ops) \in Nat
  BY <1>1, ExtendedIs, SeqLen
<1>3. termGate(writes[n] \o ops) \in 0..Len(writes[n] \o ops)
  BY Zenon, <1>2, TermGateIs
<1>4. ops = <<>> => writes[n] \o ops = writes[n]
  BY <1>1
<1>5. QED BY <1>1, <1>2, <1>3, <1>4

(* becomeCandidate changes at most the hard state. *)
LEMMA becomeCandidateRecasts ==
  ASSUME Basics, Types, NEW n \in Node, becomeCandidate(n)
  PROVE  IsRecast(n)
<1>1. PICK t \in Term : t = currentTerm(n) + 1 /\ t > mem[n].term /\ mem[n].term \in Nat
  <2>1. currentTerm(n) + 1 <= MaxTerm
    BY DEF becomeCandidate
  <2>2. mem[n].term \in 0..MaxTerm /\ MaxTerm \in Nat
    BY NodeTyped
  <2>3. QED BY <2>1, <2>2 DEF currentTerm, Term
<1>2. PICK im \in Image : im = Saved(n, t, n) /\ im.term = t /\ im.vote = n /\ im.log = mem[n].log
  BY SavedIs
<1>3. PICK ops : ops = <<Op("HardState", im)>>
  BY Zenon
<1>4. PICK x : x = RequestVote(t, n, log(n))
  OBVIOUS
<1>5. PICK w : w = writes[n] \o ops
  BY ZenonT(30)
<1>6. /\ state[n] # "Leader" /\ mem' = [mem EXCEPT ![n] = im]
      /\ replyWhenDurable(n, w, Len(w), {x}) /\ state' = [state EXCEPT ![n] = "Candidate"]
      /\ UNCHANGED <<disk, nextIndex, matchIndex, termStart, commitIndex, restarts, given, committed>>
  BY <1>1, <1>2, <1>3, <1>4, <1>5 DEF becomeCandidate, saveTerm
<1>7. Queued(n, w, Len(w), {x}) /\ Len(w) \in 0..Len(w)
  BY ZenonT(30), <1>3, <1>5, <1>6, ReplyQueues, QueueGrows
<1>8. x \in Promise /\ x.from = n /\ x.type = "RequestVote" /\ x.term = t /\ x.lastIndex = Len(mem[n].log) /\ x.lastTerm = termAt(mem[n].log, Len(mem[n].log))
  <2>1. Len(mem[n].log) \in Nat /\ termAt(mem[n].log, Len(mem[n].log)) \in 0..MaxTerm
    BY ZenonT(60), NodeTyped, TermAtTyped
  <2>2. QED BY ZenonT(60), <1>4, <2>1 DEF RequestVote, log, Promise, RequestVotes
<1>9. VoteOf(n, x, im) /\ ~ IsAck(x)
  BY <1>1, <1>2, <1>8 DEF VoteOf, Choice, IsAck
<1>10. ops # <<>>
  BY <1>3
<1>11. Turns(n, im)
  BY SMTT(30), <1>1, <1>2, <1>6 DEF Turns, leaderVars
<1>12. Recast(n, im, ops, Len(w), {x})
  <2>0. t \in Nat
    BY Zenon, TermIs
  <2>1. im.term >= mem[n].term /\ im.term # mem[n].term
    BY <1>1, <1>2, <2>0
  <2>2. {x} \subseteq Promise /\ \A y \in {x} : y = x
    BY Zenon, <1>8
  <2>3. QED BY Zenon, <1>2, <1>3, <1>5, <1>6, <1>7, <1>8, <1>9, <1>10, <1>11, <2>1, <2>2 DEF Recast
<1>13. QED BY <1>12 DEF IsRecast

(* So do handleRequestVote, stepping down, and the refusals of a request   *)
(* with an old term or one whose previous entry is not there.              *)
LEMMA handleRequestsRecast ==
  ASSUME Basics
  PROVE  \A L \in SomeLogs, n \in Node, m \in msgs :
           /\ MatchInv(L)
           /\ \/ handleRequestVote(n, m) \/ handleVoteResult(n, m)
              \/ handleAppendEntries(n, m) /\ ~ acceptEntries(n, m)
              \/ handleAppendResult(n, m) /\ stepDown(n, m.term)
           => IsRecast(n)
(* A vote, or its refusal. *)
<1>handleRequestVoteRecasts.
    ASSUME Types, NEW n \in Node, NEW m \in msgs, handleRequestVote(n, m)
    PROVE  IsRecast(n)
  <2> USE <1>handleRequestVoteRecasts
  <2>1. m.type = "RequestVote" /\ UNCHANGED <<disk, commitIndex, restarts, given, committed>>
    BY ZenonT(60) DEF handleRequestVote
  <2>2. m.term \in Term /\ m.from \in Node /\ m.term \in Nat /\ mem[n].term \in Nat /\ mem[n] \in Image
    BY <2>1, MessageTyped, NodeTyped, ReplicationConstants DEF RequestVotes, Term
  <2>3. CASE voteInNewTerm(n, m)
    <3> DEFINE grant == n \in Voter /\ isUpToDate(log(n), m.lastIndex, m.lastTerm)
               R == {r \in {VoteReply(m.term, TRUE, n, m.from)} : grant}
    <3>1. PICK v \in Node \cup {None} : v = IF grant THEN m.from ELSE None
      BY <2>2
    <3>2. PICK im \in Image : im = Saved(n, m.term, v) /\ im.term = m.term /\ im.vote = v /\ im.log = mem[n].log
      BY <2>2, SavedIs
    <3>3. PICK ops : ops = <<Op("HardState", im)>>
      BY Zenon
    <3>4. PICK w : w = writes[n] \o ops
      BY Zenon
    <3>5. /\ m.term > mem[n].term /\ mem' = [mem EXCEPT ![n] = im] /\ applyFollowerTransition(n)
          /\ replyWhenDurable(n, w, Len(w), R)
      BY ZenonT(30), <2>3, <3>1, <3>2, <3>3, <3>4 DEF voteInNewTerm, saveTerm, currentTerm
    <3>6. Queued(n, w, Len(w), R) /\ Len(w) \in 0..Len(w)
      BY ZenonT(60), <3>3, <3>4, <3>5, ReplyQueues, QueueGrows
    <3>7. ASSUME NEW x \in R
          PROVE  x \in Promise /\ x.from = n /\ ~ IsAck(x) /\ R = {x} /\ VoteOf(n, x, im)
      <4>1. x = VoteReply(m.term, TRUE, n, m.from) /\ grant /\ R = {x}
        BY Zenon
      <4>2. x \in VoteReplies /\ x.from = n /\ x.type = "VoteReply" /\ x.to = m.from /\ x.term = m.term
        BY <2>2, <4>1 DEF VoteReply, VoteReplies
      <4>3. VoteOf(n, x, im)
        <5>1. Choice(x) = im.vote
          BY ZenonT(30), <3>1, <3>2, <4>1, <4>2 DEF Choice
        <5>2. isUpToDate(mem[n].log, m.lastIndex, m.lastTerm)
          BY <4>1 DEF log
        <5>3. QED BY Zenon, <2>1, <3>2, <3>5, <4>2, <5>1, <5>2 DEF VoteOf
      <4>4. QED BY Zenon, <4>1, <4>2, <4>3 DEF Promise, IsAck
    <3>8. ops # <<>>
      BY <3>3
    <3>9. Turns(n, im)
      BY ZenonT(60), <3>5 DEF Turns
    <3>10. im.term >= mem[n].term /\ im.term # mem[n].term
      BY <2>2, <3>2, <3>5
    <3> HIDE DEF R
    <3>11. Recast(n, im, ops, Len(w), R)
      BY ZenonT(30), <2>1, <3>2, <3>3, <3>4, <3>5, <3>6, <3>7, <3>8, <3>9, <3>10 DEF Recast
    <3>12. QED BY <3>11 DEF IsRecast
  <2>4. CASE voteInCurrentTerm(n, m)
    <3>1. PICK im \in Image : im = Saved(n, m.term, m.from) /\ im.term = m.term /\ im.vote = m.from /\ im.log = mem[n].log
      BY <2>2, SavedIs
    <3>2. PICK ops : ops = <<Op("HardState", im)>>
      BY Zenon
    <3>3. PICK w : w = writes[n] \o ops
      BY Zenon
    <3>4. PICK x : x = VoteReply(m.term, TRUE, n, m.from)
      BY Zenon
    <3>5. /\ m.term = mem[n].term /\ mem[n].vote \in {None, m.from} /\ isUpToDate(mem[n].log, m.lastIndex, m.lastTerm)
          /\ mem' = [mem EXCEPT ![n] = im] /\ replyWhenDurable(n, w, Len(w), {x})
          /\ UNCHANGED <<state, leaderVars>>
      BY ZenonT(30), <2>4, <3>1, <3>2, <3>3, <3>4 DEF voteInCurrentTerm, saveTerm, currentTerm, log
    <3>6. Queued(n, w, Len(w), {x}) /\ Len(w) \in 0..Len(w)
      BY ZenonT(30), <3>2, <3>3, <3>5, ReplyQueues, QueueGrows
    <3>7. x \in Promise /\ x.from = n /\ x.type = "VoteReply" /\ x.to = m.from /\ x.term = m.term /\ ~ IsAck(x)
      BY <2>2, <3>4 DEF VoteReply, VoteReplies, Promise, IsAck
    <3>8. VoteOf(n, x, im)
      BY ZenonT(30), <2>1, <3>1, <3>5, <3>7 DEF VoteOf, Choice
    <3>9. ops # <<>>
      BY ZenonT(60), <3>2
    <3>10. Turns(n, im)
      BY ZenonT(60), <3>1, <3>5 DEF Turns
    <3>10a. im.term >= mem[n].term /\ (im.term = mem[n].term /\ mem[n].vote # None => im.vote = mem[n].vote)
      BY <2>2, <3>1, <3>5
    <3>11. Recast(n, im, ops, Len(w), {x})
      BY ZenonT(30), <2>1, <3>1, <3>2, <3>3, <3>5, <3>6, <3>7, <3>8, <3>9, <3>10, <3>10a DEF Recast
    <3>12. QED BY <3>11 DEF IsRecast
  <2>5. CASE denyOldTerm(n, m)
    <3>1. PICK w : w = writes[n] \o <<>>
      OBVIOUS
    <3>2. w = writes[n] /\ termGate(w) \in 0..Len(w)
      BY Zenon, <2>2, <3>1, QueueGrows
    <3>3. PICK x : x = VoteReply(currentTerm(n), FALSE, n, m.from)
      BY Zenon
    <3>4. /\ m.term < mem[n].term /\ replyWhenDurable(n, w, termGate(w), {x})
          /\ UNCHANGED <<mem, state, leaderVars>>
      BY ZenonT(30), <2>5, <3>2, <3>3 DEF denyOldTerm, currentTerm
    <3>5. Queued(n, w, termGate(w), {x})
      BY ZenonT(60), <3>4, ReplyQueues
    <3>6. x \in Promise /\ x.from = n /\ ~ IsVote(x) /\ ~ IsAck(x)
      <4>1. mem[n].term \in Term
        BY <2>2, <3>4, NodeTyped DEF Term
      <4>2. QED BY ZenonT(60), <2>2, <3>3, <4>1 DEF currentTerm, VoteReply, VoteReplies, Promise, IsAck, IsVote
    <3>7. mem' = [mem EXCEPT ![n] = mem[n]]
      BY ZenonT(60), <3>4 DEF Types
    <3>8. Turns(n, mem[n])
      BY <3>4 DEF Turns
    <3>9. PICK im, gate, ops : im \in Image /\ im = mem[n] /\ gate = termGate(w) /\ ops = <<>>
      BY <2>2
    <3>10. /\ im.log = mem[n].log /\ im.term >= mem[n].term
           /\ im.term = mem[n].term /\ mem[n].vote # None => im.vote = mem[n].vote
      BY <2>2, <3>9
    <3>11. mem' = [mem EXCEPT ![n] = im] /\ Turns(n, im)
      BY <3>7, <3>8, <3>9
    <3>12. gate \in 0..Len(writes[n] \o ops) /\ Queued(n, writes[n] \o ops, gate, {x})
      BY <3>1, <3>2, <3>5, <3>9
    <3>13. Recast(n, im, ops, gate, {x})
      BY ZenonT(30), <2>1, <3>6, <3>9, <3>10, <3>11, <3>12 DEF Recast
    <3>14. QED BY <3>13 DEF IsRecast
  <2>6. QED BY SMTT(30), <2>3, <2>4, <2>5 DEF handleRequestVote
(* A later term in an answer. *)
<1>stepDownRecasts.
    ASSUME Types, NEW n \in Node, NEW t \in Term, stepDown(n, t), UNCHANGED <<disk, commitIndex, restarts, given, committed>>
    PROVE  IsRecast(n)
  <2> USE <1>stepDownRecasts
  <2>1. t > mem[n].term /\ mem[n].term \in Nat /\ t \in Nat
    BY NodeTyped, ReplicationConstants DEF stepDown, currentTerm, Term
  <2>2. PICK im \in Image : im = Saved(n, t, None) /\ im.term = t /\ im.vote = None /\ im.log = mem[n].log
    BY SavedIs
  <2>3. PICK ops : ops = <<Op("HardState", im)>>
    BY Zenon
  <2>4. PICK w : w = writes[n] \o ops
    BY Zenon
  <2>5. /\ mem' = [mem EXCEPT ![n] = im] /\ applyFollowerTransition(n) /\ replyWhenDurable(n, w, 0, {})
    BY ZenonT(30), <2>1, <2>2, <2>3, <2>4 DEF stepDown, stepUp, SteppedUp, saveTerm, currentTerm
  <2>6. Queued(n, w, 0, {}) /\ 0 \in 0..Len(w)
    BY SMTT(30), <2>3, <2>4, <2>5, ReplyQueues, QueueGrows
  <2>7. Recast(n, im, ops, 0, {})
    BY SMTT(30), <2>1, <2>2, <2>3, <2>4, <2>5, <2>6 DEF Recast, Turns
  <2>8. QED BY ZenonT(60), <2>7 DEF IsRecast
(* A request of an old term. *)
<1>refuseOldTermRecasts.
    ASSUME Types, NEW n \in Node, NEW m \in msgs, m.type = "AppendEntries", m.to = n, refuseOldTerm(n, m),
           UNCHANGED <<disk, restarts, given>>
    PROVE  IsRecast(n)
  <2> USE <1>refuseOldTermRecasts
  <2>1. m \in AppendRequests /\ mem[n] \in Image /\ mem[n].term \in Nat
    BY MessageTyped, NodeTyped
  <2>2. PICK w : w = writes[n] \o <<>>
    OBVIOUS
  <2>3. w = writes[n] /\ termGate(w) \in 0..Len(w)
    BY Zenon, <2>1, <2>2, QueueGrows
  <2>4. PICK x : x = outdated(m, currentTerm(n))
    OBVIOUS
  <2>5. /\ m.term < mem[n].term /\ replyWhenDurable(n, w, termGate(w), {x})
        /\ UNCHANGED <<mem, state, leaderVars, commitIndex, committed>>
    BY ZenonT(30), <2>3, <2>4 DEF refuseOldTerm, currentTerm
  <2>6. Queued(n, w, termGate(w), {x})
    BY <2>5, ReplyQueues
  <2>7. x \in Promise /\ x.from = n /\ ~ IsVote(x) /\ ~ IsAck(x)
    <3>1. mem[n].term \in Term
      <4>1. m.term \in Term /\ m.term \in 1..MaxTerm
        BY Zenon, <2>1 DEF AppendRequests, Term
      <4>2. mem[n].term \in 0..MaxTerm
        BY Zenon, NodeTyped
      <4>3. QED BY <2>5, <4>1, <4>2 DEF Term
    <3>2. x \in AppendReplies /\ x.from = n /\ x.type = "AppendReply" /\ x.last = -1
      BY <2>1, <2>4, <3>1, ReplicationConstants DEF currentTerm, outdated, AppendReply, AppendReplies, AppendRequests
    <3>3. QED BY ZenonT(60), <3>2 DEF Promise, IsAck, IsVote
  <2>8. mem' = [mem EXCEPT ![n] = mem[n]]
    BY <2>5 DEF Types
  <2>9. Turns(n, mem[n])
    BY <2>5 DEF Turns
  <2>10. PICK im, gate, ops : im \in Image /\ im = mem[n] /\ gate = termGate(w) /\ ops = <<>>
    BY <2>1
  <2>11. /\ im.log = mem[n].log /\ im.term >= mem[n].term
         /\ im.term = mem[n].term /\ mem[n].vote # None => im.vote = mem[n].vote
    BY <2>1, <2>10
  <2>12. mem' = [mem EXCEPT ![n] = im] /\ Turns(n, im)
    BY ZenonT(60), <2>8, <2>9, <2>10
  <2>13. gate \in 0..Len(writes[n] \o ops) /\ Queued(n, writes[n] \o ops, gate, {x})
    BY ZenonT(60), <2>2, <2>3, <2>6, <2>10
  <2>14. UNCHANGED <<disk, given, restarts, commitIndex, committed>>
    BY <2>5
  <2>15. Recast(n, im, ops, gate, {x})
    BY <2>7, <2>10, <2>11, <2>12, <2>13, <2>14, Zenon DEF Recast
  <2>16. QED BY ZenonT(60), <2>15 DEF IsRecast
(* A previous entry that is not there. *)
<1>refuseMismatchRecasts.
    ASSUME Types, NEW n \in Node, NEW m \in msgs, m.type = "AppendEntries", m.to = n, refuseMismatch(n, m),
           UNCHANGED <<disk, restarts, given>>
    PROVE  IsRecast(n)
  <2> USE <1>refuseMismatchRecasts
  <2> DEFINE prevTerm == termAt(log(n), m.prev)
             hint == IF prevTerm = 0 THEN Len(log(n)) + 1 ELSE termRunStart(log(n), m.prev)
  <2>1. m \in AppendRequests /\ mem[n].term \in Nat /\ mem[n].log \in Seq(Entry) /\ Len(mem[n].log) \in Nat
    BY SMTT(30), MessageTyped, NodeTyped
  <2>2. m.term \in Term /\ m.prev \in Nat /\ m.term >= mem[n].term /\ m.term \in Nat
    <3>1. m.term \in Term /\ m.prev \in Nat
      BY <2>1 DEF AppendRequests
    <3>2. m.term >= mem[n].term
      BY Zenon DEF refuseMismatch, currentTerm
    <3>3. QED BY Zenon, <3>1, <3>2, TermIs
  <2>3. prevTerm \in 0..MaxTerm /\ (prevTerm # 0 => m.prev \in 1..Len(mem[n].log))
    BY <2>1, TermAtTyped DEF log
  <2>4. hint \in Nat
    <3>1. CASE prevTerm = 0
      BY <2>1, <3>1 DEF log
    <3>2. CASE prevTerm # 0
      <4> DEFINE J == {j \in 1..m.prev : \A k \in j..m.prev : log(n)[k].term = log(n)[m.prev].term}
      <4>1. m.prev \in J
        <5>1. m.prev \in 1..m.prev /\ \A k \in m.prev..m.prev : k = m.prev
          BY <2>2, <2>3, <3>2
        <5>2. QED BY <5>1
      <4>2. J \subseteq Nat /\ J # {}
        BY <4>1
      <4>3. termRunStart(log(n), m.prev) = Min(J)
        BY DEF termRunStart
      <4> HIDE DEF J
      <4>4. Min(J) \in J
        BY ZenonT(30), <4>2, MinIs
      <4>5. QED BY Zenon, <3>2, <4>2, <4>3, <4>4
    <3>3. QED BY ZenonT(60), <3>1, <3>2
  <2>5. PICK im \in Image :
          /\ im = SteppedUp(n, m.term) /\ im.term = m.term /\ im.log = mem[n].log /\ (m.term = mem[n].term => im = mem[n])
          /\ \/ stepUp(n, m.term) = <<>> /\ im = mem[n]
             \/ stepUp(n, m.term) = <<Op("HardState", im)>> /\ m.term > mem[n].term
    BY <2>2, SteppedUpIs
  <2>6. PICK ops : ops = stepUp(n, m.term)
    OBVIOUS
  <2>7. PICK w : w = writes[n] \o ops
    BY Zenon
  <2>8. PICK x : x = mismatch(m, hint, prevTerm)
    BY ZenonT(60)
  <2>9. /\ mem' = [mem EXCEPT ![n] = im] /\ applyFollowerTransition(n)
        /\ replyWhenDurable(n, w, termGate(w), {x}) /\ UNCHANGED <<commitIndex, committed>>
    BY ZenonT(60), <2>5, <2>6, <2>7, <2>8 DEF refuseMismatch
  <2>10. x \in Promise /\ x.from = n /\ ~ IsVote(x) /\ ~ IsAck(x)
    <3> HIDE DEF hint, prevTerm
    <3>1. x \in AppendReplies /\ x.from = n /\ x.type = "AppendReply" /\ x.last = -1
      BY Zenon, <2>1, <2>2, <2>3, <2>4, <2>8 DEF mismatch, AppendReply, AppendReplies, AppendRequests
    <3>2. QED BY <3>1 DEF Promise, IsAck, IsVote
  <2>11. Queued(n, w, termGate(w), {x}) /\ termGate(w) \in 0..Len(w)
    BY Zenon, <2>5, <2>6, <2>7, <2>9, ReplyQueues, QueueGrows
  <2>12. Recast(n, im, ops, termGate(w), {x})
    BY ZenonT(30), <2>1, <2>2, <2>5, <2>6, <2>7, <2>9, <2>10, <2>11 DEF Recast, Turns
  <2>13. QED BY ZenonT(60), <2>12 DEF IsRecast
<1>handleRequestsRecast.
    ASSUME NEW L \in SomeLogs, MatchInv(L), NEW n \in Node, NEW m \in msgs,
           \/ handleRequestVote(n, m) \/ handleVoteResult(n, m)
           \/ handleAppendEntries(n, m) /\ ~ acceptEntries(n, m)
           \/ handleAppendResult(n, m) /\ stepDown(n, m.term)
    PROVE  IsRecast(n)
  <2> USE <1>handleRequestsRecast
  <2>1. Types
    BY DEF MatchInv
  <2>2. CASE handleRequestVote(n, m)
    BY <2>1, <2>2, <1>handleRequestVoteRecasts
  <2>3. CASE handleVoteResult(n, m)
    <3>1. m.type = "VoteReply" /\ stepDown(n, m.term) /\ UNCHANGED <<disk, commitIndex, restarts, given, committed>>
      BY <2>3 DEF handleVoteResult
    <3>2. m.term \in Term
      BY ZenonT(60), <2>1, <3>1, MessageTyped DEF VoteReplies
    <3>3. QED BY ZenonT(60), <2>1, <3>1, <3>2, <1>stepDownRecasts
  <2>4. CASE handleAppendEntries(n, m) /\ ~ acceptEntries(n, m)
    <3>1. /\ m.type = "AppendEntries" /\ m.to = n /\ UNCHANGED <<disk, restarts, given>>
          /\ refuseOldTerm(n, m) \/ refuseMismatch(n, m)
      BY <2>4 DEF handleAppendEntries
    <3>2. QED BY ZenonT(60), <2>1, <3>1, <1>refuseOldTermRecasts, <1>refuseMismatchRecasts
  <2>5. CASE handleAppendResult(n, m) /\ stepDown(n, m.term)
    <3>1. m.type = "AppendReply" /\ UNCHANGED <<disk, restarts, given>>
      BY <2>5 DEF handleAppendResult
    <3>2. m.term \in Term
      BY SMTT(30), <2>1, <3>1, MessageTyped DEF AppendReplies
    <3>3. m.term > mem[n].term /\ mem[n].term \in Nat /\ m.term \in Nat
      <4>1. m.term > mem[n].term
        BY Zenon, <2>5 DEF stepDown, currentTerm
      <4>2. QED BY Zenon, <2>1, <3>2, <4>1, NodeTyped, TermIs
    <3>4. UNCHANGED <<commitIndex, committed>>
      <4>1. ~ (m.term <= currentTerm(n))
        BY <3>3 DEF currentTerm
      <4>2. QED BY Zenon, <2>5, <4>1 DEF handleAppendResult
    <3>5. QED BY ZenonT(60), <2>1, <2>5, <3>1, <3>2, <3>4, <1>stepDownRecasts
  <2>6. QED BY <2>2, <2>3, <2>4, <2>5
<1>q. QED BY SMTT(30), <1>handleRequestsRecast
=============================================================================
