-------------------------- MODULE ReplicationLogs ---------------------------
(***************************************************************************)
(* Lemmas about the data of Replication: logs that match, queues of writes *)
(* and what a disk goes through as they complete, and what merging a batch *)
(* into a log (handleAppendEntries) makes of it.  Nothing here depends on  *)
(* the actions; facts on least elements and quorums are taken as Basics,   *)
(* which ReplicationTheorems proves.                                       *)
(***************************************************************************)
EXTENDS ReplicationInv, TLAPS

(* The length of a sequence and its domain. *)
LEMMA SeqLen ==
  ASSUME NEW S, NEW s \in Seq(S)
  PROVE  Len(s) \in Nat /\ s \in [1..Len(s) -> S] /\ DOMAIN s = 1..Len(s)
OBVIOUS

(* The empty sequence is the one of no items. *)
LEMMA SeqEmpty ==
  ASSUME NEW S
  PROVE  /\ <<>> \in Seq(S) /\ Len(<<>>) = 0
         /\ \A s \in Seq(S) : s # <<>> => Len(s) \in Nat \ {0}
OBVIOUS

(* What is in a sequence. *)
LEMMA SeqItem ==
  ASSUME NEW S, NEW s \in Seq(S), NEW i \in 1..Len(s)
  PROVE  s[i] \in S
OBVIOUS

(* A part of a sequence. *)
LEMMA SeqPart ==
  ASSUME NEW S, NEW s, NEW i \in Int, NEW j \in Int, \A k \in i..j : s[k] \in S
  PROVE  /\ SubSeq(s, i, j) \in Seq(S)
         /\ Len(SubSeq(s, i, j)) = (IF i <= j THEN j - i + 1 ELSE 0)
         /\ \A k \in 1..(j - i + 1) : SubSeq(s, i, j)[k] = s[i + k - 1]
OBVIOUS

(* A sequence with one more item. *)
LEMMA SeqGrown ==
  ASSUME NEW S, NEW s \in Seq(S), NEW x \in S
  PROVE  /\ Append(s, x) \in Seq(S) /\ Append(s, x) # <<>> /\ Len(Append(s, x)) = Len(s) + 1
         /\ Append(s, x)[Len(s) + 1] = x
         /\ \A i \in 1..Len(s) : Append(s, x)[i] = s[i]
OBVIOUS

(* Two sequences of the same items are one. *)
LEMMA SeqSame ==
  ASSUME NEW S, NEW s \in Seq(S), NEW t \in Seq(S), Len(s) = Len(t), \A i \in 1..Len(s) : s[i] = t[i]
  PROVE  s = t
OBVIOUS

(* The greater and the smaller of two numbers, as the code's max and min. *)
LEMMA MaxOfTwo ==
  ASSUME NEW i \in Nat, NEW j \in Nat
  PROVE  Max({i, j}) = IF i >= j THEN i ELSE j
<1>1. \E x \in {i, j} : \A y \in {i, j} : x >= y
  OBVIOUS
<1>2. Max({i, j}) \in {i, j} /\ \A y \in {i, j} : Max({i, j}) >= y
  BY <1>1 DEF Max
<1>3. QED BY <1>2

(* The same for min. *)
LEMMA MinOfTwo ==
  ASSUME NEW i \in Nat, NEW j \in Nat
  PROVE  Min({i, j}) = IF i <= j THEN i ELSE j
<1>1. \E x \in {i, j} : \A y \in {i, j} : x <= y
  OBVIOUS
<1>2. Min({i, j}) \in {i, j} /\ \A y \in {i, j} : Min({i, j}) <= y
  BY <1>1 DEF Min
<1>3. QED BY <1>2

(* Two logs are the same up to i when their first i entries are equal. *)
LEMMA SameToIs ==
  ASSUME NEW l \in Seq(Entry), NEW k \in Seq(Entry), NEW i \in Nat
  PROVE  SameTo(l, k, i) <=> i <= Len(l) /\ i <= Len(k) /\ \A j \in 1..i : l[j] = k[j]
<1>1. CASE ~(i <= Len(l) /\ i <= Len(k))
  BY <1>1 DEF SameTo
<1>2. CASE i <= Len(l) /\ i <= Len(k)
  <2>1. /\ SubSeq(l, 1, i) \in Seq(Entry) /\ Len(SubSeq(l, 1, i)) = i
        /\ \A j \in 1..i : SubSeq(l, 1, i)[j] = l[j]
    <3>1. \A j \in 1..i : l[j] \in Entry
      BY <1>2, SeqItem, SeqLen
    <3>2. QED BY <3>1, SeqPart
  <2>2. /\ SubSeq(k, 1, i) \in Seq(Entry) /\ Len(SubSeq(k, 1, i)) = i
        /\ \A j \in 1..i : SubSeq(k, 1, i)[j] = k[j]
    <3>1. \A j \in 1..i : k[j] \in Entry
      BY <1>2, SeqItem, SeqLen
    <3>2. QED BY <3>1, SeqPart
  <2>3. (\A j \in 1..i : l[j] = k[j]) => SubSeq(l, 1, i) = SubSeq(k, 1, i)
    BY <2>1, <2>2, SeqSame
  <2>4. QED BY <1>2, <2>1, <2>2, <2>3 DEF SameTo
<1>3. QED BY <1>1, <1>2

(* Agreeing up to i is symmetric, ... *)
LEMMA SameToSymmetric ==
  ASSUME NEW l, NEW k, NEW i, SameTo(l, k, i)
  PROVE  SameTo(k, l, i)
BY Zenon DEF SameTo

(* ... transitive, ... *)
LEMMA SameToTransitive ==
  ASSUME NEW l, NEW k, NEW g, NEW i, SameTo(l, k, i), SameTo(k, g, i)
  PROVE  SameTo(l, g, i)
BY Zenon DEF SameTo

(* ... and the less demanding the smaller i is. *)
LEMMA SameToShorter ==
  ASSUME NEW l \in Seq(Entry), NEW k \in Seq(Entry), NEW i \in Nat, SameTo(l, k, i), NEW j \in Nat, j <= i
  PROVE  SameTo(l, k, j)
<1>1. i <= Len(l) /\ i <= Len(k) /\ \A h \in 1..i : l[h] = k[h]
  BY SameToIs
<1>2. Len(l) \in Nat /\ Len(k) \in Nat
  BY SeqLen
<1>3. j <= Len(l) /\ j <= Len(k) /\ \A h \in 1..j : l[h] = k[h]
  BY <1>1, <1>2
<1>4. QED BY <1>3, SameToIs

(* Any two logs agree up to 0. *)
LEMMA SameToZero ==
  ASSUME NEW l \in Seq(Entry), NEW k \in Seq(Entry)
  PROVE  SameTo(l, k, 0)
<1>1. Len(l) \in Nat /\ Len(k) \in Nat
  BY SeqLen
<1>2. QED BY <1>1, SameToIs

(* A log agrees with itself. *)
LEMMA SameToItself ==
  ASSUME NEW l \in Seq(Entry), NEW i \in Nat, i <= Len(l)
  PROVE  SameTo(l, l, i)
BY SameToIs

(* The first i entries of a log. *)
LEMMA PrefixIs ==
  ASSUME NEW l \in Seq(Entry), NEW i \in Nat, i <= Len(l)
  PROVE  /\ SubSeq(l, 1, i) \in Seq(Entry)
         /\ Len(SubSeq(l, 1, i)) = i
         /\ SameTo(SubSeq(l, 1, i), l, i)
<1> DEFINE p == SubSeq(l, 1, i)
<1>1. Len(l) \in Nat
  BY SeqLen
<1>2. \A j \in 1..i : l[j] \in Entry
  BY <1>1, SeqItem
<1>3. p \in Seq(Entry) /\ Len(p) = i /\ \A j \in 1..i : p[j] = l[j]
  BY <1>2, SeqPart
<1> HIDE DEF p
<1>4. SameTo(p, l, i)
  BY <1>1, <1>3, SameToIs
<1>5. QED BY <1>3, <1>4 DEF p

(* A log with one more entry. *)
LEMMA AppendIs ==
  ASSUME NEW l \in Seq(Entry), NEW x \in Entry
  PROVE  /\ Append(l, x) \in Seq(Entry)
         /\ Len(Append(l, x)) = Len(l) + 1
         /\ Append(l, x)[Len(l) + 1] = x
         /\ SameTo(Append(l, x), l, Len(l))
<1> DEFINE p == Append(l, x)
<1>1. Len(l) \in Nat
  BY SeqLen
<1>2. /\ p \in Seq(Entry) /\ Len(p) = Len(l) + 1 /\ p[Len(l) + 1] = x
      /\ \A i \in 1..Len(l) : p[i] = l[i]
  BY SeqGrown
<1> HIDE DEF p
<1>3. SameTo(p, l, Len(l))
  BY <1>1, <1>2, SameToIs
<1>4. QED BY <1>2, <1>3 DEF p

(* What termAt returns inside the log. *)
LEMMA EntryTerm ==
  ASSUME NEW l \in Seq(Entry), NEW i \in 1..Len(l)
  PROVE  l[i] \in Entry /\ l[i].term \in 1..MaxTerm /\ l[i].term # 0
<1>1. l[i] \in Entry
  BY SeqItem
<1>2. QED BY <1>1, ReplicationConstants DEF Entry

(* An entry of a log. *)
LEMMA EntryOf ==
  ASSUME NEW l \in Seq(Entry), NEW i \in 1..Len(l)
  PROVE  l[i].term \in Term /\ i \in Nat /\ Len(l) \in Nat /\ i <= Len(l) /\ l[i].term \in Nat
<1>1. Len(l) \in Nat
  BY SeqLen
<1>2. l[i].term \in 1..MaxTerm
  BY EntryTerm
<1>3. QED BY <1>1, <1>2, ReplicationConstants DEF Term

(* What termAt returns anywhere. *)
LEMMA TermAtTyped ==
  ASSUME NEW l \in Seq(Entry), NEW i
  PROVE  termAt(l, i) \in 0..MaxTerm /\ (termAt(l, i) # 0 <=> i \in 1..Len(l))
<1>1. CASE i \in 1..Len(l)
  <2>1. l[i].term \in 1..MaxTerm /\ l[i].term # 0
    BY <1>1, EntryTerm
  <2>2. termAt(l, i) = l[i].term
    BY <1>1 DEF termAt
  <2>3. QED BY <1>1, <2>1, <2>2, ReplicationConstants
<1>2. CASE i \notin 1..Len(l)
  BY <1>2, ReplicationConstants DEF termAt
<1>3. QED BY <1>1, <1>2

(* The logs of the leaders determine the logs that match them: where a     *)
(* matching log has an entry of t it has what the leader of t had.         *)
LEMMA MatchingAt ==
  ASSUME NEW L \in SomeLogs, NEW l \in Seq(Entry), Matching(L, l), NEW i \in 1..Len(l)
  PROVE  SameTo(l, L[l[i].term], i) /\ L[l[i].term] \in Seq(Entry) /\ i <= Len(L[l[i].term])
<1>1. SameTo(l, L[l[i].term], i)
  BY DEF Matching
<1>2. L[l[i].term] \in Seq(Entry)
  BY EntryOf DEF SomeLogs
<1>3. QED BY <1>1, <1>2 DEF SameTo

(* Two matching logs agree where they have an entry of one term in one     *)
(* place: what LogMatching says.                                           *)
LEMMA MatchingAlike ==
  ASSUME NEW L \in SomeLogs, NEW l \in Seq(Entry), Matching(L, l), NEW g \in Seq(Entry), Matching(L, g)
  PROVE  Alike(l, g)
<1>1. SUFFICES ASSUME NEW i \in 1..Len(l), i <= Len(g), l[i].term = g[i].term PROVE SameTo(l, g, i)
  BY DEF Alike
<1>2. Len(g) \in Nat /\ i \in Nat
  BY EntryOf, SeqLen
<1>3. i \in 1..Len(g)
  BY <1>1, <1>2
<1>4. SameTo(l, L[l[i].term], i)
  BY MatchingAt
<1>5. SameTo(g, L[l[i].term], i)
  BY <1>1, <1>3, MatchingAt
<1>6. QED BY <1>4, <1>5, SameToSymmetric, SameToTransitive

(* A prefix of a matching log matches. *)
LEMMA MatchingPrefix ==
  ASSUME NEW L \in SomeLogs, NEW g \in Seq(Entry), Matching(L, g), NEW l \in Seq(Entry), SameTo(l, g, Len(l))
  PROVE  Matching(L, l)
<1>1. SUFFICES ASSUME NEW i \in 1..Len(l) PROVE SameTo(l, L[l[i].term], i)
  BY DEF Matching
<1>2. i \in Nat /\ Len(l) \in Nat /\ i <= Len(l)
  BY EntryOf
<1>3. Len(l) <= Len(g) /\ l[i] = g[i] /\ Len(g) \in Nat
  BY <1>2, SameToIs, SeqLen
<1>4. i \in 1..Len(g)
  BY <1>2, <1>3
<1>5. SameTo(g, L[l[i].term], i)
  BY <1>3, <1>4, MatchingAt
<1>6. SameTo(l, g, i)
  BY <1>2, SameToShorter
<1>7. QED BY <1>5, <1>6, SameToTransitive

(* The terms of a matching log do not decrease. *)
LEMMA MatchingOrdered ==
  ASSUME NEW L \in SomeLogs, \A t \in Term : EndsIn(L[t], t), NEW l \in Seq(Entry), Matching(L, l),
         NEW i \in 1..Len(l), NEW j \in 1..Len(l), i <= j
  PROVE  l[i].term <= l[j].term
<1>1. PICK t \in Term : t = l[j].term
  BY EntryOf
<1>2. SameTo(l, L[t], j) /\ j <= Len(L[t]) /\ j \in Nat /\ i \in Nat /\ Len(l) \in Nat
  BY <1>1, MatchingAt, EntryOf
<1>3. L[t] \in Seq(Entry) /\ Len(L[t]) \in Nat
  BY SeqLen DEF SomeLogs
<1>4. l[i] = L[t][i] /\ l[j] = L[t][j]
  BY <1>2, <1>3, SameToIs
<1>5. i \in 1..Len(L[t]) /\ j \in 1..Len(L[t])
  BY <1>2, <1>3
<1>6. L[t][i].term <= L[t][j].term
  BY <1>5 DEF EndsIn
<1>7. QED BY <1>4, <1>6

(* No entry of a leader's log is of a later term. *)
LEMMA LeaderTerms ==
  ASSUME NEW L \in SomeLogs, NEW t \in Term, EndsIn(L[t], t), NEW i \in 1..Len(L[t])
  PROVE  L[t][i].term <= t
<1>1. L[t] \in Seq(Entry)
  BY DEF SomeLogs
<1>2. i \in Nat /\ Len(L[t]) \in Nat /\ i <= Len(L[t])
  BY <1>1, EntryOf
<1>3. Len(L[t]) \in 1..Len(L[t])
  BY <1>2
<1>4. L[t] # <<>>
  BY <1>3
<1>5. QED BY <1>2, <1>3, <1>4 DEF EndsIn

(* A term is a number up to the bound. *)
LEMMA TermIs ==
  ASSUME NEW t \in Term
  PROVE  t \in Nat /\ t \in 0..MaxTerm
BY ReplicationConstants DEF Term

(* The types of a node's state. *)
LEMMA NodeTyped ==
  ASSUME Types, NEW n \in Node
  PROVE  /\ mem[n] \in Image /\ disk[n] \in Image /\ writes[n] \in Seq(Write) /\ Len(writes[n]) \in Nat
         /\ mem[n].term \in Nat /\ mem[n].term \in 0..MaxTerm /\ disk[n].term \in 0..MaxTerm /\ MaxTerm \in Nat
         /\ mem[n].log \in Seq(Entry) /\ Len(mem[n].log) \in Nat
<1>1. mem[n] \in Image /\ disk[n] \in Image /\ writes[n] \in Seq(Write)
  BY DEF Types
<1>2. Len(writes[n]) \in Nat
  BY <1>1, SeqLen
<1>3. mem[n].log \in Seq(Entry) /\ mem[n].term \in 0..MaxTerm /\ disk[n].term \in 0..MaxTerm
  BY <1>1 DEF Image
<1>4. QED BY <1>1, <1>2, <1>3, SeqLen, ReplicationConstants

(* The types of the messages. *)
LEMMA MessageTyped ==
  ASSUME Types, NEW m \in msgs
  PROVE  /\ m.type = "RequestVote" => m \in RequestVotes
         /\ m.type = "VoteReply" => m \in VoteReplies
         /\ m.type = "AppendEntries" => m \in AppendRequests
         /\ m.type = "AppendReply" => m \in AppendReplies
BY Zenon DEF Types, Promise, RequestVotes, VoteReplies, AppendRequests, AppendReplies

(* The memory is the image the last queued write leaves. *)
LEMMA MemIsImage ==
  ASSUME Types, NEW n \in Node, QueueOK(n)
  PROVE  mem[n] \in Images(n) /\ disk[n] \in Images(n)
<1>1. Len(writes[n]) \in Nat
  BY NodeTyped
<1>2. 0 \in 0..Len(writes[n]) /\ Len(writes[n]) \in 0..Len(writes[n])
  BY <1>1
<1>3. mem[n] = ImageOf(disk[n], writes[n], Len(writes[n])) /\ disk[n] = ImageOf(disk[n], writes[n], 0)
  BY DEF QueueOK, QueueOf, ImageOf
<1>4. QED BY <1>2, <1>3 DEF Images, ImagesOf

(* MaxLogEntriesPerRPC is a number. *)
LEMMA BatchIs ==
  ASSUME Types
  PROVE  situation.batch \in Nat
<1>1. situation \in Range(Situations)
  BY DEF Types, situation, Range
<1>2. QED BY <1>1, ReplicationConstants

(* Two queues one behind the other. *)
LEMMA ExtendedIs ==
  ASSUME NEW w \in Seq(Write), NEW ops \in Seq(Write)
  PROVE  /\ w \o ops \in Seq(Write) /\ Len(w \o ops) = Len(w) + Len(ops)
         /\ Len(w) \in Nat /\ Len(ops) \in Nat
         /\ \A k \in 1..Len(w) : (w \o ops)[k] = w[k]
         /\ \A k \in 1..Len(w \o ops) : k > Len(w) => k - Len(w) \in 1..Len(ops) /\ (w \o ops)[k] = ops[k - Len(w)]
         /\ \A k \in 1..Len(ops) : (w \o ops)[Len(w) + k] = ops[k]
OBVIOUS

(* Writes that all leave term t, the first of them a hard state if the     *)
(* term is new, keep a queue in order.                                     *)
LEMMA ExtendedQueue ==
  ASSUME NEW w \in Seq(Write), NEW ops \in Seq(Write), Unasked(ops), NEW d \in Image, NEW n, NEW im \in Image,
         QueueOf(n, d, w, im), ops # <<>>, NEW t \in 0..MaxTerm, im.term <= t,
         \A k \in 1..Len(ops) : ops[k].image.term = t,
         im.term = t \/ ops[1].kind = "HardState"
  PROVE  QueueOf(n, d, w \o ops, ops[Len(ops)].image)
<1> DEFINE v == w \o ops
           last == ops[Len(ops)].image
           T(k) == ImageOf(d, v, k).term
           U(k) == ImageOf(d, w, k).term
<1>0. Len(ops) \in Nat \ {0}
  BY SeqEmpty, SeqLen
<1>1. /\ Len(v) = Len(w) + Len(ops) /\ Len(w) \in Nat
      /\ \A k \in 1..Len(w) : v[k] = w[k]
      /\ \A k \in 1..Len(v) : k > Len(w) => k - Len(w) \in 1..Len(ops) /\ v[k] = ops[k - Len(w)]
      /\ \A k \in 1..Len(ops) : v[Len(w) + k] = ops[k]
  BY ExtendedIs
<1> HIDE DEF v
<1>2. \A k \in 0..Len(w) : ImageOf(d, v, k) = ImageOf(d, w, k)
  BY <1>1 DEF ImageOf
<1>3. \A k \in 1..Len(v) : k > Len(w) => T(k) = t
  <2>1. SUFFICES ASSUME NEW k \in 1..Len(v), k > Len(w) PROVE T(k) = t
    OBVIOUS
  <2>2. v[k] = ops[k - Len(w)] /\ k - Len(w) \in 1..Len(ops)
    BY <1>1, <2>1
  <2>3. v[k].image.term = t
    BY <2>2
  <2>4. QED BY <1>1, <2>1, <2>3 DEF ImageOf
<1>4. ImageOf(d, v, Len(v)) = last /\ last.term = t
  <2>1. v[Len(v)] = ops[Len(ops)] /\ Len(v) # 0 /\ Len(ops) \in 1..Len(ops)
    BY <1>0, <1>1
  <2>2. QED BY <2>1 DEF ImageOf
<1>5. /\ ImageOf(d, w, Len(w)) = im
      /\ \A j, k \in 0..Len(w) : j <= k => U(j) <= U(k)
      /\ \A k \in 0..Len(w) : (\A h \in (k+1)..Len(w) : w[h].kind # "HardState") => U(k) = im.term
      /\ \A k \in 1..Len(w) : \A x \in w[k].then :
           x.from = n /\ (x.type = "AppendReply" /\ x.last # -1 => U(k) = x.term)
  BY DEF QueueOf
<1>6. \A k \in 0..Len(w) : U(k) \in Int /\ U(k) <= im.term /\ T(k) = U(k)
  <2>1. \A k \in 0..Len(w) : ImageOf(d, w, k) \in Image
    <3>1. \A k \in 1..Len(w) : w[k] \in Write
      BY SeqItem
    <3>2. QED BY <3>1 DEF Write, ImageOf
  <2>2. \A k \in 0..Len(w) : U(k) \in Int
    BY <2>1, ReplicationConstants DEF Image
  <2>3. \A k \in 0..Len(w) : U(k) <= U(Len(w))
    BY <1>1, <1>5
  <2>4. QED BY <1>2, <1>5, <2>2, <2>3
<1>7. ASSUME NEW j \in 0..Len(v), NEW k \in 0..Len(v), j <= k
      PROVE  T(j) <= T(k)
  <2>0. im.term \in Int /\ t \in Int
    BY ReplicationConstants DEF Image
  <2>1. CASE k \in 0..Len(w)
    <3>1. j \in 0..Len(w)
      BY <1>1, <1>7, <2>1
    <3>2. QED BY ZenonT(60), <1>5, <1>6, <1>7, <2>1, <3>1
  <2>2. CASE k > Len(w) /\ j \in 0..Len(w)
    <3>1. T(k) = t /\ T(j) <= im.term /\ T(j) \in Int
      <4>1. k \in 1..Len(v) /\ k > Len(w)
        BY <1>1, <2>2
      <4>2. T(k) = t
        BY <1>3, <4>1, Zenon
      <4>3. T(j) <= im.term /\ T(j) \in Int
        BY <1>6, <2>2
      <4>4. QED BY <4>2, <4>3
    <3>2. QED BY <2>0, <3>1
  <2>3. CASE k > Len(w) /\ j > Len(w)
    <3>1. T(k) = t /\ T(j) = t
      BY <1>1, <1>3, <2>3
    <3>2. QED BY <2>0, <3>1
  <2>4. QED BY <1>1, <2>1, <2>2, <2>3
<1>8. ASSUME NEW k \in 0..Len(v), \A h \in (k+1)..Len(v) : v[h].kind # "HardState"
      PROVE  T(k) = t
  <2>1. CASE k > Len(w)
    BY <1>1, <1>3, <2>1
  <2>2. CASE k \in 0..Len(w)
    <3>1. \A h \in (k+1)..Len(w) : w[h].kind # "HardState"
      <4>1. SUFFICES ASSUME NEW h \in (k+1)..Len(w) PROVE w[h].kind # "HardState"
        OBVIOUS
      <4>2. h \in (k+1)..Len(v) /\ v[h] = w[h]
        BY <1>0, <1>1, <2>2, <4>1
      <4>3. QED BY <1>8, <4>2
    <3>2. T(k) = im.term
      BY <1>5, <1>6, <2>2, <3>1
    <3>3. im.term = t
      <4>1. Len(w) + 1 \in (k+1)..Len(v) /\ 1 \in 1..Len(ops)
        BY <1>0, <1>1, <2>2
      <4>2. ops[1].kind # "HardState"
        BY <1>1, <1>8, <4>1
      <4>3. QED BY <4>2
    <3>4. QED BY <3>2, <3>3
  <2>3. QED BY <1>1, <2>1, <2>2
<1>9. ASSUME NEW k \in 1..Len(v), NEW x \in v[k].then
      PROVE  x.from = n /\ (x.type = "AppendReply" /\ x.last # -1 => T(k) = x.term)
  <2>1. CASE k > Len(w)
    <3>1. v[k] = ops[k - Len(w)] /\ k - Len(w) \in 1..Len(ops)
      BY <1>1, <2>1
    <3>2. v[k].then = {}
      BY <3>1 DEF Unasked
    <3>3. QED BY <1>9, <3>2
  <2>2. CASE k \in 1..Len(w)
    <3>1. x \in w[k].then /\ T(k) = U(k)
      BY <1>1, <1>6, <1>9, <2>2
    <3>2. QED BY <1>5, <2>2, <3>1
  <2>3. QED BY <1>1, <2>1, <2>2
<1>10. QED
  <2>1. QueueOf(n, d, v, last)
    BY <1>4, <1>7, <1>8, <1>9 DEF QueueOf
  <2>2. QED BY <2>1 DEF v

(* Queueing three times is associative. *)
LEMMA QueueAssociative ==
  ASSUME NEW a \in Seq(Write), NEW b \in Seq(Write), NEW c \in Seq(Write)
  PROVE  (a \o b) \o c = a \o (b \o c)
<1>1. a \o b \in Seq(Write) /\ b \o c \in Seq(Write)
  BY ExtendedIs
<1> DEFINE p == (a \o b) \o c
           q == a \o (b \o c)
<1>2. p \in Seq(Write) /\ q \in Seq(Write)
  BY <1>1, ExtendedIs
<1>3. Len(p) = Len(a) + Len(b) + Len(c) /\ Len(q) = Len(p)
  BY <1>1, ExtendedIs
<1>4. \A i \in 1..Len(p) : p[i] = q[i]
  OBVIOUS
<1> HIDE DEF p, q
<1>5. p = q
  BY <1>2, <1>3, <1>4, SeqSame
<1>6. QED BY <1>5 DEF p, q

(* replyWhenDurable: replies that wait for a write. *)
LEMMA AskedIs ==
  ASSUME NEW w \in Seq(Write), NEW gate \in 0..Len(w), NEW R, MayWait(gate, R)
  PROVE  /\ Asked(w, gate, R) \in Seq(Write) /\ Len(Asked(w, gate, R)) = Len(w) /\ Len(w) \in Nat
         /\ \A k \in 1..Len(w) : Asked(w, gate, R)[k].image = w[k].image
         /\ \A k \in 1..Len(w) : Asked(w, gate, R)[k].kind = w[k].kind
         /\ \A k \in 1..Len(w) : \A x : x \in Asked(w, gate, R)[k].then <=> x \in w[k].then \/ (k = gate /\ x \in R)
<1>0. Len(w) \in Nat /\ \A k \in 1..Len(w) : w[k] \in Write
  BY SeqLen, SeqItem
<1>1. CASE gate = 0
  BY <1>0, <1>1 DEF Asked
<1>2. CASE gate # 0
  <2> DEFINE v == [w EXCEPT ![gate].then = @ \cup R]
  <2>1. gate \in 1..Len(w) /\ w[gate] \in Write
    BY <1>0, <1>2
  <2>2. w[gate].kind \in Kind /\ w[gate].image \in Image /\ w[gate].then \in SUBSET Promise
    BY <2>1 DEF Write
  <2>3. [w[gate] EXCEPT !.then = @ \cup R] \in Write
    BY <1>2, <2>1, <2>2 DEF Write, MayWait
  <2>4. v = [w EXCEPT ![gate] = [w[gate] EXCEPT !.then = @ \cup R]]
    OBVIOUS
  <2>5. PICK o \in Write : o = [w[gate] EXCEPT !.then = @ \cup R]
    BY <2>3
  <2>5a. o.image = w[gate].image /\ o.kind = w[gate].kind /\ o.then = w[gate].then \cup R
    BY <2>1, <2>5 DEF Write
  <2>6. v = [w EXCEPT ![gate] = o]
    BY <2>4, <2>5
  <2> HIDE DEF v
  <2>7. v \in Seq(Write) /\ Len(v) = Len(w) /\ \A k \in 1..Len(w) : v[k] = IF k = gate THEN o ELSE w[k]
    BY <2>1, <2>6
  <2>8. Asked(w, gate, R) = v
    BY <1>2 DEF Asked, v
  <2>9. QED BY <1>0, <2>5a, <2>7, <2>8
<1>3. QED BY <1>1, <1>2

(* They change no image. *)
LEMMA AskedImage ==
  ASSUME NEW w \in Seq(Write), NEW gate \in 0..Len(w), NEW R, MayWait(gate, R), NEW d, NEW k \in 0..Len(w)
  PROVE  ImageOf(d, Asked(w, gate, R), k) = ImageOf(d, w, k)
<1>1. k # 0 => k \in 1..Len(w)
  OBVIOUS
<1>2. k # 0 => Asked(w, gate, R)[k].image = w[k].image
  BY <1>1, AskedIs
<1>3. QED BY <1>2 DEF ImageOf

(* What replyWhenDurable leaves of the queue and the messages. *)
LEMMA ReplyIs ==
  ASSUME Types, NEW n \in Node, NEW w \in Seq(Write), NEW gate \in 0..Len(w), NEW R, MayWait(gate, R),
         Queued(n, w, gate, R)
  PROVE  /\ writes' \in [Node -> Seq(Write)]
         /\ writes'[n] = Asked(w, gate, R) /\ \A p \in Node : p # n => writes'[p] = writes[p]
         /\ msgs' = Sent(msgs, gate, R)
<1>1. Asked(w, gate, R) \in Seq(Write)
  BY AskedIs
<1>2. writes' = [writes EXCEPT ![n] = Asked(w, gate, R)] /\ msgs' = Sent(msgs, gate, R)
  BY DEF Queued
<1>3. writes \in [Node -> Seq(Write)]
  BY DEF Types
<1>4. QED BY <1>1, <1>2, <1>3

(* What others send changes nothing a node says. *)
LEMMA OthersBonds ==
  ASSUME NEW M, NEW N, NEW R, \A x \in N : x \in M \/ x \in R, NEW p, \A x \in R : x.from # p,
         NEW w, NEW d, NEW x
  PROVE  /\ SaysOf(N, w, p, x) => SaysOf(M, w, p, x)
         /\ \A im : BondOf(N, d, w, p, x, im) => BondOf(M, d, w, p, x, im)
<1>1. \A k : SaidOf(N, w, p, x, k) => SaidOf(M, w, p, x, k)
  BY DEF SaidOf
<1>2. QED BY <1>1 DEF SaysOf, BondOf

(* A step that queues writes and says something once they are done adds    *)
(* only the images of the writes and what it says.                         *)
LEMMA WritingMoves ==
  \A n \in Node : \A ops, gate, R :
    /\ Types
    /\ (\A p \in Node : QueueOK(p))
    /\ Writing(n, ops, gate, R)
    => Moves(n, OpImages(ops), R, WaitImages(n, ops, gate)) /\ writes' \in [Node -> Seq(Write)]
(* What is said of the images stays said when writes are queued behind. *)
<1>ExtendedBonds.
    ASSUME NEW w \in Seq(Write), NEW ops \in Seq(Write), Unasked(ops), NEW M, NEW d, NEW n, NEW x
    PROVE  /\ SaysOf(M, w \o ops, n, x) => SaysOf(M, w, n, x)
           /\ \A im : BondOf(M, d, w \o ops, n, x, im) =>
                \/ BondOf(M, d, w, n, x, im)
                \/ SaysOf(M, w, n, x) /\ \E k \in 1..Len(ops) : im = ops[k].image
  <2> USE <1>ExtendedBonds
  <2> DEFINE v == w \o ops
  <2>1. /\ Len(v) = Len(w) + Len(ops) /\ Len(w) \in Nat /\ Len(ops) \in Nat
        /\ \A k \in 1..Len(w) : v[k] = w[k]
        /\ \A k \in 1..Len(v) : k > Len(w) => k - Len(w) \in 1..Len(ops) /\ v[k] = ops[k - Len(w)]
    BY ExtendedIs
  <2> HIDE DEF v
  <2>2. ASSUME NEW k \in 0..Len(v), SaidOf(M, v, n, x, k)
        PROVE  k \in 0..Len(w) /\ SaidOf(M, w, n, x, k)
    <3>1. CASE k \in 0..Len(w)
      BY <2>1, <2>2, <3>1 DEF SaidOf
    <3>2. CASE k > Len(w)
      <4>1. v[k] = ops[k - Len(w)] /\ k - Len(w) \in 1..Len(ops) /\ k # 0
        BY <2>1, <3>2
      <4>2. v[k].then = {}
        BY <4>1 DEF Unasked
      <4>3. QED BY <2>2, <4>1, <4>2 DEF SaidOf
    <3>3. QED BY <2>1, <3>1, <3>2
  <2>3. SaysOf(M, v, n, x) => SaysOf(M, w, n, x)
    BY <2>2 DEF SaysOf
  <2>4. ASSUME NEW im, BondOf(M, d, v, n, x, im)
        PROVE  \/ BondOf(M, d, w, n, x, im)
               \/ SaysOf(M, w, n, x) /\ \E k \in 1..Len(ops) : im = ops[k].image
    <3>1. PICK k \in 0..Len(v), j \in 0..Len(v) : k <= j /\ SaidOf(M, v, n, x, k) /\ im = ImageOf(d, v, j)
      BY <2>4 DEF BondOf
    <3>2. k \in 0..Len(w) /\ SaidOf(M, w, n, x, k)
      BY <2>2, <3>1
    <3>3. CASE j \in 0..Len(w)
      <4>1. im = ImageOf(d, w, j)
        BY <2>1, <3>1, <3>3 DEF ImageOf
      <4>2. QED BY <3>1, <3>2, <3>3, <4>1 DEF BondOf
    <3>4. CASE j > Len(w)
      <4>1. v[j] = ops[j - Len(w)] /\ j - Len(w) \in 1..Len(ops) /\ j # 0
        BY <2>1, <3>1, <3>4
      <4>2. im = ops[j - Len(w)].image
        BY <3>1, <4>1 DEF ImageOf
      <4>3. SaysOf(M, w, n, x)
        BY <3>2 DEF SaysOf
      <4>4. QED BY <4>1, <4>2, <4>3
    <3>5. QED BY <2>1, <3>1, <3>3, <3>4
  <2>5. QED BY <2>3, <2>4 DEF v
(* The images are those there were and the new ones. *)
<1>ExtendedImages.
    ASSUME NEW w \in Seq(Write), NEW ops \in Seq(Write), NEW d, NEW im, im \in ImagesOf(d, w \o ops)
    PROVE  im \in ImagesOf(d, w) \/ \E k \in 1..Len(ops) : im = ops[k].image
  <2> USE <1>ExtendedImages
  <2> DEFINE v == w \o ops
  <2>1. /\ Len(v) = Len(w) + Len(ops) /\ Len(w) \in Nat /\ Len(ops) \in Nat
        /\ \A k \in 1..Len(w) : v[k] = w[k]
        /\ \A k \in 1..Len(v) : k > Len(w) => k - Len(w) \in 1..Len(ops) /\ v[k] = ops[k - Len(w)]
    BY ExtendedIs
  <2>2. PICK k \in 0..Len(v) : im = ImageOf(d, v, k)
    BY DEF ImagesOf
  <2> HIDE DEF v
  <2>3. CASE k \in 0..Len(w)
    BY <2>1, <2>2, <2>3 DEF ImagesOf, ImageOf
  <2>4. CASE k > Len(w)
    <3>1. v[k] = ops[k - Len(w)] /\ k - Len(w) \in 1..Len(ops) /\ k # 0
      BY <2>1, <2>4
    <3>2. QED BY <2>2, <3>1 DEF ImageOf
  <2>5. QED BY <2>1, <2>2, <2>3, <2>4
(* Waiting replies change no image, ... *)
<1>AskedImages.
    ASSUME NEW w \in Seq(Write), NEW gate \in 0..Len(w), NEW R, MayWait(gate, R), NEW d
    PROVE  ImagesOf(d, Asked(w, gate, R)) = ImagesOf(d, w)
  <2> USE <1>AskedImages
  <2>1. ASSUME NEW k \in 0..Len(w) PROVE ImageOf(d, Asked(w, gate, R), k) = ImageOf(d, w, k)
    BY AskedImage
  <2>2. Len(Asked(w, gate, R)) = Len(w)
    BY AskedIs
  <2>3. QED BY <2>1, <2>2 DEF ImagesOf
(* ... and are said of the images from their write on. *)
<1>AskedBonds.
    ASSUME NEW w \in Seq(Write), NEW gate \in 0..Len(w), NEW R, MayWait(gate, R),
           NEW M, NEW d, NEW n, NEW x
    PROVE  /\ SaysOf(Sent(M, gate, R), Asked(w, gate, R), n, x) => SaysOf(M, w, n, x) \/ x \in R
           /\ \A im : BondOf(Sent(M, gate, R), d, Asked(w, gate, R), n, x, im) =>
                \/ BondOf(M, d, w, n, x, im)
                \/ x \in R /\ \E j \in gate..Len(w) : im = ImageOf(d, w, j)
  <2> USE <1>AskedBonds
  <2> DEFINE v == Asked(w, gate, R)
             N == Sent(M, gate, R)
  <2>1. /\ Len(v) = Len(w) /\ Len(w) \in Nat
        /\ \A k \in 1..Len(w) : \A y : y \in v[k].then <=> y \in w[k].then \/ (k = gate /\ y \in R)
    BY AskedIs, Zenon
  <2>2. ASSUME NEW k \in 0..Len(w) PROVE ImageOf(d, v, k) = ImageOf(d, w, k)
    BY AskedImage
  <2> HIDE DEF v
  <2>3. ASSUME NEW k \in 0..Len(w), SaidOf(N, v, n, x, k)
        PROVE  SaidOf(M, w, n, x, k) \/ (x \in R /\ k = gate)
    <3>1. CASE k = 0
      BY <2>3, <3>1 DEF SaidOf, Sent
    <3>2. CASE k # 0
      <4>1. k \in 1..Len(w) /\ x \in v[k].then
        BY <2>1, <2>3, <3>2 DEF SaidOf
      <4>2. QED BY <2>1, <3>2, <4>1 DEF SaidOf
    <3>3. QED BY <3>1, <3>2
  <2>4. SaysOf(N, v, n, x) => SaysOf(M, w, n, x) \/ x \in R
    BY <2>1, <2>3 DEF SaysOf
  <2>5. ASSUME NEW im, BondOf(N, d, v, n, x, im)
        PROVE  \/ BondOf(M, d, w, n, x, im)
               \/ x \in R /\ \E j \in gate..Len(w) : im = ImageOf(d, w, j)
    <3>1. PICK k \in 0..Len(w), j \in 0..Len(w) : k <= j /\ SaidOf(N, v, n, x, k) /\ im = ImageOf(d, w, j)
      BY <2>1, <2>2, <2>5 DEF BondOf
    <3>2. CASE SaidOf(M, w, n, x, k)
      BY <3>1, <3>2 DEF BondOf
    <3>3. CASE x \in R /\ k = gate
      <4>1. j \in gate..Len(w)
        BY <2>1, <3>1, <3>3
      <4>2. QED BY <3>1, <3>3, <4>1
    <3>4. QED BY ZenonT(60), <2>3, <3>1, <3>2, <3>3
  <2>6. QED BY <2>4, <2>5 DEF v
<1>WritingMoves.
    ASSUME Types, \A p \in Node : QueueOK(p), NEW n \in Node, NEW ops, NEW gate, NEW R, Writing(n, ops, gate, R)
    PROVE  Moves(n, OpImages(ops), R, WaitImages(n, ops, gate)) /\ writes' \in [Node -> Seq(Write)]
  <2> USE <1>WritingMoves
  <2> DEFINE w == writes[n] \o ops
  <2>1. writes[n] \in Seq(Write) /\ ops \in Seq(Write) /\ Unasked(ops) /\ gate \in 0..Len(w) /\ MayWait(gate, R)
    BY NodeTyped DEF Writing
  <2>2. w \in Seq(Write)
    BY <2>1, ExtendedIs
  <2>2a. Queued(n, w, gate, R)
    BY DEF Writing
  <2> HIDE DEF w
  <2>3. /\ writes' \in [Node -> Seq(Write)]
        /\ writes'[n] = Asked(w, gate, R) /\ \A p \in Node : p # n => writes'[p] = writes[p]
        /\ msgs' = Sent(msgs, gate, R)
    BY <2>1, <2>2, <2>2a, ReplyIs
  <2>4. /\ given' = given /\ disk' = disk /\ \A x \in R : x.from = n
        /\ \A p \in Node : p # n => mem'[p] = mem[p] /\ state'[p] = state[p]
        /\ mem'[n] \in {mem[n]} \cup OpImages(ops)
    BY DEF Writing
  <2>5. msgs \subseteq msgs' /\ \A x \in msgs' : x \in msgs \/ x \in R
    BY <2>3 DEF Sent
  <2>6. mem'[n] \in Images(n) \cup OpImages(ops)
    <3>1. mem[n] = ImageOf(disk[n], writes[n], Len(writes[n])) /\ Len(writes[n]) \in Nat
      BY NodeTyped DEF QueueOK, QueueOf
    <3>2. mem[n] \in Images(n)
      BY <3>1 DEF Images, ImagesOf
    <3>3. QED BY <2>4, <3>2
  <2>7. ASSUME NEW p \in Node, NEW im, im \in Images(p)'
        PROVE  im \in Images(p) \/ (p = n /\ im \in OpImages(ops))
    <3>1. CASE p # n
      BY <2>3, <2>4, <2>7, <3>1 DEF Images
    <3>2. CASE p = n
      <4>1. im \in ImagesOf(disk[n], Asked(w, gate, R))
        BY <2>3, <2>4, <2>7, <3>2 DEF Images
      <4>2. im \in ImagesOf(disk[n], w)
        BY <2>1, <2>2, <4>1, <1>AskedImages
      <4>3. im \in ImagesOf(disk[n], writes[n]) \/ \E k \in 1..Len(ops) : im = ops[k].image
        BY <2>1, <4>2, <1>ExtendedImages DEF w
      <4>4. QED BY <3>2, <4>3 DEF Images, OpImages
    <3>3. QED BY <3>1, <3>2
  <2>8. ASSUME NEW p \in Node, NEW x
        PROVE  /\ Says(p, x)' => Says(p, x) \/ (p = n /\ x \in R)
               /\ \A im : Bond(p, x, im)' =>
                    \/ Bond(p, x, im)
                    \/ p = n /\ Says(n, x) /\ im \in OpImages(ops)
                    \/ p = n /\ x \in R /\ im \in WaitImages(n, ops, gate)
    <3>1. CASE p # n
      <4>1. \A y \in R : y.from # p
        BY <2>4, <3>1
      <4>2. /\ SaysOf(msgs', writes[p], p, x) => SaysOf(msgs, writes[p], p, x)
            /\ \A im : BondOf(msgs', disk[p], writes[p], p, x, im) => BondOf(msgs, disk[p], writes[p], p, x, im)
        BY Zenon, <2>5, <4>1, OthersBonds
      <4>3. QED BY <2>3, <2>4, <3>1, <4>2 DEF Says, Bond
    <3>2. CASE p = n
      <4>1. /\ Says(n, x)' => SaysOf(msgs, w, n, x) \/ x \in R
            /\ \A im : Bond(n, x, im)' =>
                 \/ BondOf(msgs, disk[n], w, n, x, im)
                 \/ x \in R /\ \E j \in gate..Len(w) : im = ImageOf(disk[n], w, j)
        <5>1. /\ SaysOf(Sent(msgs, gate, R), Asked(w, gate, R), n, x) => SaysOf(msgs, w, n, x) \/ x \in R
              /\ \A im : BondOf(Sent(msgs, gate, R), disk[n], Asked(w, gate, R), n, x, im) =>
                   \/ BondOf(msgs, disk[n], w, n, x, im)
                   \/ x \in R /\ \E j \in gate..Len(w) : im = ImageOf(disk[n], w, j)
          BY <2>1, <2>2, <1>AskedBonds
        <5>2. Says(n, x)' = SaysOf(Sent(msgs, gate, R), Asked(w, gate, R), n, x)
          BY <2>3 DEF Says
        <5>3. \A im : Bond(n, x, im)' = BondOf(Sent(msgs, gate, R), disk[n], Asked(w, gate, R), n, x, im)
          BY <2>3, <2>4 DEF Bond
        <5>4. QED BY ZenonT(60), <5>1, <5>2, <5>3
      <4>2. /\ SaysOf(msgs, w, n, x) => SaysOf(msgs, writes[n], n, x)
            /\ \A im : BondOf(msgs, disk[n], w, n, x, im) =>
                 \/ BondOf(msgs, disk[n], writes[n], n, x, im)
                 \/ SaysOf(msgs, writes[n], n, x) /\ \E k \in 1..Len(ops) : im = ops[k].image
        <5>1. PICK q \in Seq(Write) : q = writes[n]
          BY <2>1
        <5>2. PICK d : d = disk[n]
          OBVIOUS
        <5>3. /\ SaysOf(msgs, q \o ops, n, x) => SaysOf(msgs, q, n, x)
              /\ \A im : BondOf(msgs, d, q \o ops, n, x, im) =>
                   \/ BondOf(msgs, d, q, n, x, im)
                   \/ SaysOf(msgs, q, n, x) /\ \E k \in 1..Len(ops) : im = ops[k].image
          BY <2>1, <1>ExtendedBonds
        <5>4. QED BY <5>1, <5>2, <5>3 DEF w
      <4>3. \A im : (\E k \in 1..Len(ops) : im = ops[k].image) => im \in OpImages(ops)
        BY DEF OpImages
      <4>4. \A im : (\E j \in gate..Len(w) : im = ImageOf(disk[n], w, j)) => im \in WaitImages(n, ops, gate)
        BY DEF WaitImages, w
      <4>5. QED BY Zenon, <3>2, <4>1, <4>2, <4>3, <4>4 DEF Says, Bond
    <3>3. QED BY ZenonT(60), <3>1, <3>2
  <2>9. \A p \in Node : disk'[p].term >= disk[p].term
    BY <2>4, NodeTyped
  <2>10. QED BY Zenon, <2>3, <2>4, <2>5, <2>6, <2>7, <2>8, <2>9 DEF Moves
<1>q. QED BY <1>WritingMoves

(* Such a step keeps the queue in order. *)
LEMMA WritingQueue ==
  \A n \in Node : \A ops, gate, R :
    /\ Types
    /\ (\A p \in Node : QueueOK(p))
    /\ Writing(n, ops, gate, R)
    /\ Leaves(n, ops)
    /\ AckTerms(n, ops, gate, R)
    => \A p \in Node : QueueOK(p)'
(* Replies that wait for a write keep the queue in order. *)
<1>AskedQueue.
    ASSUME NEW w \in Seq(Write), NEW gate \in 0..Len(w), NEW R, MayWait(gate, R),
           NEW d, NEW n, NEW im, QueueOf(n, d, w, im),
           gate # 0 => \A x \in R : /\ x.from = n
                                    /\ x.type = "AppendReply" /\ x.last # -1 => ImageOf(d, w, gate).term = x.term
    PROVE  QueueOf(n, d, Asked(w, gate, R), im)
  <2> USE <1>AskedQueue
  <2> DEFINE v == Asked(w, gate, R)
  <2>1. /\ Len(v) = Len(w) /\ Len(w) \in Nat
        /\ \A k \in 1..Len(w) : v[k].kind = w[k].kind
        /\ \A k \in 1..Len(w) : \A y : y \in v[k].then <=> y \in w[k].then \/ (k = gate /\ y \in R)
    BY AskedIs, Zenon
  <2>2. ASSUME NEW k \in 0..Len(w) PROVE ImageOf(d, v, k) = ImageOf(d, w, k)
    BY AskedImage
  <2> HIDE DEF v
  <2>3. /\ ImageOf(d, v, Len(v)) = im
        /\ \A j, k \in 0..Len(v) : j <= k => ImageOf(d, v, j).term <= ImageOf(d, v, k).term
    BY <2>1, <2>2 DEF QueueOf
  <2>4. ASSUME NEW k \in 0..Len(v), \A h \in (k+1)..Len(v) : v[h].kind # "HardState"
        PROVE  ImageOf(d, v, k).term = im.term
    <3>1. ASSUME NEW h \in (k+1)..Len(w) PROVE w[h].kind # "HardState"
      <4>1. h \in (k+1)..Len(v) /\ h \in 1..Len(w)
        BY <2>1
      <4>2. QED BY <2>1, <2>4, <4>1
    <3>2. k \in 0..Len(w)
      BY <2>1
    <3>3. ImageOf(d, w, k).term = im.term
      BY <3>1, <3>2 DEF QueueOf
    <3>4. QED BY <2>2, <3>2, <3>3
  <2>5. ASSUME NEW k \in 1..Len(v), NEW x \in v[k].then
        PROVE  x.from = n /\ (x.type = "AppendReply" /\ x.last # -1 => ImageOf(d, v, k).term = x.term)
    <3>1. k \in 0..Len(w) /\ ImageOf(d, v, k) = ImageOf(d, w, k)
      BY <2>1, <2>2
    <3>2. CASE x \in w[k].then
      BY <2>1, <3>1, <3>2 DEF QueueOf
    <3>3. CASE x \in R /\ k = gate
      BY <2>1, <3>1, <3>3
    <3>4. QED BY <2>1, <3>2, <3>3
  <2>6. QED
    <3>1. QueueOf(n, d, v, im)
      BY <2>3, <2>4, <2>5 DEF QueueOf
    <3>2. QED BY <3>1 DEF v
<1>WritingQueue.
    ASSUME Types, \A p \in Node : QueueOK(p), NEW n \in Node, NEW ops, NEW gate, NEW R,
           Writing(n, ops, gate, R), Leaves(n, ops), AckTerms(n, ops, gate, R)
    PROVE  \A p \in Node : QueueOK(p)'
  <2> USE <1>WritingQueue
  <2> DEFINE w == writes[n] \o ops
  <2>1. writes[n] \in Seq(Write) /\ ops \in Seq(Write) /\ Unasked(ops) /\ gate \in 0..Len(w) /\ MayWait(gate, R)
    BY NodeTyped DEF Writing
  <2>2. w \in Seq(Write)
    BY <2>1, ExtendedIs
  <2>2a. Queued(n, w, gate, R)
    BY DEF Writing
  <2> HIDE DEF w
  <2>3. writes'[n] = Asked(w, gate, R) /\ \A p \in Node : p # n => writes'[p] = writes[p]
    BY <2>1, <2>2, <2>2a, ReplyIs
  <2>4. disk' = disk /\ (\A x \in R : x.from = n) /\ \A p \in Node : p # n => mem'[p] = mem[p]
    BY DEF Writing
  <2>5. QueueOf(n, disk[n], w, mem'[n])
    <3>0. QueueOf(n, disk[n], writes[n], mem[n])
      BY DEF QueueOK
    <3>1. CASE ops = <<>> /\ mem'[n] = mem[n]
      <4>1. w = writes[n]
        BY <2>1, <3>1 DEF w
      <4>2. QED BY <3>0, <3>1, <4>1
    <3>2. CASE ops # <<>>
      <4>1. /\ ops # <<>> /\ mem'[n] = ops[Len(ops)].image
            /\ mem'[n].term \in 0..MaxTerm /\ mem[n].term <= mem'[n].term
            /\ \A k \in 1..Len(ops) : ops[k].image.term = mem'[n].term
            /\ mem[n].term = mem'[n].term \/ ops[1].kind = "HardState"
        BY <3>2 DEF Leaves
      <4>2. PICK t \in 0..MaxTerm : t = mem'[n].term
        BY <4>1
      <4>3. mem[n].term <= t /\ (\A k \in 1..Len(ops) : ops[k].image.term = t) /\ (mem[n].term = t \/ ops[1].kind = "HardState")
        BY <4>1, <4>2
      <4>4. disk[n] \in Image /\ mem[n] \in Image
        BY NodeTyped
      <4>5. QueueOf(n, disk[n], writes[n] \o ops, ops[Len(ops)].image)
        BY ZenonT(60), <2>1, <3>0, <3>2, <4>3, <4>4, ExtendedQueue
      <4>6. QED BY <4>1, <4>5 DEF w
    <3>3. QED BY <3>1, <3>2 DEF Leaves
  <2>6. QueueOf(n, disk[n], Asked(w, gate, R), mem'[n])
    <3>1. gate # 0 => \A x \in R : /\ x.from = n
                                   /\ x.type = "AppendReply" /\ x.last # -1 => ImageOf(disk[n], w, gate).term = x.term
      BY <2>4 DEF AckTerms, w
    <3>2. QED BY ZenonT(60), <2>1, <2>2, <2>5, <3>1, <1>AskedQueue
  <2>7. ASSUME NEW p \in Node PROVE QueueOK(p)'
    <3>1. CASE p = n
      BY ZenonT(60), <2>3, <2>4, <2>6, <3>1 DEF QueueOK
    <3>2. CASE p # n
      <4>1. QueueOK(p)
        OBVIOUS
      <4>2. QED BY <2>3, <2>4, <3>2, <4>1 DEF QueueOK
    <3>3. QED BY <3>1, <3>2
  <2>8. QED BY <2>7
<1>q. QED BY <1>WritingQueue

(* Min, which the model uses for the code's loops over indexes. *)
LEMMA MinIs ==
  ASSUME Basics, NEW S, S \subseteq Nat, S # {}
  PROVE  Min(S) \in S /\ \A y \in S : Min(S) <= y
BY Zenon DEF Basics, LeastIs

(* Max of a bounded set. *)
LEMMA MaxIs ==
  ASSUME Basics, NEW S, NEW b \in Nat, S \subseteq Nat, S # {}, \A y \in S : y <= b
  PROVE  Max(S) \in S /\ \A y \in S : Max(S) >= y
BY Zenon DEF Basics, GreatestIs

(* handleAppendEntries: how much of a batch is already there. *)
LEMMA HeldIs ==
  ASSUME Basics, NEW l, NEW m, m.prev \in Nat, Len(m.entries) \in Nat
  PROVE  /\ Held(l, m) \in 0..Len(m.entries)
         /\ \A i \in 1..Held(l, m) : termAt(l, m.prev + i) = m.entries[i].term
         /\ Held(l, m) < Len(m.entries) =>
              termAt(l, m.prev + Held(l, m) + 1) # m.entries[Held(l, m) + 1].term
<1> DEFINE K == {k \in 0..Len(m.entries) : \A i \in 1..k : termAt(l, m.prev + i) = m.entries[i].term}
           k == Held(l, m)
<1>1. K \subseteq Nat /\ 0 \in K /\ \A y \in K : y <= Len(m.entries)
  OBVIOUS
<1>2. k \in K /\ \A y \in K : k >= y
  BY Zenon, <1>1, MaxIs DEF Held
<1>3. k < Len(m.entries) => termAt(l, m.prev + k + 1) # m.entries[k + 1].term
  <2>1. SUFFICES ASSUME k < Len(m.entries), termAt(l, m.prev + k + 1) = m.entries[k + 1].term
                 PROVE  FALSE
    OBVIOUS
  <2>2. k + 1 \in 0..Len(m.entries)
    BY <1>2, <2>1
  <2>3. \A i \in 1..k+1 : termAt(l, m.prev + i) = m.entries[i].term
    <3>1. TAKE i \in 1..k+1
    <3>2. CASE i \in 1..k
      BY <1>2, <3>2
    <3>3. CASE i = k + 1
      <4>1. m.prev + i = m.prev + k + 1
        <5>1. k \in Nat
          BY <1>2
        <5>2. QED BY <3>3, <5>1
      <4>2. QED BY <2>1, <3>3, <4>1, Zenon
    <3>4. QED BY <1>2, <3>2, <3>3
  <2>4. k + 1 \in K
    BY <2>2, <2>3
  <2>5. QED BY <1>2, <2>4
<1>4. QED BY <1>2, <1>3

(* Merging keeps what the log shares with the leader's, of which the       *)
(* request carries a piece.                                                *)
LEMMA MergeWithPiece ==
  ASSUME Basics
  PROVE  \A l0 \in Seq(Entry), g \in Seq(Entry), m \in AppendRequests :
           /\ Alike(l0, g)
           /\ Fragment(g, m)
           /\ PrevIsThere(l0, m)
           => MergedTo(Merged(l0, m), m.prev + Held(l0, m), l0, g, m)
(* The places of the batch in the log. *)
<1>SpliceIndex.
    ASSUME NEW prev \in Nat, NEW n \in Nat, NEW k \in Nat, k < n, NEW j \in 1..(prev + n), j > prev + k
    PROVE  /\ j - (prev + k) \in 1..(n - k) /\ k + (j - (prev + k)) \in 1..n
           /\ prev + (k + (j - (prev + k))) = j /\ ~ (j <= prev + k)
  BY <1>SpliceIndex
(* A log cut at prev + k and continued with the rest of the batch. *)
<1>SpliceIs.
    ASSUME NEW l \in Seq(Entry), NEW g \in Seq(Entry), NEW es \in Seq(Entry), NEW prev \in Nat,
           NEW k \in Nat, k < Len(es), Piece(g, es, prev), SameTo(l, g, prev + k)
    PROVE  /\ Spliced(l, es, prev, k) \in Seq(Entry)
           /\ Len(Spliced(l, es, prev, k)) = prev + Len(es)
           /\ SameTo(Spliced(l, es, prev, k), g, prev + Len(es))
  <2> USE <1>SpliceIs
  <2>0. PICK n \in Nat : n = Len(es)
    BY SeqLen
  <2> DEFINE kept == prev + k
             p == SubSeq(l, 1, kept)
             q == SubSeq(es, k + 1, n)
             x == Spliced(l, es, prev, k)
  <2>1. x = p \o q
    BY <2>0 DEF Spliced
  <2> HIDE DEF x
  <2>2. k < n /\ prev + n <= Len(g) /\ kept \in Nat /\ n = Len(es)
    BY <2>0 DEF Piece
  <2>3. \A i \in 1..n : es[i] = g[prev + i]
    BY <2>0 DEF Piece
  <2>4. kept <= Len(l) /\ kept <= Len(g) /\ \A j \in 1..kept : l[j] = g[j]
    BY <2>2, SameToIs
  <2>5. p \in Seq(Entry) /\ Len(p) = kept /\ \A j \in 1..kept : p[j] = l[j]
    <3>1. p \in Seq(Entry) /\ Len(p) = kept /\ SameTo(p, l, kept)
      BY <2>2, <2>4, PrefixIs
    <3> HIDE DEF p, kept
    <3>2. QED BY <2>2, <2>4, <3>1, SameToIs
  <2>6. q \in Seq(Entry) /\ Len(q) = n - k /\ \A j \in 1..(n - k) : q[j] = es[k + j]
    <3>1. \A j \in k+1..n : es[j] \in Entry
      BY <2>2, SeqItem
    <3>2. /\ q \in Seq(Entry) /\ Len(q) = (IF k + 1 <= n THEN n - (k + 1) + 1 ELSE 0)
          /\ \A j \in 1..(n - (k + 1) + 1) : q[j] = es[k + 1 + j - 1]
      BY <3>1, SeqPart
    <3> HIDE DEF q
    <3>3. n - (k + 1) + 1 = n - k /\ k + 1 <= n /\ \A j \in 1..(n - k) : k + 1 + j - 1 = k + j
      BY <2>2
    <3>4. QED BY <3>2, <3>3
  <2> HIDE DEF p, q
  <2>7. /\ x \in Seq(Entry) /\ Len(x) = prev + n
        /\ \A j \in 1..(prev + n) : x[j] = IF j <= kept THEN p[j] ELSE q[j - kept]
    <3>1. p \in Seq(Entry) /\ q \in Seq(Entry)
      BY <2>5, <2>6
    <3>2. /\ p \o q \in Seq(Entry) /\ Len(p \o q) = Len(p) + Len(q)
          /\ \A j \in 1..(Len(p) + Len(q)) : (p \o q)[j] = IF j <= Len(p) THEN p[j] ELSE q[j - Len(p)]
      BY <3>1
    <3>3. Len(p) + Len(q) = prev + n
      BY <2>5, <2>6
    <3>4. QED BY <2>1, <2>5, <3>2, <3>3
  <2>8. \A j \in 1..(prev + n) : x[j] = g[j]
    <3>1. TAKE j \in 1..(prev + n)
    <3>2. CASE j <= kept
      <4>1. j \in 1..kept
        BY <3>2
      <4>2. QED BY <2>4, <2>5, <2>7, <3>1, <3>2, <4>1
    <3>3. CASE j > kept
      <4>1. PICK i \in Int : i = j - kept
        BY <3>1
      <4>2. i \in 1..(n - k) /\ k + i \in 1..n /\ prev + (k + i) = j /\ ~ (j <= kept)
        BY <2>2, <3>1, <3>3, <4>1, <1>SpliceIndex
      <4>3. x[j] = q[i]
        BY Zenon, <2>7, <3>1, <4>1, <4>2
      <4>4. q[i] = es[k + i]
        BY <2>6, <4>2
      <4>5. es[k + i] = g[j]
        BY Zenon, <2>3, <4>2
      <4>6. QED BY <4>3, <4>4, <4>5
    <3>4. QED BY <3>2, <3>3
  <2>9. SameTo(x, g, prev + n)
    <3>1. PICK e \in Nat : e = prev + n
      OBVIOUS
    <3>2. e <= Len(x) /\ e <= Len(g)
      BY <2>2, <2>7, <3>1
    <3>3. \A j \in 1..e : x[j] = g[j]
      BY <2>8, <3>1
    <3>4. SameTo(x, g, e)
      BY <2>7, <3>2, <3>3, SameToIs
    <3>5. QED BY <3>1, <3>4
  <2>10. QED BY <2>0, <2>7, <2>9 DEF x
(* What is left of log l when a piece of a log g that agrees with it up to *)
(* the piece is merged into it: nothing both had goes.                     *)
<1>MergeIs.
    ASSUME NEW l \in Seq(Entry), NEW g \in Seq(Entry), NEW m, m.prev \in Nat, m.entries \in Seq(Entry),
           Fragment(g, m), Alike(l, g), SameTo(l, g, m.prev)
    PROVE  /\ m.prev + Held(l, m) \in Nat /\ m.prev + Held(l, m) <= Len(l)
           /\ Merged(l, m) \in Seq(Entry)
           /\ SameTo(Merged(l, m), g, m.prev + Len(m.entries))
           /\ Merged(l, m) # l => Len(Merged(l, m)) = m.prev + Len(m.entries)
           /\ \A i \in Nat : SameTo(l, g, i) =>
                /\ SameTo(Merged(l, m), g, i)
                /\ Merged(l, m) # l => i <= m.prev + Held(l, m)
  <2> USE <1>MergeIs
  <2>1. PICK prev \in Nat : prev = m.prev
    OBVIOUS
  <2>2. PICK es \in Seq(Entry) : es = m.entries
    OBVIOUS
  <2>3. PICK n \in Nat : n = Len(es)
    BY SeqLen
  <2>4. PICK k \in 0..n :
          /\ k = Held(l, m)
          /\ \A i \in 1..k : termAt(l, prev + i) = es[i].term
          /\ k < n => termAt(l, prev + k + 1) # es[k + 1].term
    BY ZenonT(30), <2>1, <2>2, <2>3, HeldIs
  <2>5. PICK kept \in Nat : kept = prev + k
    OBVIOUS
  <2>6. PICK x : x = Merged(l, m) /\ x = IF k = n THEN l ELSE Spliced(l, es, prev, k)
    BY <2>1, <2>2, <2>3, <2>4, Zenon DEF Merged, Spliced
  <2>7. prev + n <= Len(g) /\ \A i \in 1..n : es[i] = g[prev + i]
    BY <2>1, <2>2, <2>3 DEF Fragment
  <2>8. Len(l) \in Nat /\ Len(g) \in Nat
    BY SeqLen
  <2>9. \A i \in 1..n : prev + i \in 1..Len(g) /\ es[i].term \in 1..MaxTerm /\ es[i].term # 0
    BY <2>3, <2>7, <2>8, EntryTerm
  <2>10. SameTo(l, g, kept)
    <3>1. CASE k = 0
      BY <2>1, <2>5, <3>1
    <3>2. CASE k # 0
      <4>1. k \in 1..k /\ k \in 1..n
        BY <3>2
      <4>2. termAt(l, kept) = g[kept].term /\ termAt(l, kept) # 0
        BY Zenon, <2>4, <2>5, <2>7, <2>9, <4>1
      <4>3. kept \in 1..Len(l) /\ l[kept].term = g[kept].term
        BY <4>2 DEF termAt
      <4>4. kept <= Len(g)
        BY <2>5, <2>7, <2>8
      <4>5. QED BY <4>3, <4>4 DEF Alike
    <3>3. QED BY <3>1, <3>2
  <2>11. kept <= Len(l) /\ kept <= Len(g)
    BY <2>10 DEF SameTo
  <2>12. CASE k = n
    <3>1. x = l /\ kept = prev + n
      BY <2>5, <2>6, <2>12
    <3>2. QED BY ZenonT(60), <2>1, <2>2, <2>3, <2>4, <2>5, <2>6, <2>10, <2>11, <3>1
  <2>13. CASE k < n
    <3>1. x \in Seq(Entry) /\ Len(x) = prev + n /\ SameTo(x, g, prev + n)
      <4>1. x = Spliced(l, es, prev, k)
        BY <2>6, <2>13
      <4>2. Piece(g, es, prev) /\ k < Len(es) /\ SameTo(l, g, prev + k) /\ k \in Nat
        BY <2>3, <2>5, <2>7, <2>10, <2>13 DEF Piece
      <4>3. x \in Seq(Entry) /\ Len(x) = prev + Len(es) /\ SameTo(x, g, prev + Len(es))
        BY <4>1, <4>2, <1>SpliceIs
      <4>4. QED BY <2>3, <4>3
    <3>2. \A i \in Nat : SameTo(l, g, i) => i <= kept
      <4>1. SUFFICES ASSUME NEW i \in Nat, SameTo(l, g, i), i > kept PROVE FALSE
        OBVIOUS
      <4>2. i <= Len(l) /\ i <= Len(g) /\ \A j \in 1..i : l[j] = g[j]
        BY <4>1, SameToIs
      <4>3. /\ kept + 1 \in 1..i /\ kept + 1 \in 1..Len(l) /\ k + 1 \in 1..n
            /\ prev + (k + 1) = kept + 1 /\ prev + k + 1 = kept + 1
        BY <2>5, <2>8, <2>13, <4>1, <4>2
      <4>4. l[kept + 1] = es[k + 1]
        BY <2>7, <4>2, <4>3
      <4>5. termAt(l, kept + 1) = es[k + 1].term
        BY <4>3, <4>4 DEF termAt
      <4>6. QED BY <2>4, <2>13, <4>3, <4>5
    <3>3. \A i \in Nat : SameTo(l, g, i) => SameTo(x, g, i)
      <4>1. SUFFICES ASSUME NEW i \in Nat, SameTo(l, g, i) PROVE SameTo(x, g, i)
        OBVIOUS
      <4>2. i <= prev + n /\ prev + n \in Nat
        BY <2>5, <2>13, <3>2, <4>1
      <4>3. QED BY <3>1, <4>2, SameToShorter
    <3>4. QED BY SMTT(30), <2>1, <2>2, <2>3, <2>4, <2>5, <2>6, <2>11, <3>1, <3>2, <3>3
  <2>14. QED BY <2>12, <2>13
<1>MergeWithPiece.
    ASSUME NEW l0 \in Seq(Entry), NEW g \in Seq(Entry), Alike(l0, g), NEW m \in AppendRequests,
           Fragment(g, m), PrevIsThere(l0, m)
    PROVE  MergedTo(Merged(l0, m), m.prev + Held(l0, m), l0, g, m)
  <2> USE <1>MergeWithPiece
  <2>1. m.prev \in Nat /\ m.entries \in Seq(Entry) /\ Len(m.entries) \in Nat /\ Len(g) \in Nat /\ Len(l0) \in Nat
    BY SeqLen DEF AppendRequests
  <2>2. SameTo(l0, g, m.prev)
    <3>1. CASE m.prev = 0
      BY <3>1, SameToZero
    <3>2. CASE m.prev # 0
      <4>1. PICK i \in Nat : i = m.prev
        BY <2>1
      <4>2. i \in 1..Len(g)
        BY <2>1, <3>2, <4>1 DEF Fragment
      <4>3. termAt(l0, i) = termAt(g, i)
        BY <3>2, <4>1 DEF Fragment, PrevIsThere
      <4>4. i \in 1..Len(l0)
        BY <4>2, <4>3, TermAtTyped
      <4>5. l0[i].term = g[i].term
        BY <4>2, <4>3, <4>4 DEF termAt
      <4>6. SameTo(l0, g, i)
        BY <4>2, <4>4, <4>5 DEF Alike
      <4>7. QED BY <4>1, <4>6
    <3>3. QED BY <3>1, <3>2
  <2>3. /\ m.prev + Held(l0, m) \in Nat /\ m.prev + Held(l0, m) <= Len(l0)
        /\ Merged(l0, m) \in Seq(Entry)
        /\ SameTo(Merged(l0, m), g, m.prev + Len(m.entries))
        /\ Merged(l0, m) # l0 => Len(Merged(l0, m)) = m.prev + Len(m.entries)
        /\ \A i \in Nat : SameTo(l0, g, i) =>
             /\ SameTo(Merged(l0, m), g, i)
             /\ Merged(l0, m) # l0 => i <= m.prev + Held(l0, m)
    BY <2>1, <2>2, <1>MergeIs
  <2>4. QED BY <2>3 DEF MergedTo
<1>q. QED BY <1>MergeWithPiece

(* A request without entries merges nothing. *)
LEMMA MergeNothing ==
  ASSUME Basics, NEW l0 \in Seq(Entry), NEW g, NEW m \in AppendRequests, m.entries = <<>>
  PROVE  Merged(l0, m) = l0 /\ MergedTo(l0, m.prev + Held(l0, m), l0, g, m)
<1>1. Held(l0, m) \in 0..Len(m.entries) /\ Len(m.entries) = 0
  <2>1. m.prev \in Nat /\ Len(m.entries) = 0
    BY DEF AppendRequests
  <2>2. Len(m.entries) \in Nat
    BY <2>1
  <2>3. Held(l0, m) \in 0..Len(m.entries)
    BY <2>1, <2>2, HeldIs
  <2>4. QED BY <2>1, <2>3
<1>2. Held(l0, m) = Len(m.entries)
  BY <1>1
<1>3. Merged(l0, m) = l0
  BY <1>2 DEF Merged
<1>4. QED BY <1>3 DEF MergedTo

(* Up to stableIndex every image a disk goes through agrees with the log. *)
LEMMA StableIs ==
  ASSUME Basics, NEW d, NEW w, NEW l \in Seq(Entry), HasLogs(d, w)
  PROVE  /\ stableIndex(d, w, l) \in 0..Len(l)
         /\ \A k \in 0..Len(w) : SameTo(ImageOf(d, w, k).log, l, stableIndex(d, w, l))
<1> DEFINE K == {i \in 0..Len(l) : \A im \in {d} \cup Ahead(w) : SameTo(im.log, l, i)}
<1>1. Len(l) \in Nat
  BY SeqLen
<1>2. \A im \in {d} \cup Ahead(w) : im.log \in Seq(Entry)
  BY DEF HasLogs, Ahead
<1>3. 0 \in K
  BY <1>1, <1>2, SameToZero
<1>4. stableIndex(d, w, l) \in K
  <2>1. K \subseteq Nat /\ \A y \in K : y <= Len(l)
    BY <1>1
  <2>2. Max(K) \in K
    BY ZenonT(60), <1>1, <1>3, <2>1, MaxIs
  <2>3. QED BY <2>2 DEF stableIndex
<1>5. ASSUME NEW k \in 0..Len(w)
      PROVE  ImageOf(d, w, k) \in {d} \cup Ahead(w)
  BY DEF HasLogs, Ahead, ImageOf
<1>6. QED BY <1>4, <1>5

(* From the write writeSeqCovering names on, and from the disk if it names *)
(* none, every image holds the log up to i.                                *)
LEMMA CoverIs ==
  ASSUME Basics, NEW d, NEW w, NEW l \in Seq(Entry), HasLogs(d, w), ImageOf(d, w, Len(w)).log = l,
         NEW i \in Nat, i <= Len(l)
  PROVE  /\ writeSeqCovering(d, w, l, i) \in 0..Len(w)
         /\ \A k \in writeSeqCovering(d, w, l, i)..Len(w) : SameTo(ImageOf(d, w, k).log, l, i)
<1> DEFINE K == {k \in 1..Len(w) : \A j \in k..Len(w) : SameTo(w[j].image.log, l, i)}
           c == writeSeqCovering(d, w, l, i)
<1>1. Len(w) \in Nat /\ Len(l) \in Nat
  BY SeqLen DEF HasLogs
<1>2. stableIndex(d, w, l) \in 0..Len(l) /\ \A k \in 0..Len(w) : SameTo(ImageOf(d, w, k).log, l, stableIndex(d, w, l))
  BY StableIs
<1>3. \A k \in 0..Len(w) : ImageOf(d, w, k).log \in Seq(Entry)
  BY DEF HasLogs, ImageOf
<1>4. SameTo(l, l, i)
  BY SameToIs
<1>5. CASE i <= stableIndex(d, w, l)
  <2>1. c = 0
    BY <1>5 DEF writeSeqCovering
  <2>2. ASSUME NEW k \in 0..Len(w) PROVE SameTo(ImageOf(d, w, k).log, l, i)
    BY <1>2, <1>3, <1>5, SameToShorter
  <2>3. QED BY <1>1, <2>1, <2>2
<1>6. CASE ~ (i <= stableIndex(d, w, l))
  <2>1. c = Min(K)
    BY <1>6 DEF writeSeqCovering
  <2>2. Len(w) # 0
    <3>1. SUFFICES ASSUME Len(w) = 0 PROVE FALSE
      OBVIOUS
    <3>2. Ahead(w) = {} /\ d.log = l
      BY <3>1 DEF Ahead, ImageOf
    <3>3. i \in {h \in 0..Len(l) : \A im \in {d} \cup Ahead(w) : SameTo(im.log, l, h)}
      BY <1>1, <1>4, <3>2
    <3>4. stableIndex(d, w, l) >= i
      <4>1. \A h \in {h \in 0..Len(l) : \A im \in {d} \cup Ahead(w) : SameTo(im.log, l, h)} : h \in Nat /\ h <= Len(l)
        BY <1>1
      <4>2. QED BY Zenon, <1>1, <3>3, <4>1, MaxIs DEF stableIndex
    <3>5. QED BY <1>1, <1>2, <1>6, <3>4
  <2>3. Len(w) \in K
    <3>1. \A j \in Len(w)..Len(w) : j = Len(w)
      BY <1>1
    <3>2. SameTo(w[Len(w)].image.log, l, i)
      BY <1>4, <2>2 DEF ImageOf
    <3>3. QED BY <1>1, <2>2, <3>1, <3>2
  <2>4. Min(K) \in K
    <3>1. K \subseteq Nat /\ K # {}
      BY <1>1, <2>3
    <3> HIDE DEF K
    <3>2. QED BY Zenon, <3>1, MinIs
  <2>5. c \in 1..Len(w) /\ \A j \in c..Len(w) : SameTo(w[j].image.log, l, i)
    BY <2>1, <2>4
  <2> HIDE DEF c, K
  <2>6. \A j \in c..Len(w) : j # 0 /\ ImageOf(d, w, j) = w[j].image
    BY <1>1, <2>5 DEF ImageOf
  <2>7. c \in 0..Len(w) /\ \A k \in c..Len(w) : SameTo(ImageOf(d, w, k).log, l, i)
    BY <1>1, <2>5, <2>6
  <2>8. QED BY <2>7 DEF c
<1>7. QED BY <1>5, <1>6

(* No hard state is written after termGate. *)
LEMMA TermGateIs ==
  ASSUME Basics, NEW w, Len(w) \in Nat
  PROVE  /\ termGate(w) \in 0..Len(w)
         /\ \A k \in (termGate(w) + 1)..Len(w) : w[k].kind # "HardState"
<1> DEFINE K == {0} \cup {k \in 1..Len(w) : w[k].kind = "HardState"}
<1>1. K \subseteq Nat /\ K # {} /\ \A y \in K : y <= Len(w)
  OBVIOUS
<1>2. Max(K) \in K /\ \A y \in K : Max(K) >= y
  BY <1>1, MaxIs
<1>3. termGate(w) = Max(K)
  BY DEF termGate
<1>4. PICK g \in K : g = termGate(w) /\ \A y \in K : g >= y
  BY Zenon, <1>2, <1>3
<1>5. g \in 0..Len(w)
  BY <1>4
<1>6. ASSUME NEW k \in (g + 1)..Len(w), w[k].kind = "HardState" PROVE FALSE
  <2>1. k \in K
    BY <1>5, <1>6
  <2>2. g >= k
    BY ZenonT(60), <1>4, <2>1
  <2>3. QED BY <1>5, <1>6, <2>2
<1>7. QED BY <1>4, <1>5, <1>6

(* The images a merge goes through match the leaders' logs. *)
LEMMA ThroughMatches ==
  ASSUME NEW L \in SomeLogs, NEW t \in Term, NEW l0 \in Seq(Entry), Matching(L, l0), Matching(L, L[t]), EndsIn(L[t], t),
         \A i \in 1..Len(l0) : l0[i].term <= t,
         NEW m, NEW k, NEW l, MergedTo(l, k, l0, L[t], m), NEW base, base.term = t, NEW a, Through(base, l0, k, l, a)
  PROVE  Matching(L, a.log) /\ Timely(a)
<1>1. a.term = t /\ (a.log \in {l0, l} \/ (l # l0 /\ a.log = SubSeq(l0, 1, k)))
  BY DEF Through
<1>2. L[t] \in Seq(Entry) /\ l \in Seq(Entry) /\ Len(l0) \in Nat /\ Len(l) \in Nat
  BY ZenonT(60), SeqLen DEF SomeLogs, MergedTo
<1>3. CASE a.log = l0
  BY <1>1, <1>3 DEF Timely
<1>4. CASE a.log = l /\ l # l0
  <2>1. SameTo(l, L[t], Len(l))
    BY <1>4 DEF MergedTo
  <2>2. Matching(L, l)
    BY ZenonT(60), <1>2, <2>1, MatchingPrefix
  <2>3. Timely(a)
    <3>1. SUFFICES ASSUME NEW i \in 1..Len(l) PROVE l[i].term <= t
      BY ZenonT(60), <1>1, <1>4 DEF Timely
    <3>2. i \in 1..Len(L[t]) /\ l[i] = L[t][i]
      <4>1. Len(l) <= Len(L[t]) /\ \A j \in 1..Len(l) : l[j] = L[t][j]
        BY ZenonT(60), <1>2, <2>1, SameToIs
      <4>2. Len(L[t]) \in Nat
        BY ZenonT(60), <1>2, SeqLen
      <4>3. QED BY SMTT(30), <1>2, <4>1, <4>2
    <3>3. L[t][i].term <= t
      BY ZenonT(60), <3>2, LeaderTerms
    <3>4. QED BY ZenonT(60), <3>2, <3>3
  <2>4. QED BY <1>4, <2>2, <2>3
<1>5. CASE l # l0 /\ a.log = SubSeq(l0, 1, k)
  <2>1. k \in Nat /\ k <= Len(l0)
    BY <1>5 DEF MergedTo
  <2>2. a.log \in Seq(Entry) /\ Len(a.log) = k /\ SameTo(a.log, l0, k)
    BY ZenonT(60), <1>5, <2>1, PrefixIs
  <2>3. Matching(L, a.log)
    BY ZenonT(60), <2>2, MatchingPrefix
  <2>4. \A i \in 1..k : a.log[i] = l0[i] /\ i \in 1..Len(l0)
    BY <1>2, <2>1, <2>2, SameToIs
  <2>5. Timely(a)
    BY <1>1, <2>2, <2>4 DEF Timely
  <2>6. QED BY <2>3, <2>5
<1>6. QED BY SMTT(30), <1>1, <1>3, <1>4, <1>5

-----------------------------------------------------------------------------
(* A queue of none. *)
LEMMA NoOps ==
  /\ <<>> \in Seq(Write) /\ Len(<<>>) = 0 /\ Unasked(<<>>) /\ OpImages(<<>>) = {}
BY DEF Unasked, OpImages

(* Sending without a write adds no image. *)
LEMMA UnqueuedMoves ==
  ASSUME Types, \A p \in Node : QueueOK(p), NEW n \in Node, NEW R, \A x \in R : x.from = n,
         msgs' = msgs \cup R, UNCHANGED <<state, mem, disk, writes, given>>
  PROVE  Moves(n, {}, R, Images(n)) /\ \A p \in Node : QueueOK(p)'
<1>1. writes[n] \in Seq(Write) /\ Len(writes[n]) \in Nat
  BY NodeTyped
<1>2. writes[n] \o <<>> = writes[n]
  BY <1>1
<1>3. Queued(n, writes[n] \o <<>>, 0, R)
  <2>1. [writes EXCEPT ![n] = writes[n]] = writes
    BY ZenonT(60) DEF Types
  <2>2. QED BY <1>2, <2>1 DEF Queued, Asked, Sent
<1>4. Writing(n, <<>>, 0, R)
  <2>1. 0 \in 0..Len(writes[n] \o <<>>)
    BY <1>1, <1>2
  <2>2. MayWait(0, R)
    BY DEF MayWait
  <2>3. QED BY <1>3, <2>1, <2>2, NoOps DEF Writing
<1>5. Moves(n, OpImages(<<>>), R, WaitImages(n, <<>>, 0))
  BY <1>4, WritingMoves
<1>6. OpImages(<<>>) = {} /\ WaitImages(n, <<>>, 0) = Images(n)
  BY <1>2, NoOps DEF WaitImages, Images, ImagesOf
<1>7. \A p \in Node : QueueOK(p)'
  BY DEF QueueOK
<1>8. QED BY Zenon, <1>5, <1>6, <1>7

(* A step in which the node votes for nobody. *)
LEMMA SilentVoting ==
  ASSUME NEW n, NEW Rep, mem'[n].term \in Nat, state'[n] # "Candidate" \/ UNCHANGED <<state, mem>>
  PROVE  Voting(n, {}, {}, Rep)
<1>1. state'[n] = "Candidate" => state[n] = "Candidate" /\ mem'[n].term = mem[n].term /\ mem'[n].log = log(n)
  BY DEF log
<1>2. {} \subseteq Promise \cup AppendRequests
  OBVIOUS
<1>3. QED BY Zenon, <1>1, <1>2 DEF Voting

(* A step that changes nothing is sound. *)
LEMMA StutterIsSound ==
  ASSUME NEW L \in SomeLogs, MatchInv(L), UNCHANGED vars, NEW n \in Node
  PROVE  Sound(n, {}, {}, Images(n), L)
<1>0. Types /\ (\A p \in Node : QueueOK(p)) /\ LeadersOK(L)
  BY DEF MatchInv
<1>1. UNCHANGED <<given, state, mem, disk, writes, nextIndex, matchIndex, termStart, commitIndex, restarts, msgs>>
  BY DEF vars, leaderVars
<1>2. Moves(n, {}, {}, Images(n)) /\ \A p \in Node : QueueOK(p)'
  <2>1. msgs' = msgs \cup {}
    BY <1>1
  <2>2. QED BY <1>0, <1>1, <2>1, UnqueuedMoves
<1>3. Types'
  BY <1>0, <1>1 DEF Types
<1>4. Voting(n, {}, {}, Images(n))
  <2>1. mem'[n].term \in Nat
    BY SMTT(30), <1>0, <1>1, NodeTyped
  <2>2. QED BY ZenonT(30), <1>1, <2>1, SilentVoting
<1>5. Leading(n)
  BY <1>0, <1>1 DEF Leading, LeadersOK
<1>6. QED BY <1>2, <1>3, <1>4, <1>5, Zenon DEF Sound
=============================================================================
