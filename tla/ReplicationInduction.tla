------------------------ MODULE ReplicationInduction ------------------------
(***************************************************************************)
(* The inductive step of log matching, for steps described by what they do *)
(* to the node that takes them: whom it votes for, which images its disk   *)
(* will go through, what it says. The votes of a term stay with one        *)
(* candidate, so its leader is unique and the log of each term only grows; *)
(* what a sound step writes or sends is then a piece of those logs.        *)
(***************************************************************************)
EXTENDS ReplicationLogs

(* Logs keep matching when a leader's log grows. *)
LEMMA MatchingExtends ==
  ASSUME NEW L \in SomeLogs, NEW L2 \in SomeLogs, Extends(L, L2), NEW l \in Seq(Entry), Matching(L, l)
  PROVE  Matching(L2, l)
<1>1. SUFFICES ASSUME NEW i \in 1..Len(l) PROVE SameTo(l, L2[l[i].term], i)
  BY DEF Matching
<1>2. PICK t \in Term : t = l[i].term
  BY EntryOf
<1>3. SameTo(l, L[t], i) /\ i <= Len(L[t]) /\ i \in Nat
  BY <1>2, MatchingAt, EntryOf
<1>4. L[t] \in Seq(Entry) /\ L2[t] \in Seq(Entry) /\ Len(L[t]) \in Nat
  BY SeqLen DEF SomeLogs
<1>5. SameTo(L2[t], L[t], Len(L[t]))
  BY DEF Extends
<1>6. SameTo(L2[t], L[t], i)
  BY <1>3, <1>4, <1>5, SameToShorter
<1>7. QED BY <1>2, <1>3, <1>6, SameToSymmetric, SameToTransitive

(* A leader that appends an entry of its term to its log. *)
LEMMA AppendMatching ==
  ASSUME NEW L \in SomeLogs, \A t \in Term : Matching(L, L[t]) /\ EndsIn(L[t], t),
         NEW l \in Seq(Entry), NEW T \in Term, NEW x \in Entry, NEW l2, NEW L2, Joins(L, l, T, x, l2, L2)
  PROVE  Joined(L, T, l2, L2)
<1>0. /\ Matching(L, l) /\ (L[T] = <<>> \/ l = L[T]) /\ \A i \in 1..Len(l) : l[i].term <= T
      /\ x.term = T /\ Grown(l2, l, x) /\ Update(L2, L, T, l2)
  BY Zenon DEF Joins
<1> USE <1>0
<1>1. l2 \in Seq(Entry) /\ Len(l2) = Len(l) + 1 /\ l2[Len(l) + 1] = x /\ SameTo(l2, l, Len(l)) /\ Len(l) \in Nat
  BY AppendIs, SeqLen DEF Grown
<1>2. L2 \in SomeLogs /\ L2[T] = l2 /\ \A t \in Term : t # T => L2[t] = L[t]
  BY <1>1 DEF SomeLogs, Update
<1>3. ASSUME NEW t \in Term PROVE SameTo(L2[t], L[t], Len(L[t]))
  <2>1. L[t] \in Seq(Entry) /\ Len(L[t]) \in Nat
    BY SeqLen DEF SomeLogs
  <2>2. CASE t # T
    BY <1>2, <2>1, <2>2, SameToItself
  <2>3. CASE t = T /\ l = L[T]
    BY <1>1, <1>2, <2>3
  <2>4. CASE t = T /\ L[T] = <<>>
    <3>1. Len(L[t]) = 0
      BY <2>4
    <3>2. SameTo(l2, L[t], 0)
      BY <1>1, <2>1, SameToZero
    <3>3. QED BY <1>2, <2>4, <3>1, <3>2
  <2>5. QED BY <2>2, <2>3, <2>4
<1>4. Extends(L, L2)
  BY <1>3 DEF Extends
<1>5. Matching(L2, l2)
  <2>1. SUFFICES ASSUME NEW i \in 1..Len(l2) PROVE SameTo(l2, L2[l2[i].term], i)
    BY DEF Matching
  <2>2. CASE i = Len(l) + 1
    BY <1>1, <1>2, <2>2, SameToItself
  <2>3. CASE i # Len(l) + 1
    <3>1. i \in 1..Len(l) /\ i \in Nat /\ i <= Len(l)
      BY <1>1, <2>3
    <3>2. SameTo(l2, l, i) /\ l2[i] = l[i]
      BY <1>1, <3>1, SameToShorter, SameToIs
    <3>3. Matching(L2, l)
      BY <1>2, <1>4, MatchingExtends
    <3>4. SameTo(l, L2[l[i].term], i)
      BY <1>2, <3>1, <3>3, MatchingAt
    <3>5. QED BY <3>2, <3>4, SameToTransitive
  <2>4. QED BY <2>2, <2>3
<1>6. EndsIn(l2, T)
  <2>1. ASSUME NEW i \in 1..Len(l2), NEW j \in 1..Len(l2), i <= j
        PROVE  l2[i].term <= l2[j].term
    <3>1. \A k \in 1..Len(l) : l2[k] = l[k]
      BY <1>1, SameToIs
    <3>2. CASE j = Len(l) + 1 /\ i = j
      BY <1>1, <3>2 DEF Term
    <3>3. CASE j = Len(l) + 1 /\ i # j
      <4>1. i \in 1..Len(l)
        BY <1>1, <2>1, <3>3
      <4>2. l2[i].term = l[i].term /\ l[i].term <= T /\ l2[j].term = T
        BY <1>1, <3>1, <3>3, <4>1
      <4>3. QED BY <4>2
    <3>4. CASE j # Len(l) + 1
      <4>1. i \in 1..Len(l) /\ j \in 1..Len(l)
        BY <1>1, <2>1, <3>4
      <4>2. l[i].term <= l[j].term
        BY <2>1, <4>1, MatchingOrdered
      <4>3. QED BY <3>1, <4>1, <4>2
    <3>5. QED BY <3>2, <3>3, <3>4
  <2>2. l2[Len(l2)].term = T
    BY <1>1
  <2>3. QED BY <2>1, <2>2 DEF EndsIn
<1>7. ASSUME NEW t \in Term PROVE Matching(L2, L2[t]) /\ EndsIn(L2[t], t)
  <2>1. CASE t = T
    BY <1>2, <1>5, <1>6, <2>1
  <2>2. CASE t # T
    <3>1. L[t] \in Seq(Entry)
      BY DEF SomeLogs
    <3>2. Matching(L2, L[t])
      BY <1>2, <1>4, <3>1, MatchingExtends
    <3>3. QED BY <1>2, <2>2, <3>2
  <2>3. QED BY <2>1, <2>2
<1>8. l2 # <<>>
  BY <1>1
<1>9. QED BY Zenon, <1>2, <1>4, <1>5, <1>6, <1>7, <1>8 DEF Joined

(* Where a leader's own entries start in its log, once it has appended one. *)
LEMMA GrownRun ==
  ASSUME NEW l \in Seq(Entry), NEW x \in Entry, NEW l2, Grown(l2, l, x), NEW T, x.term = T, NEW s,
         s = Len(l2) \/ RunFrom(l, s, T)
  PROVE  RunFrom(l2, s, T)
<1>1. l2 \in Seq(Entry) /\ Len(l2) = Len(l) + 1 /\ l2[Len(l) + 1] = x /\ SameTo(l2, l, Len(l))
  BY AppendIs DEF Grown
<1>2. Len(l) \in Nat
  BY SeqLen
<1>3. \A i \in 1..Len(l) : l2[i] = l[i]
  BY <1>1, <1>2, SameToIs
<1>4. QED BY <1>1, <1>2, <1>3 DEF RunFrom

(* What a leader's log keeps while it grows. *)
LEMMA ExtendsTo ==
  ASSUME NEW L \in SomeLogs, NEW L2 \in SomeLogs, Extends(L, L2), NEW t \in Term, NEW i \in Nat, i <= Len(L[t])
  PROVE  /\ SameTo(L2[t], L[t], i) /\ SameTo(L[t], L2[t], i) /\ i <= Len(L2[t])
         /\ L[t] # <<>> => L2[t] # <<>>
<1>1. L[t] \in Seq(Entry) /\ L2[t] \in Seq(Entry) /\ Len(L[t]) \in Nat /\ Len(L2[t]) \in Nat
  BY SeqLen DEF SomeLogs
<1>2. SameTo(L2[t], L[t], Len(L[t]))
  BY DEF Extends
<1>3. SameTo(L2[t], L[t], i)
  BY <1>1, <1>2, SameToShorter
<1>4. SameTo(L[t], L2[t], i) /\ i <= Len(L2[t])
  BY <1>3 DEF SameTo
<1>5. L[t] # <<>> => L2[t] # <<>>
  <2>1. SUFFICES ASSUME L[t] # <<>>, L2[t] = <<>> PROVE FALSE
    OBVIOUS
  <2>2. Len(L[t]) <= Len(L2[t])
    BY <1>2 DEF SameTo
  <2>3. Len(L2[t]) = 0
    BY <2>1
  <2>4. Len(L[t]) = 0
    BY <1>1, <2>2, <2>3
  <2>5. QED BY <1>1, <2>1, <2>4, SeqEmpty
<1>6. QED BY <1>3, <1>4, <1>5

(* Logs that do not grow. *)
LEMMA ExtendsItself ==
  ASSUME NEW L \in SomeLogs
  PROVE  Extends(L, L)
<1>1. ASSUME NEW t \in Term PROVE SameTo(L[t], L[t], Len(L[t]))
  <2>1. L[t] \in Seq(Entry) /\ Len(L[t]) \in Nat
    BY SeqLen DEF SomeLogs
  <2>2. QED BY <2>1, SameToItself
<1>2. QED BY <1>1 DEF Extends

(* A piece of a log is one of the log once it has grown. *)
LEMMA FragmentExtends ==
  ASSUME NEW g \in Seq(Entry), NEW h \in Seq(Entry), SameTo(h, g, Len(g)),
         NEW m, m.prev \in Nat, m.entries \in Seq(Entry), Fragment(g, m)
  PROVE  Fragment(h, m)
<1>1. Len(g) \in Nat /\ Len(h) \in Nat /\ Len(g) <= Len(h) /\ \A i \in 1..Len(g) : h[i] = g[i]
  BY SeqLen, SameToIs
<1>2. PICK e \in Nat, prev \in Nat : e = Len(m.entries) /\ prev = m.prev
  BY SeqLen
<1>3. prev + e <= Len(g) /\ m.prevTerm = termAt(g, prev) /\ \A i \in 1..e : m.entries[i] = g[prev + i]
  BY <1>2 DEF Fragment
<1>4. termAt(h, prev) = termAt(g, prev)
  <2>1. prev \in 1..Len(g) <=> prev \in 1..Len(h)
    BY <1>1, <1>3
  <2>2. QED BY <1>1, <2>1 DEF termAt
<1>5. \A i \in 1..e : m.entries[i] = h[prev + i]
  <2>1. \A i \in 1..e : prev + i \in 1..Len(g)
    BY <1>1, <1>3
  <2>2. QED BY <1>1, <1>3, <2>1
<1>6. prev + e <= Len(h)
  BY <1>1, <1>3
<1>7. QED BY <1>2, <1>3, <1>4, <1>5, <1>6 DEF Fragment

(* The types of what a node says. *)
LEMMA SaidIsTyped ==
  ASSUME Types, NEW n \in Node, QueueOK(n), NEW x, Says(n, x)
  PROVE  x \in Promise \cup AppendRequests /\ x.from = n
<1>1. PICK k \in 0..Len(writes[n]) : SaidOf(msgs, writes[n], n, x, k)
  BY DEF Says, SaysOf
<1>2. CASE k = 0
  BY <1>1, <1>2 DEF SaidOf, Types
<1>3. CASE k # 0
  <2>1. x \in writes[n][k].then /\ k \in 1..Len(writes[n])
    BY <1>1, <1>3, NodeTyped DEF SaidOf
  <2>2. writes[n][k] \in Write
    BY <2>1, NodeTyped, SeqItem
  <2>3. x \in Promise
    BY <2>1, <2>2 DEF Write
  <2>4. x.from = n
    BY <2>1 DEF QueueOK, QueueOf
  <2>5. QED BY <2>3, <2>4
<1>4. QED BY <1>2, <1>3

(* The types of a vote. *)
LEMMA VoteIsTyped ==
  ASSUME NEW x \in Promise \cup AppendRequests, IsVote(x)
  PROVE  x.term \in Term /\ x.term \in Nat /\ Choice(x) \in Node /\ Choice(x) # None /\ x.from \in Node
<1>1. x \in RequestVotes \/ x \in VoteReplies
  BY DEF Promise, AppendRequests, AppendReplies, RequestVotes, VoteReplies, IsVote
<1>2. x.term \in Term /\ x.from \in Node
  BY <1>1 DEF RequestVotes, VoteReplies
<1>3. Choice(x) \in Node
  BY <1>1 DEF RequestVotes, VoteReplies, Choice
<1>4. QED BY <1>2, <1>3, ReplicationConstants DEF Term

(* What is said is said of the image in memory, ... *)
LEMMA SaysBond ==
  ASSUME NEW n, Len(writes[n]) \in Nat, QueueOK(n), NEW x, Says(n, x)
  PROVE  Bond(n, x, mem[n])
<1>1. PICK k \in 0..Len(writes[n]) : SaidOf(msgs, writes[n], n, x, k)
  BY DEF Says, SaysOf
<1>2. Len(writes[n]) \in 0..Len(writes[n]) /\ k <= Len(writes[n])
  OBVIOUS
<1>3. mem[n] = ImageOf(disk[n], writes[n], Len(writes[n]))
  BY DEF QueueOK, QueueOf
<1>4. QED BY <1>1, <1>2, <1>3 DEF Bond, BondOf

(* What is sent has been said. *)
LEMMA SentIsSaid ==
  ASSUME NEW n, Len(writes[n]) \in Nat, NEW x \in msgs, x.from = n
  PROVE  Says(n, x)
<1>1. 0 \in 0..Len(writes[n])
  OBVIOUS
<1>2. QED BY <1>1 DEF Says, SaysOf, SaidOf

(* The log of every image is a log. *)
LEMMA LogOfImage ==
  ASSUME Types, NEW n \in Node, NEW im, im \in Images(n)
  PROVE  im \in Image /\ im.log \in Seq(Entry) /\ im.term \in 0..MaxTerm
<1>1. PICK k \in 0..Len(writes[n]) : im = ImageOf(disk[n], writes[n], k)
  BY DEF Images, ImagesOf
<1>2. \A j \in 1..Len(writes[n]) : writes[n][j] \in Write
  BY NodeTyped, SeqItem
<1>3. im \in Image
  BY <1>1, <1>2, NodeTyped DEF ImageOf, Write
<1>4. QED BY <1>3 DEF Image

(* A vote already said is of the term in memory or an older one. *)
LEMMA SaidVoteIsOld ==
  ASSUME Types, NEW n \in Node, QueueOK(n), VotesKept, NEW x, Says(n, x), IsVote(x)
  PROVE  x.term \in Nat /\ x.term <= mem[n].term /\ (x.term = mem[n].term => mem[n].vote = Choice(x) /\ Choice(x) # None)
<1>1. Bond(n, x, mem[n])
  BY SaysBond, NodeTyped
<1>2. KeepsVote(x, mem[n])
  BY <1>1 DEF VotesKept
<1>3. x.term \in Nat /\ Choice(x) # None
  BY SaidIsTyped, VoteIsTyped
<1>4. mem[n].term \in Nat
  BY NodeTyped
<1>5. QED BY <1>2, <1>3, <1>4 DEF KeepsVote

(* Votes are kept, one a term, asked for and told truly, after every step  *)
(* that respects them.                                                     *)
LEMMA VotesStep ==
  \A n \in Node : \A New, R, Rep :
    /\ Types
    /\ (\A p \in Node : QueueOK(p))
    /\ Votes
    /\ Moves(n, New, R, Rep)
    /\ Voting(n, New, R, Rep)
    => Votes'
(* A step that respects votes keeps them: what is said is on the disk. *)
<1>VotesKeptStep.
    ASSUME Types, \A p \in Node : QueueOK(p), Votes, NEW n \in Node, NEW New, NEW R, NEW Rep,
           Moves(n, New, R, Rep), Voting(n, New, R, Rep)
    PROVE  VotesKept'
  <2> USE <1>VotesKeptStep
  <2>1. SUFFICES ASSUME NEW p \in Node, NEW x, NEW im, Bond(p, x, im)', IsVote(x)
                 PROVE  KeepsVote(x, im)
    BY DEF VotesKept
  <2>2. CASE Bond(p, x, im)
    BY <2>1, <2>2 DEF Votes, VotesKept
  <2>3. CASE p = n /\ Says(n, x) /\ im \in New
    <3>1. Bond(n, x, mem[n])
      BY <2>3, SaysBond, NodeTyped
    <3>2. KeepsVote(x, mem[n])
      BY <2>1, <3>1 DEF Votes, VotesKept
    <3>3. x.term \in Nat /\ Choice(x) # None
      BY SMTT(30), <2>1, <2>3, SaidIsTyped, VoteIsTyped
    <3>4. /\ im.term \in Nat /\ im.term >= mem[n].term
          /\ im.term = mem[n].term /\ mem[n].vote # None => im.vote = mem[n].vote
      BY <2>3 DEF Voting
    <3>5. mem[n].term \in Nat
      BY NodeTyped
    <3>6. QED BY SMTT(30), <3>2, <3>3, <3>4, <3>5 DEF KeepsVote
  <2>4. CASE p = n /\ x \in R /\ im \in Rep
    BY <2>1, <2>4 DEF Voting
  <2>5. QED BY SMTT(30), <2>1, <2>2, <2>3, <2>4 DEF Moves
<1>VotesStep.
    ASSUME Types, \A p \in Node : QueueOK(p), Votes, NEW n \in Node, NEW New, NEW R, NEW Rep,
           Moves(n, New, R, Rep), Voting(n, New, R, Rep)
    PROVE  Votes'
  <2> USE <1>VotesStep
  <2>1. VotesKept'
    BY <1>VotesKeptStep
  <2>0. mem[n].term \in Nat
    BY NodeTyped
  <2>0a. \A p \in Node : \A x : Says(p, x)' => Says(p, x) \/ (p = n /\ x \in R)
    BY DEF Moves
  <2>0b. \A x \in R : IsVote(x) => /\ x.term \in Nat /\ \A y \in R : y = x
                                   /\ \/ x.term > mem[n].term
                                      \/ x.type = "VoteReply" /\ x.term = mem[n].term /\ mem[n].vote \in {None, Choice(x)}
    BY VoteIsTyped DEF Voting
  <2>2. ASSUME NEW x, NEW y, x \in R, Says(n, y), IsVote(x), IsVote(y), x.term = y.term
        PROVE  Choice(x) = Choice(y) /\ x.type # "RequestVote"
    <3>1. y.term \in Nat /\ y.term <= mem[n].term /\ (y.term = mem[n].term => mem[n].vote = Choice(y) /\ Choice(y) # None)
      BY <2>2, SaidVoteIsOld DEF Votes
    <3>2. QED BY SMTT(30), <2>0, <2>0b, <2>2, <3>1
  <2>3. OneVote'
    <3>1. SUFFICES ASSUME NEW p \in Node, NEW x, NEW y, Says(p, x)', Says(p, y)', IsVote(x), IsVote(y), x.term = y.term
                   PROVE  Choice(x) = Choice(y) /\ (x.type = "RequestVote" /\ y.type = "RequestVote" => x = y)
      BY DEF OneVote
    <3>2. CASE Says(p, x) /\ Says(p, y)
      BY <3>1, <3>2 DEF Votes, OneVote
    <3>3. CASE p = n /\ x \in R /\ Says(n, y)
      BY <2>2, <3>1, <3>3
    <3>4. CASE p = n /\ y \in R /\ Says(n, x)
      BY SMTT(30), <2>2, <3>1, <3>4
    <3>5. CASE x \in R /\ y \in R
      BY <2>0b, <3>1, <3>5
    <3>6. QED BY SMTT(30), <2>0a, <3>1, <3>2, <3>3, <3>4, <3>5
  <2>4. VotesAsked'
    <3>1. SUFFICES ASSUME NEW p \in Node, NEW x, Says(p, x)', x.type = "VoteReply", x.granted
                   PROVE  \E r \in msgs' : r.type = "RequestVote" /\ r.from = x.to /\ r.term = x.term
      BY DEF VotesAsked
    <3>2. \E r \in msgs : r.type = "RequestVote" /\ r.from = x.to /\ r.term = x.term
      <4>1. CASE Says(p, x)
        BY SMTT(30), <3>1, <4>1 DEF Votes, VotesAsked
      <4>2. CASE x \in R
        BY ZenonT(60), <3>1, <4>2 DEF Voting, IsVote
      <4>3. QED BY SMTT(30), <2>0a, <3>1, <4>1, <4>2
    <3>3. msgs \subseteq msgs'
      BY SMTT(30) DEF Moves
    <3>4. QED BY <3>2, <3>3
  <2>5. RequestTells'
    <3>1. SUFFICES ASSUME NEW p \in Node, NEW x, Says(p, x)', x.type = "RequestVote", state'[p] = "Candidate", x.term = mem'[p].term
                   PROVE  x.lastIndex = Len(mem'[p].log) /\ x.lastTerm = termAt(mem'[p].log, Len(mem'[p].log))
      BY DEF RequestTells, currentTerm, log
    <3>2. IsVote(x)
      BY <3>1 DEF IsVote
    <3>3. CASE p # n
      <4>1. mem'[p] = mem[p] /\ state'[p] = state[p] /\ Says(p, x)
        BY SMTT(30), <2>0a, <3>1, <3>3 DEF Moves
      <4>2. QED BY SMTT(30), <3>1, <4>1 DEF Votes, RequestTells, currentTerm, log
    <3>4. CASE p = n /\ x \in R
      BY SMTT(30), <3>1, <3>2, <3>4 DEF Voting
    <3>5. CASE p = n /\ Says(n, x)
      <4>1. x.term \in Nat /\ x.term <= mem[n].term
        BY <3>2, <3>5, SaidVoteIsOld DEF Votes
      <4>2. state[n] = "Candidate" /\ mem'[n].term = mem[n].term /\ mem'[n].log = log(n)
        <5>1. \/ mem'[n].term > mem[n].term
              \/ state[n] = "Candidate" /\ mem'[n].term = mem[n].term /\ mem'[n].log = log(n)
          BY ZenonT(30), <3>1, <3>5 DEF Voting
        <5>2. ~ (mem'[n].term > mem[n].term)
          BY SMTT(30), <2>0, <3>1, <3>5, <4>1
        <5>3. QED BY <5>1, <5>2, Zenon
      <4>3. QED BY <3>1, <3>5, <4>2 DEF Votes, RequestTells, currentTerm, log
    <3>6. QED BY SMTT(30), <2>0a, <3>1, <3>3, <3>4, <3>5
  <2>6. QED BY <2>1, <2>3, <2>4, <2>5 DEF Votes
<1>q. QED BY <1>VotesStep

(* A situation has a commit quorum and a batch size. *)
LEMMA SituationIs ==
  ASSUME Types
  PROVE  situation.policy \in Nat /\ situation.batch \in Nat
<1>1. situation \in Range(Situations)
  BY DEF Types, situation, Range
<1>2. QED BY <1>1, ReplicationConstants

(* An election quorum is more than one voter. *)
LEMMA QuorateIsTwo ==
  ASSUME Basics, Types, NEW Q, Q \subseteq Voter, Quorate(Q), NEW c
  PROVE  \E v \in Q : v # c
<1>1. PICK q \in Nat : q = situation.policy
  BY SituationIs
<1>2. Cardinality(Q) >= electionQuorumFor(q, Cardinality(Voter))
  BY Zenon, <1>1 DEF Quorate
<1>3. QuorumsAreTwo /\ Q \in SUBSET Voter
  BY Zenon DEF Basics
<1>4. QED BY SMTT(30), <1>2, <1>3 DEF QuorumsAreTwo

(* And two of them meet. *)
LEMMA QuoratesMeet ==
  ASSUME Basics, Types, NEW P, NEW Q, P \subseteq Voter, Q \subseteq Voter, Quorate(P), Quorate(Q)
  PROVE  P \cap Q # {}
<1>1. PICK q \in Nat : q = situation.policy
  BY SituationIs
<1>2. /\ Cardinality(P) >= electionQuorumFor(q, Cardinality(Voter))
      /\ Cardinality(Q) >= electionQuorumFor(q, Cardinality(Voter))
  BY Zenon, <1>1 DEF Quorate
<1>3. QuorumsMeet /\ P \in SUBSET Voter /\ Q \in SUBSET Voter
  BY Zenon DEF Basics
<1>4. QED BY Zenon, <1>2, <1>3 DEF QuorumsMeet

(* Whoever was elected had asked for votes. *)
LEMMA ElectedAsked ==
  ASSUME Basics, Types, \A p \in Node : QueueOK(p), Votes, NEW c, NEW t, Elected(c, t)
  PROVE  \E r \in msgs : r.type = "RequestVote" /\ r.from = c /\ r.term = t
<1>1. PICK Q \in SUBSET Voter : Quorate(Q) /\ \A v \in Q : Voted(v, c, t)
  BY DEF Elected
<1>2. PICK v \in Q : v # c
  BY SMTT(30), <1>1, QuorateIsTwo
<1>3. PICK x \in msgs : x.from = v /\ IsVote(x) /\ x.term = t /\ Choice(x) = c
  BY <1>1, <1>2 DEF Voted
<1>4. x.type = "VoteReply" /\ x.granted /\ x.to = c
  BY SMTT(30), <1>2, <1>3 DEF IsVote, Choice
<1>5. v \in Node
  BY SMTT(30), <1>1, <1>2, ReplicationConstants
<1>6. Says(v, x)
  BY SMTT(30), <1>3, <1>5, SentIsSaid, NodeTyped
<1>7. QED BY <1>3, <1>4, <1>5, <1>6 DEF Votes, VotesAsked

(* One leader a term: election quorums intersect and a voter has one vote. *)
LEMMA ElectedUnique ==
  ASSUME Basics, Types, Votes, NEW c, NEW d, NEW t, Elected(c, t), Elected(d, t)
  PROVE  c = d
<1>1. PICK P \in SUBSET Voter : Quorate(P) /\ \A v \in P : Voted(v, c, t)
  BY DEF Elected
<1>2. PICK Q \in SUBSET Voter : Quorate(Q) /\ \A v \in Q : Voted(v, d, t)
  BY DEF Elected
<1>3. P \cap Q # {}
  BY Zenon, <1>1, <1>2, QuoratesMeet
<1>4. PICK v \in P \cap Q : TRUE
  BY <1>3
<1>5. PICK x \in msgs : x.from = v /\ IsVote(x) /\ x.term = t /\ Choice(x) = c
  BY <1>1, <1>4 DEF Voted
<1>6. PICK y \in msgs : y.from = v /\ IsVote(y) /\ y.term = t /\ Choice(y) = d
  BY <1>2, <1>4 DEF Voted
<1>7. v \in Node
  BY SMTT(30), <1>1, <1>4, ReplicationConstants
<1>8. Says(v, x) /\ Says(v, y)
  BY SMTT(30), <1>5, <1>6, <1>7, SentIsSaid, NodeTyped
<1>9. QED BY SMTT(30), <1>5, <1>6, <1>7, <1>8 DEF Votes, OneVote

(* An election is never undone. *)
LEMMA ElectedStays ==
  ASSUME NEW c, NEW t, Elected(c, t), given' = given, msgs \subseteq msgs'
  PROVE  Elected(c, t)'
<1>1. PICK Q \in SUBSET Voter : Quorate(Q) /\ \A v \in Q : Voted(v, c, t)
  BY DEF Elected
<1>2. Quorate(Q)'
  BY <1>1 DEF Quorate, situation
<1>3. \A v \in Q : Voted(v, c, t)'
  BY ZenonT(60), <1>1 DEF Voted
<1>4. QED BY <1>1, <1>2, <1>3 DEF Elected

(* The images after a step match the leaders' logs. *)
LEMMA ImagesStep ==
  ASSUME Types, NEW L \in SomeLogs, NEW L2 \in SomeLogs, Extends(L, L2), ImagesOK(L),
         NEW n \in Node, NEW New, NEW R, NEW Rep, Moves(n, New, R, Rep),
         \A im \in New : Matching(L2, im.log) /\ Timely(im)
  PROVE  ImagesOK(L2)'
<1>1. SUFFICES ASSUME NEW p \in Node, NEW im, im \in Images(p)'
               PROVE  Matching(L2, im.log) /\ Timely(im)
  BY DEF ImagesOK
<1>2. CASE im \in Images(p)
  <2>1. Matching(L, im.log) /\ Timely(im)
    BY <1>2 DEF ImagesOK
  <2>2. im.log \in Seq(Entry)
    BY <1>2, LogOfImage
  <2>3. QED BY SMTT(30), <2>1, <2>2, MatchingExtends
<1>3. CASE im \in New
  BY <1>3
<1>4. QED BY SMTT(30), <1>1, <1>2, <1>3 DEF Moves

(* The requests after a step are pieces of them. *)
LEMMA RequestsStep ==
  ASSUME Types, \A p \in Node : QueueOK(p), NEW L \in SomeLogs, NEW L2 \in SomeLogs, Extends(L, L2), RequestsOK(L),
         NEW n \in Node, NEW New, NEW R, NEW Rep, Moves(n, New, R, Rep),
         \A x \in R : x.type = "AppendEntries" => RequestOK(L2, x)
  PROVE  RequestsOK(L2)'
<1>1. SUFFICES ASSUME NEW m, m \in msgs', m.type = "AppendEntries"
               PROVE  RequestOK(L2, m)
  BY ZenonT(60) DEF RequestsOK
<1>2. m \in msgs \/ m \in R
  <2>1. CASE Says(n, m)
    <3>1. PICK k \in 0..Len(writes[n]) : SaidOf(msgs, writes[n], n, m, k)
      BY <2>1 DEF Says, SaysOf
    <3>2. CASE k = 0
      BY SMTT(30), <3>1, <3>2 DEF SaidOf
    <3>3. CASE k # 0
      <4>1. k \in 1..Len(writes[n]) /\ m \in writes[n][k].then
        BY SMTT(30), <3>1, <3>3, NodeTyped DEF SaidOf
      <4>2. writes[n][k] \in Write
        BY SMTT(30), <4>1, NodeTyped, SeqItem
      <4>3. m \in Promise
        BY <4>1, <4>2 DEF Write
      <4>4. QED BY SMTT(30), <1>1, <4>3 DEF Promise, RequestVotes, VoteReplies, AppendReplies
    <3>4. QED BY <3>2, <3>3
  <2>2. QED BY <1>1, <2>1 DEF Moves
<1>3. CASE m \in R
  BY <1>1, <1>3
<1>4. CASE m \in msgs
  <2>1. m \in AppendRequests
    BY Zenon, <1>1, <1>4 DEF Types, Promise, RequestVotes, VoteReplies, AppendReplies
  <2>2. m.prev \in Nat /\ m.entries \in Seq(Entry) /\ m.term \in Term
    BY <2>1 DEF AppendRequests
  <2>3. PICK t \in Term : t = m.term
    BY <2>2
  <2>4. RequestOK(L, m)
    BY <1>1, <1>4 DEF RequestsOK
  <2>5. L[t] \in Seq(Entry) /\ L2[t] \in Seq(Entry) /\ SameTo(L2[t], L[t], Len(L[t])) /\ Len(L[t]) \in Nat
    BY SeqLen DEF SomeLogs, Extends
  <2>6. L[t] # <<>> /\ (Fragment(L[t], m) \/ (m.entries = <<>> /\ m.prevTerm = 0 /\ m.prev > 0))
    BY ZenonT(30), <2>3, <2>4 DEF RequestOK
  <2>7. L2[t] # <<>>
    BY SMTT(30), <2>5, <2>6, ExtendsTo
  <2>8. Fragment(L[t], m) => Fragment(L2[t], m)
    BY SMTT(30), <2>2, <2>5, FragmentExtends
  <2>9. QED BY ZenonT(30), <2>3, <2>6, <2>7, <2>8 DEF RequestOK
<1>5. QED BY SMTT(30), <1>2, <1>3, <1>4

(* A term that has had its leader stays settled. *)
LEMMA SettledStays ==
  ASSUME Basics, Types, \A p \in Node : QueueOK(p), Votes, NEW n \in Node, NEW New, NEW R, NEW Rep,
         Moves(n, New, R, Rep), Voting(n, New, R, Rep), NEW t, Settled(t)
  PROVE  Settled(t)'
<1>1. PICK c \in Node : Elected(c, t) /\ ~(state[c] = "Candidate" /\ currentTerm(c) = t)
  BY ZenonT(60) DEF Settled
<1>2. Elected(c, t)'
  BY <1>1, ElectedStays DEF Moves
<1>3. ~ (state'[c] = "Candidate" /\ mem'[c].term = t)
  <2>1. CASE c # n
    BY SMTT(30), <1>1, <2>1 DEF Moves, currentTerm
  <2>2. CASE c = n
    <3>1. SUFFICES ASSUME state'[n] = "Candidate", mem'[n].term = t PROVE FALSE
      BY <2>2
    <3>2. ~ (state[n] = "Candidate" /\ mem'[n].term = mem[n].term)
      BY ZenonT(60), <1>1, <2>2, <3>1 DEF currentTerm
    <3>3. mem'[n].term > mem[n].term /\ mem'[n].term \in Nat /\ mem[n].term \in Nat
      BY ZenonT(60), <3>1, <3>2, NodeTyped DEF Voting
    <3>3a. Elected(n, t)
      BY Zenon, <1>1, <2>2
    <3>4. PICK r \in msgs : r.type = "RequestVote" /\ r.from = n /\ r.term = t
      BY SMTT(30), <3>3a, ElectedAsked
    <3>5. Says(n, r) /\ IsVote(r)
      BY SMTT(30), <3>4, SentIsSaid, NodeTyped DEF IsVote
    <3>6. r.term \in Nat /\ r.term <= mem[n].term
      BY <3>5, SaidVoteIsOld DEF Votes
    <3>7. QED BY SMTT(30), <3>1, <3>3, <3>4, <3>6
  <2>3. QED BY ZenonT(60), <2>1, <2>2
<1>4. QED BY <1>2, <1>3 DEF Settled, currentTerm

(* A sound step keeps the leaders' logs and everything that matches them. *)
LEMMA MatchStep ==
  ASSUME Basics
  PROVE  \A L \in SomeLogs, n \in Node : \A New, R, Rep :
           /\ MatchInv(L)
           /\ Sound(n, New, R, Rep, L)
           => MatchInv(L)'
(* A leader has the log of its term. *)
<1>LeadersStep.
    ASSUME NEW L, LeadersOK(L), NEW n \in Node, NEW New, NEW R, NEW Rep,
           Moves(n, New, R, Rep), Leading(n)
    PROVE  LeadersOK(L)'
  <2> USE <1>LeadersStep
  <2>1. SUFFICES ASSUME NEW p \in Node, state'[p] = "Leader"
                 PROVE  \E t \in Term :
                          /\ mem'[p].term = t /\ mem'[p].log = L[t] /\ Elected(p, t)'
                          /\ termStart'[p] \in 1..Len(mem'[p].log)
                          /\ \A i \in termStart'[p]..Len(mem'[p].log) : mem'[p].log[i].term = t
                          /\ \A q \in Node : nextIndex'[p][q] >= 1
    BY ZenonT(60) DEF LeadersOK, log, currentTerm
  <2>2. /\ state[p] = "Leader" /\ mem'[p].term = mem[p].term /\ mem'[p].log = mem[p].log
        /\ termStart'[p] = termStart[p]
    BY SMTT(30), <2>1 DEF Moves, Leading
  <2>3. PICK t \in Term :
          /\ mem[p].term = t /\ mem[p].log = L[t] /\ Elected(p, t)
          /\ termStart[p] \in 1..Len(mem[p].log) /\ \A i \in termStart[p]..Len(mem[p].log) : mem[p].log[i].term = t
          /\ \A q \in Node : nextIndex[p][q] >= 1
    BY ZenonT(60), <2>2 DEF LeadersOK, log, currentTerm
  <2>4. Elected(p, t)'
    BY ZenonT(60), <2>3, ElectedStays DEF Moves
  <2>5. \A q \in Node : nextIndex'[p][q] >= 1
    BY <2>1, <2>3 DEF Leading
  <2>6. QED BY ZenonT(60), <2>2, <2>3, <2>4, <2>5
<1>MatchStep.
    ASSUME NEW L \in SomeLogs, MatchInv(L), NEW n \in Node, NEW New, NEW R, NEW Rep, Sound(n, New, R, Rep, L)
    PROVE  MatchInv(L)'
  <2> USE <1>MatchStep
  <2>0. /\ Types' /\ (\A p \in Node : QueueOK(p)')
        /\ Moves(n, New, R, Rep) /\ Voting(n, New, R, Rep) /\ Leading(n)
        /\ (\A im \in New : Matching(L, im.log) /\ Timely(im))
        /\ \A x \in R : x.type = "AppendEntries" => RequestOK(L, x)
    BY Zenon DEF Sound
  <2>1. Types /\ (\A p \in Node : QueueOK(p)) /\ Votes /\ LeaderLogs(L) /\ ImagesOK(L) /\ LeadersOK(L) /\ RequestsOK(L)
    BY DEF MatchInv
  <2>2. Extends(L, L)
    BY ExtendsItself
  <2>3. Votes'
    BY SMTT(30), <2>0, <2>1, VotesStep
  <2>4. ImagesOK(L)'
    BY SMTT(30), <2>0, <2>1, <2>2, ImagesStep
  <2>5. RequestsOK(L)'
    BY SMTT(30), <2>0, <2>1, <2>2, RequestsStep
  <2>6. LeadersOK(L)'
    BY SMTT(30), <2>0, <2>1, <1>LeadersStep
  <2>7. LeaderLogs(L)'
    <3>1. \A t \in Term : Settled(t) => Settled(t)'
      BY SMTT(30), <2>0, <2>1, SettledStays
    <3>2. QED BY SMTT(30), <2>1, <3>1 DEF LeaderLogs
  <2>8. QED BY SMTT(30), <2>0, <2>3, <2>4, <2>5, <2>6, <2>7 DEF MatchInv
<1>q. QED BY ZenonT(60), <1>MatchStep

(* A step that adds an entry to the log of a term's leader. *)
LEMMA MatchStepAppending ==
  ASSUME Basics, NEW L \in SomeLogs, MatchInv(L), NEW n \in Node, NEW New, NEW R, NEW Rep,
         NEW T \in Term, NEW x \in Entry, NEW l2, NEW L2, AppendStep(n, New, R, Rep, T, L, x, l2, L2)
  PROVE  MatchInv(L2)' /\ L2 \in SomeLogs /\ Extends(L, L2)
<1>1. Types /\ (\A p \in Node : QueueOK(p)) /\ Votes /\ LeaderLogs(L) /\ ImagesOK(L) /\ LeadersOK(L) /\ RequestsOK(L)
  BY Zenon DEF MatchInv
<1>2. Types' /\ (\A p \in Node : QueueOK(p)') /\ Moves(n, New, R, Rep) /\ Voting(n, New, R, Rep) /\ New = {mem'[n]}
  BY Zenon DEF AppendStep
<1>3. mem[n].term = T /\ mem'[n].term = T /\ state'[n] = "Leader" /\ Elected(n, T)
  BY Zenon DEF AppendStep
<1>4. Votes'
  BY Zenon, <1>1, <1>2, VotesStep
<1>5. PICK l \in Seq(Entry) : l = mem[n].log
  BY Zenon, <1>1, NodeTyped
<1>6. /\ Grown(l2, l, x) /\ (L[T] = <<>> \/ l = L[T]) /\ x.term = T /\ Update(L2, L, T, l2)
      /\ mem'[n].log = l2 /\ Len(l2) <= MaxLog
  BY Zenon, <1>5 DEF AppendStep
<1>7. \A t \in Term : Matching(L, L[t]) /\ EndsIn(L[t], t) /\ Len(L[t]) <= MaxLog /\ (L[t] # <<>> => Settled(t))
  BY Zenon, <1>1 DEF LeaderLogs
<1>8. /\ L2 \in SomeLogs /\ Extends(L, L2) /\ Matching(L2, l2) /\ EndsIn(l2, T)
      /\ \A t \in Term : Matching(L2, L2[t]) /\ EndsIn(L2[t], t)
      /\ L2[T] = l2 /\ l2 # <<>> /\ \A t \in Term : t # T => L2[t] = L[t]
  <2>1. Matching(L, l) /\ \A i \in 1..Len(l) : l[i].term <= T
    BY Zenon, <1>1, <1>3, <1>5, MemIsImage DEF ImagesOK, Timely
  <2>2. \A t \in Term : Matching(L, L[t]) /\ EndsIn(L[t], t)
    BY Zenon, <1>7
  <2>3. Joins(L, l, T, x, l2, L2)
    BY Zenon, <1>6, <2>1 DEF Joins
  <2>4. Joined(L, T, l2, L2)
    BY Zenon, <2>2, <2>3, AppendMatching
  <2>5. QED BY Zenon, <2>4 DEF Joined
<1>9. ImagesOK(L2)'
  <2>1. Timely(mem'[n])
    <3>1. \A i \in 1..Len(L2[T]) : L2[T][i].term <= T
      BY Zenon, <1>8, LeaderTerms
    <3>2. QED BY Zenon, <1>3, <1>6, <1>8, <3>1 DEF Timely
  <2>2. \A im \in New : Matching(L2, im.log) /\ Timely(im)
    BY Zenon, <1>2, <1>6, <1>8, <2>1
  <2>3. QED BY Zenon, <1>1, <1>2, <1>8, <2>2, ImagesStep
<1>10. RequestsOK(L2)'
  <2>1. \A y \in R : y.type = "AppendEntries" => RequestOK(L2, y)
    BY Zenon DEF AppendStep
  <2>2. QED BY Zenon, <1>1, <1>2, <1>8, <2>1, RequestsStep
<1>11. Elected(n, T)' /\ given' = given /\ msgs \subseteq msgs'
  BY Zenon, <1>2, <1>3, ElectedStays DEF Moves
<1>12. LeaderLogs(L2)'
  <2>1. ASSUME NEW t \in Term, L2[t] # <<>> PROVE Settled(t)'
    <3>1. CASE t = T
      <4>1. Elected(n, t)' /\ ~ (state'[n] = "Candidate")
        BY Zenon, <1>3, <1>11, <3>1
      <4>2. QED BY Zenon, <4>1 DEF Settled
    <3>2. CASE t # T
      <4>1. Settled(t)
        BY Zenon, <1>7, <1>8, <2>1, <3>2
      <4>2. QED BY Zenon, <1>1, <1>2, <4>1, SettledStays
    <3>3. QED BY Zenon, <3>1, <3>2
  <2>2. ASSUME NEW t \in Term PROVE Len(L2[t]) <= MaxLog
    BY Zenon, <1>6, <1>7, <1>8
  <2>3. QED BY Zenon, <1>8, <2>1, <2>2 DEF LeaderLogs, SomeLogs
<1>13. LeadersOK(L2)'
  <2>1. SUFFICES ASSUME NEW p \in Node, state'[p] = "Leader"
                 PROVE  \E t \in Term :
                          /\ mem'[p].term = t /\ mem'[p].log = L2[t] /\ Elected(p, t)'
                          /\ termStart'[p] \in 1..Len(mem'[p].log)
                          /\ \A i \in termStart'[p]..Len(mem'[p].log) : mem'[p].log[i].term = t
                          /\ \A q \in Node : nextIndex'[p][q] >= 1
    BY Zenon DEF LeadersOK, log, currentTerm
  <2>2. CASE p = n
    <3>1. PICK s : s = termStart'[n]
      BY Zenon
    <3>2. s = Len(l2) \/ RunFrom(l, s, T)
      BY Zenon, <1>5, <3>1 DEF AppendStep, RunFrom
    <3>3. RunFrom(l2, s, T)
      BY Zenon, <1>6, <3>2, GrownRun
    <3>4. \A q \in Node : nextIndex'[n][q] >= 1
      BY Zenon DEF AppendStep
    <3>5. QED BY Zenon, <1>3, <1>6, <1>8, <1>11, <2>2, <3>1, <3>3, <3>4 DEF RunFrom
  <2>3. CASE p # n
    <3>1. /\ state[p] = "Leader" /\ mem'[p] = mem[p] /\ termStart'[p] = termStart[p] /\ nextIndex'[p] = nextIndex[p]
      <4>1. state'[p] = state[p] /\ mem'[p] = mem[p]
        BY Zenon, <1>2, <2>3 DEF Moves
      <4>2. termStart'[p] = termStart[p] /\ nextIndex'[p] = nextIndex[p]
        BY Zenon, <2>3 DEF AppendStep
      <4>3. QED BY Zenon, <2>1, <4>1, <4>2
    <3>2. PICK t \in Term :
            /\ mem[p].term = t /\ mem[p].log = L[t] /\ Elected(p, t)
            /\ termStart[p] \in 1..Len(mem[p].log) /\ \A i \in termStart[p]..Len(mem[p].log) : mem[p].log[i].term = t
            /\ \A q \in Node : nextIndex[p][q] >= 1
      BY Zenon, <1>1, <3>1 DEF LeadersOK, log, currentTerm
    <3>3. t # T
      BY Zenon, <1>1, <1>3, <2>3, <3>2, ElectedUnique
    <3>4. Elected(p, t)'
      BY Zenon, <1>11, <3>2, ElectedStays
    <3>5. QED BY Zenon, <1>8, <3>1, <3>2, <3>3, <3>4
  <2>4. QED BY Zenon, <2>2, <2>3
<1>14. QED BY Zenon, <1>2, <1>4, <1>8, <1>9, <1>10, <1>12, <1>13 DEF MatchInv

-----------------------------------------------------------------------------
(* handleWriteCompletions: the oldest write is done.  What was said still  *)
(* is, of the same images, and nothing is added.                           *)
LEMMA CompletionMoves ==
  \A n \in Node : \A Q :
    /\ Types
    /\ (\A p \in Node : QueueOK(p))
    /\ Completes(n, Q)
    => /\ Moves(n, {}, {}, {}) /\ writes' \in [Node -> Seq(Write)] /\ disk' \in [Node -> Image]
       /\ \A p \in Node : QueueOK(p)'
       /\ msgs' \subseteq Promise \cup AppendRequests
(* A queue without its first write. *)
<1>TailIs.
    ASSUME NEW w \in Seq(Write), w # <<>>
    PROVE  /\ Tail(w) \in Seq(Write) /\ Len(w) \in Nat \ {0} /\ Len(Tail(w)) = Len(w) - 1
           /\ \A k \in 1..Len(Tail(w)) : Tail(w)[k] = w[k + 1]
           /\ w[1] \in Write /\ Head(w) = w[1]
  <2> USE <1>TailIs
  <2>1. Len(w) \in Nat \ {0}
    BY SeqEmpty, SeqLen
  <2>2. QED BY <2>1
(* What is said, before and after. *)
<1>TailBonds.
    ASSUME NEW w \in Seq(Write), w # <<>>, NEW M, NEW Q, Q \subseteq w[1].then, NEW d, NEW n, NEW x
    PROVE  /\ SaysOf(M \cup Q, Tail(w), n, x) => SaysOf(M, w, n, x)
           /\ \A im : BondOf(M \cup Q, w[1].image, Tail(w), n, x, im) => BondOf(M, d, w, n, x, im)
           /\ \A k \in 0..Len(Tail(w)) : ImageOf(w[1].image, Tail(w), k) = ImageOf(d, w, k + 1) /\ k + 1 \in 0..Len(w)
  <2> USE <1>TailBonds
  <2> DEFINE v == Tail(w)
             e == w[1].image
  <2>1. Len(w) \in Nat \ {0} /\ Len(v) = Len(w) - 1 /\ \A k \in 1..Len(v) : v[k] = w[k + 1]
    BY <1>TailIs
  <2> HIDE DEF v
  <2>2. \A k \in 0..Len(v) : ImageOf(e, v, k) = ImageOf(d, w, k + 1) /\ k + 1 \in 0..Len(w)
    BY <2>1 DEF ImageOf
  <2>3. ASSUME NEW k \in 0..Len(v), SaidOf(M \cup Q, v, n, x, k)
        PROVE  SaidOf(M, w, n, x, 0) \/ SaidOf(M, w, n, x, k + 1)
    <3>1. CASE k = 0
      BY <2>3, <3>1 DEF SaidOf
    <3>2. CASE k # 0
      <4>1. k \in 1..Len(v) /\ x \in v[k].then
        BY <2>1, <2>3, <3>2 DEF SaidOf
      <4>2. x \in w[k + 1].then /\ k + 1 # 0
        BY <2>1, <4>1
      <4>3. QED BY <4>2 DEF SaidOf
    <3>3. QED BY <3>1, <3>2
  <2>4. SaysOf(M \cup Q, v, n, x) => SaysOf(M, w, n, x)
    <3>1. ASSUME NEW k \in 0..Len(v), SaidOf(M \cup Q, v, n, x, k) PROVE SaysOf(M, w, n, x)
      <4>1. 0 \in 0..Len(w) /\ k + 1 \in 0..Len(w)
        BY <2>1
      <4>2. QED BY <2>3, <3>1, <4>1 DEF SaysOf
    <3>2. QED BY <3>1 DEF SaysOf
  <2>5. ASSUME NEW im, BondOf(M \cup Q, e, v, n, x, im)
        PROVE  BondOf(M, d, w, n, x, im)
    <3>1. PICK k \in 0..Len(v), j \in 0..Len(v) : k <= j /\ SaidOf(M \cup Q, v, n, x, k) /\ im = ImageOf(e, v, j)
      BY <2>5 DEF BondOf
    <3>2. im = ImageOf(d, w, j + 1) /\ j + 1 \in 0..Len(w)
      BY <2>2, <3>1
    <3>3. 0 \in 0..Len(w) /\ k + 1 \in 0..Len(w) /\ 0 <= j + 1 /\ k + 1 <= j + 1
      BY <2>1, <3>1
    <3>4. SaidOf(M, w, n, x, 0) \/ SaidOf(M, w, n, x, k + 1)
      BY <2>3, <3>1
    <3>5. QED BY <3>2, <3>3, <3>4 DEF BondOf
  <2>6. QED BY Zenon, <2>2, <2>4, <2>5 DEF v
(* The order of the queue. *)
<1>TailQueue.
    ASSUME NEW w \in Seq(Write), w # <<>>, NEW d, NEW n, NEW im, QueueOf(n, d, w, im)
    PROVE  QueueOf(n, w[1].image, Tail(w), im)
  <2> USE <1>TailQueue
  <2> DEFINE v == Tail(w)
             e == w[1].image
  <2>1. Len(w) \in Nat \ {0} /\ Len(v) = Len(w) - 1 /\ \A k \in 1..Len(v) : v[k] = w[k + 1]
    BY <1>TailIs
  <2>2. \A k \in 0..Len(v) : ImageOf(e, v, k) = ImageOf(d, w, k + 1) /\ k + 1 \in 0..Len(w)
    BY <2>1 DEF ImageOf
  <2> HIDE DEF v, e
  <2>3. ImageOf(e, v, Len(v)) = im
    <3>1. Len(v) \in 0..Len(v) /\ Len(v) + 1 = Len(w)
      BY <2>1
    <3>2. QED BY <2>2, <3>1 DEF QueueOf
  <2>4. ASSUME NEW j \in 0..Len(v), NEW k \in 0..Len(v), j <= k
        PROVE  ImageOf(e, v, j).term <= ImageOf(e, v, k).term
    <3>1. j + 1 <= k + 1
      BY <2>1, <2>4
    <3>2. QED BY <2>2, <3>1 DEF QueueOf
  <2>5. ASSUME NEW k \in 0..Len(v), \A h \in (k+1)..Len(v) : v[h].kind # "HardState"
        PROVE  ImageOf(e, v, k).term = im.term
    <3>1. ASSUME NEW h \in (k + 1 + 1)..Len(w) PROVE w[h].kind # "HardState"
      <4>1. h - 1 \in (k+1)..Len(v) /\ h - 1 \in 1..Len(v) /\ h - 1 + 1 = h
        BY <2>1
      <4>2. QED BY <2>1, <2>5, <4>1
    <3>2. k + 1 \in 0..Len(w)
      BY <2>2
    <3>3. ImageOf(d, w, k + 1).term = im.term
      BY <3>1, <3>2 DEF QueueOf
    <3>4. QED BY <2>2, <3>3
  <2>6. ASSUME NEW k \in 1..Len(v), NEW x \in v[k].then
        PROVE  x.from = n /\ (x.type = "AppendReply" /\ x.last # -1 => ImageOf(e, v, k).term = x.term)
    <3>1. x \in w[k + 1].then /\ k + 1 \in 1..Len(w) /\ ImageOf(e, v, k) = ImageOf(d, w, k + 1)
      BY <2>1, <2>2, <2>6
    <3>2. QED BY <3>1 DEF QueueOf
  <2>7. QED
    <3>1. QueueOf(n, e, v, im)
      BY <2>3, <2>4, <2>5, <2>6 DEF QueueOf
    <3>2. QED BY <3>1 DEF v, e
<1>CompletionMoves.
    ASSUME Types, \A p \in Node : QueueOK(p), NEW n \in Node, NEW Q, Completes(n, Q)
    PROVE  /\ Moves(n, {}, {}, {}) /\ writes' \in [Node -> Seq(Write)] /\ disk' \in [Node -> Image]
           /\ \A p \in Node : QueueOK(p)'
           /\ msgs' \subseteq Promise \cup AppendRequests
  <2> USE <1>CompletionMoves
  <2> DEFINE w == writes[n]
  <2>0. w \in Seq(Write) /\ w # <<>>
    BY NodeTyped DEF Completes
  <2>1. w[1] \in Write /\ Head(w) = w[1] /\ Tail(w) \in Seq(Write) /\ Len(w) \in Nat \ {0} /\ Len(Tail(w)) = Len(w) - 1
    BY <2>0, <1>TailIs
  <2>2. /\ given' = given /\ mem' = mem /\ state' = state
        /\ disk' = [disk EXCEPT ![n] = w[1].image] /\ writes' = [writes EXCEPT ![n] = Tail(w)]
        /\ msgs \subseteq msgs' /\ Q \subseteq w[1].then /\ msgs' = msgs \cup Q
    BY <2>1 DEF Completes
  <2>3. writes \in [Node -> Seq(Write)] /\ disk \in [Node -> Image] /\ msgs \subseteq Promise \cup AppendRequests
    BY DEF Types
  <2>4. w[1].image \in Image /\ w[1].then \subseteq Promise
    BY <2>1 DEF Write
  <2>5. /\ writes' \in [Node -> Seq(Write)] /\ disk' \in [Node -> Image]
        /\ disk'[n] = w[1].image /\ writes'[n] = Tail(w)
        /\ \A p \in Node : p # n => disk'[p] = disk[p] /\ writes'[p] = writes[p]
        /\ msgs' \subseteq Promise \cup AppendRequests
    BY ZenonT(60), <2>1, <2>2, <2>3, <2>4
  <2>6. QueueOf(n, disk[n], w, mem[n])
    BY DEF QueueOK
  <2>7. \A x \in Q : x.from = n /\ Says(n, x)
    <3>1. SUFFICES ASSUME NEW x \in Q PROVE x.from = n /\ Says(n, x)
      OBVIOUS
    <3>2. x \in w[1].then /\ 1 \in 1..Len(w) /\ 1 \in 0..Len(w)
      BY <2>1, <2>2
    <3>3. x.from = n
      BY <2>6, <3>2 DEF QueueOf
    <3>4. SaidOf(msgs, w, n, x, 1)
      BY <3>2 DEF SaidOf
    <3>5. QED BY <3>2, <3>3, <3>4 DEF Says, SaysOf
  <2> HIDE DEF w
  <2>8. ASSUME NEW p \in Node, NEW x
        PROVE  /\ Says(p, x)' => Says(p, x)
               /\ \A im : Bond(p, x, im)' => Bond(p, x, im)
    <3>1. CASE p # n
      <4>1. \A y \in Q : y.from # p
        BY <2>7, <3>1
      <4>2. \A y \in msgs' : y \in msgs \/ y \in Q
        BY <2>2
      <4>3. /\ SaysOf(msgs', writes[p], p, x) => SaysOf(msgs, writes[p], p, x)
            /\ \A im : BondOf(msgs', disk[p], writes[p], p, x, im) => BondOf(msgs, disk[p], writes[p], p, x, im)
        BY Zenon, <4>1, <4>2, OthersBonds
      <4>4. QED BY <2>5, <3>1, <4>3 DEF Says, Bond
    <3>2. CASE p = n
      <4>1. /\ SaysOf(msgs \cup Q, Tail(w), n, x) => SaysOf(msgs, w, n, x)
            /\ \A im : BondOf(msgs \cup Q, w[1].image, Tail(w), n, x, im) => BondOf(msgs, disk[n], w, n, x, im)
        BY Zenon, <2>0, <2>2, <1>TailBonds
      <4>2. QED BY Zenon, <2>2, <2>5, <3>2, <4>1 DEF Says, Bond, w
    <3>3. QED BY ZenonT(60), <3>1, <3>2
  <2>9. \A k \in 0..Len(Tail(w)) : ImageOf(w[1].image, Tail(w), k) = ImageOf(disk[n], w, k + 1) /\ k + 1 \in 0..Len(w)
    <3>1. {} \subseteq w[1].then
      OBVIOUS
    <3>2. QED BY Zenon, <2>0, <3>1, <1>TailBonds
  <2>10. ASSUME NEW p \in Node, NEW im, im \in Images(p)' PROVE im \in Images(p)
    <3>1. CASE p # n
      BY <2>5, <2>10, <3>1 DEF Images
    <3>2. CASE p = n
      <4>1. im \in ImagesOf(w[1].image, Tail(w))
        BY Zenon, <2>5, <2>10, <3>2 DEF Images
      <4>2. im \in ImagesOf(disk[n], w)
        BY <2>9, <4>1 DEF ImagesOf
      <4>3. QED BY <3>2, <4>2 DEF Images, w
    <3>3. QED BY <3>1, <3>2
  <2>11. ASSUME NEW p \in Node PROVE QueueOK(p)'
    <3>1. CASE p = n
      <4>1. QueueOf(n, w[1].image, Tail(w), mem[n])
        BY ZenonT(60), <2>0, <2>6, <1>TailQueue DEF w
      <4>2. QED BY ZenonT(60), <2>2, <2>5, <3>1, <4>1 DEF QueueOK
    <3>2. CASE p # n
      <4>1. QueueOK(p)
        OBVIOUS
      <4>2. QED BY <2>2, <2>5, <3>2, <4>1 DEF QueueOK
    <3>3. QED BY <3>1, <3>2
  <2>12. ASSUME NEW p \in Node PROVE disk'[p].term >= disk[p].term
    <3>1. CASE p = n
      <4>1. 0 \in 0..Len(w) /\ 1 \in 0..Len(w) /\ 0 <= 1
        BY <2>1
      <4>2. ImageOf(disk[n], w, 0).term <= ImageOf(disk[n], w, 1).term
        BY <2>6, <4>1 DEF QueueOf, w
      <4>3. disk[n].term <= w[1].image.term
        BY <4>2 DEF ImageOf
      <4>4. disk[n].term \in Int /\ w[1].image.term \in Int
        BY <2>3, <2>4, ReplicationConstants DEF Image
      <4>5. QED BY <2>5, <3>1, <4>3, <4>4
    <3>2. CASE p # n
      BY <2>5, <3>2, NodeTyped
    <3>3. QED BY <3>1, <3>2
  <2>13. mem'[n] \in Images(n)
    <3>1. mem[n] = ImageOf(disk[n], w, Len(w)) /\ Len(w) \in 0..Len(w)
      BY <2>1, <2>6 DEF QueueOf, w
    <3>2. QED BY ZenonT(60), <2>2, <3>1 DEF Images, ImagesOf, w
  <2>14. \A x \in msgs' : x \in msgs \/ Says(n, x)
    BY <2>2, <2>7
  <2>15. Moves(n, {}, {}, {})
    BY Zenon, <2>2, <2>8, <2>10, <2>12, <2>13, <2>14 DEF Moves
  <2>16. QED BY <2>5, <2>11, <2>15
<1>q. QED BY <1>CompletionMoves

(* A crash loses the queue, keeps an image and what was sent, and adds     *)
(* nothing to what the node says.                                          *)
LEMMA CrashMoves ==
  \A n \in Node : \A image :
    /\ Types
    /\ (\A p \in Node : QueueOK(p))
    /\ Stops(n, image)
    => /\ Moves(n, {}, {}, {}) /\ writes' \in [Node -> Seq(Write)] /\ disk' \in [Node -> Image]
       /\ mem' \in [Node -> Image] /\ disk'[n] = mem'[n]
       /\ \A p \in Node : QueueOK(p)'
(* The queue after it is empty and in order. *)
<1>CrashedQueue.
    ASSUME NEW w \in Seq(Write), NEW d \in Image, NEW j \in 0..Len(w), NEW n
    PROVE  /\ QueueOf(n, ImageOf(d, w, j), <<>>, ImageOf(d, w, j))
           /\ ImagesOf(ImageOf(d, w, j), <<>>) = {ImageOf(d, w, j)}
           /\ ImageOf(d, w, j) \in Image
           /\ \A M, x : SaysOf(M, <<>>, n, x) => SaysOf(M, w, n, x)
           /\ \A M, x, im : BondOf(M, ImageOf(d, w, j), <<>>, n, x, im) => BondOf(M, d, w, n, x, im)
  <2> USE <1>CrashedQueue
  <2>0. PICK e : e = ImageOf(d, w, j)
    OBVIOUS
  <2>1. e \in Image
    <3>1. \A k \in 1..Len(w) : w[k] \in Write
      BY SeqItem
    <3>2. QED BY <2>0, <3>1 DEF ImageOf, Write
  <2>2. Len(<<>>) = 0 /\ \A k \in 0..0 : k = 0 /\ ImageOf(e, <<>>, k) = e
    BY DEF ImageOf
  <2>2a. e.term \in Int
    BY <2>1, ReplicationConstants DEF Image
  <2>3. QueueOf(n, e, <<>>, e)
    BY <2>2, <2>2a DEF QueueOf
  <2>4. ImagesOf(e, <<>>) = {e}
    BY <2>2 DEF ImagesOf
  <2>5. Len(w) \in Nat
    BY SeqLen
  <2>6. \A M, x : SaysOf(M, <<>>, n, x) => SaysOf(M, w, n, x)
    <3>1. SUFFICES ASSUME NEW M, NEW x, SaysOf(M, <<>>, n, x) PROVE SaysOf(M, w, n, x)
      OBVIOUS
    <3>2. SaidOf(M, w, n, x, 0) /\ 0 \in 0..Len(w)
      BY <2>2, <2>5, <3>1 DEF SaysOf, SaidOf
    <3>3. QED BY <3>2 DEF SaysOf
  <2>7. \A M, x, im : BondOf(M, e, <<>>, n, x, im) => BondOf(M, d, w, n, x, im)
    <3>1. SUFFICES ASSUME NEW M, NEW x, NEW im, BondOf(M, e, <<>>, n, x, im) PROVE BondOf(M, d, w, n, x, im)
      OBVIOUS
    <3>2. SaidOf(M, w, n, x, 0) /\ 0 \in 0..Len(w) /\ im = e /\ 0 <= j
      BY <2>2, <2>5, <3>1 DEF BondOf, SaidOf
    <3>3. QED BY <2>0, <3>2 DEF BondOf
  <2>8. QED BY <2>0, <2>1, <2>3, <2>4, <2>6, <2>7
<1>CrashMoves.
    ASSUME Types, \A p \in Node : QueueOK(p), NEW n \in Node, NEW image, Stops(n, image)
    PROVE  /\ Moves(n, {}, {}, {}) /\ writes' \in [Node -> Seq(Write)] /\ disk' \in [Node -> Image]
           /\ mem' \in [Node -> Image] /\ disk'[n] = mem'[n]
           /\ \A p \in Node : QueueOK(p)'
  <2> USE <1>CrashMoves
  <2> DEFINE w == writes[n]
  <2>0. w \in Seq(Write) /\ Len(w) \in Nat /\ disk[n] \in Image
    BY NodeTyped
  <2>1. /\ image \in {disk[n]} \cup Ahead(w)
        /\ mem' = [mem EXCEPT ![n] = image] /\ disk' = [disk EXCEPT ![n] = image]
    BY Zenon DEF Stops
  <2>2. PICK j \in 0..Len(w) : image = ImageOf(disk[n], w, j)
    <3>1. CASE image = disk[n]
      <4>1. 0 \in 0..Len(w) /\ image = ImageOf(disk[n], w, 0)
        BY <2>0, <3>1 DEF ImageOf
      <4>2. QED BY <4>1
    <3>2. CASE image \in Ahead(w)
      <4>1. PICK i \in 1..Len(w) : image = w[i].image
        BY <3>2 DEF Ahead
      <4>2. i \in 0..Len(w) /\ i # 0
        BY <2>0
      <4>3. QED BY <4>1, <4>2 DEF ImageOf
    <3>3. QED BY Zenon, <2>1, <3>1, <3>2
  <2>3. /\ writes' = [writes EXCEPT ![n] = <<>>] /\ msgs' = msgs /\ given' = given
        /\ state' = [state EXCEPT ![n] = "Follower"]
    BY DEF Stops
  <2> HIDE DEF w
  <2>4. /\ QueueOf(n, image, <<>>, image) /\ ImagesOf(image, <<>>) = {image} /\ image \in Image
        /\ \A M, x : SaysOf(M, <<>>, n, x) => SaysOf(M, w, n, x)
        /\ \A M, x, im : BondOf(M, image, <<>>, n, x, im) => BondOf(M, disk[n], w, n, x, im)
    BY Zenon, <2>0, <2>2, <1>CrashedQueue
  <2>5. writes \in [Node -> Seq(Write)] /\ disk \in [Node -> Image] /\ mem \in [Node -> Image] /\ state \in [Node -> State]
    BY DEF Types
  <2>6. <<>> \in Seq(Write)
    OBVIOUS
  <2>7. /\ writes' \in [Node -> Seq(Write)] /\ disk' \in [Node -> Image] /\ mem' \in [Node -> Image]
        /\ disk'[n] = image /\ mem'[n] = image /\ writes'[n] = <<>>
        /\ \A p \in Node : p # n => disk'[p] = disk[p] /\ writes'[p] = writes[p] /\ mem'[p] = mem[p] /\ state'[p] = state[p]
    BY <2>1, <2>3, <2>4, <2>5, <2>6
  <2>8. ASSUME NEW p \in Node, NEW x
        PROVE  /\ Says(p, x)' => Says(p, x)
               /\ \A im : Bond(p, x, im)' => Bond(p, x, im)
    <3>1. CASE p # n
      BY ZenonT(60), <2>3, <2>7, <3>1 DEF Says, Bond
    <3>2. CASE p = n
      BY ZenonT(60), <2>3, <2>4, <2>7, <3>2 DEF Says, Bond, w
    <3>3. QED BY ZenonT(60), <3>1, <3>2
  <2>9. image \in Images(n)
    BY <2>2 DEF Images, ImagesOf, w
  <2>10. ASSUME NEW p \in Node, NEW im, im \in Images(p)' PROVE im \in Images(p)
    <3>1. CASE p # n
      BY <2>7, <2>10, <3>1 DEF Images
    <3>2. CASE p = n
      BY Zenon, <2>4, <2>7, <2>9, <2>10, <3>2 DEF Images
    <3>3. QED BY ZenonT(60), <3>1, <3>2
  <2>11. ASSUME NEW p \in Node PROVE QueueOK(p)'
    <3>1. CASE p = n
      BY ZenonT(60), <2>4, <2>7, <3>1 DEF QueueOK
    <3>2. CASE p # n
      <4>1. QueueOK(p)
        OBVIOUS
      <4>2. QED BY <2>7, <3>2, <4>1 DEF QueueOK
    <3>3. QED BY ZenonT(60), <3>1, <3>2
  <2>12. ASSUME NEW p \in Node PROVE disk'[p].term >= disk[p].term
    <3>1. CASE p = n
      <4>1. 0 \in 0..Len(w) /\ 0 <= j
        BY <2>0
      <4>2. ImageOf(disk[n], w, 0).term <= image.term
        BY <2>2, <4>1 DEF QueueOK, QueueOf, w
      <4>3. disk[n].term <= image.term
        BY ZenonT(60), <4>2 DEF ImageOf
      <4>4. disk'[p] = image
        BY ZenonT(60), <2>7, <3>1
      <4>5. QED BY <3>1, <4>3, <4>4
    <3>2. CASE p # n
      BY <2>7, <3>2, NodeTyped
    <3>3. QED BY <3>1, <3>2
  <2>13. Moves(n, {}, {}, {})
    BY Zenon, <2>3, <2>7, <2>8, <2>9, <2>10, <2>12 DEF Moves
  <2>14. QED BY <2>7, <2>11, <2>13
<1>q. QED BY <1>CrashMoves
=============================================================================
