--------------------------- MODULE ReplicationInv ---------------------------
(***************************************************************************)
(* The inductive invariant behind log matching: why the logs of nodes      *)
(* whose writes reach the disk late still match.  A node keeps what it     *)
(* said, an answer or a request for votes, once the writes it said it      *)
(* after are done; so the invariant speaks of the images a disk goes       *)
(* through, the one it holds and those its queued writes will leave, and   *)
(* of what is said no later than each of them.  Definitions only: the      *)
(* proofs are in ReplicationLogs, ReplicationInduction, ReplicationActions *)
(* and ReplicationTheorems.                                                *)
(***************************************************************************)
EXTENDS ReplicationState

Term == 1..MaxTerm
Kind == {"HardState", "Truncate", "Append"}

(* The messages of each type, and those that wait for a write: promises. *)
RequestVotes == [type : {"RequestVote"}, term : Term, from : Node, lastIndex : Nat, lastTerm : 0..MaxTerm]
VoteReplies == [type : {"VoteReply"}, term : Term, granted : BOOLEAN, from : Node, to : Node]
AppendRequests ==
  [type : {"AppendEntries"}, from : Node, to : Node, process : Nat, term : Term, prev : Nat,
   prevTerm : 0..MaxTerm, entries : Seq(Entry), commit : Nat]
AppendReplies ==
  [type : {"AppendReply"}, from : Node, to : Node, process : Nat, term : Term, last : Nat \cup {-1},
   prev : Nat, conflictIndex : Nat, conflictTerm : 0..MaxTerm]
Promise == RequestVotes \cup VoteReplies \cup AppendReplies

Write == [kind : Kind, image : Image, then : SUBSET Promise]

(* The type of every variable. *)
Types ==
  /\ given \in DOMAIN Situations
  /\ state \in [Node -> State]
  /\ mem \in [Node -> Image] /\ disk \in [Node -> Image]
  /\ writes \in [Node -> Seq(Write)]
  /\ nextIndex \in [Node -> [Node -> Nat]] /\ matchIndex \in [Node -> [Node -> Nat]]
  /\ termStart \in [Node -> Nat] /\ commitIndex \in [Node -> Nat] /\ restarts \in [Node -> Nat]
  /\ msgs \subseteq Promise \cup AppendRequests

-----------------------------------------------------------------------------
(* What the proofs take from arithmetic and from finite sets.  They are    *)
(* proved in ReplicationTheorems, for every value of the constants, and    *)
(* hypotheses everywhere else.                                             *)

LeastIs == \A S : S \subseteq Nat /\ S # {} => Min(S) \in S /\ \A y \in S : Min(S) <= y
GreatestIs ==
  \A S : \A b \in Nat :
    S \subseteq Nat /\ S # {} /\ (\A y \in S : y <= b) => Max(S) \in S /\ \A y \in S : Max(S) >= y

(* Election quorums meet and are never a single voter. *)
QuorumsMeet ==
  \A q \in Nat : \A P, Q \in SUBSET Voter :
    /\ Cardinality(P) >= electionQuorumFor(q, Cardinality(Voter))
    /\ Cardinality(Q) >= electionQuorumFor(q, Cardinality(Voter))
    => P \cap Q # {}
QuorumsAreTwo ==
  \A q \in Nat : \A Q \in SUBSET Voter : \A c :
    Cardinality(Q) >= electionQuorumFor(q, Cardinality(Voter)) => \E v \in Q : v # c

Basics == Node # {} /\ LeastIs /\ GreatestIs /\ QuorumsMeet /\ QuorumsAreTwo

-----------------------------------------------------------------------------
(* Logs. *)

(* l holds an entry of term t at i. *)
Has(l, t, i) == i \in 1..Len(l) /\ l[i].term = t

(* Where the two logs have an entry of one term in one place they agree. *)
Alike(l, g) == \A i \in 1..Len(l) : i <= Len(g) /\ l[i].term = g[i].term => SameTo(l, g, i)

(* Request m carries a piece of log g. *)
Fragment(g, m) ==
  /\ m.prev + Len(m.entries) <= Len(g)
  /\ m.prevTerm = termAt(g, m.prev)
  /\ \A i \in 1..Len(m.entries) : m.entries[i] = g[m.prev + i]

(* es is the piece of g after prev. *)
Piece(g, es, prev) ==
  prev + Len(es) <= Len(g) /\ \A i \in 1..Len(es) : es[i] = g[prev + i]

(* The first prev + k entries of l followed by what es has after its k-th. *)
Spliced(l, es, prev, k) == SubSeq(l, 1, prev + k) \o SubSeq(es, k + 1, Len(es))

(* L gives each term the log its leader had; the logs of an L may grow. *)
SomeLogs == [Term -> Seq(Entry)]
Extends(L, L2) == \A t \in Term : SameTo(L2[t], L[t], Len(L[t]))
Grown(l2, l, x) == l2 = Append(l, x)
Update(L2, L, T, l) == L2 = [L EXCEPT ![T] = l]

(* Every entry of l was put there by the leader of its term, on top of the *)
(* log that leader had.                                                    *)
Matching(L, l) == \A i \in 1..Len(l) : SameTo(l, L[l[i].term], i)

(* The terms of l do not decrease, and it ends with one of t. *)
EndsIn(l, t) ==
  /\ \A i, j \in 1..Len(l) : i <= j => l[i].term <= l[j].term
  /\ l # <<>> => l[Len(l)].term = t

-----------------------------------------------------------------------------
(* Queues of writes.  M is what has been sent, d the disk and w the queue. *)

(* The image the disk holds once the first k writes are done. *)
ImageOf(d, w, k) == IF k = 0 THEN d ELSE w[k].image

(* Every image has a log. *)
HasLogs(d, w) ==
  Len(w) \in Nat /\ d.log \in Seq(Entry) /\ \A k \in 1..Len(w) : w[k].image.log \in Seq(Entry)

(* Node n says x when the first k writes are done; some time; no later     *)
(* than the disk holds im.                                                 *)
SaidOf(M, w, n, x, k) == IF k = 0 THEN x \in M /\ x.from = n ELSE x \in w[k].then
SaysOf(M, w, n, x) == \E k \in 0..Len(w) : SaidOf(M, w, n, x, k)
BondOf(M, d, w, n, x, im) ==
  \E k, j \in 0..Len(w) : k <= j /\ SaidOf(M, w, n, x, k) /\ im = ImageOf(d, w, j)
ImagesOf(d, w) == {ImageOf(d, w, k) : k \in 0..Len(w)}

(* The last image is the one in memory, terms never go back, only a hard   *)
(* state changes the term, and an acknowledgement waits for a write of its *)
(* own term.                                                               *)
QueueOf(n, d, w, im) ==
  /\ ImageOf(d, w, Len(w)) = im
  /\ \A j, k \in 0..Len(w) : j <= k => ImageOf(d, w, j).term <= ImageOf(d, w, k).term
  /\ \A k \in 0..Len(w) :
       (\A h \in (k+1)..Len(w) : w[h].kind # "HardState") => ImageOf(d, w, k).term = im.term
  /\ \A k \in 1..Len(w) : \A x \in w[k].then :
       /\ x.from = n
       /\ x.type = "AppendReply" /\ x.last # -1 => ImageOf(d, w, k).term = x.term

Images(n) == ImagesOf(disk[n], writes[n])
Says(n, x) == SaysOf(msgs, writes[n], n, x)
Bond(n, x, im) == BondOf(msgs, disk[n], writes[n], n, x, im)
QueueOK(n) == QueueOf(n, disk[n], writes[n], mem[n])

-----------------------------------------------------------------------------
(* Votes and elections. *)

IsVote(x) == x.type = "RequestVote" \/ (x.type = "VoteReply" /\ x.granted)
Choice(x) == IF x.type = "RequestVote" THEN x.from ELSE x.to
IsAck(x) == x.type = "AppendReply" /\ x.last # -1

KeepsVote(x, im) == im.term > x.term \/ (im.term = x.term /\ im.vote = Choice(x))

(* A vote that is said is on the disk until a newer term is. *)
VotesKept == \A n \in Node : \A x, im : Bond(n, x, im) /\ IsVote(x) => KeepsVote(x, im)

(* A node says one vote a term, and stands at most once. *)
OneVote ==
  \A n \in Node : \A x, y : Says(n, x) /\ Says(n, y) /\ IsVote(x) /\ IsVote(y) /\ x.term = y.term =>
    Choice(x) = Choice(y) /\ (x.type = "RequestVote" /\ y.type = "RequestVote" => x = y)

(* Nobody votes for a node that has not asked. *)
VotesAsked ==
  \A n \in Node : \A x : Says(n, x) /\ x.type = "VoteReply" /\ x.granted =>
    \E r \in msgs : r.type = "RequestVote" /\ r.from = x.to /\ r.term = x.term

(* The request for votes of a candidate describes its log. *)
RequestTells ==
  \A n \in Node : \A x : Says(n, x) /\ x.type = "RequestVote" /\ state[n] = "Candidate" /\ x.term = currentTerm(n) =>
    x.lastIndex = Len(log(n)) /\ x.lastTerm = termAt(log(n), Len(log(n)))

Votes == VotesKept /\ OneVote /\ VotesAsked /\ RequestTells

(* v voted for c in t; Q is large enough to elect; c was elected in t. *)
Voted(v, c, t) == \E x \in msgs : x.from = v /\ IsVote(x) /\ x.term = t /\ Choice(x) = c
Quorate(Q) == Cardinality(Q) >= electionQuorumFor(situation.policy, Cardinality(Voter))
Elected(c, t) == \E Q \in SUBSET Voter : Quorate(Q) /\ \A v \in Q : Voted(v, c, t)

(* Somebody was elected in t and is no longer a candidate. *)
Settled(t) == \E c \in Node : Elected(c, t) /\ ~(state[c] = "Candidate" /\ currentTerm(c) = t)

-----------------------------------------------------------------------------
(* Log matching. *)

(* A leader's log is settled before it has an entry, ends in its own term  *)
(* and matches the logs of the leaders before it.                          *)
LeaderLogs(L) ==
  /\ L \in [Term -> Seq(Entry)]
  /\ \A t \in Term : Len(L[t]) <= MaxLog /\ Matching(L, L[t]) /\ EndsIn(L[t], t) /\ (L[t] # <<>> => Settled(t))

(* No entry of an image is of a newer term than the image. *)
Timely(im) == \A i \in 1..Len(im.log) : im.log[i].term <= im.term

(* Every image a disk goes through has a log the leaders made. *)
ImagesOK(L) == \A n \in Node : \A im : im \in Images(n) => Matching(L, im.log) /\ Timely(im)

(* A leader was elected, has the log of its term, and started it where it  *)
(* says.                                                                   *)
LeadersOK(L) ==
  \A n \in Node : state[n] = "Leader" =>
    \E t \in Term :
      /\ currentTerm(n) = t /\ log(n) = L[t] /\ Elected(n, t)
      /\ termStart[n] \in 1..Len(log(n)) /\ \A i \in termStart[n]..Len(log(n)) : log(n)[i].term = t
      /\ \A p \in Node : nextIndex[n][p] >= 1

(* A request carries a piece of the log of its term's leader, or, if a     *)
(* late answer has moved nextIndex past it, nothing.                       *)
RequestOK(L, m) ==
  /\ L[m.term] # <<>>
  /\ Fragment(L[m.term], m) \/ (m.entries = <<>> /\ m.prevTerm = 0 /\ m.prev > 0)

RequestsOK(L) == \A m \in msgs : m.type = "AppendEntries" => RequestOK(L, m)

MatchInv(L) ==
  /\ Types /\ \A n \in Node : QueueOK(n)
  /\ Votes /\ LeaderLogs(L) /\ ImagesOK(L) /\ LeadersOK(L) /\ RequestsOK(L)
SomeMatch == \E L \in SomeLogs : MatchInv(L)
NoLogs == [t \in Term |-> <<>>]

-----------------------------------------------------------------------------
(* What a step of one node may do. *)

(* Nobody waits for these writes yet; the images they leave. *)
Unasked(ops) == \A k \in 1..Len(ops) : ops[k].then = {}
OpImages(ops) == {ops[k].image : k \in 1..Len(ops)}

(* The queue and the messages once replies R wait for write `gate' of w.   *)
Asked(w, gate, R) == IF gate = 0 THEN w ELSE [w EXCEPT ![gate].then = @ \cup R]
Sent(M, gate, R) == IF gate = 0 THEN M \cup R ELSE M

(* Only promises wait for a write. *)
MayWait(gate, R) == gate # 0 => R \subseteq Promise

Queued(n, w, gate, R) == writes' = [writes EXCEPT ![n] = Asked(w, gate, R)] /\ msgs' = Sent(msgs, gate, R)

(* A step of node n.  New are the images its disk is now to go through, R  *)
(* the messages it now says and Rep the images the disk goes through once  *)
(* it has said them.                                                       *)
Moves(n, New, R, Rep) ==
  /\ given' = given /\ msgs \subseteq msgs'
  /\ \A x \in msgs' : x \in msgs \/ Says(n, x) \/ x \in R
  /\ \A p \in Node : p # n => mem'[p] = mem[p] /\ state'[p] = state[p]
  /\ mem'[n] \in Images(n) \cup New
  /\ \A p \in Node : \A im : im \in Images(p)' => im \in Images(p) \/ (p = n /\ im \in New)
  /\ \A p \in Node : \A x : Says(p, x)' => Says(p, x) \/ (p = n /\ x \in R)
  /\ \A p \in Node : \A x, im : Bond(p, x, im)' =>
       \/ Bond(p, x, im)
       \/ p = n /\ Says(n, x) /\ im \in New
       \/ p = n /\ x \in R /\ im \in Rep
  /\ \A p \in Node : disk'[p].term >= disk[p].term

(* Writes ops are queued and R is said once the first `gate' writes of all *)
(* are done.                                                               *)
Writing(n, ops, gate, R) ==
  /\ ops \in Seq(Write) /\ Unasked(ops)
  /\ gate \in 0..Len(writes[n] \o ops) /\ MayWait(gate, R)
  /\ \A x \in R : x.from = n
  /\ Queued(n, writes[n] \o ops, gate, R)
  /\ \A p \in Node : p # n => mem'[p] = mem[p] /\ state'[p] = state[p]
  /\ mem'[n] \in {mem[n]} \cup OpImages(ops)
  /\ disk' = disk /\ given' = given
WaitImages(n, ops, gate) ==
  {ImageOf(disk[n], writes[n] \o ops, j) : j \in gate..Len(writes[n] \o ops)}

(* The image in memory is the one the last queued write leaves, and the    *)
(* term is new only if the first queued write is a hard state.             *)
Leaves(n, ops) ==
  \/ ops = <<>> /\ mem'[n] = mem[n]
  \/ /\ ops # <<>> /\ mem'[n] = ops[Len(ops)].image
     /\ mem'[n].term \in 0..MaxTerm /\ mem[n].term <= mem'[n].term
     /\ \A k \in 1..Len(ops) : ops[k].image.term = mem'[n].term
     /\ mem[n].term = mem'[n].term \/ ops[1].kind = "HardState"

(* An acknowledgement waits for a write of its own term. *)
AckTerms(n, ops, gate, R) ==
  gate # 0 => \A x \in R : x.type = "AppendReply" /\ x.last # -1 =>
                ImageOf(disk[n], writes[n] \o ops, gate).term = x.term

(* The oldest write of node n is done, and Q of what waited for it is sent. *)
Completes(n, Q) ==
  /\ writes[n] # <<>> /\ Q \subseteq Head(writes[n]).then
  /\ disk' = [disk EXCEPT ![n] = Head(writes[n]).image]
  /\ writes' = [writes EXCEPT ![n] = Tail(writes[n])]
  /\ msgs' = msgs \cup Q /\ UNCHANGED <<state, mem, given>>

(* Node n stops and starts again with one of the images of its disk. *)
Stops(n, image) ==
  /\ image \in {disk[n]} \cup Ahead(writes[n])
  /\ mem' = [mem EXCEPT ![n] = image] /\ disk' = [disk EXCEPT ![n] = image]
  /\ writes' = [writes EXCEPT ![n] = <<>>]
  /\ state' = [state EXCEPT ![n] = "Follower"] /\ UNCHANGED <<msgs, given>>

(* What a step of n has to respect for votes to be kept. *)
Voting(n, New, R, Rep) ==
  /\ R \subseteq Promise \cup AppendRequests
  /\ mem'[n].term \in Nat
  /\ \A im \in New : /\ im.term \in Nat /\ im.term >= mem[n].term
                     /\ im.term = mem[n].term /\ mem[n].vote # None => im.vote = mem[n].vote
  /\ \A x \in R : IsVote(x) =>
       /\ \A im \in Rep : KeepsVote(x, im)
       /\ \A y \in R : y = x
       /\ \/ x.term > mem[n].term
          \/ x.type = "VoteReply" /\ x.term = mem[n].term /\ mem[n].vote \in {None, Choice(x)}
       /\ x.type = "RequestVote" => /\ x.lastIndex = Len(mem'[n].log)
                                    /\ x.lastTerm = termAt(mem'[n].log, Len(mem'[n].log))
       /\ x.type = "VoteReply" => \E r \in msgs : r.type = "RequestVote" /\ r.from = x.to /\ r.term = x.term
  /\ state'[n] = "Candidate" =>
       \/ mem'[n].term > mem[n].term
       \/ state[n] = "Candidate" /\ mem'[n].term = mem[n].term /\ mem'[n].log = log(n)

(* What a step of n may do to a leader: n stays one with the same log, or  *)
(* is none.                                                                *)
Leading(n) ==
  /\ \A p \in Node : p # n => termStart'[p] = termStart[p] /\ nextIndex'[p] = nextIndex[p]
  /\ state'[n] = "Leader" =>
       /\ state[n] = "Leader" /\ mem'[n].term = mem[n].term /\ mem'[n].log = mem[n].log
       /\ termStart'[n] = termStart[n]
       /\ \A p \in Node : nextIndex'[n][p] >= 1

(* A step of n that keeps log matching: what it queues and sends is made   *)
(* of the leaders' logs.                                                   *)
Sound(n, New, R, Rep, L) ==
  /\ Types' /\ \A p \in Node : QueueOK(p)'
  /\ Moves(n, New, R, Rep) /\ Voting(n, New, R, Rep) /\ Leading(n)
  /\ \A im \in New : Matching(L, im.log) /\ Timely(im)
  /\ \A x \in R : x.type = "AppendEntries" => RequestOK(L, x)

(* A log ends, from s on, with entries of term T. *)
RunFrom(l, s, T) == s \in 1..Len(l) /\ \A i \in s..Len(l) : l[i].term = T

(* A log l of entries up to term T, to which an entry x of T is added, and *)
(* what becomes of the leaders' logs.                                      *)
Joins(L, l, T, x, l2, L2) ==
  /\ L[T] = <<>> \/ l = L[T]
  /\ Matching(L, l) /\ \A i \in 1..Len(l) : l[i].term <= T
  /\ x.term = T /\ Grown(l2, l, x) /\ Update(L2, L, T, l2)
Joined(L, T, l2, L2) ==
  /\ L2 \in SomeLogs /\ Extends(L, L2) /\ Matching(L2, l2) /\ EndsIn(l2, T)
  /\ \A t \in Term : Matching(L2, L2[t]) /\ EndsIn(L2[t], t)
  /\ L2[T] = l2 /\ l2 # <<>> /\ \A t \in Term : t # T => L2[t] = L[t]

(* Leader n adds entry x of its term T to its log, now l2, and says R: the *)
(* logs of the leaders, L, become L2.                                      *)
AppendStep(n, New, R, Rep, T, L, x, l2, L2) ==
  /\ Types' /\ (\A p \in Node : QueueOK(p)')
  /\ Moves(n, New, R, Rep) /\ Voting(n, New, R, Rep) /\ New = {mem'[n]}
  /\ \A p \in Node : p # n => termStart'[p] = termStart[p] /\ nextIndex'[p] = nextIndex[p]
  /\ \A p \in Node : nextIndex'[n][p] >= 1
  /\ mem[n].term = T /\ mem'[n].term = T /\ state'[n] = "Leader" /\ Elected(n, T)
  /\ L[T] = <<>> \/ mem[n].log = L[T]
  /\ x.term = T /\ Grown(l2, mem[n].log, x) /\ mem'[n].log = l2 /\ Len(l2) <= MaxLog
  /\ \/ termStart'[n] = Len(l2)
     \/ termStart'[n] = termStart[n] /\ termStart[n] \in 1..Len(mem[n].log)
        /\ \A i \in termStart[n]..Len(mem[n].log) : mem[n].log[i].term = T
  /\ Update(L2, L, T, l2)
  /\ \A y \in R : y.type = "AppendEntries" => RequestOK(L2, y)

(* Merging the batch of m, a piece of log g, takes a log from l0 to l: a   *)
(* conflicting suffix after k goes, and nothing that l0 shared with g.     *)
MergedTo(l, k, l0, g, m) ==
  /\ l \in Seq(Entry)
  /\ m.entries # <<>> => SameTo(l, g, m.prev + Len(m.entries))
  /\ l # l0 => /\ k \in Nat /\ k <= Len(l0)
               /\ Len(l) = m.prev + Len(m.entries) /\ SameTo(l, g, Len(l))
  /\ \A i \in Nat : SameTo(l0, g, i) => SameTo(l, g, i) /\ (l # l0 => i <= k)

(* The entry before the batch is there, or the batch starts the log. *)
PrevIsThere(l, m) == m.prev = 0 \/ termAt(l, m.prev) = m.prevTerm

(* The images a merge goes through: those of base, with the log it had,    *)
(* what is left of it, or the merged one.                                  *)
Through(base, l0, k, l, im) ==
  /\ im \in Image /\ im.term = base.term /\ im.vote = base.vote
  /\ im.log \in {l0, l} \/ (l # l0 /\ im.log = SubSeq(l0, 1, k))
=============================================================================
