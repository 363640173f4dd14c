------------------------------ MODULE Election ------------------------------
(***************************************************************************)
(* How a group elects a leader (node_election.go, node_transitions.go, the *)
(* timeout of node_loop.go, TimeoutNow of node_transfer.go) on top of a    *)
(* hard state that is written asynchronously (saveTerm, sendGate and       *)
(* afterWrite of node.go).                                                 *)
(*                                                                         *)
(* A node's term and vote change in memory at once; the write that makes   *)
(* them durable is queued, executed later by the storage writer and        *)
(* reported back later still.  Whatever must not outrun that write waits   *)
(* in the write's `then' set.  A crash loses memory and queue and keeps    *)
(* the disk.                                                               *)
(*                                                                         *)
(* The log is not modelled here: whether a candidate's log is up to date   *)
(* is an arbitrary Boolean at each request, so nothing below depends on    *)
(* it.  `msgs' only grows, so a message may be lost, delayed, reordered or *)
(* delivered any number of times.                                          *)
(***************************************************************************)
EXTENDS Integers, Sequences, FiniteSets, QuorumSizes

CONSTANTS
  Node,          \* the members of the group
  Voter,         \* the members that vote
  Witness,       \* the voters that never stand
  None,          \* "voted for nobody"
  CommitPolicy,  \* the commit-quorum policy, 0 for a majority
  MaxTerm,       \* bound on the terms explored
  MaxPending,    \* bound on the hard-state writes pending on a node
  MaxUpsets      \* bound on timeouts, step-downs, transfers and crashes together

ASSUME ElectionConstants ==
  /\ IsFiniteSet(Node)
  /\ Voter \subseteq Node /\ Voter # {}
  /\ Witness \subseteq Voter
  /\ None \notin Node
  /\ CommitPolicy \in Nat
  /\ MaxTerm \in Nat
  /\ MaxPending \in Nat
  /\ MaxUpsets \in Nat

VARIABLES
  state,        \* [Node -> State]
  currentTerm,  \* [Node -> Nat], in memory
  votedFor,     \* [Node -> Node \cup {None}], in memory
  votes,        \* receivedVoteSet
  expired,      \* a witness's election timer has run out and stays so
  disk,         \* the hard state on stable storage
  writes,       \* hard-state writes queued and not yet reported complete
  executed,     \* how many of those the storage writer has performed
  msgs,         \* every message ever sent
  upsets        \* timeouts, step-downs, transfers and crashes so far

nodeVars == <<state, currentTerm, votedFor, votes, expired>>
vars == <<nodeVars, disk, writes, executed, msgs, upsets>>

State == {"Follower", "PreCandidate", "Candidate", "Leader"}
HardState == [term : Nat, vote : Node \cup {None}]

-----------------------------------------------------------------------------
(* Messages.  A `Lead' stands for every request only a leader sends        *)
(* (AppendEntries, InstallSnapshot): winning an election sends the first   *)
(* one.  A `Refusal' is the answer to a Lead that carries a newer term.    *)
(* Answers no receiver reacts to are left out: a leader's request accepted *)
(* in its own term, and a vote denied by a voter whose term is no newer    *)
(* than the one asked for.                                                 *)

RequestVote(pre, t, n) == [type |-> "RequestVote", pre |-> pre, term |-> t, from |-> n]
VoteReply(pre, asked, t, granted, v, c) ==
  [type |-> "VoteReply", pre |-> pre, asked |-> asked, term |-> t,
   granted |-> granted, from |-> v, to |-> c]
Lead(t, n) == [type |-> "Lead", term |-> t, from |-> n]
Refusal(t, v, n) == [type |-> "Refusal", term |-> t, from |-> v, to |-> n]
TimeoutNow(t, l, n) == [type |-> "TimeoutNow", term |-> t, from |-> l, to |-> n]

RequestVoteMsg ==
  [type : {"RequestVote"}, pre : BOOLEAN, term : Nat, from : Node]
VoteReplyMsg ==
  [type : {"VoteReply"}, pre : BOOLEAN, asked : Nat, term : Nat,
   granted : BOOLEAN, from : Node, to : Node]
LeadMsg == [type : {"Lead"}, term : Nat, from : Node]
RefusalMsg == [type : {"Refusal"}, term : Nat, from : Node, to : Node]
TimeoutNowMsg == [type : {"TimeoutNow"}, term : Nat, from : Node, to : Node]

Message == RequestVoteMsg \cup VoteReplyMsg \cup LeadMsg \cup RefusalMsg \cup TimeoutNowMsg

Write == [hs : HardState, then : SUBSET Message]

-----------------------------------------------------------------------------
(* Durability of the hard state. *)

(* Mutant of saveTerm: the vote is not part of what is written. *)
saveTermWithoutVote(n, t, v, then) ==
  /\ Len(writes[n]) < MaxPending
  /\ currentTerm' = [currentTerm EXCEPT ![n] = t]
  /\ votedFor' = [votedFor EXCEPT ![n] = v]
  /\ writes' = [writes EXCEPT ![n] = Append(@, [hs |-> [term |-> t, vote |-> None], then |-> then])]

(* saveTerm: effective in memory now, queued for the disk.  `then' is what *)
(* afterWrite registered on this write.                                    *)
saveTerm(n, t, v, then) ==
  /\ Len(writes[n]) < MaxPending
  /\ currentTerm' = [currentTerm EXCEPT ![n] = t]
  /\ votedFor' = [votedFor EXCEPT ![n] = v]
  /\ writes' = [writes EXCEPT ![n] = Append(@, [hs |-> [term |-> t, vote |-> v], then |-> then])]

(* Make m wait on the last write of w. *)
Attach(w, m) == [w EXCEPT ![Len(w)].then = @ \cup {m}]

(* Mutant of replyWhenDurable: the answer does not wait. *)
replyAtOnce(n, m) ==
  /\ msgs' = msgs \cup {m}
  /\ UNCHANGED writes

(* replyWhenDurable of a handler that saved nothing itself: sendGate is    *)
(* the last hard-state write still pending, or nothing.                    *)
replyWhenDurable(n, m) ==
  \/ /\ writes[n] = <<>>
     /\ msgs' = msgs \cup {m}
     /\ UNCHANGED writes
  \/ /\ writes[n] # <<>>
     /\ writes' = [writes EXCEPT ![n] = Attach(@, m)]
     /\ UNCHANGED msgs

(* The storage writer performs the oldest operation it has not performed. *)
WriterExecutes(n) ==
  /\ executed[n] < Len(writes[n])
  /\ executed' = [executed EXCEPT ![n] = @ + 1]
  /\ disk' = [disk EXCEPT ![n] = writes[n][executed[n] + 1].hs]
  /\ UNCHANGED <<nodeVars, writes, msgs, upsets>>

-----------------------------------------------------------------------------
(* State transitions. *)

applyFollowerTransition(n) ==
  /\ state' = [state EXCEPT ![n] = "Follower"]
  /\ expired' = [expired EXCEPT ![n] = FALSE]
  /\ UNCHANGED votes

becomeFollower(n, t) ==
  /\ \/ t > currentTerm[n] /\ saveTerm(n, t, None, {})
     \/ t <= currentTerm[n] /\ UNCHANGED <<currentTerm, votedFor, writes>>
  /\ applyFollowerTransition(n)

isSingleVoter(n) == Voter = {n}

(* The self-vote is queued; asking for votes (or, for a single voter,      *)
(* leading) waits for it.                                                  *)
becomeCandidate(n) ==
  LET newTerm == currentTerm[n] + 1 IN
  /\ newTerm <= MaxTerm
  /\ saveTerm(n, newTerm, n, {RequestVote(FALSE, newTerm, n)})
  /\ state' = [state EXCEPT ![n] = "Candidate"]
  /\ votes' = [votes EXCEPT ![n] = {}]
  /\ expired' = [expired EXCEPT ![n] = FALSE]

becomePreCandidate(n) ==
  \/ isSingleVoter(n) /\ becomeCandidate(n) /\ UNCHANGED msgs
  \/ /\ ~isSingleVoter(n)
     /\ currentTerm[n] < MaxTerm
     /\ state' = [state EXCEPT ![n] = "PreCandidate"]
     /\ votes' = [votes EXCEPT ![n] = {}]
     /\ expired' = [expired EXCEPT ![n] = FALSE]
     /\ msgs' = msgs \cup {RequestVote(TRUE, currentTerm[n] + 1, n)}
     /\ UNCHANGED <<currentTerm, votedFor, writes>>

becomeLeader(n) ==
  /\ state' = [state EXCEPT ![n] = "Leader"]
  /\ msgs' = msgs \cup {Lead(currentTerm[n], n)}

(* handleWriteCompletions: the oldest write is reported complete and what  *)
(* waited for it is released.  A candidacy overtaken by a later term or by *)
(* a step-down is dropped.                                                 *)
handleWriteCompletions(n) ==
  LET w == Head(writes[n])
      replies == {m \in w.then : m.type # "RequestVote"}
      campaigns == {m \in w.then : /\ m.type = "RequestVote"
                                   /\ state[n] = "Candidate"
                                   /\ m.term = currentTerm[n]} IN
  /\ executed[n] > 0
  /\ executed' = [executed EXCEPT ![n] = @ - 1]
  /\ writes' = [writes EXCEPT ![n] = Tail(@)]
  /\ \/ /\ campaigns # {} /\ isSingleVoter(n)
        /\ state' = [state EXCEPT ![n] = "Leader"]
        /\ msgs' = msgs \cup replies \cup {Lead(currentTerm[n], n)}
     \/ /\ campaigns = {} \/ ~isSingleVoter(n)
        /\ msgs' = msgs \cup replies \cup campaigns
        /\ UNCHANGED state
  /\ UNCHANGED <<currentTerm, votedFor, votes, expired, disk, upsets>>

-----------------------------------------------------------------------------
(* Timers. *)

upset == upsets < MaxUpsets /\ upsets' = upsets + 1

(* tick of a follower, candidate or pre-candidate whose election timer     *)
(* runs out; triggerElection.                                              *)
ElectionTimeout(n) ==
  /\ state[n] # "Leader"
  /\ n \in Voter \ Witness
  /\ \/ state[n] = "Candidate" /\ becomeCandidate(n) /\ UNCHANGED msgs
     \/ state[n] # "Candidate" /\ becomePreCandidate(n)
  /\ upset /\ UNCHANGED <<disk, executed>>

(* A witness only notes that it has lost its leader. *)
WitnessTimeout(n) ==
  /\ n \in Witness
  /\ expired' = [expired EXCEPT ![n] = TRUE]
  /\ upset /\ UNCHANGED <<state, currentTerm, votedFor, votes, disk, writes, executed, msgs>>

(* Check-quorum, or any other step-down within the term. *)
StepDown(n) ==
  /\ state[n] = "Leader"
  /\ becomeFollower(n, currentTerm[n])
  /\ upset /\ UNCHANGED <<disk, executed, msgs>>

-----------------------------------------------------------------------------
(* RequestVote. *)

(* Only a witness's timer can be seen expired: any other voter resets it   *)
(* and leaves Follower within the tick that expires it.                    *)
heardFromLeader(n) ==
  \/ state[n] = "Leader"
  \/ state[n] = "Follower" /\ ~expired[n]

(* Pre-vote: answered at once, with the term in memory. *)
handlePreVote(n, m, logOK) ==
  LET grant == /\ n \in Voter /\ m.term > currentTerm[n]
               /\ logOK /\ ~heardFromLeader(n) IN
  /\ m.pre
  /\ grant \/ currentTerm[n] >= m.term
  /\ msgs' = msgs \cup {VoteReply(TRUE, m.term, currentTerm[n], grant, n, m.from)}
  /\ UNCHANGED <<nodeVars, writes>>

(* A real vote in a newer term: step-down and vote are one write. *)
voteInNewTerm(n, m, logOK) ==
  LET grant == n \in Voter /\ logOK IN
  /\ ~m.pre /\ m.term > currentTerm[n]
  /\ saveTerm(n, m.term, IF grant THEN m.from ELSE None,
              {r \in {VoteReply(FALSE, m.term, m.term, grant, n, m.from)} : grant})
  /\ applyFollowerTransition(n)
  /\ UNCHANGED msgs

(* Mutant of voteInCurrentTerm: votedFor is not looked at. *)
voteForAnyone(n, m, logOK) ==
  /\ ~m.pre /\ m.term = currentTerm[n] /\ n \in Voter /\ logOK
  /\ saveTerm(n, m.term, m.from, {VoteReply(FALSE, m.term, m.term, TRUE, n, m.from)})
  /\ UNCHANGED <<state, votes, expired, msgs>>

voteInCurrentTerm(n, m, logOK) ==
  LET grant == /\ n \in Voter /\ m.term = currentTerm[n]
               /\ votedFor[n] \in {None, m.from} /\ logOK
      r == VoteReply(FALSE, m.term, currentTerm[n], grant, n, m.from) IN
  /\ ~m.pre /\ m.term <= currentTerm[n]
  /\ \/ /\ grant
        /\ saveTerm(n, m.term, m.from, {r})
        /\ expired' = [expired EXCEPT ![n] = FALSE]
        /\ UNCHANGED <<state, votes, msgs>>
     \/ /\ ~grant /\ m.term < currentTerm[n]
        /\ replyWhenDurable(n, r)
        /\ UNCHANGED nodeVars

handleRequestVote(n, m, logOK) ==
  /\ m.type = "RequestVote" /\ m.from # n
  /\ \/ handlePreVote(n, m, logOK)
     \/ voteInNewTerm(n, m, logOK)
     \/ voteInCurrentTerm(n, m, logOK)
  /\ UNCHANGED <<disk, executed, upsets>>

-----------------------------------------------------------------------------
(* Vote results. *)

(* The node's own vote counts when it is a voter. *)
electionWon(n, granted) ==
  Cardinality((granted \cup {n}) \cap Voter)
    >= electionQuorumFor(CommitPolicy, Cardinality(Voter))

handlePreVoteResult(n, m) ==
  /\ m.pre /\ state[n] = "PreCandidate" /\ m.asked = currentTerm[n] + 1
  /\ \/ m.term > currentTerm[n] /\ becomeFollower(n, m.term) /\ UNCHANGED msgs
     \/ /\ m.term <= currentTerm[n] /\ m.granted
        /\ \/ /\ electionWon(n, votes[n] \cup {m.from})
              /\ becomeCandidate(n)
           \/ /\ ~electionWon(n, votes[n] \cup {m.from})
              /\ votes' = [votes EXCEPT ![n] = @ \cup {m.from}]
              /\ UNCHANGED <<state, currentTerm, votedFor, expired, writes>>
        /\ UNCHANGED msgs

handleRealVoteResult(n, m) ==
  /\ ~m.pre
  /\ \/ m.term > currentTerm[n] /\ becomeFollower(n, m.term) /\ UNCHANGED msgs
     \/ /\ state[n] = "Candidate" /\ m.term = currentTerm[n] /\ m.granted
        /\ votes' = [votes EXCEPT ![n] = @ \cup {m.from}]
        /\ \/ electionWon(n, votes[n] \cup {m.from}) /\ becomeLeader(n)
           \/ ~electionWon(n, votes[n] \cup {m.from}) /\ UNCHANGED <<state, msgs>>
        /\ UNCHANGED <<currentTerm, votedFor, expired, writes>>

handleVoteResult(n, m) ==
  /\ m.type = "VoteReply" /\ m.to = n
  /\ handlePreVoteResult(n, m) \/ handleRealVoteResult(n, m)
  /\ UNCHANGED <<disk, executed, upsets>>

-----------------------------------------------------------------------------
(* Messages of a leader, and their answers. *)

(* The term check every leader request goes through. *)
handleLead(n, m) ==
  /\ m.type = "Lead" /\ m.from # n
  /\ \/ /\ m.term < currentTerm[n]
        /\ replyWhenDurable(n, Refusal(currentTerm[n], n, m.from))
        /\ UNCHANGED nodeVars
     \/ m.term >= currentTerm[n] /\ becomeFollower(n, m.term) /\ UNCHANGED msgs
  /\ UNCHANGED <<disk, executed, upsets>>

handleRefusal(n, m) ==
  /\ m.type = "Refusal" /\ m.to = n
  /\ m.term > currentTerm[n]
  /\ becomeFollower(n, m.term)
  /\ UNCHANGED <<disk, executed, msgs, upsets>>

(* Leadership transfer: a leader tells a voter to stand at once. *)
sendTimeoutNow(n, target) ==
  /\ state[n] = "Leader"
  /\ target \in Voter \ (Witness \cup {n})
  /\ msgs' = msgs \cup {TimeoutNow(currentTerm[n], n, target)}
  /\ upset /\ UNCHANGED <<nodeVars, disk, writes, executed>>

(* The target skips the pre-vote.  In a newer term it first adopts that    *)
(* term, so two writes are queued.                                         *)
handleTimeoutNow(n, m) ==
  /\ m.type = "TimeoutNow" /\ m.to = n
  /\ m.term + 1 <= MaxTerm /\ Len(writes[n]) + 1 < MaxPending
  /\ \/ m.term = currentTerm[n] /\ becomeCandidate(n)
     \/ /\ m.term > currentTerm[n]
        /\ currentTerm' = [currentTerm EXCEPT ![n] = m.term + 1]
        /\ votedFor' = [votedFor EXCEPT ![n] = n]
        /\ writes' = [writes EXCEPT ![n] =
             Append(Append(@, [hs |-> [term |-> m.term, vote |-> None], then |-> {}]),
                    [hs |-> [term |-> m.term + 1, vote |-> n],
                     then |-> {RequestVote(FALSE, m.term + 1, n)}])]
        /\ state' = [state EXCEPT ![n] = "Candidate"]
        /\ votes' = [votes EXCEPT ![n] = {}]
        /\ expired' = [expired EXCEPT ![n] = FALSE]
  /\ UNCHANGED <<disk, executed, msgs, upsets>>

-----------------------------------------------------------------------------
(* Mutant of Crash: New does not load the hard state. *)
CrashToTermZero(n) ==
  /\ upset
  /\ state' = [state EXCEPT ![n] = "Follower"]
  /\ currentTerm' = [currentTerm EXCEPT ![n] = 0]
  /\ votedFor' = [votedFor EXCEPT ![n] = None]
  /\ votes' = [votes EXCEPT ![n] = {}]
  /\ expired' = [expired EXCEPT ![n] = FALSE]
  /\ writes' = [writes EXCEPT ![n] = <<>>]
  /\ executed' = [executed EXCEPT ![n] = 0]
  /\ UNCHANGED <<disk, msgs>>

(* A crash and the restart that follows (New): the disk is what is left. *)
Crash(n) ==
  /\ upset
  /\ state' = [state EXCEPT ![n] = "Follower"]
  /\ currentTerm' = [currentTerm EXCEPT ![n] = disk[n].term]
  /\ votedFor' = [votedFor EXCEPT ![n] = disk[n].vote]
  /\ votes' = [votes EXCEPT ![n] = {}]
  /\ expired' = [expired EXCEPT ![n] = FALSE]
  /\ writes' = [writes EXCEPT ![n] = <<>>]
  /\ executed' = [executed EXCEPT ![n] = 0]
  /\ UNCHANGED <<disk, msgs>>

Init ==
  /\ state = [n \in Node |-> "Follower"]
  /\ currentTerm = [n \in Node |-> 0]
  /\ votedFor = [n \in Node |-> None]
  /\ votes = [n \in Node |-> {}]
  /\ expired = [n \in Node |-> FALSE]
  /\ disk = [n \in Node |-> [term |-> 0, vote |-> None]]
  /\ writes = [n \in Node |-> <<>>]
  /\ executed = [n \in Node |-> 0]
  /\ msgs = {}
  /\ upsets = 0

Step(n) ==
  \/ WriterExecutes(n)
  \/ handleWriteCompletions(n)
  \/ ElectionTimeout(n)
  \/ WitnessTimeout(n)
  \/ StepDown(n)
  \/ Crash(n)
  \/ \E target \in Node : sendTimeoutNow(n, target)
  \/ \E m \in msgs :
       \/ \E logOK \in BOOLEAN : handleRequestVote(n, m, logOK)
       \/ handleVoteResult(n, m)
       \/ handleLead(n, m)
       \/ handleRefusal(n, m)
       \/ handleTimeoutNow(n, m)

Next == \E n \in Node : Step(n)

Spec == Init /\ [][Next]_vars

-----------------------------------------------------------------------------
(* Every variable has its type, and the writer is never ahead of the queue. *)
TypeOK ==
  /\ state \in [Node -> State]
  /\ currentTerm \in [Node -> Nat]
  /\ votedFor \in [Node -> Node \cup {None}]
  /\ votes \in [Node -> SUBSET Node]
  /\ expired \in [Node -> BOOLEAN]
  /\ disk \in [Node -> HardState]
  /\ writes \in [Node -> Seq(Write)]
  /\ executed \in [Node -> Nat]
  /\ \A n \in Node : executed[n] <= Len(writes[n])
  /\ msgs \subseteq Message
  /\ upsets \in Nat

(* The votes other nodes have been told of: grants, and the vote for       *)
(* itself that a real RequestVote is.                                      *)
Cast(v, t, c) ==
  \/ \E m \in msgs : /\ m.type = "VoteReply" /\ ~m.pre /\ m.granted
                     /\ m.from = v /\ m.term = t /\ m.to = c
  \/ v = c /\ RequestVote(FALSE, t, c) \in msgs

(* A node that votes, crashes and restarts never votes for somebody else  *)
(* in that term: what it told anyone was on disk first (saveTerm,          *)
(* sendGate, and the continuation of becomeCandidate).                     *)
OneVotePerTerm ==
  \A v \in Node, c1 \in Node, c2 \in Node :
    \A t \in {m.term : m \in msgs} : Cast(v, t, c1) /\ Cast(v, t, c2) => c1 = c2

(* A node that becomes leader does so in a term that has had no leader     *)
(* before it, itself before a crash included: becomeLeader would otherwise *)
(* put different entries at the same index and term.                       *)
OneLeaderPerTerm ==
  [][\A n \in Node :
       state[n] # "Leader" /\ state'[n] = "Leader"
         => \A m \in msgs : m.type = "Lead" => m.term # currentTerm'[n]]_vars

(* What a node has said in a term survives its crash: every message it has *)
(* sent, pre-vote traffic apart, carries a term its disk has reached.      *)
SpokenTermIsDurable ==
  \A m \in msgs :
    m.type \in {"Lead", "Refusal", "TimeoutNow"} \/ (m.type \in {"RequestVote", "VoteReply"} /\ ~m.pre)
      => m.term <= disk[m.from].term

-----------------------------------------------------------------------------
(* The inductive invariant behind the three properties.                    *)

(* Hard state h may be overwritten by g without going back on a vote. *)
Precedes(h, g) ==
  \/ h.term < g.term
  \/ h.term = g.term /\ h.vote \in {None, g.vote}

Memory(n) == [term |-> currentTerm[n], vote |-> votedFor[n]]

(* What message m has told other nodes holds of hard state h and of        *)
(* whatever may overwrite h.                                               *)
Backed(m, h) ==
  /\ m.type = "VoteReply" /\ ~m.pre =>
       m.term <= h.term /\ (m.granted => Precedes([term |-> m.term, vote |-> m.to], h))
  /\ m.type = "RequestVote" /\ ~m.pre => Precedes([term |-> m.term, vote |-> m.from], h)
  /\ m.type = "Lead" => Precedes([term |-> m.term, vote |-> m.from], h)
  /\ m.type \in {"Refusal", "TimeoutNow"} => m.term <= h.term

(* Disk d, then the queued writes of w the writer has not performed yet,   *)
(* then memory: each hard state may overwrite the one before.              *)
Chain(d, w, e, mem) ==
  /\ \A i, j \in 1..Len(w) : i <= j => Precedes(w[i].hs, w[j].hs)
  /\ \A i \in 1..Len(w) : i > e => Precedes(d, w[i].hs)
  /\ \A i \in 1..Len(w) : i <= e => Precedes(w[i].hs, d)
  /\ w # <<>> => w[Len(w)].hs = mem
  /\ e = Len(w) => d = mem

Granted(m) == m.type = "VoteReply" /\ ~m.pre /\ m.granted

(* A vote is granted by a voter, to a candidate that asked for it. *)
GrantOK(m, ms) ==
  Granted(m) => m.from \in Voter /\ RequestVote(FALSE, m.term, m.to) \in ms

(* What waits on the writes w of node n. *)
Waiting(n, w, ms) ==
  \A i \in 1..Len(w) : \A m \in w[i].then :
    /\ m.from = n
    /\ m.type \in {"VoteReply", "RequestVote", "Refusal"}
    /\ m.type # "Refusal" => ~m.pre
    /\ Backed(m, w[i].hs)
    /\ GrantOK(m, ms)

GrantedTo(v, t, c) == \E m \in msgs : Granted(m) /\ m.from = v /\ m.term = t /\ m.to = c

(* A leader was elected by a quorum of voters. *)
Elected(t, n) ==
  \E Q \in SUBSET Voter :
    /\ Cardinality(Q) >= electionQuorumFor(CommitPolicy, Cardinality(Voter))
    /\ \A v \in Q : v = n \/ GrantedTo(v, t, n)

NodeInv(n) ==
  /\ Chain(disk[n], writes[n], executed[n], Memory(n))
  /\ Waiting(n, writes[n], msgs)
  /\ state[n] = "Candidate" =>
       /\ \A v \in votes[n] : GrantedTo(v, currentTerm[n], n)
       /\ Lead(currentTerm[n], n) \notin msgs
  /\ state[n] = "Leader" => Lead(currentTerm[n], n) \in msgs

MsgInv(m) ==
  /\ Backed(m, disk[m.from])
  /\ GrantOK(m, msgs)
  /\ m.type = "Lead" => Elected(m.term, m.from)

(* Every node's disk, queue and memory form a chain of hard states none of *)
(* which goes back on a vote, and every message sent is backed by the disk *)
(* of its sender: what makes saveTerm and sendGate safe across crashes.    *)
ElectionInv ==
  /\ TypeOK
  /\ \A n \in Node : NodeInv(n)
  /\ \A m \in msgs : MsgInv(m)

(* The votes a message announces: a grant, the vote for itself a real      *)
(* RequestVote is, and the one a leader rests on.                          *)
IsVote(m) == Granted(m) \/ m.type = "Lead" \/ (m.type = "RequestVote" /\ ~m.pre)
VoteFor(m) == IF m.type = "VoteReply" THEN m.to ELSE m.from

Pending(w) == UNION {w[i].then : i \in 1..Len(w)}

(* What node n has said, or will say when the writes it waits on are done. *)
Said(n) == {m \in msgs : m.from = n} \cup Pending(writes[n])

(* No term has two leaders: nobody else has led the term of a leader.      *)
UniqueLead ==
  \A m1, m2 \in msgs :
    m1.type = "Lead" /\ m2.type = "Lead" /\ m1.term = m2.term => m1.from = m2.from

(* Everything a node says of its vote in a term, what still waits for a    *)
(* write of saveTerm included, names one candidate.                        *)
VotesAgree ==
  \A n \in Node : \A m1, m2 \in Said(n) :
    IsVote(m1) /\ IsVote(m2) /\ m1.term = m2.term => VoteFor(m1) = VoteFor(m2)
=============================================================================
