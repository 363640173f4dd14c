---------------------------- MODULE Replication -----------------------------
(***************************************************************************)
(* How a leader's log reaches the group and commits (node_replication.go,  *)
(* handleProposals of node_loop.go, becomeLeader of node_transitions.go)   *)
(* over logs and hard states that are written asynchronously.              *)
(*                                                                         *)
(* A node's durable state is an image [term, vote, log].  An operation     *)
(* changes the image in memory at once and queues a write; the queue is    *)
(* represented by the image each write leaves on the disk, with the        *)
(* messages that wait for it.  How far the storage writer has got is seen  *)
(* only in a completion or after a crash, so a crash keeps the effect of   *)
(* any prefix of the queue.  Module DurableLog has the writer's own steps. *)
(*                                                                         *)
(* Standing for election is over-approximated: pre-votes, timers and       *)
(* leadership transfers only decide when a voter stands, and here one may  *)
(* stand whenever the situation allows it (Election has those).  `msgs'    *)
(* only grows, so a message may be lost, delayed, reordered or delivered   *)
(* again; what MaxInflightRPCs holds back is a message that was lost.      *)
(***************************************************************************)
EXTENDS ReplicationState

-----------------------------------------------------------------------------
(* Messages.  Answers no receiver reacts to are left out: a vote denied by *)
(* a voter whose term is no newer than the one asked for, and a refusal    *)
(* whose term its receiver already has on disk.                            *)

RequestVote(t, n, l) ==
  [type |-> "RequestVote", term |-> t, from |-> n,
   lastIndex |-> Len(l), lastTerm |-> termAt(l, Len(l))]

VoteReply(t, granted, v, c) ==
  [type |-> "VoteReply", term |-> t, granted |-> granted, from |-> v, to |-> c]

(* The request of leader n for peer p: at most `batch' entries of log l    *)
(* from `next' on.  The answer goes back to the process that asked.        *)
AppendEntries(n, p, l, next, commit, batch) ==
  [type |-> "AppendEntries", from |-> n, to |-> p, process |-> restarts[n],
   term |-> currentTerm(n), prev |-> next - 1, prevTerm |-> termAt(l, next - 1),
   entries |-> SubSeq(l, next, Min({Len(l), next - 1 + batch})), commit |-> commit]

heartbeatPeer(n, p, l, next, commit) == AppendEntries(n, p, l, next, commit, 0)
replicateToPeer(n, p, l, next, commit) == AppendEntries(n, p, l, next, commit, situation.batch)

(* An answer to request m.  Of the request the leader looks at the last    *)
(* entry when it was accepted and at prev when it was refused with a hint. *)
AppendReply(m, t, last, prev, conflictIndex, conflictTerm) ==
  [type |-> "AppendReply", from |-> m.to, to |-> m.from, process |-> m.process,
   term |-> t, last |-> last, prev |-> prev,
   conflictIndex |-> conflictIndex, conflictTerm |-> conflictTerm]

accepted(m) ==
  AppendReply(m, m.term, IF m.entries = <<>> THEN 0 ELSE m.prev + Len(m.entries), 0, 0, 0)
mismatch(m, conflictIndex, conflictTerm) ==
  AppendReply(m, m.term, -1, m.prev, conflictIndex, conflictTerm)
outdated(m, t) == AppendReply(m, t, -1, 0, 0, 0)

-----------------------------------------------------------------------------
(* Durability. *)

Op(kind, image) == [kind |-> kind, image |-> image, then |-> {}]

(* saveTerm as an image and the write it queues. *)
Saved(n, t, v) == [mem[n] EXCEPT !.term = t, !.vote = v]
saveTerm(n, t, v) == <<Op("HardState", Saved(n, t, v))>>

(* The part of becomeFollower(t) that concerns the hard state. *)
SteppedUp(n, t) == IF t > currentTerm(n) THEN Saved(n, t, None) ELSE mem[n]
stepUp(n, t) == IF t > currentTerm(n) THEN saveTerm(n, t, None) ELSE <<>>

(* afterWrite: the replies wait for write `gate' of the queue w, 0 for none. *)
replyWhenDurable(n, w, gate, replies) ==
  /\ Len(w) <= situation.pending
  /\ \/ /\ gate = 0
        /\ writes' = [writes EXCEPT ![n] = w]
        /\ msgs' = msgs \cup replies
     \/ /\ gate > 0
        /\ writes' = [writes EXCEPT ![n] = [w EXCEPT ![gate].then = @ \cup replies]]
        /\ UNCHANGED msgs

-----------------------------------------------------------------------------
(* Commitment. *)

(* What a node whose commit index moves from i to j learns to be committed. *)
noteCommitted(l, i, j, t) ==
  committed \cup {[index |-> k, entry |-> l[k], term |-> t] :
                    k \in {h \in i+1..j : ~ \E c \in committed : c.index = h /\ c.entry = l[h]}}

setCommitIndex(n, l, j, t) ==
  /\ commitIndex' = [commitIndex EXCEPT ![n] = Max({@, j})]
  /\ committed' = noteCommitted(l, commitIndex[n], Max({commitIndex[n], j}), t)

(* A commit quorum of voters holds entry i; the leader itself only as far  *)
(* as its disk has got.                                                    *)
replicatedOnMajority(n, i, match, stable) ==
  Cardinality({p \in Voter \ {n} : match[p] >= i} \cup {p \in Voter \cap {n} : i <= stable})
    >= commitQuorumFor(situation.policy, Cardinality(Voter))

(* The commit index maybeAdvanceCommit leaves: only entries of the         *)
(* leader's own term are counted.                                          *)
maybeAdvanceCommit(n, l, match, stable) ==
  Max({commitIndex[n]} \cup
      {i \in Max({commitIndex[n] + 1, termStart[n]})..Len(l) :
         replicatedOnMajority(n, i, match, stable)})

-----------------------------------------------------------------------------
(* Elections. *)

NoPeers == [p \in Node |-> 0]

applyFollowerTransition(n) ==
  /\ state' = [state EXCEPT ![n] = "Follower"]
  /\ nextIndex' = [nextIndex EXCEPT ![n] = NoPeers]
  /\ matchIndex' = [matchIndex EXCEPT ![n] = NoPeers]
  /\ termStart' = [termStart EXCEPT ![n] = 0]

(* The request for votes waits for the self-vote.  It describes the log,   *)
(* which a candidate does not change.                                      *)
becomeCandidate(n) ==
  LET t == currentTerm(n) + 1
      w == writes[n] \o saveTerm(n, t, n) IN
  /\ state[n] # "Leader" /\ t <= MaxTerm /\ n \in situation.stands[t]
  /\ mem' = [mem EXCEPT ![n] = Saved(n, t, n)]
  /\ replyWhenDurable(n, w, Len(w), {RequestVote(t, n, log(n))})
  /\ state' = [state EXCEPT ![n] = "Candidate"]
  /\ UNCHANGED <<disk, nextIndex, matchIndex, termStart, commitIndex, restarts, given, committed>>

(* The no-op is appended and a heartbeat sent; it is replicated when the   *)
(* heartbeat is answered.  Nothing is committed yet: matchIndex is 0.      *)
becomeLeader(n) ==
  LET l == Append(log(n), [term |-> currentTerm(n), val |-> Noop])
      image == [mem[n] EXCEPT !.log = l]
      next == Len(log(n)) + 1 IN
  /\ Len(l) <= MaxLog
  /\ state' = [state EXCEPT ![n] = "Leader"]
  /\ mem' = [mem EXCEPT ![n] = image]
  /\ nextIndex' = [nextIndex EXCEPT ![n] = [p \in Node |-> next]]
  /\ matchIndex' = [matchIndex EXCEPT ![n] = NoPeers]
  /\ termStart' = [termStart EXCEPT ![n] = Len(l)]
  /\ replyWhenDurable(n, Append(writes[n], Op("Append", image)), 0,
       {heartbeatPeer(n, p, l, next, commitIndex[n]) : p \in Node \ {n}})

(* A vote in a newer term: step-down and vote are one write. *)
voteInNewTerm(n, m) ==
  LET grant == n \in Voter /\ isUpToDate(log(n), m.lastIndex, m.lastTerm)
      v == IF grant THEN m.from ELSE None
      w == writes[n] \o saveTerm(n, m.term, v) IN
  /\ m.term > currentTerm(n)
  /\ mem' = [mem EXCEPT ![n] = Saved(n, m.term, v)]
  /\ applyFollowerTransition(n)
  /\ replyWhenDurable(n, w, Len(w),
       {r \in {VoteReply(m.term, TRUE, n, m.from)} : grant})

voteInCurrentTerm(n, m) ==
  LET w == writes[n] \o saveTerm(n, m.term, m.from) IN
  /\ m.term = currentTerm(n)
  /\ n \in Voter /\ mem[n].vote \in {None, m.from}
  /\ isUpToDate(log(n), m.lastIndex, m.lastTerm)
  /\ mem' = [mem EXCEPT ![n] = Saved(n, m.term, m.from)]
  /\ replyWhenDurable(n, w, Len(w), {VoteReply(m.term, TRUE, n, m.from)})
  /\ UNCHANGED <<state, leaderVars>>

denyOldTerm(n, m) ==
  /\ m.term < currentTerm(n) /\ disk[m.from].term < currentTerm(n)
  /\ replyWhenDurable(n, writes[n], termGate(writes[n]),
       {VoteReply(currentTerm(n), FALSE, n, m.from)})
  /\ UNCHANGED <<mem, state, leaderVars>>

handleRequestVote(n, m) ==
  /\ m.type = "RequestVote" /\ m.from # n /\ n \in situation.hears[m.term][m.type]
  /\ voteInNewTerm(n, m) \/ voteInCurrentTerm(n, m) \/ denyOldTerm(n, m)
  /\ UNCHANGED <<disk, commitIndex, restarts, given, committed>>

(* becomeFollower because an answer carries a newer term. *)
stepDown(n, t) ==
  /\ t > currentTerm(n)
  /\ mem' = [mem EXCEPT ![n] = SteppedUp(n, t)]
  /\ applyFollowerTransition(n)
  /\ replyWhenDurable(n, writes[n] \o stepUp(n, t), 0, {})

(* A vote counts from the moment it is sent: while a node is a candidate   *)
(* the order its votes arrive in changes nothing.                          *)
receivedVoteSet(n) ==
  {m.from : m \in {r \in msgs : /\ r.type = "VoteReply" /\ r.to = n
                               /\ r.granted /\ r.term = currentTerm(n)}}

(* Mutant of electionWon: a majority elects whatever the commit quorum. *)
majorityWon(n) ==
  2 * Cardinality((receivedVoteSet(n) \cup {n}) \cap Voter) > Cardinality(Voter)

(* Enough votes to meet every commit quorum. *)
electionWon(n) ==
  Cardinality((receivedVoteSet(n) \cup {n}) \cap Voter)
    >= electionQuorumFor(situation.policy, Cardinality(Voter))

(* handleVoteResult for the vote that completes a quorum. *)
winElection(n) ==
  /\ state[n] = "Candidate" /\ electionWon(n)
  /\ becomeLeader(n)
  /\ UNCHANGED <<disk, commitIndex, restarts, given, committed>>

(* handleVoteResult for an answer from a newer term. *)
handleVoteResult(n, m) ==
  /\ m.type = "VoteReply" /\ m.to = n
  /\ stepDown(n, m.term)
  /\ UNCHANGED <<disk, commitIndex, restarts, given, committed>>

-----------------------------------------------------------------------------
(* Appending to a leader's log, and telling the group. *)

Propose(n, c) ==
  LET l == Append(log(n), [term |-> currentTerm(n), val |-> c])
      image == [mem[n] EXCEPT !.log = l] IN
  /\ state[n] = "Leader" /\ Len(l) <= MaxLog
  /\ mem' = [mem EXCEPT ![n] = image]
  /\ replyWhenDurable(n, Append(writes[n], Op("Append", image)), 0,
       {replicateToPeer(n, p, l, nextIndex[n][p], commitIndex[n]) : p \in Node \ {n}})
  /\ UNCHANGED <<state, disk, leaderVars, commitIndex, restarts, given, committed>>

broadcastHeartbeat(n) ==
  /\ state[n] = "Leader" /\ currentTerm(n) \in situation.ticking
  /\ msgs' = msgs \cup
       {heartbeatPeer(n, p, log(n), nextIndex[n][p], commitIndex[n]) : p \in Node \ {n}}
  /\ UNCHANGED <<state, mem, disk, writes, leaderVars, commitIndex, restarts, given, committed>>

-----------------------------------------------------------------------------
(* AppendEntries at a follower. *)

refuseOldTerm(n, m) ==
  /\ m.term < currentTerm(n) /\ disk[m.from].term < currentTerm(n)
  /\ replyWhenDurable(n, writes[n], termGate(writes[n]),
       {outdated(m, currentTerm(n))})
  /\ UNCHANGED <<mem, state, leaderVars, commitIndex, committed>>

(* The entry before the batch is missing, or of another term. *)
refuseMismatch(n, m) ==
  LET prevTerm == termAt(log(n), m.prev)
      w == writes[n] \o stepUp(n, m.term)
      hint == IF prevTerm = 0 THEN Len(log(n)) + 1 ELSE termRunStart(log(n), m.prev) IN
  /\ m.term >= currentTerm(n)
  /\ m.prev > 0 /\ prevTerm # m.prevTerm
  /\ mem' = [mem EXCEPT ![n] = SteppedUp(n, m.term)]
  /\ applyFollowerTransition(n)
  /\ replyWhenDurable(n, w, termGate(w), {mismatch(m, hint, prevTerm)})
  /\ UNCHANGED <<commitIndex, committed>>

(* The writes that take log l there: truncation of a conflicting suffix,   *)
(* then append.                                                            *)
mergeWrites(image, l, m) ==
  LET kept == m.prev + Held(l, m)
      truncate == Op("Truncate", [image EXCEPT !.log = SubSeq(l, 1, kept)])
      append == Op("Append", [image EXCEPT !.log = Merged(l, m)]) IN
  IF Merged(l, m) = l THEN <<>>
  ELSE IF kept < Len(l) THEN <<truncate, append>>
  ELSE <<append>>

(* Mutant of ackGate: a batch already held is acknowledged at once. *)
ackGateOfThisRequest(n, w, l, m) ==
  IF l = log(n) THEN termGate(w) ELSE Max({termGate(w), Len(w)})

(* What an acknowledgement waits for: the hard state, and the write that   *)
(* covers the batch, this request's own or an earlier one.                 *)
ackGate(n, w, l, m) ==
  IF m.entries = <<>> THEN termGate(w)
  ELSE Max({termGate(w), writeSeqCovering(disk[n], w, l, m.prev + Len(m.entries))})

(* The commit index a request vouches for. *)
coveredCommit(l, m) == Min({m.commit, m.prev + Len(m.entries)})

(* Mutant of acceptEntries: the entry before the batch is not compared. *)
acceptUnchecked(n, m) ==
  LET l == Merged(log(n), m)
      image == [SteppedUp(n, m.term) EXCEPT !.log = l]
      w == writes[n] \o stepUp(n, m.term) \o mergeWrites(SteppedUp(n, m.term), log(n), m) IN
  /\ m.term >= currentTerm(n)
  /\ m.prev <= Len(log(n))
  /\ mem' = [mem EXCEPT ![n] = image]
  /\ applyFollowerTransition(n)
  /\ setCommitIndex(n, l, coveredCommit(l, m), m.term)
  /\ replyWhenDurable(n, w, ackGate(n, w, l, m), {accepted(m)})

(* The entry before the batch is there. *)
acceptEntries(n, m) ==
  LET l == Merged(log(n), m)
      image == [SteppedUp(n, m.term) EXCEPT !.log = l]
      w == writes[n] \o stepUp(n, m.term) \o mergeWrites(SteppedUp(n, m.term), log(n), m) IN
  /\ m.term >= currentTerm(n)
  /\ m.prev = 0 \/ termAt(log(n), m.prev) = m.prevTerm
  /\ mem' = [mem EXCEPT ![n] = image]
  /\ applyFollowerTransition(n)
  /\ setCommitIndex(n, l, coveredCommit(l, m), m.term)
  /\ replyWhenDurable(n, w, ackGate(n, w, l, m), {accepted(m)})

handleAppendEntries(n, m) ==
  /\ m.type = "AppendEntries" /\ m.to = n /\ n \in situation.hears[m.term][m.type]
  /\ refuseOldTerm(n, m) \/ refuseMismatch(n, m) \/ acceptEntries(n, m)
  /\ UNCHANGED <<disk, restarts, given>>

-----------------------------------------------------------------------------
(* Results of AppendEntries at the leader. *)

lastIndexOfTerm(l, t) == {i \in 1..Len(l) : l[i].term = t}

(* Mutant of backtrack: only one step back, and not below what was asked. *)
backtrackToPrev(n, m) == Max({m.prev + 1, matchIndex[n][m.from] + 1})

(* Where a rejection sends nextIndex: past the last entry of the term the  *)
(* follower disagreed in, or to its own hint; never at or below matchIndex. *)
backtrack(n, m) ==
  LET inTerm == lastIndexOfTerm(log(n), m.conflictTerm)
      hint == IF m.conflictTerm # 0 /\ inTerm # {} THEN Max(inTerm) + 1
              ELSE m.conflictIndex IN
  Max({hint, 1, matchIndex[n][m.from] + 1})

(* A rejection without a hint, or of a prefix already acknowledged, is     *)
(* ignored.                                                                *)
retryRejected(n, m) ==
  LET next == backtrack(n, m) IN
  /\ m.last = -1
  /\ m.conflictIndex # 0 \/ m.conflictTerm # 0
  /\ m.prev >= matchIndex[n][m.from]
  /\ nextIndex' = [nextIndex EXCEPT ![n][m.from] = next]
  /\ msgs' = msgs \cup {replicateToPeer(n, m.from, log(n), next, commitIndex[n])}
  /\ UNCHANGED <<matchIndex, commitIndex, committed>>

(* What peer p is sent next once it has acknowledged entry `last'. *)
nextAfter(n, p, last) == Max({nextIndex[n][p], last + 1})

(* An acknowledgement moves matchIndex and nextIndex, perhaps the commit   *)
(* index, and sends what the peer still lacks.                             *)
noteAcknowledged(n, m) ==
  LET p == m.from
      match == [matchIndex[n] EXCEPT ![p] = Max({@, m.last})]
      next == nextAfter(n, p, m.last)
      commit == maybeAdvanceCommit(n, log(n), match,
                  stableIndex(disk[n], writes[n], log(n))) IN
  /\ m.last # -1
  /\ matchIndex' = [matchIndex EXCEPT ![n] = match]
  /\ nextIndex' = [nextIndex EXCEPT ![n][p] = next]
  /\ setCommitIndex(n, log(n), commit, currentTerm(n))
  /\ msgs' = msgs \cup {r \in {replicateToPeer(n, p, log(n), next, commit)} :
                          next <= Len(log(n))}

(* The answer is not compared with the leader's term: one to an earlier    *)
(* leadership of the same process is treated like any other.               *)
handleAppendResult(n, m) ==
  /\ m.type = "AppendReply" /\ m.to = n /\ m.process = restarts[n]
  /\ \/ stepDown(n, m.term) /\ UNCHANGED <<commitIndex, committed>>
     \/ /\ m.term <= currentTerm(n) /\ state[n] = "Leader"
        /\ retryRejected(n, m) \/ noteAcknowledged(n, m)
        /\ UNCHANGED <<state, mem, writes, termStart>>
  /\ UNCHANGED <<disk, restarts, given>>

-----------------------------------------------------------------------------
(* Storage. *)

(* The oldest write is reported complete.  What waited for it is sent,     *)
(* unless it is a candidacy that has been overtaken; a leader counts its   *)
(* own log a little further.                                               *)
handleWriteCompletions(n) ==
  LET op == Head(writes[n])
      rest == Tail(writes[n])
      overtaken == {m \in op.then : /\ m.type = "RequestVote"
                                    /\ \/ state[n] # "Candidate"
                                       \/ m.term # currentTerm(n)}
      stable == stableIndex(op.image, rest, log(n)) IN
  /\ writes[n] # <<>>
  /\ disk' = [disk EXCEPT ![n] = op.image]
  /\ writes' = [writes EXCEPT ![n] = rest]
  /\ msgs' = msgs \cup (op.then \ overtaken)
  /\ \/ /\ state[n] = "Leader"
        /\ setCommitIndex(n, log(n), maybeAdvanceCommit(n, log(n), matchIndex[n], stable),
                          currentTerm(n))
     \/ state[n] # "Leader" /\ UNCHANGED <<commitIndex, committed>>
  /\ UNCHANGED <<state, mem, leaderVars, restarts, given>>

(* The writer had performed some of the queued writes, in order. *)
Crash(n) ==
  /\ SumFunction(restarts) < situation.crashes
  /\ \E image \in {disk[n]} \cup Ahead(writes[n]) :
       /\ mem' = [mem EXCEPT ![n] = image]
       /\ disk' = [disk EXCEPT ![n] = image]
  /\ writes' = [writes EXCEPT ![n] = <<>>]
  /\ applyFollowerTransition(n)
  /\ commitIndex' = [commitIndex EXCEPT ![n] = 0]
  /\ restarts' = [restarts EXCEPT ![n] = @ + 1]
  /\ UNCHANGED <<msgs, committed, given>>

-----------------------------------------------------------------------------
Blank == [term |-> 0, vote |-> None, log |-> <<>>]

Init ==
  /\ given \in DOMAIN Situations
  /\ state = [n \in Node |-> "Follower"]
  /\ mem = [n \in Node |-> Blank]
  /\ disk = [n \in Node |-> Blank]
  /\ writes = [n \in Node |-> <<>>]
  /\ nextIndex = [n \in Node |-> NoPeers]
  /\ matchIndex = [n \in Node |-> NoPeers]
  /\ termStart = [n \in Node |-> 0]
  /\ commitIndex = [n \in Node |-> 0]
  /\ restarts = [n \in Node |-> 0]
  /\ msgs = {}
  /\ committed = {}

Receive(n, m) ==
  \/ handleRequestVote(n, m)
  \/ handleVoteResult(n, m)
  \/ handleAppendEntries(n, m)
  \/ handleAppendResult(n, m)

Next ==
  \/ \E n \in Node : handleWriteCompletions(n)
  \/ /\ \A n \in situation.fast : writes[n] = <<>>
     /\ \E n \in Node : \/ becomeCandidate(n)
                        \/ winElection(n)
                        \/ broadcastHeartbeat(n)
                        \/ Crash(n)
                        \/ \E c \in situation.propose : Propose(n, c)
                        \/ \E m \in msgs : Receive(n, m)

Spec == Init /\ [][Next]_vars

(* Replication goes on: the heartbeat timer fires and something comes of a *)
(* request that keeps being sent and of an answer that keeps coming back.  *)
replicate(n) ==
  \/ broadcastHeartbeat(n)
  \/ \E m \in msgs : handleAppendEntries(n, m) \/ handleAppendResult(n, m)

(* Storage writers finish their writes and event loops do not stop.        *)
Fairness ==
  /\ WF_vars(\E n \in Node : handleWriteCompletions(n))
  /\ WF_vars(\E n \in Node : replicate(n))

FairSpec == Spec /\ Fairness
=============================================================================
