-------------------------------- MODULE Reads --------------------------------
(***************************************************************************)
(* Linearizable reads (node_readindex.go; Node.ReadIndex, ReadIndexLease   *)
(* of node.go): a leader answers a read with its commit index once a round *)
(* of heartbeats sent after the read arrived has been acknowledged by a    *)
(* commit quorum, or at once while it holds the lease the last such round  *)
(* gave it.                                                                *)
(*                                                                         *)
(* Replication and elections are as abstract as reads allow: a leader      *)
(* commits when a quorum is no further than its term, and whoever wins an  *)
(* election has every committed entry (Replication).  Time is a clock that *)
(* all nodes share but for how far a suspended node's monotonic clock has  *)
(* fallen behind it.  A message that is never delivered is lost.           *)
(***************************************************************************)
EXTENDS Integers, FiniteSets

CONSTANT Elections       \* the situations: voters, reads, timing and faults

VARIABLES rGiven,       \* the situation this behaviour is in
          now,          \* real time, which every wall clock shows
          lag,          \* node |-> how far its monotonic clock is behind
          role, term, votes,
          heard,        \* node |-> when its election timer was last reset
          commitIndex,
          rounds,       \* node |-> the leader's read state
          barriers,     \* read-barrier heartbeats, and their acknowledgements
          reads,        \* read |-> [at, node, floor, index]
          committed     \* history: the highest index whose commit was answered

rvars == <<rGiven, now, lag, role, term, votes, heard, commitIndex, rounds, barriers, reads, committed>>

Voters == rGiven.voters

Readers == rGiven.readers

\* commitQuorum and electionQuorum under the default policy.
IsQuorum(Q) == 2 * Cardinality(Q) > Cardinality(Voters)

Fresh == [gen |-> 0, inRound |-> FALSE, acks |-> {}, index |-> 0, pending |-> {}, waiting |-> {},
          nopCommitted |-> FALSE, sent |-> 0, sentMono |-> 0, base |-> 0, wallBase |-> 0, expiry |-> 0]

mono(n) == now - lag[n]

(***************************************************************************)
(* The event loop's read state.                                            *)
(***************************************************************************)
\* The send time is kept for the lease.  An acknowledgement of an earlier round says
\* nothing any more.
broadcastReadBarrier(rs, n, rd, net) ==
  /\ rounds' = [rs EXCEPT ![n] = [rd EXCEPT !.sent = now, !.sentMono = mono(n)]]
  /\ barriers' = {m \in net : ~(m.type = "ack" /\ m.to = n /\ m.gen # rd.gen)}
                   \cup {[type |-> "barrier", from |-> n, to |-> p, term |-> term[n], gen |-> rd.gen] :
                            p \in Voters \ {n}}

startReadBatch(rs, n, rd, i, net) ==
  broadcastReadBarrier(rs, n, [rd EXCEPT !.gen = @ + 1, !.inRound = TRUE, !.acks = {}, !.index = i], net)

Answered(rs, i) == [r \in Readers |-> IF r \in rs THEN [reads[r] EXCEPT !.at = "done", !.index = i] ELSE reads[r]]

Rejected(rs) == [r \in Readers |-> IF r \in rs THEN [reads[r] EXCEPT !.at = "failed"] ELSE reads[r]]

\* leaseBase carries a reading of both clocks; the expiry is on the monotonic one.
Leased(rd, wall, elapsed) ==
  [rd EXCEPT !.base = elapsed, !.wallBase = wall,
             !.expiry = elapsed + rGiven.electionTimeoutMin - rGiven.leaseSafetyMargin]


confirmReadBatch(n, rd, net) ==
  LET done == [Leased(rd, rd.sent, rd.sentMono) EXCEPT !.inRound = FALSE, !.acks = {}, !.pending = rd.waiting, !.waiting = {}]
  IN /\ reads' = Answered(rd.pending, rd.index)
     /\ IF rd.waiting = {} THEN rounds' = [rounds EXCEPT ![n] = done] /\ barriers' = net
        ELSE startReadBatch(rounds, n, done, commitIndex[n], net)

leaseClockJumped(wall, elapsed, margin) == wall - elapsed > margin

jumped(n) ==
  /\ rounds[n].expiry # 0 /\ mono(n) < rounds[n].expiry
  /\ rGiven.leaseSafetyMargin > 0
  /\ leaseClockJumped(now - rounds[n].wallBase, mono(n) - rounds[n].base, rGiven.leaseSafetyMargin)

leaseValid(n) == rounds[n].expiry # 0 /\ mono(n) < rounds[n].expiry /\ ~jumped(n)

(***************************************************************************)
(* A read.                                                                 *)
(***************************************************************************)
\* Node.ReadIndex, Node.ReadIndexLease: at the leader through its channel, elsewhere by
\* an RPC to whoever is taken for the leader, with the caller's term.
ReadIndex(r, n, l) ==
  /\ reads[r].at = "idle"
  /\ IF role[n] = "Leader" THEN l = n ELSE l # n /\ rGiven.forwards
  /\ \E lease \in {FALSE} \cup (IF rGiven.leases /\ l = n THEN {TRUE} ELSE {}) :
       reads' = [reads EXCEPT ![r] = [at |-> "asking", node |-> l, lease |-> lease, index |-> 0,
                                      term |-> IF l = n THEN 0 ELSE term[n], floor |-> committed]]
  /\ UNCHANGED <<rGiven, now, lag, role, term, votes, heard, commitIndex, rounds, barriers, committed>>

\* Mutant: a read that arrives during a round is answered by it.
joinRound(r, n, rd) ==
  /\ rounds' = [rounds EXCEPT ![n].pending = @ \cup {r}]
  /\ reads' = [reads EXCEPT ![r].at = "queued"]
  /\ UNCHANGED barriers

waitForNext(r, n, rd) ==
  /\ rounds' = [rounds EXCEPT ![n].waiting = @ \cup {r}]
  /\ reads' = [reads EXCEPT ![r].at = "queued"]
  /\ UNCHANGED barriers

\* A leader's steps of handleReadIndex, in order.
handleReadIndex(r, n) ==
  LET rd == rounds[n] ask == reads[r]
  IN \/ /\ ~rd.nopCommitted /\ ask.lease
        /\ reads' = Rejected({r})
        /\ UNCHANGED <<rounds, barriers>>
     \/ /\ ~rd.nopCommitted /\ ~ask.lease
        /\ rounds' = [rounds EXCEPT ![n].pending = @ \cup {r}]
        /\ reads' = [reads EXCEPT ![r].at = "queued"]
        /\ UNCHANGED barriers
     \/ /\ rd.nopCommitted /\ ask.lease
        /\ reads' = IF leaseValid(n) THEN Answered({r}, commitIndex[n]) ELSE Rejected({r})
        /\ rounds' = IF jumped(n) THEN [rounds EXCEPT ![n].expiry = 0] ELSE rounds
        /\ UNCHANGED barriers
     \/ rd.nopCommitted /\ ~ask.lease /\ rd.inRound /\ waitForNext(r, n, rd)
     \/ /\ rd.nopCommitted /\ ~ask.lease /\ ~rd.inRound
        /\ startReadBatch(rounds, n, [rd EXCEPT !.pending = @ \cup {r}], commitIndex[n], barriers)
        /\ reads' = [reads EXCEPT ![r].at = "queued"]

\* applyFollowerTransition: what waits is rejected and the lease is gone.
StepDown(ns) == [n \in Voters |-> IF n \in ns THEN [Fresh EXCEPT !.gen = rounds[n].gen] ELSE rounds[n]]

Waiting(ns) == UNION {rounds[n].pending \cup rounds[n].waiting : n \in ns}

\* handleReadIndexRPC: a newer term is stepped down to before anything else.
handleReadIndexRPC(r) ==
  LET n == reads[r].node
  IN /\ reads[r].at = "asking"
     /\ \/ /\ reads[r].term > term[n]
           /\ term' = [term EXCEPT ![n] = reads[r].term]
           /\ role' = [role EXCEPT ![n] = "Follower"]
           /\ heard' = [heard EXCEPT ![n] = now]
           /\ rounds' = StepDown({n})
           /\ reads' = Rejected({r} \cup Waiting({n}))
           /\ UNCHANGED barriers
        \/ /\ reads[r].term <= term[n] /\ role[n] # "Leader"
           /\ reads' = Rejected({r})
           /\ UNCHANGED <<term, role, heard, rounds, barriers>>
        \/ /\ reads[r].term <= term[n] /\ role[n] = "Leader"
           /\ handleReadIndex(r, n)
           /\ UNCHANGED <<term, role, heard>>
     /\ UNCHANGED <<rGiven, now, lag, votes, commitIndex, committed>>

(***************************************************************************)
(* The round.                                                              *)
(***************************************************************************)
\* A follower's handleAppendEntries resets its election timer and answers.
barrierArrives(m) ==
  LET p == m.to
  IN /\ m \in barriers /\ m.type = "barrier"
     /\ m.term >= term[p]
     /\ ~(role[p] = "Leader" /\ m.term = term[p])
     /\ barriers' = (barriers \ {m}) \cup {[type |-> "ack", from |-> p, to |-> m.from, term |-> m.term, gen |-> m.gen]}
     /\ term' = [term EXCEPT ![p] = m.term]
     /\ role' = [role EXCEPT ![p] = "Follower"]
     /\ heard' = [heard EXCEPT ![p] = now]
     /\ rounds' = StepDown({p})
     /\ reads' = Rejected(Waiting({p}))
     /\ UNCHANGED <<rGiven, now, lag, votes, commitIndex, committed>>

\* handleAppendResult: an acknowledgement of the round in the leader's own term counts.
ackArrives(m) ==
  LET n == m.to
      rd == [rounds[n] EXCEPT !.inRound = TRUE, !.acks = @ \cup {m.from}]
  IN /\ m \in barriers /\ m.type = "ack"
     /\ role[n] = "Leader" /\ m.term = term[n] /\ m.gen = rounds[n].gen
     /\ IF IsQuorum(rd.acks \cup {n})
        THEN confirmReadBatch(n, rd, barriers \ {m})
        ELSE rounds' = [rounds EXCEPT ![n] = rd] /\ barriers' = barriers \ {m} /\ UNCHANGED reads
     /\ UNCHANGED <<rGiven, now, lag, role, term, votes, heard, commitIndex, committed>>

\* The heartbeat tick sends an unanswered round again under its number.
resend(n) ==
  /\ rGiven.resends
  /\ role[n] = "Leader" /\ rounds[n].nopCommitted /\ rounds[n].pending # {}
  /\ rounds[n].sent < now
  /\ broadcastReadBarrier(rounds, n, rounds[n], barriers)
  /\ UNCHANGED <<rGiven, now, lag, role, term, votes, heard, commitIndex, reads, committed>>

(***************************************************************************)
(* What goes on around it.                                                 *)
(***************************************************************************)
\* A leader replicates an entry and commits it; its first is the no-op, which lets the
\* reads that waited for it begin their round.
maybeAdvanceCommit(n, Q) ==
  LET rd == [rounds[n] EXCEPT !.nopCommitted = TRUE]
      i == committed + 1
  IN /\ role[n] = "Leader" /\ n \in Q /\ IsQuorum(Q)
     /\ i <= rGiven.entries
     /\ \A q \in Q : term[q] <= term[n]
     /\ term' = [q \in Voters |-> IF q \in Q THEN term[n] ELSE term[q]]
     /\ role' = [q \in Voters |-> IF q \in Q \ {n} THEN "Follower" ELSE role[q]]
     /\ heard' = [q \in Voters |-> IF q \in Q \ {n} THEN now ELSE heard[q]]
     /\ committed' = i
     /\ commitIndex' = [commitIndex EXCEPT ![n] = i]
     /\ IF ~rounds[n].nopCommitted /\ rd.pending # {}
        THEN startReadBatch(StepDown(Q \ {n}), n, rd, i, barriers)
        ELSE rounds' = [StepDown(Q \ {n}) EXCEPT ![n] = rd] /\ UNCHANGED barriers
     /\ reads' = Rejected(Waiting(Q \ {n}))
     /\ UNCHANGED <<rGiven, now, lag, votes>>

Expired(n) == now - heard[n] >= rGiven.electionTimeoutMin

\* handleRequestVote of a pre-vote: the timer has run out and nobody leads here.
WouldVote(v, n) == v = n \/ (term[v] <= term[n] /\ role[v] # "Leader" /\ (role[v] = "Follower" => Expired(v)))

Lasts == rGiven.terms

Standing(n) ==
  /\ term[n] < Lasts
  /\ term' = [term EXCEPT ![n] = @ + 1]
  /\ role' = [role EXCEPT ![n] = "Candidate"]
  /\ votes' = [votes EXCEPT ![n] = {n}]
  /\ heard' = [heard EXCEPT ![n] = now]
  /\ UNCHANGED <<rGiven, now, lag, commitIndex, rounds, barriers, reads, committed>>

\* An election timer fires and a quorum answers the pre-vote.
triggerElection(n) ==
  /\ ~rGiven.prompt
  /\ role[n] # "Leader" /\ Expired(n)
  /\ IsQuorum({v \in Voters : WouldVote(v, n)})
  /\ Standing(n)

\* A leadership transfer: no timer, no pre-vote.
handleTimeoutNow(n) ==
  /\ rGiven.transfers
  /\ role[n] # "Leader"
  /\ \E l \in Voters : role[l] = "Leader" /\ term[l] = term[n]
  /\ Standing(n)

handleRequestVote(v, n) ==
  /\ role[n] = "Candidate" /\ term[v] < term[n]
  /\ term' = [term EXCEPT ![v] = term[n]]
  /\ role' = [role EXCEPT ![v] = "Follower"]
  /\ heard' = [heard EXCEPT ![v] = now]
  /\ votes' = [votes EXCEPT ![n] = @ \cup {v}]
  /\ rounds' = StepDown({v})
  /\ reads' = Rejected(Waiting({v}))
  /\ UNCHANGED <<rGiven, now, lag, commitIndex, barriers, committed>>

becomeLeader(n) ==
  /\ role[n] = "Candidate" /\ IsQuorum(votes[n])
  /\ role' = [role EXCEPT ![n] = "Leader"]
  /\ rounds' = [rounds EXCEPT ![n] = [Fresh EXCEPT !.gen = rounds[n].gen]]
  /\ UNCHANGED <<rGiven, now, lag, term, votes, heard, commitIndex, barriers, reads, committed>>

\* What the lease's argument takes an election for: a quorum whose timers have run out
\* elects one of its own before it hears from the old leader again.
promptElection(n, Q) ==
  /\ rGiven.prompt
  /\ term[n] < Lasts
  /\ n \in Q /\ IsQuorum(Q)
  /\ \A v \in Q : role[v] # "Leader" /\ Expired(v) /\ term[v] <= term[n]
  /\ term' = [v \in Voters |-> IF v \in Q THEN term[n] + 1 ELSE term[v]]
  /\ role' = [role EXCEPT ![n] = "Leader"]
  /\ heard' = [v \in Voters |-> IF v \in Q THEN now ELSE heard[v]]
  /\ votes' = [votes EXCEPT ![n] = Q]
  /\ rounds' = [rounds EXCEPT ![n] = [Fresh EXCEPT !.gen = rounds[n].gen]]
  /\ UNCHANGED <<rGiven, now, lag, commitIndex, barriers, reads, committed>>

\* Time passes, for a suspended node on its wall clock only.
Tick ==
  \E S \in (IF rGiven.suspends THEN {{}} \cup {{n} : n \in {m \in Voters : role[m] = "Leader"}} ELSE {{}}) :
    /\ now < rGiven.ticks
    /\ now' = now + 1
    /\ lag' = [n \in Voters |-> IF n \in S THEN lag[n] + 1 ELSE lag[n]]
    /\ UNCHANGED <<rGiven, role, term, votes, heard, commitIndex, rounds, barriers, reads, committed>>

\* Node 1 leads in term 1 and has committed its no-op.
RInit ==
  /\ rGiven \in Elections
  /\ now = 1
  /\ lag = [n \in rGiven.voters |-> 0]
  /\ role = [n \in rGiven.voters |-> IF n = 1 THEN "Leader" ELSE "Follower"]
  /\ term = [n \in rGiven.voters |-> 1]
  /\ votes = [n \in rGiven.voters |-> {}]
  /\ heard = [n \in rGiven.voters |-> 1]
  /\ commitIndex = [n \in rGiven.voters |-> IF n = 1 THEN 1 ELSE 0]
  /\ rounds = [n \in rGiven.voters |-> IF n = 1 THEN [Fresh EXCEPT !.nopCommitted = TRUE] ELSE Fresh]
  /\ barriers = {}
  /\ reads = [r \in rGiven.readers |-> [at |-> "idle", node |-> 1, lease |-> FALSE, index |-> 0, term |-> 0, floor |-> 0]]
  /\ committed = 1

RNext ==
  \/ \E r \in Readers : handleReadIndexRPC(r) \/ \E n, l \in Voters : ReadIndex(r, n, l)
  \/ \E m \in barriers : barrierArrives(m) \/ ackArrives(m)
  \/ \E n \in Voters : resend(n) \/ triggerElection(n) \/ handleTimeoutNow(n) \/ becomeLeader(n)
  \/ \E n, v \in Voters : handleRequestVote(v, n)
  \/ \E n \in Voters, Q \in SUBSET Voters : maybeAdvanceCommit(n, Q) \/ promptElection(n, Q)
  \/ Tick

RSpec == RInit /\ [][RNext]_rvars

(***************************************************************************)
(* Properties.                                                             *)
(***************************************************************************)
\* A read that returns sees every write whose commit was answered before it was asked
\* for, whatever elections, transfers and late acknowledgements come in between, and
\* wherever it was asked (Node.ReadIndex: "a linearizable snapshot").
ReadIsFresh == \A r \in Readers : reads[r].at = "done" => reads[r].index >= reads[r].floor


\* waitingReads "holds requests that arrived while a confirmation round was in flight"
\* (Node): whoever waits for the next round waits for one that some read is in, and
\* that the heartbeat therefore sends again until it is answered.
WaitingHasARound == \A n \in Voters : rounds[n].waiting # {} => rounds[n].pending # {}

=============================================================================
