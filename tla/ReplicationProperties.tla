----------------------- MODULE ReplicationProperties ------------------------
(***************************************************************************)
(* What Replication promises: its type, the safety of what is counted and  *)
(* committed, and that followers catch up.                                 *)
(***************************************************************************)
EXTENDS Replication

(* Every variable has its type. *)
TypeOK ==
  /\ state \in [Node -> State]
  /\ mem \in [Node -> Image] /\ disk \in [Node -> Image]
  /\ \A n \in Node, i \in 1..situation.pending :
       i \in DOMAIN writes[n] => writes[n][i].image \in Image
  /\ \A f \in {nextIndex, matchIndex} : f \in [Node -> [Node -> 0..MaxLog+1]]
  /\ termStart \in [Node -> 0..MaxLog]
  /\ \A n \in Node : commitIndex[n] \in 0..Len(log(n))
  /\ restarts \in [Node -> 0..situation.crashes]

(* The logs that exist anywhere: in memory, on disk or on the way there. *)
Logs == UNION {{im.log : im \in {mem[n], disk[n]} \cup Ahead(writes[n])} : n \in Node}

(* Log Matching (siminvariant_test.go): two logs, in memory or on disk,    *)
(* that hold an entry with the same index and term are identical in every  *)
(* preceding entry, whatever handleAppendEntries merged and truncated.     *)
LogMatching ==
  \A k, l \in Logs : \A i \in 1..Min({Len(k), Len(l)}) :
    k[i].term = l[i].term => SameTo(k, l, i)

(* Leader Completeness (siminvariant_test.go): an entry that               *)
(* maybeAdvanceCommit let commit in some term is in the log of every       *)
(* leader of every later term.                                             *)
LeaderCompleteness ==
  \A n \in Node, c \in committed :
    state[n] = "Leader" /\ c.term < currentTerm(n) =>
      c.index <= Len(log(n)) /\ log(n)[c.index] = c.entry

(* State Machine Safety (siminvariant_test.go): no two nodes ever consider *)
(* different entries committed at the same index, across leaders, crashes  *)
(* and the commit index handleAppendEntries takes from a request.          *)
StateMachineSafety ==
  \A c, d \in committed : c.index = d.index => c.entry = d.entry

(* What handleAppendResult records in matchIndex is true of the peer: while *)
(* the peer has not moved to a newer term, its disk holds the leader's own *)
(* entries up to there, through crashes of the peer and writes it queues.  *)
MatchIndexHonest ==
  \A n, p \in Node :
    state[n] = "Leader" /\ currentTerm(p) <= currentTerm(n) =>
      \A im \in {disk[p]} \cup Ahead(writes[p]) : SameTo(im.log, log(n), matchIndex[n][p])

(* A committed entry is on the disks of a commit quorum and stays there:   *)
(* no crash, truncation or queued write takes it off again (SetCommitQuorum *)
(* in quorum.go: "no acknowledged write is ever on fewer than that many    *)
(* disks").                                                                *)
CommittedIsDurable ==
  \A c \in committed :
    Cardinality({p \in Voter : \A im \in {disk[p]} \cup Ahead(writes[p]) :
                   c.index <= Len(im.log) /\ im.log[c.index] = c.entry})
      >= commitQuorumFor(situation.policy, Cardinality(Voter))

(* What a leader counts is on disk: in its matchIndex for a follower, and  *)
(* as committed on a commit quorum, whatever writes are still queued       *)
(* (handleAppendEntries' replyWhenDurable, replicatedOnMajority).          *)
CountedIsDurable == MatchIndexHonest /\ CommittedIsDurable

(* What is committed is agreed on: no two nodes commit different entries   *)
(* at one index, and every later leader has what was committed before it   *)
(* (maybeAdvanceCommit, electionWon, isUpToDate).                          *)
CommittedIsAgreed == TypeOK /\ StateMachineSafety /\ LeaderCompleteness

(* A running node never takes back what it considered committed: its       *)
(* commit index does not decrease and the entries below it do not change   *)
(* (setCommitIndex, truncateSuffix), so what was applied stays valid.      *)
CommittedPrefixIsFinal ==
  [][\A n \in Node : restarts'[n] = restarts[n] =>
       /\ commitIndex'[n] >= commitIndex[n]
       /\ SameTo(mem'[n].log, log(n), commitIndex[n])]_vars

(* A leader that stays leader brings every node it reaches to its own log, *)
(* whatever they held, and commits all of it there: handleAppendResult     *)
(* neither stops retrying nor moves nextIndex back and forth for ever, and *)
(* no acknowledgement is held back for ever.                               *)
FollowersCatchUp ==
  \A g \in DOMAIN Situations : \A t \in Situations[g].ticking : \A n \in Situations[g].stands[t] :
    given = g /\ <>[](state[n] = "Leader" /\ currentTerm(n) = t) =>
      <>[](\A p \in Situations[g].hears[t]["AppendEntries"] \cup {n} :
             log(p) = log(n) /\ commitIndex[p] = Len(log(n)))
=============================================================================
