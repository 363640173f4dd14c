-------------------------- MODULE ReplicationState --------------------------
(***************************************************************************)
(* The state of Replication: a node's durable state is an image [term,     *)
(* vote, log], in memory, on the disk and in the writes queued in between. *)
(***************************************************************************)
EXTENDS Integers, Sequences, FiniteSets, FiniteSetsExt, Functions, QuorumSizes

CONSTANTS
  Node,          \* the members of the group
  Voter,         \* the members that vote
  None,          \* "voted for nobody"
  Noop,          \* the command of the entry a new leader appends
  Command,       \* the commands clients may propose
  MaxTerm,       \* bound on the terms explored
  MaxLog,        \* bound on the entries of a log
  Situations     \* the configurations and surroundings to explore, by name

ASSUME ReplicationConstants ==
  /\ IsFiniteSet(Node)
  /\ Voter \subseteq Node /\ Cardinality(Voter) > 1
  /\ None \notin Node
  /\ MaxTerm \in Nat /\ MaxLog \in Nat
  /\ \A s \in Range(Situations) :
       /\ s.policy \in Nat        \* the commit-quorum policy, 0 for a majority
       /\ s.batch \in Nat \ {0}   \* MaxLogEntriesPerRPC
       /\ s.propose \subseteq Command  \* what clients propose
       /\ s.stands \in [1..MaxTerm -> SUBSET Voter]  \* who may stand in each term
       /\ s.hears \in [1..MaxTerm -> [{"RequestVote", "AppendEntries"} -> SUBSET Node]]
                                   \* who receives the requests of each term and type
       /\ s.ticking \subseteq 1..MaxTerm  \* terms whose leaders send periodic heartbeats
       /\ s.fast \subseteq Node   \* nodes whose writes complete before all else
       /\ s.pending \in Nat       \* bound on the writes pending on a node
       /\ s.crashes \in Nat       \* bound on the crashes of all nodes together

VARIABLES
  given,        \* the name of the situation, chosen at the start
  state,        \* [Node -> State]
  mem,          \* currentTerm, votedFor and the log, in memory
  disk,         \* the same on stable storage, as far as reported
  writes,       \* operations queued and not yet reported complete
  nextIndex,    \* of a leader, for each peer
  matchIndex,   \* of a leader, for each peer
  termStart,    \* of a leader, termStartIndex: its no-op
  commitIndex,  \* [Node -> Nat], in memory
  restarts,     \* which process of the node is running
  msgs,         \* every message ever sent
  committed     \* history: what some node considered committed, and since when

leaderVars == <<nextIndex, matchIndex, termStart>>
vars == <<given, state, mem, disk, writes, leaderVars, commitIndex, restarts, msgs, committed>>

State == {"Follower", "Candidate", "Leader"}
Entry == [term : 1..MaxTerm, val : Command \cup {Noop}]
Image == [term : 0..MaxTerm, vote : Node \cup {None}, log : Seq(Entry)]

situation == Situations[given]
currentTerm(n) == mem[n].term
log(n) == mem[n].log

-----------------------------------------------------------------------------
(* The log. *)

(* 0 stands for "not in the log". *)
termAt(l, i) == IF i \in 1..Len(l) THEN l[i].term ELSE 0

(* Where the run of entries sharing the term at i begins. *)
termRunStart(l, i) == Min({j \in 1..i : \A k \in j..i : l[k].term = l[i].term})

isUpToDate(l, lastIndex, lastTerm) ==
  LET ourTerm == termAt(l, Len(l)) IN
  \/ lastTerm > ourTerm
  \/ lastTerm = ourTerm /\ lastIndex >= Len(l)

(* l and k hold the same entries up to i. *)
SameTo(l, k, i) ==
  /\ i <= Len(l) /\ i <= Len(k)
  /\ SubSeq(l, 1, i) = SubSeq(k, 1, i)

(* The images the disk goes through if the node does not stop. *)
Ahead(w) == {w[i].image : i \in 1..Len(w)}

(* stableIndex: how much of the log l is on the disk d and stays there     *)
(* through every queued write of w.                                        *)
stableIndex(d, w, l) ==
  Max({i \in 0..Len(l) : \A im \in {d} \cup Ahead(w) : SameTo(im.log, l, i)})

(* writeSeqCovering: the queued write of w that puts entry i of l on disk. *)
writeSeqCovering(d, w, l, i) ==
  IF i <= stableIndex(d, w, l) THEN 0
  ELSE Min({k \in 1..Len(w) : \A j \in k..Len(w) : SameTo(w[j].image.log, l, i)})

(* sendGate(0): the last hard-state write of w. *)
termGate(w) == Max({0} \cup {k \in 1..Len(w) : w[k].kind = "HardState"})

(* How many entries of the batch the log l already holds. *)
Held(l, m) ==
  Max({k \in 0..Len(m.entries) : \A i \in 1..k : termAt(l, m.prev + i) = m.entries[i].term})

(* Mutant of Merged: the batch replaces the rest of the log. *)
MergedByReplacing(l, m) == SubSeq(l, 1, m.prev) \o m.entries

(* The log once the batch is in: what follows a conflict goes, what merely *)
(* follows the batch stays.                                                *)
Merged(l, m) ==
  LET k == Held(l, m) IN
  IF k = Len(m.entries) THEN l
  ELSE SubSeq(l, 1, m.prev + k) \o SubSeq(m.entries, k + 1, Len(m.entries))
=============================================================================
