------------------------------- MODULE Recovery -------------------------------
(***************************************************************************)
(* Recovery from the permanent loss of a quorum (recovery.go): one         *)
(* survivor's storage is inspected and rewritten so that the node restarts *)
(* as the only voter of a cluster of its own.  The operator may be stopped *)
(* by a crash between any two writes, and then starts over.                *)
(*                                                                         *)
(* A disk holds a hard-state term, a snapshot's index, term and membership,*)
(* the log's entries by index, and the commit index a CommitRecorder keeps.*)
(* How far the lost cluster had really committed is history that no disk   *)
(* holds.  A membership is a function from a node to whether it votes.     *)
(***************************************************************************)
EXTENDS Integers, FiniteSets, TLC

CONSTANTS Self,        \* the survivor
          Disks,       \* the storages it may be left with
          Memberships, \* what an operator may ask for
          Crashes      \* how often recovery may be cut short

VARIABLES disk,
          lost,        \* history: what was committed, the log before recovery, what was proved of it
          recovery,    \* the running RecoverCluster: its options, its plan and how far it is
          crashed

dvars == <<disk, lost, recovery, crashed>>

Larger(a, b) == IF a > b THEN a ELSE b

Smaller(a, b) == IF a < b THEN a ELSE b

MaxOf(S) == CHOOSE x \in S : \A y \in S : y <= x

LastIndex(d) == IF DOMAIN d.log = {} THEN 0 ELSE MaxOf(DOMAIN d.log)

(***************************************************************************)
(* Membership, as the entries of a log record it.                          *)
(***************************************************************************)
Stable(ms) == [joint |-> FALSE, members |-> ms, old |-> <<>>, new |-> <<>>]

upsertPeer(peers, p) == p @@ peers

removePeer(peers, p) == [q \in DOMAIN peers \ DOMAIN p |-> peers[q]]

finalise(ms, peers) == Stable(peers)

adoptMembershipEntry(ms, e) ==
  CASE e.op = "none" -> ms
    [] e.op = "add" -> IF ms.joint THEN [ms EXCEPT !.old = upsertPeer(@, e.peers), !.new = upsertPeer(@, e.peers)]
                       ELSE [ms EXCEPT !.members = upsertPeer(@, e.peers)]
    [] e.op = "remove" -> IF ms.joint THEN [ms EXCEPT !.old = removePeer(@, e.peers), !.new = removePeer(@, e.peers)]
                          ELSE [ms EXCEPT !.members = removePeer(@, e.peers)]
    [] e.op = "joint" -> [joint |-> TRUE, members |-> <<>>, new |-> e.peers,
                          old |-> IF ms.joint THEN ms.old ELSE ms.members]
    [] e.op = "finalise" -> finalise(ms, e.peers)

\* The snapshot's membership, advanced by every configuration entry of the log.
replayConfigEntries(d) ==
  LET upTo[i \in 0..LastIndex(d)] ==
        IF i \notin DOMAIN d.log THEN d.snap.membership ELSE adoptMembershipEntry(upTo[i - 1], d.log[i])
  IN upTo[LastIndex(d)]

MembersComplete(d) == d.snap.hasMembership \/ \E i \in DOMAIN d.log : d.log[i].op = "finalise"

(***************************************************************************)
(* InspectStorage.                                                         *)
(***************************************************************************)
\* A snapshot holds what was applied; a recorded commit index counts as far as the log
\* goes.
KnownCommittedIndex(d, last) == Smaller(Larger(d.snap.index, d.recorded), last)

InspectStorage(d) ==
  LET none == DOMAIN d.log = {}
      ms == replayConfigEntries(d)
      last == IF none THEN d.snap.index ELSE LastIndex(d)
  IN [Term |-> d.term,
      LastIndex |-> last,
      LastTerm |-> IF none THEN d.snap.term ELSE d.log[last].term,
      KnownCommittedIndex |-> KnownCommittedIndex(d, last),
      Members |-> IF ms.joint THEN ms.old ELSE ms.members,
      JointMembers |-> ms.new,
      MembersComplete |-> MembersComplete(d)]

(***************************************************************************)
(* RecoverCluster.                                                         *)
(***************************************************************************)
validateRecoveryMembers(members) ==
  /\ Self \in DOMAIN members /\ members[Self]
  /\ Cardinality({p \in DOMAIN members : members[p]}) = 1

Idle == [at |-> "idle"]

Refused == [at |-> "refused"]

floorOf(info, known) == Larger(info.KnownCommittedIndex, known)

\* A term above everything the node has seen, in the log too.
nextTerm(info) == Larger(info.Term, info.LastTerm) + 1

\* Mutant: the entry is written before the hard state.
planEntryFirst(info, members, known, discard) ==
  [at |-> "append", members |-> members, discard |-> discard, truncate |-> FALSE, Term |-> nextTerm(info),
   KnownCommittedIndex |-> floorOf(info, known), Index |-> 1 + info.LastIndex]

\* What is decided before the first write, from what the disk says now.
Plan(info, members, known, discard) ==
  [at |-> "save", members |-> members, discard |-> discard,
   truncate |-> discard /\ info.LastIndex > floorOf(info, known), Term |-> nextTerm(info),
   KnownCommittedIndex |-> floorOf(info, known),
   Index |-> 1 + IF discard THEN floorOf(info, known) ELSE info.LastIndex]

\* WithKnownCommitted is what the state machine can prove: how far it applied, or nothing.
RecoverCluster(members, known, discard) ==
  LET info == InspectStorage(disk)
  IN /\ recovery.at = "idle"
     /\ recovery' =
          IF \/ ~validateRecoveryMembers(members)
             \/ floorOf(info, known) > info.LastIndex
             \/ discard /\ floorOf(info, known) = 0 /\ info.LastIndex > 0
          THEN Refused ELSE Plan(info, members, known, discard)
     /\ UNCHANGED <<disk, lost, crashed>>

Next_(at) == recovery' = [recovery EXCEPT !.at = at]

saveHardState ==
  /\ recovery.at = "save"
  /\ disk' = [disk EXCEPT !.term = recovery.Term]
  /\ Next_(IF recovery.truncate THEN "truncate" ELSE "append")
  /\ UNCHANGED <<lost, crashed>>

\* Mutant: the cut is one entry too deep.
cutAtFloor(log) == [i \in {j \in DOMAIN log : j < recovery.KnownCommittedIndex} |-> log[i]]

truncateSuffix(log) == [i \in {j \in DOMAIN log : j <= recovery.KnownCommittedIndex} |-> log[i]]

discardUncommitted ==
  /\ recovery.at = "truncate"
  /\ disk' = [disk EXCEPT !.log = truncateSuffix(@)]
  /\ Next_("append")
  /\ UNCHANGED <<lost, crashed>>

membershipEntry == [term |-> recovery.Term, op |-> "finalise", peers |-> recovery.members]

putEntry(log, i, e) == [j \in DOMAIN log \cup {i} |-> IF j = i THEN e ELSE log[j]]

appendMembershipEntry ==
  /\ recovery.at = "append"
  /\ disk' = [disk EXCEPT !.log = putEntry(@, recovery.Index, membershipEntry)]
  /\ Next_("done")
  /\ UNCHANGED <<lost, crashed>>

\* The machine goes down, a write fails, or the report is lost: the operator begins
\* again, perhaps differently.
crash ==
  /\ recovery.at \in {"save", "truncate", "append", "done"}
  /\ crashed < Crashes
  /\ crashed' = crashed + 1
  /\ recovery' = Idle
  /\ UNCHANGED <<disk, lost>>

\* What a node may leave behind: consecutive entries that begin no later than behind the
\* snapshot, none of them in a term the node had not reached.
WellFormed(d) ==
  /\ {"term", "snap", "log", "recorded"} \subseteq DOMAIN d
  /\ d.term \in Nat /\ d.recorded \in Nat /\ d.snap.index \in Nat /\ d.snap.term \in 0..d.term
  /\ \/ DOMAIN d.log = {}
     \/ \E from \in 1..(d.snap.index + 1), to \in DOMAIN d.log : to \in Nat /\ DOMAIN d.log = from..to
  /\ \A i \in DOMAIN d.log : d.log[i].term \in 0..d.term

DisksAreWellFormed == \A d \in Disks : WellFormed(d)

\* The survivor's disk holds what was committed, as far as its log goes.
DInit ==
  /\ disk \in Disks
  /\ \E c \in Larger(disk.snap.index, disk.recorded)..Larger(disk.snap.index, LastIndex(disk)) : \E applied \in 0..c :
       lost = [committed |-> c, log |-> disk.log, recorded |-> disk.recorded, proved |-> applied]
  /\ recovery = Idle
  /\ crashed = 0

DNext ==
  \/ \E members \in Memberships, discard \in BOOLEAN : RecoverCluster(members, lost.proved, discard)
  \/ saveHardState \/ discardUncommitted \/ appendMembershipEntry \/ crash

DSpec == DInit /\ [][DNext]_dvars

(***************************************************************************)
(* Properties.                                                             *)
(***************************************************************************)
\* A recovered node restarts as the only voter of exactly the membership asked for,
\* however its log ended and however often recovery was cut short (RecoverCluster).
RecoveredAlone ==
  recovery.at = "done" =>
    /\ replayConfigEntries(disk) = Stable(recovery.members)
    /\ {p \in DOMAIN recovery.members : recovery.members[p]} = {Self}

\* The entry a recovery ends with is the log's last and newer than anything the lost
\* cluster wrote here: it "is the last word on the cluster's membership" (RecoverCluster).
LastWord ==
  recovery.at = "done" =>
    /\ disk.log[LastIndex(disk)] = membershipEntry
    /\ \A i \in DOMAIN lost.log : lost.log[i].term < recovery.Term

\* "A crash between the two writes must not leave a log holding an entry from a term
\* the node does not believe it reached" (RecoverCluster).
TermBeforeEntry == \A i \in DOMAIN disk.log : disk.log[i].term <= disk.term

\* Whatever the disk or the state machine proves committed is kept, and the log stays
\* without a hole from the snapshot on, at every point recovery may be cut short.
KeepsTheProven ==
  /\ \A i \in DOMAIN lost.log : i <= Larger(lost.recorded, lost.proved) => i \in DOMAIN disk.log /\ disk.log[i] = lost.log[i]
  /\ DOMAIN disk.log # {} => \A i \in (disk.snap.index + 1)..LastIndex(disk) : i \in DOMAIN disk.log

\* "With this option nothing uncommitted is ever promoted" (DiscardUncommitted): what
\* the recovered log holds, but for what recovery wrote, had been committed.
NothingInvented ==
  recovery.at = "done" /\ recovery.discard =>
    \A i \in DOMAIN disk.log : i <= lost.committed \/ i = recovery.Index

=============================================================================
