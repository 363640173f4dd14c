--------------------------- MODULE RecoveryProofs ---------------------------
(***************************************************************************)
(* Recovery (recovery.go), for any storage a node may leave behind, any    *)
(* membership an operator asks for and any number of crashes: an entry     *)
(* never precedes its term, what is proved committed is kept, nothing else *)
(* is kept that was to be discarded, and the entry written last is the     *)
(* last word.                                                              *)
(*                                                                         *)
(* The invariant says of a plan under way what it was made for: the log as *)
(* it is, or as the pending cut will leave it, ends just before the entry  *)
(* to be written, and the cut spares what is proved.                       *)
(***************************************************************************)
EXTENDS Recovery, TLAPS

Proven == Larger(lost.recorded, lost.proved)

Running == {"save", "truncate", "append"}

(* The uncommitted entries are still to be cut off. *)
Cutting == recovery.at = "truncate" \/ (recovery.at = "save" /\ recovery.truncate)

(* What the history says, and what no write of recovery changes. *)
HistoryOK ==
  /\ lost.recorded \in Nat /\ lost.proved \in Nat /\ lost.committed \in Nat
  /\ disk.recorded = lost.recorded
  /\ disk.snap.index <= lost.committed /\ Proven <= lost.committed
  /\ \A i \in DOMAIN lost.log : i \in Nat /\ lost.log[i].term \in 0..disk.term
  /\ \A i \in DOMAIN lost.log : i <= Proven => i \in DOMAIN disk.log /\ disk.log[i] = lost.log[i]

(* The plan, whatever it still has to write. *)
PlanOK ==
  /\ {"at", "members", "discard", "truncate", "Term", "KnownCommittedIndex", "Index"} \subseteq DOMAIN recovery
  /\ recovery.truncate \in BOOLEAN
  /\ recovery.Term \in Nat /\ recovery.KnownCommittedIndex \in Nat /\ recovery.Index \in Nat
  /\ validateRecoveryMembers(recovery.members)
  /\ IF recovery.at = "save" THEN recovery.Term > disk.term ELSE recovery.Term = disk.term
  /\ \A i \in DOMAIN lost.log : lost.log[i].term < recovery.Term
  /\ recovery.discard => recovery.Index <= lost.committed + 1

(* Where the log ends while the plan runs. *)
EndOK ==
  \E from \in 1..(disk.snap.index + 1), to \in Nat :
    /\ DOMAIN disk.log = from..to
    /\ IF Cutting
       THEN /\ recovery.KnownCommittedIndex < to
            /\ from <= recovery.Index /\ recovery.Index = recovery.KnownCommittedIndex + 1
            /\ \A i \in DOMAIN lost.log : i <= Proven => i <= recovery.KnownCommittedIndex
       ELSE from <= to + 1 /\ recovery.Index = to + 1

DoneOK ==
  /\ \E from \in 1..(disk.snap.index + 1) : from <= recovery.Index /\ DOMAIN disk.log = from..recovery.Index
  /\ disk.log[recovery.Index] = membershipEntry

RecoveryInv ==
  /\ WellFormed(disk)
  /\ HistoryOK
  /\ recovery.at \in Running \cup {"idle", "refused", "done"}
  /\ recovery.at \in Running \cup {"done"} => PlanOK
  /\ recovery.at \in Running => EndOK
  /\ recovery.at = "done" => DoneOK

-----------------------------------------------------------------------------
(* What the inspection of a disk finds. *)

LEMMA LastIndexOfRange ==
  ASSUME NEW d, NEW from \in Nat, NEW to \in Nat, DOMAIN d.log = from..to, from <= to
  PROVE  LastIndex(d) = to
<1>1. to \in from..to /\ \A y \in from..to : y <= to
  OBVIOUS
<1>2. MaxOf(from..to) = to
  <2>1. MaxOf(from..to) \in from..to /\ \A y \in from..to : y <= MaxOf(from..to)
    BY <1>1 DEF MaxOf
  <2>2. QED BY <1>1, <2>1
<1>3. QED BY <1>1, <1>2 DEF LastIndex

(* A log without entries is an empty range, and ranges are well-formed.    *)
LEMMA LogIsRange ==
  ASSUME NEW d, WellFormed(d)
  PROVE  \E from \in 1..(d.snap.index + 1), to \in Nat : DOMAIN d.log = from..to
<1>1. d.snap.index \in Nat
  BY DEF WellFormed
<1>2. CASE DOMAIN d.log = {}
  <2>1. DOMAIN d.log = 1..0 /\ 1 \in 1..(d.snap.index + 1) /\ 0 \in Nat
    BY <1>1, <1>2
  <2>2. QED BY <2>1
<1>3. CASE DOMAIN d.log # {}
  BY <1>3, Zenon DEF WellFormed
<1>4. QED BY <1>2, <1>3

LEMMA RangeIsLog ==
  ASSUME NEW d, d.snap.index \in Nat, NEW from \in 1..(d.snap.index + 1), NEW to \in Nat,
         DOMAIN d.log = from..to
  PROVE  \/ DOMAIN d.log = {}
         \/ \E lo \in 1..(d.snap.index + 1), hi \in DOMAIN d.log : hi \in Nat /\ DOMAIN d.log = lo..hi
<1>1. from..to # {} => to \in from..to
  OBVIOUS
<1>2. QED BY <1>1, Zenon

(* The log ends at the index InspectStorage reports, an empty one with the *)
(* snapshot; the last term is one the node has reached.                    *)
LEMMA Inspected ==
  ASSUME WellFormed(disk)
  PROVE  /\ \E from \in 1..(disk.snap.index + 1) :
              /\ DOMAIN disk.log = from..InspectStorage(disk).LastIndex
              /\ from <= InspectStorage(disk).LastIndex + 1
              /\ DOMAIN disk.log = {} => InspectStorage(disk).LastIndex = disk.snap.index
         /\ InspectStorage(disk).LastIndex \in Nat
         /\ InspectStorage(disk).LastTerm \in 0..disk.term
         /\ InspectStorage(disk).Term = disk.term
         /\ InspectStorage(disk).KnownCommittedIndex =
              Smaller(Larger(disk.snap.index, disk.recorded), InspectStorage(disk).LastIndex)
<1> DEFINE info == InspectStorage(disk)
<1>1. PICK from \in 1..(disk.snap.index + 1), to \in Nat : DOMAIN disk.log = from..to
  BY LogIsRange
<1>2. disk.snap.index \in Nat /\ disk.term \in Nat /\ disk.snap.term \in 0..disk.term
  BY DEF WellFormed
<1>3. /\ info.Term = disk.term
      /\ info.LastIndex = IF DOMAIN disk.log = {} THEN disk.snap.index ELSE LastIndex(disk)
      /\ info.LastTerm = IF DOMAIN disk.log = {} THEN disk.snap.term ELSE disk.log[info.LastIndex].term
      /\ info.KnownCommittedIndex = Smaller(Larger(disk.snap.index, disk.recorded), info.LastIndex)
  BY DEF InspectStorage, KnownCommittedIndex
<1>4. CASE DOMAIN disk.log = {}
  <2>1. info.LastIndex = disk.snap.index /\ info.LastTerm = disk.snap.term
    BY <1>3, <1>4
  <2>2. DOMAIN disk.log = (disk.snap.index + 1)..disk.snap.index
    BY <1>2, <1>4
  <2>3. disk.snap.index + 1 \in 1..(disk.snap.index + 1)
    BY <1>2
  <2>4. QED BY <1>2, <1>3, <2>1, <2>2, <2>3
<1>5. CASE DOMAIN disk.log # {}
  <2>1. from <= to /\ from \in Nat
    BY <1>1, <1>2, <1>5
  <2>2. info.LastIndex = to
    BY <1>1, <1>3, <1>5, <2>1, LastIndexOfRange
  <2>3. info.LastTerm \in 0..disk.term
    BY <1>1, <1>3, <1>5, <2>1, <2>2 DEF WellFormed
  <2>4. to \in Nat /\ from <= to + 1
    BY <2>1
  <2>5. QED BY <1>1, <1>3, <1>5, <2>2, <2>3, <2>4, Zenon
<1>6. QED BY <1>4, <1>5

-----------------------------------------------------------------------------
(* RecoveryInv is inductive. *)

(* The survivor's disk as it was left. *)
LEMMA InitOK ==
  ASSUME DisksAreWellFormed, DInit
  PROVE  RecoveryInv
<1>1. WellFormed(disk)
  BY DEF DInit, DisksAreWellFormed
<1>2. PICK c \in Larger(disk.snap.index, disk.recorded)..Larger(disk.snap.index, LastIndex(disk)) :
        \E applied \in 0..c :
          lost = [committed |-> c, log |-> disk.log, recorded |-> disk.recorded, proved |-> applied]
  BY DEF DInit
<1>3. PICK applied \in 0..c :
        lost = [committed |-> c, log |-> disk.log, recorded |-> disk.recorded, proved |-> applied]
  BY <1>2
<1>4. disk.snap.index \in Nat /\ disk.recorded \in Nat /\ disk.term \in Nat
  BY <1>1 DEF WellFormed
<1>5. c \in Nat /\ disk.snap.index <= c /\ disk.recorded <= c
  BY <1>4 DEF Larger
<1>6. \A i \in DOMAIN disk.log : i \in Nat /\ disk.log[i].term \in 0..disk.term
  BY <1>1 DEF WellFormed
<1>7. HistoryOK
  BY <1>3, <1>4, <1>5, <1>6 DEF HistoryOK, Proven, Larger
<1>8. recovery.at = "idle"
  BY DEF DInit, Idle
<1>9. QED BY <1>1, <1>7, <1>8 DEF RecoveryInv, Running

(* A recovery begins: it is refused, or its plan fits the disk. *)
LEMMA PlanStep ==
  ASSUME RecoveryInv, NEW members, NEW discard \in BOOLEAN,
         RecoverCluster(members, lost.proved, discard)
  PROVE  RecoveryInv'
<1> DEFINE info == InspectStorage(disk)
           floor == floorOf(info, lost.proved)
           plan == Plan(info, members, lost.proved, discard)
<1>1. disk' = disk /\ lost' = lost
  BY DEF RecoverCluster
<1>2. WellFormed(disk)' /\ HistoryOK'
  BY <1>1 DEF RecoveryInv, WellFormed, HistoryOK, Proven
<1>3. CASE recovery' = Refused
  BY <1>2, <1>3 DEF RecoveryInv, Running, Refused
<1>4. CASE recovery' # Refused
  <2>1. /\ validateRecoveryMembers(members)
        /\ ~(floor > info.LastIndex)
        /\ recovery' = plan
    BY <1>4 DEF RecoverCluster
  <2>2. PICK from \in 1..(disk.snap.index + 1) :
          /\ DOMAIN disk.log = from..info.LastIndex
          /\ from <= info.LastIndex + 1
          /\ DOMAIN disk.log = {} => info.LastIndex = disk.snap.index
    BY Inspected DEF RecoveryInv
  <2>3. /\ info.LastIndex \in Nat /\ info.LastTerm \in 0..disk.term /\ info.Term = disk.term
        /\ info.KnownCommittedIndex = Smaller(Larger(disk.snap.index, disk.recorded), info.LastIndex)
    BY Inspected DEF RecoveryInv
  <2>4. /\ disk.snap.index \in Nat /\ disk.recorded \in Nat /\ disk.term \in Nat
        /\ lost.proved \in Nat /\ lost.committed \in Nat /\ disk.recorded = lost.recorded
        /\ disk.snap.index <= lost.committed /\ lost.recorded <= lost.committed /\ lost.proved <= lost.committed
    BY DEF RecoveryInv, WellFormed, HistoryOK, Proven, Larger
  <2>5. /\ floor \in Nat /\ floor <= info.LastIndex /\ floor <= lost.committed
        /\ lost.proved <= floor
        /\ disk.snap.index <= floor \/ info.LastIndex <= floor
        /\ lost.recorded <= floor \/ info.LastIndex <= floor
    BY <2>1, <2>3, <2>4 DEF floorOf, Smaller, Larger
  <2>6. /\ plan.at = "save" /\ plan.members = members /\ plan.discard = discard
        /\ plan.truncate = (discard /\ info.LastIndex > floor)
        /\ plan.Term = nextTerm(info) /\ plan.KnownCommittedIndex = floor
        /\ plan.Index = 1 + IF discard THEN floor ELSE info.LastIndex
        /\ {"at", "members", "discard", "truncate", "Term", "KnownCommittedIndex", "Index"} \subseteq DOMAIN plan
    BY DEF Plan
  <2>7. nextTerm(info) \in Nat /\ nextTerm(info) > disk.term
    BY <2>3, <2>4 DEF nextTerm, Larger
  <2>8. PlanOK'
    <3>1. \A i \in DOMAIN lost.log : lost.log[i].term < nextTerm(info)
      BY <2>4, <2>7 DEF RecoveryInv, HistoryOK
    <3>2. plan.Index \in Nat /\ (discard => plan.Index <= lost.committed + 1)
      BY <2>3, <2>4, <2>5, <2>6
    <3>3. plan.truncate \in BOOLEAN
      BY <2>6
    <3>4. QED BY <1>1, <2>1, <2>5, <2>6, <2>7, <3>1, <3>2, <3>3 DEF PlanOK, validateRecoveryMembers
  <2>9. EndOK'
    <3>1. \A i \in DOMAIN lost.log : i <= Proven => i \in Nat /\ i <= floor
      <4>1. TAKE i \in DOMAIN lost.log
      <4>2. HAVE i <= Proven
      <4>3. i \in Nat /\ i \in from..info.LastIndex /\ (i <= lost.recorded \/ i <= lost.proved)
        BY <2>2, <2>4, <4>2 DEF RecoveryInv, HistoryOK, Proven, Larger
      <4>4. QED BY <2>3, <2>4, <2>5, <4>3
    <3>2. CASE discard /\ info.LastIndex > floor
      <4>1. from <= floor + 1
        BY <2>2, <2>3, <2>4, <2>5, <3>2
      <4>2. recovery'.truncate /\ recovery'.at = "save"
        BY <2>1, <2>6, <3>2, Zenon
      <4>3. Cutting'
        BY <4>2, Zenon DEF Cutting
      <4>4. recovery'.Index = floor + 1 /\ recovery'.KnownCommittedIndex = floor
        BY <2>1, <2>5, <2>6, <3>2
      <4>5. floor < info.LastIndex
        BY <2>3, <2>5, <3>2
      <4>6. QED BY <1>1, <2>2, <2>3, <3>1, <4>1, <4>3, <4>4, <4>5 DEF EndOK, Proven
    <3>3. CASE ~(discard /\ info.LastIndex > floor)
      <4>1. ~recovery'.truncate /\ recovery'.at = "save"
        BY <2>1, <2>6, <3>3, Zenon
      <4>2. recovery'.Index = info.LastIndex + 1
        BY <2>1, <2>3, <2>5, <2>6, <3>3
      <4>3. QED BY <1>1, <2>2, <2>3, <4>1, <4>2 DEF EndOK, Cutting
    <3>4. QED BY <3>2, <3>3
  <2>10. QED BY <1>2, <2>1, <2>6, <2>8, <2>9 DEF RecoveryInv, Running
<1>5. QED BY <1>3, <1>4

(* The term comes first, and is above every entry's. *)
LEMMA SaveStep ==
  ASSUME RecoveryInv, saveHardState
  PROVE  RecoveryInv'
<1>1. /\ recovery.at = "save" /\ lost' = lost
      /\ disk' = [disk EXCEPT !.term = recovery.Term]
      /\ recovery' = [recovery EXCEPT !.at = IF recovery.truncate THEN "truncate" ELSE "append"]
  BY DEF saveHardState, Next_
<1>2. WellFormed(disk) /\ HistoryOK /\ PlanOK /\ EndOK
  BY <1>1 DEF RecoveryInv, Running
<1>3. /\ disk'.term = recovery.Term /\ disk'.log = disk.log /\ disk'.snap = disk.snap
      /\ disk'.recorded = disk.recorded /\ DOMAIN disk' = DOMAIN disk
  BY <1>1, <1>2 DEF WellFormed
<1>4. /\ DOMAIN recovery' = DOMAIN recovery
      /\ recovery'.at = IF recovery.truncate THEN "truncate" ELSE "append"
      /\ recovery'.members = recovery.members /\ recovery'.discard = recovery.discard
      /\ recovery'.truncate = recovery.truncate /\ recovery'.Term = recovery.Term
      /\ recovery'.KnownCommittedIndex = recovery.KnownCommittedIndex /\ recovery'.Index = recovery.Index
  BY <1>1, <1>2 DEF PlanOK
<1>5. disk.term \in Nat /\ recovery.Term \in Nat /\ disk.term < recovery.Term
  BY <1>1, <1>2 DEF WellFormed, PlanOK
<1>6. \A x : x \in 0..disk.term => x \in 0..recovery.Term
  BY <1>5
<1>7. WellFormed(disk)'
  BY <1>2, <1>3, <1>5, <1>6 DEF WellFormed
<1>8. HistoryOK'
  BY <1>1, <1>2, <1>3, <1>6 DEF HistoryOK, Proven
<1>9. PlanOK'
  BY <1>1, <1>2, <1>3, <1>4 DEF PlanOK, validateRecoveryMembers
<1>10. recovery'.at \in {"truncate", "append"}
  BY <1>4
<1>11. Cutting' <=> Cutting
  <2>1. CASE recovery.truncate
    BY <1>1, <1>4, <2>1, Zenon DEF Cutting
  <2>2. CASE ~recovery.truncate
    <3>1. recovery'.at = "append" /\ "append" # "truncate" /\ "append" # "save" /\ "save" # "truncate"
      BY <1>4, <2>2
    <3>2. QED BY <1>1, <2>2, <3>1, Zenon DEF Cutting
  <2>3. QED BY <2>1, <2>2
<1>12. EndOK'
  BY <1>1, <1>2, <1>3, <1>4, <1>11 DEF EndOK, Proven
<1>13. QED BY <1>7, <1>8, <1>9, <1>10, <1>12 DEF RecoveryInv, Running

(* The cut spares what is proved, and leaves the log ending before Index. *)
LEMMA CutStep ==
  ASSUME RecoveryInv, discardUncommitted
  PROVE  RecoveryInv'
<1> DEFINE kept == {j \in DOMAIN disk.log : j <= recovery.KnownCommittedIndex}
<1>1. /\ recovery.at = "truncate" /\ lost' = lost
      /\ disk' = [disk EXCEPT !.log = [i \in kept |-> disk.log[i]]]
      /\ recovery' = [recovery EXCEPT !.at = "append"]
  BY DEF discardUncommitted, Next_, truncateSuffix
<1>2. WellFormed(disk) /\ HistoryOK /\ PlanOK /\ EndOK /\ Cutting
  BY <1>1 DEF RecoveryInv, Running, Cutting
<1>3. /\ disk'.term = disk.term /\ disk'.log = [i \in kept |-> disk.log[i]] /\ disk'.snap = disk.snap
      /\ disk'.recorded = disk.recorded /\ DOMAIN disk' = DOMAIN disk
  BY <1>1, <1>2 DEF WellFormed
<1>4. /\ DOMAIN recovery' = DOMAIN recovery /\ recovery'.at = "append"
      /\ recovery'.members = recovery.members /\ recovery'.discard = recovery.discard
      /\ recovery'.truncate = recovery.truncate /\ recovery'.Term = recovery.Term
      /\ recovery'.KnownCommittedIndex = recovery.KnownCommittedIndex /\ recovery'.Index = recovery.Index
  BY <1>1, <1>2 DEF PlanOK
<1>5. PICK from \in 1..(disk.snap.index + 1), to \in Nat :
        /\ DOMAIN disk.log = from..to /\ recovery.KnownCommittedIndex < to
        /\ from <= recovery.Index /\ recovery.Index = recovery.KnownCommittedIndex + 1
        /\ \A i \in DOMAIN lost.log : i <= Proven => i <= recovery.KnownCommittedIndex
  BY <1>2 DEF EndOK
<1>6. disk.snap.index \in Nat /\ recovery.KnownCommittedIndex \in Nat /\ disk.term \in Nat
  BY <1>2 DEF WellFormed, PlanOK
<1>7. kept = from..recovery.KnownCommittedIndex
  BY <1>5, <1>6
<1>8. /\ DOMAIN disk'.log = from..recovery.KnownCommittedIndex
      /\ \A i \in DOMAIN disk'.log : i \in DOMAIN disk.log /\ disk'.log[i] = disk.log[i]
  BY <1>3, <1>7
<1>9. WellFormed(disk)'
  <2>1. \/ DOMAIN disk'.log = {}
        \/ \E lo \in 1..(disk'.snap.index + 1), hi \in DOMAIN disk'.log : hi \in Nat /\ DOMAIN disk'.log = lo..hi
    <3>1. /\ disk'.snap.index \in Nat /\ from \in 1..(disk'.snap.index + 1)
          /\ recovery.KnownCommittedIndex \in Nat /\ DOMAIN disk'.log = from..recovery.KnownCommittedIndex
      BY <1>3, <1>5, <1>6, <1>8
    <3>2. QED BY <3>1, RangeIsLog
  <2>2. \A i \in DOMAIN disk'.log : disk'.log[i].term \in 0..disk'.term
    BY <1>2, <1>3, <1>8 DEF WellFormed
  <2>3. QED BY <1>2, <1>3, <2>1, <2>2 DEF WellFormed
<1>10. HistoryOK'
  <2>1. ASSUME NEW i \in DOMAIN lost.log, i <= Proven
        PROVE  i \in DOMAIN disk'.log /\ disk'.log[i] = lost.log[i]
    <3>1. i \in DOMAIN disk.log /\ disk.log[i] = lost.log[i] /\ i <= recovery.KnownCommittedIndex
      BY <1>2, <1>5, <2>1 DEF HistoryOK
    <3>2. QED BY <1>3, <1>7, <1>8, <3>1
  <2>2. QED BY <1>1, <1>2, <1>3, <2>1 DEF HistoryOK, Proven
<1>11. PlanOK'
  BY <1>1, <1>2, <1>3, <1>4 DEF PlanOK, validateRecoveryMembers
<1>12. EndOK'
  <2>1. ~Cutting'
    BY <1>4 DEF Cutting
  <2>2. QED BY <1>3, <1>4, <1>5, <1>6, <1>8, <2>1 DEF EndOK
<1>13. QED BY <1>4, <1>9, <1>10, <1>11, <1>12 DEF RecoveryInv, Running

(* The entry goes right behind the log, in the term the node has reached. *)
LEMMA AppendStep ==
  ASSUME RecoveryInv, appendMembershipEntry
  PROVE  RecoveryInv'
<1> DEFINE entry == [term |-> recovery.Term, op |-> "finalise", peers |-> recovery.members]
           log == putEntry(disk.log, recovery.Index, entry)
<1>1. /\ recovery.at = "append" /\ lost' = lost
      /\ disk' = [disk EXCEPT !.log = log]
      /\ recovery' = [recovery EXCEPT !.at = "done"]
  BY DEF appendMembershipEntry, Next_, membershipEntry
<1>2. WellFormed(disk) /\ HistoryOK /\ PlanOK /\ EndOK /\ ~Cutting
  BY <1>1 DEF RecoveryInv, Running, Cutting
<1>3. /\ disk'.term = disk.term /\ disk'.log = log /\ disk'.snap = disk.snap
      /\ disk'.recorded = disk.recorded /\ DOMAIN disk' = DOMAIN disk
  BY <1>1, <1>2 DEF WellFormed
<1>4. /\ DOMAIN recovery' = DOMAIN recovery /\ recovery'.at = "done"
      /\ recovery'.members = recovery.members /\ recovery'.discard = recovery.discard
      /\ recovery'.truncate = recovery.truncate /\ recovery'.Term = recovery.Term
      /\ recovery'.KnownCommittedIndex = recovery.KnownCommittedIndex /\ recovery'.Index = recovery.Index
  BY <1>1, <1>2 DEF PlanOK
<1>5. PICK from \in 1..(disk.snap.index + 1), to \in Nat :
        DOMAIN disk.log = from..to /\ from <= to + 1 /\ recovery.Index = to + 1
  BY <1>2 DEF EndOK
<1>6. disk.snap.index \in Nat /\ disk.term \in Nat /\ recovery.Term = disk.term
  BY <1>1, <1>2 DEF WellFormed, PlanOK
<1>7. /\ DOMAIN log = DOMAIN disk.log \cup {recovery.Index} /\ log[recovery.Index] = entry
      /\ \A i \in DOMAIN disk.log : i # recovery.Index => log[i] = disk.log[i]
  BY DEF putEntry
<1>8. recovery.Index \notin DOMAIN disk.log /\ DOMAIN log = from..recovery.Index
  <2>1. to + 1 \notin from..to /\ (from..to) \cup {to + 1} = from..(to + 1)
    BY <1>5, <1>6
  <2>2. QED BY <1>5, <1>7, <2>1
<1>9. WellFormed(disk)'
  <2>1. \A i \in DOMAIN log : log[i].term \in 0..disk.term
    <3>1. entry.term \in 0..disk.term
      BY <1>6
    <3>2. QED BY <1>2, <1>7, <1>8, <3>1 DEF WellFormed
  <2>2. \/ DOMAIN disk'.log = {}
        \/ \E lo \in 1..(disk'.snap.index + 1), hi \in DOMAIN disk'.log : hi \in Nat /\ DOMAIN disk'.log = lo..hi
    <3>1. recovery.Index \in Nat
      BY <1>5
    <3>2. QED BY <1>3, <1>5, <1>6, <1>8, <3>1, RangeIsLog
  <2>3. QED BY <1>2, <1>3, <2>1, <2>2 DEF WellFormed
<1>10. HistoryOK'
  <2>1. ASSUME NEW i \in DOMAIN lost.log, i <= Proven
        PROVE  i \in DOMAIN log /\ log[i] = lost.log[i]
    BY <1>2, <1>7, <1>8, <2>1 DEF HistoryOK
  <2>2. QED BY <1>1, <1>2, <1>3, <2>1 DEF HistoryOK, Proven
<1>11. PlanOK'
  BY <1>1, <1>2, <1>3, <1>4 DEF PlanOK, validateRecoveryMembers
<1>12. DoneOK'
  BY <1>3, <1>4, <1>5, <1>7, <1>8 DEF DoneOK, membershipEntry
<1>13. QED BY <1>4, <1>9, <1>10, <1>11, <1>12 DEF RecoveryInv, Running

LEMMA RecoveryStep ==
  ASSUME RecoveryInv, [DNext]_dvars
  PROVE  RecoveryInv'
<1>1. CASE \E members \in Memberships, discard \in BOOLEAN : RecoverCluster(members, lost.proved, discard)
  BY <1>1, PlanStep
<1>2. CASE crash
  <2>1. disk' = disk /\ lost' = lost /\ recovery'.at = "idle"
    BY <1>2 DEF crash, Idle
  <2>2. QED BY <2>1 DEF RecoveryInv, WellFormed, HistoryOK, Proven, Running
<1>3. CASE UNCHANGED dvars
  BY <1>3 DEF dvars, RecoveryInv, WellFormed, HistoryOK, Proven, Running, PlanOK, EndOK, DoneOK, Cutting,
       membershipEntry, validateRecoveryMembers
<1>4. QED BY <1>1, <1>2, <1>3, SaveStep, CutStep, AppendStep DEF DNext

(* Whatever well-formed storages recovery (RecoverCluster) is run on, and  *)
(* however often it is cut short, plan and disk fit each other.            *)
THEOREM RecoveryInvariant ==
  ASSUME DisksAreWellFormed
  PROVE  DSpec => []RecoveryInv
<1>1. DInit => RecoveryInv
  BY InitOK
<1>2. RecoveryInv /\ [DNext]_dvars => RecoveryInv'
  BY RecoveryStep
<1>3. QED BY <1>1, <1>2, PTL DEF DSpec

-----------------------------------------------------------------------------
(* What follows from it. *)

(* A crash between the writes of RecoverCluster never leaves an entry of a *)
(* term the node has not reached.                                          *)
THEOREM RecoveryTermBeforeEntry ==
  ASSUME DisksAreWellFormed
  PROVE  DSpec => []TermBeforeEntry
<1>1. RecoveryInv => TermBeforeEntry
  BY DEF RecoveryInv, WellFormed, TermBeforeEntry
<1>2. QED BY <1>1, RecoveryInvariant, PTL

(* At every point at which RecoverCluster may be cut short the log holds   *)
(* what is proved committed, and has no hole behind the snapshot.          *)
THEOREM RecoveryKeepsTheProven ==
  ASSUME DisksAreWellFormed
  PROVE  DSpec => []KeepsTheProven
<1>1. ASSUME RecoveryInv PROVE KeepsTheProven
  <2>1. \A i \in DOMAIN lost.log :
          i <= Larger(lost.recorded, lost.proved) => i \in DOMAIN disk.log /\ disk.log[i] = lost.log[i]
    BY <1>1 DEF RecoveryInv, HistoryOK, Proven
  <2>2. ASSUME DOMAIN disk.log # {}, NEW i \in (disk.snap.index + 1)..LastIndex(disk)
        PROVE  i \in DOMAIN disk.log
    <3>1. PICK from \in 1..(disk.snap.index + 1), to \in Nat : DOMAIN disk.log = from..to
      BY <1>1, LogIsRange DEF RecoveryInv
    <3>2. disk.snap.index \in Nat
      BY <1>1 DEF RecoveryInv, WellFormed
    <3>3. from \in Nat /\ from <= to
      BY <2>2, <3>1, <3>2
    <3>4. LastIndex(disk) = to
      BY <3>1, <3>3, LastIndexOfRange
    <3>5. QED BY <2>2, <3>1, <3>2, <3>3, <3>4
  <2>3. QED BY <2>1, <2>2 DEF KeepsTheProven
<1>2. QED BY <1>1, RecoveryInvariant, PTL

(* With DiscardUncommitted a finished recovery keeps nothing, but for the  *)
(* entry it wrote, that had not been committed.                            *)
THEOREM RecoveryInventsNothing ==
  ASSUME DisksAreWellFormed
  PROVE  DSpec => []NothingInvented
<1>1. ASSUME RecoveryInv, recovery.at = "done", recovery.discard, NEW i \in DOMAIN disk.log
      PROVE  i <= lost.committed \/ i = recovery.Index
  <2>1. recovery.Index \in Nat /\ lost.committed \in Nat /\ recovery.Index <= lost.committed + 1
    BY <1>1 DEF RecoveryInv, PlanOK, HistoryOK
  <2>2. PICK from \in 1..(disk.snap.index + 1) : DOMAIN disk.log = from..recovery.Index
    BY <1>1 DEF RecoveryInv, DoneOK
  <2>3. i \in from..recovery.Index /\ from \in Int
    BY <1>1, <2>2
  <2>4. QED BY <2>1, <2>3
<1>2. RecoveryInv => NothingInvented
  BY <1>1 DEF NothingInvented
<1>3. QED BY <1>2, RecoveryInvariant, PTL

(* A finished recovery's entry is the last of the log and newer than all   *)
(* the lost cluster wrote there: no survivor's log outranks it.            *)
THEOREM RecoveryLastWord ==
  ASSUME DisksAreWellFormed
  PROVE  DSpec => []LastWord
<1>1. ASSUME RecoveryInv, recovery.at = "done"
      PROVE  /\ disk.log[LastIndex(disk)] = membershipEntry
             /\ \A i \in DOMAIN lost.log : lost.log[i].term < recovery.Term
  <2>1. PICK from \in 1..(disk.snap.index + 1) :
          from <= recovery.Index /\ DOMAIN disk.log = from..recovery.Index
    BY <1>1 DEF RecoveryInv, DoneOK
  <2>2. disk.snap.index \in Nat /\ recovery.Index \in Nat
    BY <1>1 DEF RecoveryInv, WellFormed, PlanOK
  <2>3. LastIndex(disk) = recovery.Index
    BY <2>1, <2>2, LastIndexOfRange
  <2>4. QED BY <1>1, <2>3 DEF RecoveryInv, DoneOK, PlanOK
<1>2. RecoveryInv => LastWord
  BY <1>1 DEF LastWord
<1>3. QED BY <1>2, RecoveryInvariant, PTL
=============================================================================
