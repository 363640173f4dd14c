----------------------------- MODULE MCAsyncLog -----------------------------
(* Instances of AsyncLog for TLC. *)
EXTENDS AsyncLog

VARIABLE kind   \* what a behaviour of AnySnapshot is about

(* Local snapshots cut the log; the leader's replace it; commit indices    *)
(* are recorded by a disk that may fail.                                   *)
Compacting == INSTANCE AsyncLog WITH Threshold <- 2, MaxLog <- 3
Installing == INSTANCE AsyncLog WITH Installs <- TRUE, MaxRequest <- 1
Recording == INSTANCE AsyncLog WITH CommitInterval <- 1, Failures <- TRUE, MaxRequest <- 1, MaxWrites <- 6

NextOf(k) ==
  \/ k = "compact" /\ Compacting!Next
  \/ k = "install" /\ Installing!Next
  \/ k = "record" /\ Recording!Next

AnySnapshot ==
  /\ kind \in {"compact", "install", "record"} /\ Init
  /\ [][NextOf(kind) /\ UNCHANGED kind]_<<vars, kind>>

(* What waits for a write and what has been acknowledged steer nothing in  *)
(* the log: runs whose properties do not mention them leave them out of    *)
(* the states they compare.                                                *)
WithoutAcks ==
  <<kind, [node EXCEPT !.deferredWrites = {}],
    writer, store, snapping, install, leader, log, stops>>

LogAlone == kind = "log" /\ Init /\ [][Next /\ UNCHANGED kind]_<<vars, kind>> /\ Fairness

(* Where nothing is compacted or recorded, what counts as committed and    *)
(* applied steers nothing either.                                          *)
WithoutCommits ==
  <<[node EXCEPT !.commitIndex = 0, !.lastApplied = 0],
    writer, store, snapping, install, leader, log, acked, stops>>
=============================================================================
