---------------------------- MODULE QuorumSizes ----------------------------
(***************************************************************************)
(* The two quorum sizes of quorum.go, as functions of the commit-quorum    *)
(* policy q (0 is "a simple majority") and of the number of voters.  Every *)
(* vote count, commit decision, check-quorum and read confirmation of a    *)
(* node goes through them.                                                 *)
(***************************************************************************)
EXTENDS Integers

SmallerOf(a, b) == IF a <= b THEN a ELSE b
LargerOf(a, b) == IF a >= b THEN a ELSE b

commitQuorumFor(q, total) ==
  CASE total = 0 -> 0
    [] total # 0 /\ q <= 0 -> (total \div 2) + 1
    [] OTHER -> SmallerOf(q, total)

electionQuorumFor(q, total) ==
  IF total = 0 THEN 0
  ELSE LargerOf(total - commitQuorumFor(q, total) + 1, (total \div 2) + 1)

(* The stricter of the policy applied and the latest one in the log, which *)
(* is what a node counts by while a change of policy is under way.         *)
commitQuorumNeeded(applied, latest, total) ==
  LargerOf(commitQuorumFor(applied, total), commitQuorumFor(latest, total))

electionQuorumNeeded(applied, latest, total) ==
  LargerOf(electionQuorumFor(applied, total), electionQuorumFor(latest, total))
=============================================================================
