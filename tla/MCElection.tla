----------------------------- MODULE MCElection -----------------------------
(* Election for TLC: three voters, and several groups of two members.       *)
EXTENDS Election, TLC

CONSTANTS a, b, c

VARIABLE group   \* which group a behaviour of AnyGroup is about

Symmetry == Permutations(Voter)

(* The only voter with a learner, and a voter with a witness. *)
Solo == INSTANCE Election WITH Voter <- {a}
Watched == INSTANCE Election WITH Witness <- {b}

NextOf(g) ==
  \/ g = "pair" /\ Next
  \/ g = "solo" /\ Solo!Next
  \/ g = "watched" /\ Watched!Next

AnyGroup ==
  /\ group \in {"pair", "solo", "watched"} /\ Init
  /\ [][NextOf(group) /\ UNCHANGED group]_<<vars, group>>

OneGroup == group = "all" /\ Init /\ [][Next /\ UNCHANGED group]_<<vars, group>>
=============================================================================
