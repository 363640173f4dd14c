--------------------------- MODULE MCReplication ---------------------------
(* Situations of Replication for TLC: who stands in each term, who hears   *)
(* whom, whose disk is slow, who may crash.                                *)
EXTENDS ReplicationProperties

CONSTANTS a, b, c, d, e, cmd

Reach(voters, followers) == [RequestVote |-> voters, AppendEntries |-> followers]

(* Everybody stands and hears, disks are fast and nobody crashes. *)
Calm ==
  [policy |-> 0, batch |-> 2, propose |-> {},
   stands |-> [t \in 1..MaxTerm |-> Voter],
   hears |-> [t \in 1..MaxTerm |-> Reach(Node, Node)],
   ticking |-> {}, fast |-> Node, pending |-> 2, crashes |-> 0]

(* The terms up to `last' go to a and b in turn. *)
InTurn(last) ==
  [t \in 1..MaxTerm |-> IF t > last THEN {} ELSE IF t % 2 = 1 THEN {a} ELSE {b}]

(* Two of three voters, cut off from the third, retransmit and crash. *)
Crashes ==
  [Calm EXCEPT !.stands = [t \in 1..MaxTerm |-> IF t > 2 THEN {} ELSE {a, b}],
               !.hears = [t \in 1..MaxTerm |-> Reach({a, b}, {a, b})],
               !.ticking = {1, 2}, !.fast = {}, !.pending = 3, !.crashes = 1]

(* Term 1 reaches b alone; the next leader overwrites what it left. *)
NewLeader ==
  [Calm EXCEPT !.stands = InTurn(2), !.propose = {cmd},
               !.hears = [t \in 1..MaxTerm |-> IF t = 1 THEN Reach({b}, {b}) ELSE Reach(Node, Node)]]

(* Two leaders in turn that cannot replicate, then each with c only. *)
OldEntries ==
  [Calm EXCEPT !.stands = InTurn(4), !.batch = 1,
               !.hears = <<Reach({b}, {}), Reach({a, c}, {}), Reach({b, c}, {c}), Reach({c}, {c})>>]

(* A commit quorum of one, and a leader with a slow disk. *)
SmallQuorum ==
  [Calm EXCEPT !.stands = InTurn(2), !.policy = 1, !.fast = {b, c}]

Safety ==
  [Crashes |-> Crashes, NewLeader |-> NewLeader,
   OldEntries |-> OldEntries, SmallQuorum |-> SmallQuorum]

(* a and b lead in turn and replicate nothing; then a reaches everybody. *)
CatchUp ==
  [Diverged |-> [Calm EXCEPT !.stands = InTurn(3), !.ticking = {3},
     !.hears = <<Reach({b}, {}), Reach({c}, {}), Reach({c}, {b, c})>>]]

(* Five nodes: a and c lead in turn, and an answer of b outlives them. *)
LateAnswer ==
  [Rivals |-> [Calm EXCEPT !.propose = {cmd},
     !.stands = [t \in 1..MaxTerm |-> IF t % 2 = 1 THEN {a} ELSE {c}],
     !.hears = <<Reach({b, c}, {b}), Reach({d, e}, {a}), Reach({c, d}, {d}), Reach({b, e}, {})>>]]
=============================================================================
