---------------------------- MODULE MCMembership ----------------------------
(***************************************************************************)
(* Instances of Membership for TLC.                                        *)
(***************************************************************************)
EXTENDS Membership
CONSTANTS a, b, c, d

Founders(S) == [n \in S |-> "voter"]

Quiet == [members |-> Founders({a, b, c}), leader |-> c, nodes |-> {a, b, c}, witnesses |-> {}, down |-> {},
          changes |-> <<>>, terms |-> 2, longest |-> 5, restarts |-> 0,
          prompt |-> TRUE, steps |-> FALSE, resends |-> FALSE, eager |-> {}, losses |-> TRUE, snapshots |-> FALSE]

Add(n, r) == [op |-> "add", id |-> n, role |-> r]
Remove(n) == [op |-> "remove", id |-> n]
Promote(n) == [op |-> "promote", id |-> n]
Reconfigure(S) == [op |-> "joint", new |-> Founders(S)]
SetQuorum(q) == [op |-> "quorum", q |-> q]
Command == [op |-> "cmd"]

\* One server is added and another removed; nodes lag, leaders change.
Swap == [Quiet EXCEPT !.nodes = Nodes, !.eager = {d}, !.losses = FALSE, !.changes = <<Add(d, "voter"), Remove(a)>>]

\* A group of two grows and loses its first leader, with a crash and with step-downs.
Grow == [Quiet EXCEPT !.members = Founders({a, b}), !.leader = a, !.restarts = 1, !.steps = TRUE, !.losses = FALSE,
           !.changes = <<Add(c, "voter"), Remove(a)>>]

\* Joint consensus: the leader is not part of the new group.
Shrink == [Quiet EXCEPT !.leader = a, !.restarts = 1, !.longest = 6, !.losses = FALSE,
             !.changes = <<Reconfigure({b, c})>>]
Move == [Quiet EXCEPT !.eager = {c}, !.losses = FALSE, !.members = Founders({a, b}), !.leader = a, !.restarts = 1,
           !.terms = 3, !.longest = 6, !.changes = <<Reconfigure({b, c})>>]

\* A learner is added, catches up by log or by snapshot, and is promoted.
Stage == [Quiet EXCEPT !.members = Founders({a, b}), !.leader = a, !.snapshots = TRUE,
            !.changes = <<Add(c, "learner"), Promote(c)>>]

\* The commit quorum is changed, and used.
Relax == [Quiet EXCEPT !.changes = <<SetQuorum(1), Command>>, !.restarts = 1, !.losses = FALSE]
Tighten == [Quiet EXCEPT !.changes = <<SetQuorum(3), Command>>, !.resends = TRUE, !.losses = FALSE]

\* A witness stands in for a voter that does not answer.
Stand == [Quiet EXCEPT !.members = [Founders({a, b, c}) EXCEPT ![c] = "witness"], !.leader = a,
            !.witnesses = {c}, !.down = {b}, !.changes = <<Command, Remove(b)>>]

Pass == "swap" :> Swap @@ "grow" :> Grow @@ "shrink" :> Shrink @@ "move" :> Move @@ "stage" :> Stage
          @@ "relax" :> Relax @@ "tighten" :> Tighten @@ "stand" :> Stand

\* The commit quorum is raised and then lowered.
Rewound == "rewind" :> [Quiet EXCEPT !.changes = <<SetQuorum(3), SetQuorum(1), Command>>,
                          !.longest = 6]

\* Swap, with one more change of leader.
Takeover == "takeover" :> [Swap EXCEPT !.terms = 3, !.longest = 6]

\* Move, where the leader is lost between the two phases.
Moving == "move" :> [Move EXCEPT !.eager = {}]

\* Swap, where a node may stand before it has applied what it knows to be committed.
Lagging == "lag" :> [Swap EXCEPT !.prompt = FALSE]

\* A change still uncommitted when its node restarts and takes a snapshot.
Early == "early" :> [Quiet EXCEPT !.members = Founders({a, b}), !.leader = a, !.restarts = 1, !.snapshots = TRUE,
           !.changes = <<Add(c, "voter")>>]

=============================================================================
