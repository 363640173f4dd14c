----------------------------- MODULE Membership -----------------------------
(***************************************************************************)
(* Membership changes (node_membership.go, config_change.go, quorum.go).   *)
(*                                                                         *)
(* A configuration change is a log entry.  A node puts it in effect when   *)
(* it APPLIES the entry, not when it appends it; a restart, a truncation   *)
(* and an installed snapshot recompute the membership from a base plus     *)
(* every configuration entry the log holds.  Single-server changes, joint  *)
(* consensus in two phases, and the commit quorum (in force from the       *)
(* append, as the stricter of old and new) all go through here, and every  *)
(* quorum a node counts is counted in ITS OWN view.                        *)
(*                                                                         *)
(* One round of voting, and one exchange of AppendEntries, is one step:    *)
(* Election and Replication model the messages.  A role is "voter",        *)
(* "learner" or "witness"; a membership is a function from node to role.   *)
(***************************************************************************)
EXTENDS Integers, Sequences, FiniteSets, TLC, QuorumSizes

CONSTANTS Nodes,       \* every node that is ever part of the group
          Situations   \* name |-> what may happen; see Given

(***************************************************************************)
(* A situation bounds a run: the founding members, the changes an operator *)
(* asks for, in order, the terms, the log, how many restarts,              *)
(* and which of the rarer steps are explored.  Prompt: a node applies what *)
(* it knows to be committed before it stands for election.                 *)
(***************************************************************************)
VARIABLES given,       \* the situation this behaviour is in
          log,         \* node |-> entries [term, op, ...]
          commit,      \* Node.commitIndex
          applied,     \* Node.lastApplied
          view,        \* the membership a node counts with; see View
          base,        \* Node.baseMembership and the snapshot's index
          term,        \* Node.currentTerm, with the vote spent in it
          state,       \* "leader" or "follower"
          match,       \* Node.matchIndex, of a leader
          start,       \* Node.termStartIndex
          pending,     \* Node.pendingConfigIndex
          departing,   \* Node.departing: peer |-> the entry that removed it
          told,        \* Node.removedNotified
          asked,       \* how many of the changes have been asked for
          settled,     \* the longest log any node has taken for committed
          elected,     \* every <<term, node>> that won an election
          restarts     \* restarts so far

vars == <<given, log, commit, applied, view, base, term, state, match, start,
          pending, departing, told, asked, settled, elected, restarts>>

Given == Situations[given]

Nobody == [x \in {} |-> "voter"]

Votes(role) == role # "learner"

VotersOf(members) == {p \in DOMAIN members : Votes(members[p])}

Others(members, n) == [p \in DOMAIN members \ {n} |-> members[p]]

VotesIn(members, n) == n \in VotersOf(members)

SelfRole(n, voter) ==
  IF ~voter THEN "learner" ELSE IF n \in Given.witnesses THEN "witness" ELSE "voter"

withSelf(peers, n, present, voter) ==
  IF present THEN peers @@ (n :> SelfRole(n, voter)) ELSE peers

(***************************************************************************)
(* What a snapshot says of the membership: independent of who holds it.    *)
(***************************************************************************)
Simple(members, quorum) ==
  [joint |-> FALSE, members |-> members, old |-> Nobody, new |-> Nobody, quorum |-> quorum]

Joint(old, new) ==
  [joint |-> TRUE, members |-> Nobody, old |-> old, new |-> new, quorum |-> 0]


currentMembership(n) ==
  LET v == view[n] IN
  IF v.joint
  THEN [joint |-> TRUE, members |-> Nobody,
        old |-> withSelf(v.old, n, TRUE, v.oldVoter),
        new |-> withSelf(v.new, n, v.inNew, v.newVoter),
        quorum |-> v.quorum]
  ELSE Simple(withSelf(v.peers, n, TRUE, v.voter), v.quorum)

restoreMembership(v, n, ms) ==
  IF ms.joint
  THEN [v EXCEPT !.joint = TRUE,
                 !.old = Others(ms.old, n), !.new = Others(ms.new, n),
                 !.oldVoter = VotesIn(ms.old, n),
                 !.inNew = n \in DOMAIN ms.new, !.newVoter = VotesIn(ms.new, n),
                 !.voter = VotesIn(ms.old, n),
                 !.peers = Others(ms.old, n) @@ Others(ms.new, n),
                 !.latest = ms.quorum]
  ELSE [v EXCEPT !.joint = FALSE, !.old = Nobody, !.new = Nobody,
                 !.oldVoter = FALSE, !.inNew = FALSE, !.newVoter = FALSE,
                 !.voter = VotesIn(ms.members, n),
                 !.peers = Others(ms.members, n),
                 !.latest = ms.quorum]

IsConfig(e) == e.op \in {"add", "remove", "joint", "finalise", "quorum"}

\* An entry for a peer that is already there changes whether it votes and nothing else.
Rerole(was, role) ==
  IF Votes(was) = Votes(role) THEN was ELSE IF Votes(role) THEN "voter" ELSE "learner"

adoptAdd(v, n, e) ==
  IF e.id = n THEN [v EXCEPT !.voter = Votes(e.role)]
  ELSE IF e.id \in DOMAIN v.peers
       THEN [v EXCEPT !.peers[e.id] = Rerole(@, e.role)]
       ELSE [v EXCEPT !.peers = @ @@ (e.id :> e.role)]

adoptRemove(v, n, e) ==
  IF e.id = n THEN [v EXCEPT !.voter = FALSE]
  ELSE [v EXCEPT !.peers = Others(@, e.id)]

\* The joint entry names C_old without the node that proposed it; the node that
\* adopts it puts itself in.
adoptJoint(v, n, e) ==
  restoreMembership(v, n, Joint(withSelf(e.old, n, TRUE, v.voter), e.new))

adoptConfigEntry(v, n, e, i) ==
  LET w == [v EXCEPT !.index = i] IN
  CASE e.op = "add"      -> adoptAdd(w, n, e)
    [] e.op = "remove"   -> adoptRemove(w, n, e)
    [] e.op = "joint"    -> adoptJoint(w, n, e)
    [] e.op = "finalise" -> restoreMembership(w, n, Simple(e.members, 0))
    [] e.op = "quorum"   -> [w EXCEPT !.latest = e.q]

RECURSIVE Replay(_, _, _, _)
Replay(v, n, entries, i) ==
  IF i > Len(entries) THEN v
  ELSE Replay(IF IsConfig(entries[i]) THEN adoptConfigEntry(v, n, entries[i], i) ELSE v,
              n, entries, i + 1)

\* The base, then every configuration entry above the snapshot's index.  The quorum
\* in effect (v.quorum) follows the apply order and is not touched.
rebuildMembership(v, n, b, entries) ==
  Replay(restoreMembership([v EXCEPT !.index = b.index], n, b.ms), n, entries, b.index + 1)

RECURSIVE Noted(_, _, _)
Noted(v, entries, r) ==
  IF r[1] > r[2] THEN v
  ELSE Noted(IF entries[r[1]].op = "quorum" THEN [v EXCEPT !.latest = entries[r[1]].q] ELSE v,
             entries, <<r[1] + 1, r[2]>>)

\* Entries from..to of a request say how the group counts from now on.
noteAppendedConfig(v, entries, from, to) == Noted(v, entries, <<from, to>>)

------------------------------------------------------------------------------
(***************************************************************************)
(* Counting.                                                               *)
(***************************************************************************)
Group(members, n, self) == VotersOf(members) \cup (IF self THEN {n} ELSE {})

hasQuorumAck(n, votes, group) ==
  Cardinality(votes \cap group)
    >= electionQuorumNeeded(view[n].quorum, view[n].latest, Cardinality(group))

electionWon(n, votes) ==
  LET v == view[n] IN
  IF v.joint THEN /\ hasQuorumAck(n, votes, Group(v.old, n, v.oldVoter))
                  /\ hasQuorumAck(n, votes, Group(v.new, n, v.inNew /\ v.newVoter))
             ELSE hasQuorumAck(n, votes, Group(v.peers, n, v.voter))

\* Witnesses are counted only when a full voter that lacks the entry has stopped
\* answering (Given.down).
replicatedOnMajority(n, v, m, i, members, self) ==
  LET has(p) == p \in DOMAIN m /\ m[p] >= i
      full == {p \in VotersOf(members) : members[p] = "voter"}
      late == {p \in full : ~has(p)}
      holds == {p \in full : has(p)} \cup (IF self THEN {n} ELSE {})
      stands == IF late \cap Given.down # {}
                THEN {p \in VotersOf(members) \ full : has(p)} ELSE {}
  IN Cardinality(holds \cup stands)
       >= commitQuorumNeeded(v.quorum, v.latest, Cardinality(Group(members, n, self)))

Committable(n, v, m, i) ==
  IF v.joint THEN /\ replicatedOnMajority(n, v, m, i, v.old, v.oldVoter)
                  /\ replicatedOnMajority(n, v, m, i, v.new, v.inNew /\ v.newVoter)
             ELSE replicatedOnMajority(n, v, m, i, v.peers, v.voter)

\* The commit index of leader n with view v, progress m, a log of len entries, its own from st on.
maybeAdvanceCommit(n, v, m, st, len, c) ==
  LET able == {i \in LargerOf(c + 1, st) .. len : Committable(n, v, m, i)}
  IN IF able = {} THEN c ELSE CHOOSE i \in able : \A j \in able : j <= i

NoProgress == [p \in {} |-> 0]

Progress(peers) == [p \in DOMAIN peers |-> 0]

FinaliseEntry(t, n, v) ==
  [term |-> t, op |-> "finalise", members |-> withSelf(v.new, n, v.inNew, v.newVoter)]
------------------------------------------------------------------------------

isUpToDate(n, p) ==
  LET tn == log[n][Len(log[n])].term
      tp == log[p][Len(log[p])].term
  IN tn > tp \/ (tn = tp /\ Len(log[n]) >= Len(log[p]))


handleRequestVote(p, n, t) == term[p] < t /\ view[p].voter /\ isUpToDate(n, p)

\* Mutant: the second phase is left to the old leader.
secondNever(v, c) == FALSE

\* C_new is due once the joint entry itself is known to be committed.
secondDue(v, c) == v.joint /\ v.index <= c

\* becomeLeader: a fresh record of progress, a no-op of its own, and the second phase
\* of a reconfiguration whose first phase is known to be committed.
becomeLeader(n, t, Q) ==
  LET v == view[n]
      at == Len(log[n]) + 1
      noop == Append(log[n], [term |-> t, op |-> "noop"])
      newCommit == maybeAdvanceCommit(n, v, Progress(v.peers), at, at, commit[n])
      second == secondDue(v, newCommit)
  IN /\ log' = [log EXCEPT ![n] = IF second THEN Append(noop, FinaliseEntry(t, n, v)) ELSE noop]
     /\ commit' = [commit EXCEPT ![n] = newCommit]
     /\ start' = [p \in Nodes |-> IF p = n THEN at ELSE IF p \in Q THEN 0 ELSE start[p]]
     /\ pending' = [p \in Nodes |-> IF p = n THEN IF second THEN at + 1 ELSE 0
                                    ELSE IF p \in Q THEN 0 ELSE pending[p]]

Elect(n, Q) ==
  LET t == term[n] + 1
      won == Q \cup {n}
  IN /\ state[n] = "follower" /\ view[n].voter /\ n \notin Given.witnesses
     /\ Given.prompt => applied[n] = commit[n]
     /\ t <= Given.terms
     /\ Len(log[n]) + 2 <= Given.longest
     /\ Q \subseteq VotersOf(view[n].peers)
     /\ \A p \in Q : handleRequestVote(p, n, t)
     /\ electionWon(n, won)
     /\ term' = [p \in Nodes |-> IF p \in won THEN t ELSE term[p]]
     /\ state' = [p \in Nodes |-> IF p = n THEN "leader"
                                  ELSE IF p \in Q THEN "follower" ELSE state[p]]
     /\ match' = [p \in Nodes |-> IF p = n THEN Progress(view[n].peers)
                                  ELSE IF p \in Q THEN NoProgress ELSE match[p]]
     /\ departing' = [p \in Nodes |-> IF p \in won THEN NoProgress ELSE departing[p]]
     /\ becomeLeader(n, t, Q)
     /\ elected' = elected \cup {<<t, n>>}
     /\ UNCHANGED <<given, applied, view, base, told, asked, restarts>>

\* applyFollowerTransition, for a leader that loses touch with its group (check-quorum).
StepDown(n) ==
  /\ Given.steps
  /\ state[n] = "leader"
  /\ state' = [state EXCEPT ![n] = "follower"]
  /\ match' = [match EXCEPT ![n] = NoProgress]
  /\ departing' = [departing EXCEPT ![n] = NoProgress]
  /\ pending' = [pending EXCEPT ![n] = 0]
  /\ start' = [start EXCEPT ![n] = 0]
  /\ UNCHANGED <<given, log, commit, applied, view, base, term, told, asked, elected, restarts>>
------------------------------------------------------------------------------
(***************************************************************************)
(* Proposing a change: one at a time, as far as this leader knows.         *)
(***************************************************************************)
PromoteMember(n, id) ==
  /\ id \in DOMAIN view[n].peers /\ id \in DOMAIN match[n]
  /\ view[n].peers[id] = "learner"
  /\ match[n][id] = Len(log[n])

EntryFor(n, c) ==
  CASE c.op = "promote" -> [term |-> term[n], op |-> "add", id |-> c.id, role |-> "voter"]
    [] c.op = "joint"   -> [term |-> term[n], op |-> "joint", old |-> view[n].peers, new |-> c.new]
    [] OTHER            -> [term |-> term[n]] @@ c

handleProposals(n, c) ==
  LET e == EntryFor(n, c)
      at == Len(log[n]) + 1
      v == noteAppendedConfig(view[n], <<e>>, 1, 1)
  IN /\ state[n] = "leader"
     /\ at + 1 <= Given.longest
     /\ IsConfig(e) => pending[n] = 0
     /\ c.op = "promote" => PromoteMember(n, c.id)
     /\ c.op = "quorum" => c.q <= Cardinality(Group(view[n].peers, n, view[n].voter))
     /\ asked' = asked + 1
     /\ log' = [log EXCEPT ![n] = Append(@, e)]
     /\ pending' = [pending EXCEPT ![n] = IF IsConfig(e) THEN at ELSE @]
     /\ view' = [view EXCEPT ![n] = v]
     /\ commit' = [commit EXCEPT ![n] = maybeAdvanceCommit(n, v, match[n], start[n], at, @)]
     /\ UNCHANGED <<given, applied, base, term, state, match, start, departing, told,
                    elected, restarts>>
------------------------------------------------------------------------------
(***************************************************************************)
(* An AppendEntries exchange: entries from..to of l's log reach f, and the *)
(* answer reaches l (acked) or is lost.                                    *)
(***************************************************************************)
Agree(l, f) ==
  LET same == {i \in 1 .. SmallerOf(Len(log[l]), Len(log[f])) :
                 \A j \in 1 .. i : log[l][j] = log[f][j]}
  IN Cardinality(same)

handleAppendEntries(l, f, from, to) ==
  LET agree == Agree(l, f)
      clash == to > agree /\ Len(log[f]) > agree
      kept == IF clash /\ view[f].index > agree
              THEN rebuildMembership(view[f], f, base[f], SubSeq(log[f], 1, agree))
              ELSE view[f]
  IN /\ log' = [log EXCEPT ![f] = IF to > agree THEN SubSeq(log[l], 1, to) ELSE @]
     /\ view' = [view EXCEPT ![f] = noteAppendedConfig(kept, log[l], from, to)]
     /\ term' = [term EXCEPT ![f] = term[l]]
     /\ state' = [state EXCEPT ![f] = "follower"]

\* The answer of a peer on its way out is only about its departure.
departingPeer(l, f, to) ==
  IF commit[l] >= departing[l][f]
  THEN /\ departing' = [departing EXCEPT ![l] = [p \in DOMAIN @ \ {f} |-> @[p]], ![f] = NoProgress]
       /\ match' = [match EXCEPT ![l] = [p \in DOMAIN @ \ {f} |-> @[p]], ![f] = NoProgress]
  ELSE /\ match' = [match EXCEPT ![l][f] = LargerOf(@, to), ![f] = NoProgress]
       /\ departing' = [departing EXCEPT ![f] = NoProgress]

handleAppendResult(l, f, to, fcommit) ==
  LET m == [match[l] EXCEPT ![f] = LargerOf(@, to)] IN
  IF f \in DOMAIN departing[l]
  THEN /\ departingPeer(l, f, to)
       /\ commit' = [commit EXCEPT ![f] = fcommit]
  ELSE /\ match' = [match EXCEPT ![l] = m, ![f] = NoProgress]
       /\ departing' = [departing EXCEPT ![f] = NoProgress]
       /\ commit' = [commit EXCEPT ![f] = fcommit,
                       ![l] = maybeAdvanceCommit(l, view[l], m, start[l], Len(log[l]), @)]

\* What a request may carry: everything f lacks, or (resends) a stretch it was sent before.
Ranges(l, f) ==
  LET next == Agree(l, f) + 1 IN
  {<<next, Len(log[l])>>}
    \cup (IF Given.resends THEN {<<i, j>> \in (1 .. next - 1) \X (1 .. next - 1) : i <= j} ELSE {})

Replicate(l, f, from, to, acked) ==
  LET fcommit == LargerOf(commit[f], SmallerOf(commit[l], to)) IN
  /\ state[l] = "leader" /\ f # l /\ f \in DOMAIN match[l]
  /\ term[f] <= term[l]
  /\ from > base[l].index
  /\ handleAppendEntries(l, f, from, to)
  /\ IF acked THEN handleAppendResult(l, f, to, fcommit)
     ELSE /\ commit' = [commit EXCEPT ![f] = fcommit]
          /\ match' = [match EXCEPT ![f] = NoProgress]
          /\ departing' = [departing EXCEPT ![f] = NoProgress]
  /\ pending' = [pending EXCEPT ![f] = 0]
  /\ start' = [start EXCEPT ![f] = 0]
  /\ UNCHANGED <<given, applied, base, told, asked, elected, restarts>>

\* endDeparture: a peer that cannot be told in time, or only by a snapshot, is given up on.
tickDepartures(l, f) ==
  /\ Given.steps
  /\ state[l] = "leader" /\ f \in DOMAIN departing[l]
  /\ departing' = [departing EXCEPT ![l] = [p \in DOMAIN @ \ {f} |-> @[p]]]
  /\ match' = [match EXCEPT ![l] = [p \in DOMAIN @ \ {f} |-> @[p]]]
  /\ UNCHANGED <<given, log, commit, applied, view, base, term, state, start, pending, told,
                 asked, elected, restarts>>
------------------------------------------------------------------------------
(***************************************************************************)
(* Applying the next committed entry (handleApplyResult,                   *)
(* applyConfigChange).                                                     *)
(***************************************************************************)
Gone(was, v, n) == {p \in DOMAIN was.peers \ DOMAIN v.peers : p # n}

\* What a leader does about the peers an entry adds and removes.
Tracked(n, v, d) ==
  [p \in DOMAIN v.peers \cup DOMAIN d |-> IF p \in DOMAIN match[n] THEN match[n][p] ELSE 0]

beginDeparture(n, e, v, i) ==
  LET leaving == IF e.op \in {"remove", "finalise"} THEN Gone(view[n], v, n) ELSE {}
  IN [p \in (DOMAIN departing[n] \cup leaving) \ DOMAIN v.peers |->
        IF p \in leaving THEN i ELSE departing[n][p]]

RemovesSelf(n, e) ==
  \/ e.op = "remove" /\ e.id = n
  \/ e.op = "finalise" /\ n \notin DOMAIN e.members

applyToLeader(n, e, i, v) ==
  LET leaving == beginDeparture(n, e, v, i)
      m == Tracked(n, v, leaving)
      second == e.op = "joint"
      len == Len(log[n]) + (IF second THEN 1 ELSE 0)
  IN IF RemovesSelf(n, e)
     THEN /\ state' = [state EXCEPT ![n] = "follower"]
          /\ match' = [match EXCEPT ![n] = NoProgress]
          /\ departing' = [departing EXCEPT ![n] = NoProgress]
          /\ pending' = [pending EXCEPT ![n] = 0]
          /\ start' = [start EXCEPT ![n] = 0]
          /\ UNCHANGED <<log, commit>>
     ELSE /\ log' = [log EXCEPT ![n] = IF second THEN Append(@, FinaliseEntry(term[n], n, v)) ELSE @]
          /\ pending' = [pending EXCEPT ![n] = IF second THEN len ELSE IF @ = i THEN 0 ELSE @]
          /\ match' = [match EXCEPT ![n] = m]
          /\ departing' = [departing EXCEPT ![n] = leaving]
          /\ commit' = [commit EXCEPT ![n] = maybeAdvanceCommit(n, v, m, start[n], len, @)]
          /\ UNCHANGED <<state, start>>

applyConfigChange(n, e, i) ==
  LET w == adoptConfigEntry(view[n], n, e, i)
      v == IF e.op = "quorum" THEN [w EXCEPT !.quorum = e.q] ELSE w
  IN /\ view' = [view EXCEPT ![n] = v]
     /\ told' = [told EXCEPT ![n] = @ \/ RemovesSelf(n, e)]
     /\ IF state[n] = "leader" THEN applyToLeader(n, e, i, v)
        ELSE UNCHANGED <<log, commit, state, match, departing, pending, start>>

Apply(n) ==
  LET i == applied[n] + 1 IN
  /\ i <= commit[n]
  /\ applied' = [applied EXCEPT ![n] = i]
  /\ IF IsConfig(log[n][i]) THEN applyConfigChange(n, log[n][i], i)
     ELSE UNCHANGED <<log, commit, view, state, match, departing, pending, start, told>>
  /\ UNCHANGED <<given, base, term, asked, elected, restarts>>
------------------------------------------------------------------------------
(***************************************************************************)
(* Snapshots and restarts.                                                 *)
(***************************************************************************)
maybeSnapshot(n) ==
  /\ Given.snapshots /\ applied[n] > base[n].index
  /\ base' = [base EXCEPT ![n] = [index |-> applied[n], ms |-> currentMembership(n)]]
  /\ UNCHANGED <<given, log, commit, applied, view, term, state, match, start, pending,
                 departing, told, asked, elected, restarts>>

\* f lacks what l's log no longer holds and is sent l's snapshot.  What f's log holds
\* beyond it survives if it agrees with the snapshot's last entry.
handleSnapInstallResult(l, f) ==
  LET snap == base[l]
      kept == IF Agree(l, f) >= snap.index THEN log[f] ELSE SubSeq(log[l], 1, snap.index)
      v == rebuildMembership([view[f] EXCEPT !.quorum = snap.ms.quorum], f, snap, kept)
      m == [match[l] EXCEPT ![f] = LargerOf(@, snap.index)]
  IN /\ state[l] = "leader" /\ f # l /\ f \in DOMAIN match[l] /\ f \notin DOMAIN departing[l]
     /\ term[f] <= term[l]
     /\ Agree(l, f) < snap.index /\ snap.index > applied[f]
     /\ log' = [log EXCEPT ![f] = kept]
     /\ base' = [base EXCEPT ![f] = snap]
     /\ view' = [view EXCEPT ![f] = v]
     /\ applied' = [applied EXCEPT ![f] = snap.index]
     /\ commit' = [commit EXCEPT ![f] = LargerOf(@, snap.index),
                     ![l] = maybeAdvanceCommit(l, view[l], m, start[l], Len(log[l]), @)]
     /\ term' = [term EXCEPT ![f] = term[l]]
     /\ state' = [state EXCEPT ![f] = "follower"]
     /\ match' = [match EXCEPT ![l] = m, ![f] = NoProgress]
     /\ departing' = [departing EXCEPT ![f] = NoProgress]
     /\ pending' = [pending EXCEPT ![f] = 0]
     /\ start' = [start EXCEPT ![f] = 0]
     /\ UNCHANGED <<given, told, asked, elected, restarts>>

NewView == [joint |-> FALSE, peers |-> Nobody, voter |-> FALSE, old |-> Nobody, new |-> Nobody,
            oldVoter |-> FALSE, inNew |-> FALSE, newVoter |-> FALSE,
            index |-> 0, latest |-> 0, quorum |-> 0]

Started(n, b, entries) ==
  rebuildMembership([NewView EXCEPT !.quorum = b.ms.quorum], n, b, entries)

\* A crash, and raft.New on what was on disk.
Restart(n) ==
  /\ restarts < Given.restarts
  /\ restarts' = restarts + 1
  /\ state' = [state EXCEPT ![n] = "follower"]
  /\ match' = [match EXCEPT ![n] = NoProgress]
  /\ departing' = [departing EXCEPT ![n] = NoProgress]
  /\ pending' = [pending EXCEPT ![n] = 0]
  /\ start' = [start EXCEPT ![n] = 0]
  /\ told' = [told EXCEPT ![n] = FALSE]
  /\ commit' = [commit EXCEPT ![n] = base[n].index]
  /\ applied' = [applied EXCEPT ![n] = base[n].index]
  /\ view' = [view EXCEPT ![n] = Started(n, base[n], log[n])]
  /\ UNCHANGED <<given, log, base, term, asked, elected>>
------------------------------------------------------------------------------
\* The configuration each node was built with: the founders, and itself; a node that
\* is to be added may have been built as a voter (Given.eager) or as a learner.
Configured(n) ==
  Simple(withSelf(Others(Given.members, n), n, TRUE,
                  VotesIn(Given.members, n) \/ n \in Given.eager), 0)

\* The first leader's no-op is everywhere the group is; a node still to be added is empty
\* but for the entry every log is compared from.
Init ==
  /\ given \in DOMAIN Situations
  /\ LET l == Given.leader
         noop == <<[term |-> 1, op |-> "noop"]>>
     IN /\ log = [n \in Nodes |-> noop]
        /\ commit = [n \in Nodes |-> 1]
        /\ applied = [n \in Nodes |-> 1]
        /\ base = [n \in Nodes |-> [index |-> 0, ms |-> Configured(n)]]
        /\ view = [n \in Nodes |-> Started(n, [index |-> 0, ms |-> Configured(n)], noop)]
        /\ term = [n \in Nodes |-> 1]
        /\ state = [n \in Nodes |-> IF n = l THEN "leader" ELSE "follower"]
        /\ match = [n \in Nodes |-> IF n = l THEN [p \in DOMAIN Given.members \ {l} |-> 1]
                                    ELSE NoProgress]
        /\ start = [n \in Nodes |-> IF n = l THEN 1 ELSE 0]
        /\ elected = {<<1, l>>}
  /\ pending = [n \in Nodes |-> 0]
  /\ departing = [n \in Nodes |-> NoProgress]
  /\ told = [n \in Nodes |-> FALSE]
  /\ asked = 0
  /\ settled = <<[term |-> 1, op |-> "noop"]>>
  /\ restarts = 0

Step ==
  \/ \E n \in Given.nodes :
       \/ \E Q \in SUBSET (Given.nodes \ {n}) : Elect(n, Q)
       \/ StepDown(n)
       \/ asked < Len(Given.changes) /\ handleProposals(n, Given.changes[asked + 1])
       \/ Apply(n)
       \/ maybeSnapshot(n)
       \/ Restart(n)
  \/ \E l, f \in Given.nodes :
       \/ \E r \in Ranges(l, f), acked \in {TRUE, ~Given.losses} : Replicate(l, f, r[1], r[2], acked)
       \/ tickDepartures(l, f)
       \/ handleSnapInstallResult(l, f)

\* What has once been committed is remembered, for the properties, across restarts.
Settle ==
  settled' = IF \E n \in Nodes : commit'[n] > Len(settled)
             THEN LET n == CHOOSE n \in Nodes : commit'[n] > Len(settled)
                  IN SubSeq(log'[n], 1, commit'[n])
             ELSE settled

Next == Step /\ Settle

Spec == Init /\ [][Next]_vars
------------------------------------------------------------------------------
Roles == {"voter", "learner", "witness"}
IsMembership(m) == DOMAIN m \subseteq Nodes /\ \A p \in DOMAIN m : m[p] \in Roles
Quorums == 0 .. Cardinality(Nodes)

TypeOK ==
  /\ \A n \in Nodes :
       /\ commit[n] \in 0 .. Len(log[n]) /\ applied[n] \in 0 .. commit[n]
       /\ base[n].index \in 0 .. applied[n]
       /\ pending[n] \in 0 .. Len(log[n])
       /\ IsMembership(view[n].peers) /\ n \notin DOMAIN view[n].peers
       /\ view[n].latest \in Quorums /\ view[n].quorum \in Quorums
       /\ view[n].index \in 0 .. Len(log[n])
       /\ state[n] \in {"leader", "follower"}
       /\ DOMAIN departing[n] \subseteq DOMAIN match[n]

\* One leader per term: two nodes that win elections in one term are one node,
\* whatever memberships they counted their votes in (electionWon).
OneLeaderPerTerm == \A a, b \in elected : a[1] = b[1] => a = b


\* C_new is never appended on a joint configuration that could still be discarded: a
\* finalise entry in any log stands behind a joint entry that has been committed.
FinaliseAfterJoint ==
  \A n \in Nodes : \A i \in 1 .. Len(log[n]) :
    log[n][i].op = "finalise" =>
      \E j \in 1 .. i - 1 : /\ log[n][j].op = "joint"
                            /\ j <= Len(settled) /\ settled[j] = log[n][j]

\* A reconfiguration is not left half way: a leader that counts in a joint configuration
\* it has applied has the finalise entry in its log (appendFinaliseEntry, becomeLeader).
PhaseTwoFollows ==
  \A n \in Nodes :
    state[n] = "leader" /\ view[n].joint /\ view[n].index <= applied[n] =>
      \E i \in view[n].index + 1 .. Len(log[n]) : log[n][i].op = "finalise"

\* A policy binds from the append: a node whose log holds a quorum entry counts votes at
\* least as strictly as the last such entry demands (noteAppendedConfig).
PolicyInForce ==
  \A n \in Nodes :
    LET at == {i \in base[n].index + 1 .. Len(log[n]) : log[n][i].op = "quorum"}
        total == Cardinality(Group(view[n].peers, n, view[n].voter))
    IN at # {} =>
         electionQuorumNeeded(view[n].quorum, view[n].latest, total)
           >= electionQuorumFor(log[n][CHOOSE i \in at : \A j \in at : j <= i].q, total)

\* A change goes through its phases in order and binds when it should: the second phase of
\* a reconfiguration after the first is committed, and then without fail; a policy from
\* the append (applyConfigChange, becomeLeader, noteAppendedConfig).
ChangesInOrder == TypeOK /\ FinaliseAfterJoint /\ PhaseTwoFollows /\ PolicyInForce


\* Leadership can always be settled: when nobody leads, some node could win an election
\* among nodes that have applied what they know to be committed.
SomebodyCanWin ==
  (\A n \in Given.nodes : state[n] = "follower" /\ applied[n] = commit[n]) =>
    \E n \in Given.nodes : \E Q \in SUBSET (Given.nodes \ {n}) :
      /\ view[n].voter /\ n \notin Given.witnesses
      /\ Q \subseteq VotersOf(view[n].peers)
      /\ \A p \in Q : view[p].voter /\ isUpToDate(n, p)
      /\ electionWon(n, Q \cup {n})
=============================================================================
