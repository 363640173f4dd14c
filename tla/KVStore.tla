------------------------------- MODULE KVStore -------------------------------
(***************************************************************************)
(* The replicated key-value store (easyraft/store.go): its state machine,  *)
(* the commands its API proposes, and the snapshots its replicas exchange. *)
(*                                                                         *)
(* The Raft log below it is a sequence that grows; every replica applies   *)
(* it in order, and may be put back on a snapshot and apply the rest.  A   *)
(* value is a number that is also its encoded length, 0 meaning no value;  *)
(* a key's length is 1; a key that is absent has revision 0.  A backup is  *)
(* sent in two chunks, the collections and the rest.                       *)
(***************************************************************************)
EXTENDS Integers, Sequences, FiniteSets, SequencesExt

CONSTANTS Replicas,     \* the leader and the others
          Leader,
          Collections, Keys,
          Tokens,       \* the imports a behaviour may run
          Situations    \* the situations: operations offered, bounds

VARIABLES kGiven,       \* the situation this behaviour is in
          log,          \* committed commands
          applied,      \* replica |-> entries of the log it has applied
          fsm,          \* replica |-> the state machine's fields
          answer,       \* what the leader's latest entry returned, and its events
          stored,       \* the latest snapshot: [at, snap]
          backup,       \* the latest backup
          importer,     \* token |-> how far Store.Import has come
          clock,        \* the clock the proposers read
          sweep,        \* leases the sweeper found due and has yet to revoke
          named         \* history: every (key, revision, value) ever in force

kvars == <<kGiven, log, applied, fsm, answer, stored, backup, importer, clock, sweep, named>>

CK == Collections \X Keys

MaxValue == 3

\* IfRev absent.
NoRev == -1

NoImport == [token |-> "none", seq |-> 0, buf |-> <<>>]

Empty == [exists |-> {}, val |-> [x \in CK |-> 0], rev |-> [x \in CK |-> 0], revision |-> 0,
          leases |-> <<>>, owner |-> [x \in CK |-> 0], importing |-> NoImport,
          bytes |-> 0, count |-> 0]

Higher(a, b) == IF a > b THEN a ELSE b

(***************************************************************************)
(* Keys, with the running totals.                                          *)
(***************************************************************************)
setKeyLocked(s, x, v) ==
  [s EXCEPT !.val[x] = v,
            !.count = IF s.val[x] = 0 THEN @ + 1 ELSE @,
            !.bytes = @ + v - s.val[x] + IF s.val[x] = 0 THEN 1 ELSE 0]

dropKeyLocked(s, x) ==
  IF s.val[x] = 0 THEN s
  ELSE [s EXCEPT !.val[x] = 0, !.rev[x] = 0, !.count = @ - 1, !.bytes = @ - s.val[x] - 1]

Present(s) == {x \in CK : s.val[x] # 0}

Bytes(s) == MapThenSumSet(LAMBDA x : s.val[x] + 1, Present(s))

recountLocked(s) == [s EXCEPT !.count = Cardinality(Present(s)), !.bytes = Bytes(s)]

(***************************************************************************)
(* Leases.                                                                 *)
(***************************************************************************)
Without(f, l) == [i \in DOMAIN f \ {l} |-> f[i]]

With(f, l, v) == [i \in DOMAIN f \cup {l} |-> IF i = l THEN v ELSE f[i]]

detach(s, x, l) ==
  LET p == s.owner[x]
  IN IF p = 0 \/ p = l THEN s
     ELSE [s EXCEPT !.owner[x] = 0,
                    !.leases = [i \in DOMAIN @ |-> IF i = p THEN [@[i] EXCEPT !.keys = @ \ {x}] ELSE @[i]]]

attachKeyToLease(s, x, l) ==
  LET off == detach(s, x, l)
  IN IF l = 0 \/ l \notin DOMAIN s.leases THEN off
     ELSE [off EXCEPT !.owner[x] = l, !.leases[l].keys = @ \cup {x}]

deleteLeaseKeysLocked(s, l) ==
  LET gone == {x \in s.leases[l].keys : s.owner[x] = l}
      Drop(x, t) == [dropKeyLocked(t, x) EXCEPT !.owner[x] = 0]
  IN FoldSet(Drop, s, gone)

\* slices.Sorted: the keys of a revoked lease go in one order on every replica.
InOrder(ks) == SetToSortSeq(ks, LAMBDA x, y : x[1] < y[1] \/ (x[1] = y[1] /\ x[2] < y[2]))

Event(x, v) == [ck |-> x, v |-> v]

Outcome(s, err, evs) == [s |-> s, err |-> err, evs |-> evs]

Moved(s, i) == [s EXCEPT !.revision = Higher(@, i)]

applyLeaseCommand(s, cmd, i) ==
  LET l == cmd.lease
      lapsed == l \notin DOMAIN s.leases
  IN CASE cmd.op = "leaseGrant" ->
            Outcome(Moved([s EXCEPT !.leases = With(@, i, [ttl |-> cmd.ttl, expires |-> cmd.now + cmd.ttl,
                                                          keys |-> {}])], i), FALSE, <<>>)
       [] cmd.op = "leaseKeepAlive" /\ lapsed -> Outcome(s, TRUE, <<>>)
       [] cmd.op = "leaseKeepAlive" /\ ~lapsed ->
            Outcome(Moved([s EXCEPT !.leases[l].expires = cmd.now + s.leases[l].ttl], i), FALSE, <<>>)
       [] cmd.op = "leaseRevoke" /\ lapsed -> Outcome(s, FALSE, <<>>)
       [] OTHER ->
            LET held == {x \in s.leases[l].keys : s.owner[x] = l}
                t == deleteLeaseKeysLocked(s, l)
            IN Outcome(Moved([t EXCEPT !.leases = Without(@, l)], i), FALSE,
                       [n \in 1..Cardinality(held) |-> Event(InOrder(held)[n], 0)])

(***************************************************************************)
(* One write.  Every operation creates the collection it names, even one   *)
(* that is then refused.                                                   *)
(***************************************************************************)
Refuses(s, cmd) ==
  LET x == cmd.ck
  IN \/ cmd.ifRev # NoRev /\ s.rev[x] # cmd.ifRev
     \/ cmd.lease # 0 /\ cmd.lease \notin DOMAIN s.leases
     \/ cmd.op = "create" /\ s.val[x] # 0
     \/ cmd.op \in {"update", "delete", "mutate"} /\ s.val[x] = 0
     \/ cmd.op = "mutate" /\ s.val[x] = MaxValue
     \/ cmd.op = "check" /\ cmd.ifRev = NoRev

NewValue(s, cmd) == IF cmd.op = "mutate" THEN s.val[cmd.ck] + 1 ELSE cmd.v


stamp(s, cmd, i) == attachKeyToLease(Moved([s EXCEPT !.rev[cmd.ck] = i], i), cmd.ck, cmd.lease)

applyWrite(s, cmd, i) ==
  LET x == cmd.ck
      t == [s EXCEPT !.exists = @ \cup {x[1]}]
      v == NewValue(s, cmd)
  IN CASE Refuses(s, cmd)   -> Outcome(t, TRUE, <<>>)
       [] cmd.op = "check"  -> Outcome(t, FALSE, <<>>)
       [] cmd.op = "delete" ->
            Outcome(Moved(attachKeyToLease(dropKeyLocked(t, x), x, 0), i), FALSE, <<Event(x, 0)>>)
       [] OTHER             -> Outcome(stamp(setKeyLocked(t, x, v), cmd, i), FALSE, <<Event(x, v)>>)

(***************************************************************************)
(* A transaction: its writes in turn, undone backwards when one is refused.*)
(***************************************************************************)
record(s, x) == [ck |-> x, v |-> s.val[x], rev |-> s.rev[x], lease |-> s.owner[x]]

\* Mutant: a rolled-back write stays on the lease it named.
undoValue(s, e) ==
  IF e.v # 0 THEN [setKeyLocked(s, e.ck, e.v) EXCEPT !.rev[e.ck] = e.rev] ELSE dropKeyLocked(s, e.ck)

undo(s, e) ==
  attachKeyToLease(IF e.v # 0 THEN [setKeyLocked(s, e.ck, e.v) EXCEPT !.rev[e.ck] = e.rev]
                   ELSE dropKeyLocked(s, e.ck), e.ck, e.lease)

RECURSIVE rollback(_, _)
rollback(s, entries) ==
  IF entries = <<>> THEN s ELSE rollback(undo(s, Last(entries)), Front(entries))

giveUp(s, old, entries, evs) ==
  Outcome([rollback(s, entries) EXCEPT !.exists = old.exists, !.revision = old.revision], TRUE, <<>>)

\* Refused inside a transaction, which could not undo them.
Unjournalled == {"import", "leaseGrant", "leaseKeepAlive", "leaseRevoke"}

RECURSIVE applyBatch(_, _, _, _, _, _)
applyBatch(s, old, cmds, i, entries, evs) ==
  IF cmds = <<>> THEN Outcome(s, FALSE, evs)
  ELSE LET cmd == Head(cmds)
           o == IF cmd.op \in Unjournalled THEN Outcome(s, TRUE, <<>>) ELSE applyWrite(s, cmd, i)
           journal == IF cmd.op = "check" THEN entries ELSE Append(entries, record(s, cmd.ck))
       IN IF o.err THEN giveUp(o.s, old, entries, evs)
          ELSE applyBatch(o.s, old, Tail(cmds), i, journal, evs \o o.evs)

(***************************************************************************)
(* Snapshots and backups, and the import of one.  The inverse of the lease *)
(* table and the totals are rebuilt.                                       *)
(***************************************************************************)
\* Mutant: a partly received backup is not in the snapshot.
snapshotUnstaged(s) == [exists |-> s.exists, val |-> s.val, rev |-> s.rev, revision |-> s.revision,
                        leases |-> s.leases, staged |-> NoImport]

snapshot(s) == [exists |-> s.exists, val |-> s.val, rev |-> s.rev, revision |-> s.revision,
                leases |-> s.leases, staged |-> s.importing]

rebuildLeases(leases) ==
  [x \in CK |-> LET ids == {l \in DOMAIN leases : x \in leases[l].keys}
                IN IF ids = {} THEN 0 ELSE Max(ids)]

Loaded(s, c) == recountLocked([s EXCEPT !.exists = c.exists, !.val = c.val, !.rev = c.rev,
                                        !.leases = c.leases, !.owner = rebuildLeases(c.leases)])

restore(c) == [Loaded(Empty, c) EXCEPT !.revision = c.revision, !.importing = c.staged]

\* The stream: the collections, then the revisions, the leases and a staged import.
streamCollections(c) ==
  <<[n |-> 1, body |-> [exists |-> c.exists, val |-> c.val]],
    [n |-> 2, body |-> [rev |-> c.rev, revision |-> c.revision, leases |-> c.leases, staged |-> c.staged]]>>

Decodes(buf) == Len(buf) = 2 /\ buf[1].n = 1 /\ buf[2].n = 2

decodeSnapshot(buf) == buf[1].body @@ buf[2].body

staging(s, cmd) == IF cmd.seq = 0 THEN [NoImport EXCEPT !.token = cmd.token] ELSE s.importing

applyImport(s, cmd, i) ==
  LET at == staging(s, cmd)
      buf == Append(at.buf, cmd.part)
      begun == [s EXCEPT !.importing = at]
      dropped == [s EXCEPT !.importing = NoImport]
      decoded == decodeSnapshot(buf)
  IN CASE cmd.abort -> Outcome(dropped, FALSE, <<>>)
       [] ~cmd.abort /\ (at.token # cmd.token \/ at.seq # cmd.seq) -> Outcome(begun, TRUE, <<>>)
       [] ~cmd.abort /\ at.token = cmd.token /\ at.seq = cmd.seq /\ ~cmd.final ->
            Outcome([s EXCEPT !.importing = [at EXCEPT !.buf = buf, !.seq = @ + 1]], FALSE, <<>>)
       [] ~cmd.abort /\ at.token = cmd.token /\ at.seq = cmd.seq /\ cmd.final /\ ~Decodes(buf) ->
            Outcome(dropped, TRUE, <<>>)
       [] OTHER -> Outcome([Loaded(dropped, decoded)
                              EXCEPT !.revision = Higher(Higher(@, decoded.revision), i)], FALSE, <<>>)

applyCommand(s, cmd, i) ==
  CASE cmd.op = "batch"  -> applyBatch(s, s, cmd.batch, i, <<>>, <<>>)
    [] cmd.op = "import" -> applyImport(s, cmd, i)
    [] cmd.op \in Unjournalled \ {"import"} -> applyLeaseCommand(s, cmd, i)
    [] OTHER -> applyWrite(s, cmd, i)

(***************************************************************************)
(* What the API proposes.                                                  *)
(***************************************************************************)
command(op, x, v, ifRev, lease) == [op |-> op, ck |-> x, v |-> v, ifRev |-> ifRev, lease |-> lease]

Plain(x, vs) ==
  {command(op, x, v, NoRev, 0) : op \in {"create", "update", "upsert"}, v \in vs}
    \cup {command(op, x, 0, NoRev, 0) : op \in {"delete", "mutate"}}

\* UpdateIf, UpsertIf, DeleteIf, MutateIf: under a revision some replica answered with.
Conditional(x, vs, seen) ==
  {command(op, x, v, r, 0) : op \in {"update", "upsert"}, v \in vs, r \in seen}
    \cup {command(op, x, 0, r, 0) : op \in {"delete", "mutate"}, r \in seen}

\* CreateWithLease, UpsertWithLease.
Leased(x, vs, ids) ==
  {command(op, x, v, NoRev, l) : op \in {"create", "upsert"}, v \in vs, l \in ids}

\* Txn.CheckRev.
Checks(x, seen) == {command("check", x, 0, r, 0) : r \in seen}

GrantLease(ttl) == [op |-> "leaseGrant", lease |-> 0, ttl |-> ttl, now |-> clock]

KeepAlive(l) == [op |-> "leaseKeepAlive", lease |-> l, now |-> clock]

RevokeLease(l) == [op |-> "leaseRevoke", lease |-> l]

importChunk(t, seq, part, final) ==
  [op |-> "import", token |-> t, seq |-> seq, part |-> part, final |-> final, abort |-> FALSE]

abortImport(t) ==
  [op |-> "import", token |-> t, seq |-> 0, part |-> [n |-> 0], final |-> FALSE, abort |-> TRUE]

\* Revisions a reader of some replica holds, ReadStaleRev included.
Seen(x) == {fsm[r].rev[x] : r \in kGiven.replicas}

Granted == {i \in DOMAIN log : log[i].op = "leaseGrant"}

Offered(x) ==
  LET vs == kGiven.values
  IN UNION {IF "plain" \in kGiven.may THEN Plain(x, vs) ELSE {},
            IF "upsert" \in kGiven.may THEN {command("upsert", x, v, NoRev, 0) : v \in vs} ELSE {},
            IF "delete" \in kGiven.may THEN {command("delete", x, 0, NoRev, 0)} ELSE {},
            IF "conditional" \in kGiven.may THEN Conditional(x, vs, Seen(x)) ELSE {},
            IF "leased" \in kGiven.may THEN Leased(x, vs, Granted) ELSE {}}

Writes == UNION {Offered(x) : x \in kGiven.keys}

\* Store.Txn of two operations; the HTTP batch can also name one a transaction refuses.
Txns == IF "txn" \in kGiven.may
        THEN LET second == UNION {Offered(x) \cup Checks(x, Seen(x)) : x \in kGiven.keys} \cup {GrantLease(1)}
             IN {[op |-> "batch", batch |-> <<a, b>>] : a \in Writes, b \in second}
        ELSE {}

LeaseCommands == IF "leased" \in kGiven.may
                 THEN {GrantLease(1)} \cup {KeepAlive(l) : l \in Granted} \cup {RevokeLease(l) : l \in Granted}
                 ELSE {}

(***************************************************************************)
(* Steps.                                                                  *)
(***************************************************************************)
KInit ==
  /\ kGiven \in Situations
  /\ log = <<>>
  /\ applied = [r \in Replicas |-> 0]
  /\ fsm = [r \in Replicas |-> Empty]
  /\ answer = [err |-> FALSE, evs |-> <<>>]
  /\ stored = [at |-> 0, snap |-> snapshot(Empty)]
  /\ backup = [taken |-> FALSE]
  /\ importer = [t \in Tokens |-> [stage |-> "idle", seq |-> 0]]
  /\ clock = 0
  /\ sweep = <<>>
  /\ named = {}

NamedBy(s) == {[ck |-> x, rev |-> s.rev[x], v |-> s.val[x]] : x \in Present(s)}

\* applyEntry at the leader, whose Propose returns what it returned.  The leader has
\* always applied what it committed: what it has not, nobody has been answered about.
propose(cmd) ==
  LET i == Len(log) + 1
      o == applyCommand(fsm[Leader], cmd, i)
  IN /\ i <= kGiven.entries
     /\ log' = Append(log, cmd)
     /\ applied' = [applied EXCEPT ![Leader] = i]
     /\ fsm' = [fsm EXCEPT ![Leader] = o.s]
     /\ answer' = [err |-> o.err, evs |-> o.evs]
     /\ named' = named \cup NamedBy(o.s)
     /\ UNCHANGED <<kGiven, stored, backup, clock>>

Propose ==
  /\ \E cmd \in Writes \cup Txns \cup LeaseCommands : propose(cmd)
  /\ UNCHANGED <<importer, sweep>>

applyEntry(r) ==
  LET i == applied[r] + 1
      o == applyCommand(fsm[r], log[i], i)
  IN /\ i <= Len(log)
     /\ applied' = [applied EXCEPT ![r] = i]
     /\ fsm' = [fsm EXCEPT ![r] = o.s]
     /\ UNCHANGED <<kGiven, log, answer, stored, backup, importer, clock, sweep, named>>

Snapshot ==
  /\ kGiven.snapshots
  /\ stored' = [at |-> applied[Leader], snap |-> snapshot(fsm[Leader])]
  /\ stored' # stored
  /\ UNCHANGED <<kGiven, log, applied, fsm, answer, backup, importer, clock, sweep, named>>

\* A replica that fell behind, or one that starts again.
Restore(r) ==
  /\ r # Leader
  /\ kGiven.snapshots
  /\ stored.at # applied[r]
  /\ applied' = [applied EXCEPT ![r] = stored.at]
  /\ fsm' = [fsm EXCEPT ![r] = restore(stored.snap)]
  /\ UNCHANGED <<kGiven, log, answer, stored, backup, importer, clock, sweep, named>>

Backup(r) ==
  /\ kGiven.imports
  /\ backup' = [taken |-> TRUE, snap |-> snapshot(fsm[r])]
  /\ backup' # backup
  /\ UNCHANGED <<kGiven, log, applied, fsm, answer, stored, importer, clock, sweep, named>>

ImportStart(t) ==
  /\ importer[t].stage = "idle"
  /\ backup.taken
  /\ importer' = [importer EXCEPT ![t] = [stage |-> "sending", seq |-> 0, snap |-> backup.snap]]
  /\ UNCHANGED <<kGiven, log, applied, fsm, answer, stored, backup, clock, sweep, named>>

\* The chunk is proposed; the reader may have ended after the first, and the answer
\* may be lost.  Any error sends the import on to its abort.
ImportSend(t) ==
  \E final \in BOOLEAN, answered \in BOOLEAN :
    LET seq == importer[t].seq
    IN /\ importer[t].stage = "sending"
       /\ seq = 1 => final
       /\ propose(importChunk(t, seq, streamCollections(importer[t].snap)[seq + 1], final))
       /\ importer' = [importer EXCEPT ![t].seq = @ + 1,
                                      ![t].stage = IF answer'.err \/ ~answered THEN "aborting"
                                                   ELSE IF final THEN "over" ELSE "sending"]
       /\ UNCHANGED sweep

\* The chunk never got into the log, or the reader failed.
ImportFail(t) ==
  /\ importer[t].stage = "sending"
  /\ importer' = [importer EXCEPT ![t].stage = "aborting"]
  /\ UNCHANGED <<kGiven, log, applied, fsm, answer, stored, backup, clock, sweep, named>>

ImportAbort(t) ==
  /\ importer[t].stage = "aborting"
  /\ importer' = [importer EXCEPT ![t].stage = "over"]
  /\ \/ propose(abortImport(t)) /\ UNCHANGED sweep
     \/ UNCHANGED <<kGiven, log, applied, fsm, answer, stored, backup, clock, sweep, named>>

Tick ==
  /\ clock < kGiven.ticks
  /\ clock' = clock + 1
  /\ UNCHANGED <<kGiven, log, applied, fsm, answer, stored, backup, importer, sweep, named>>

dueLeases(s, now) == SetToSortSeq({l \in DOMAIN s.leases : s.leases[l].expires <= now}, <)

\* sweepLeases: the leases due now, and then a proposal for each, until one fails.
SweepLook ==
  /\ "sweep" \in kGiven.may
  /\ sweep = <<>>
  /\ sweep' = dueLeases(fsm[Leader], clock)
  /\ UNCHANGED <<kGiven, log, applied, fsm, answer, stored, backup, importer, clock, named>>

SweepRevoke ==
  /\ sweep # <<>>
  /\ propose(RevokeLease(Head(sweep)))
  /\ sweep' = Tail(sweep)
  /\ UNCHANGED importer

SweepFail ==
  /\ sweep # <<>>
  /\ sweep' = <<>>
  /\ UNCHANGED <<kGiven, log, applied, fsm, answer, stored, backup, importer, clock, named>>

KNext ==
  \/ Propose \/ Snapshot \/ Tick \/ SweepLook \/ SweepRevoke \/ SweepFail
  \/ \E r \in kGiven.replicas : applyEntry(r) \/ Restore(r) \/ Backup(r)
  \/ \E t \in Tokens : ImportStart(t) \/ ImportSend(t) \/ ImportFail(t) \/ ImportAbort(t)

KSpec == KInit /\ [][KNext]_kvars

(***************************************************************************)
(* Properties.                                                             *)
(***************************************************************************)
\* Two replicas that have applied the same entries hold the same state, whatever
\* snapshots either was put back on, an import half received included.
ReplicasAgree ==
  \A r, q \in kGiven.replicas : applied[r] = applied[q] => fsm[r] = fsm[q]

\* A key is on a lease's list exactly when the lease owns it, and is there to be
\* deleted: no key is left behind with nothing to remove it (attachKeyToLease).
LeaseTablesAgree ==
  \A r \in Replicas : LET s == fsm[r] IN
    /\ \A x \in CK : s.owner[x] # 0 => s.owner[x] \in DOMAIN s.leases /\ s.val[x] # 0
    /\ \A l \in DOMAIN s.leases : s.leases[l].keys = {x \in CK : s.owner[x] = l}


\* The running size and count are what measuring the state would give
\* (setKeyLocked: "the only way a running total stays true").
TotalsAreExact ==
  \A r \in Replicas : fsm[r].count = Cardinality(Present(fsm[r])) /\ fsm[r].bytes = Bytes(fsm[r])

\* An entry that is refused changes no key, revision, lease, total or watermark, and
\* tells nobody of a change; a refused transaction creates no collection either.
RefusedChangesNothing ==
  [][log' # log /\ answer'.err =>
       LET s == fsm[Leader] t == fsm'[Leader] op == Last(log').op
       IN /\ [t EXCEPT !.exists = {}, !.importing = NoImport] = [s EXCEPT !.exists = {}, !.importing = NoImport]
          /\ op # "import" => t.importing = s.importing
          /\ op = "batch" => t.exists = s.exists
          /\ answer'.evs = <<>>]_kvars

RECURSIVE Replayed(_, _)
Replayed(val, evs) ==
  IF evs = <<>> THEN val ELSE Replayed([val EXCEPT ![Head(evs).ck] = Head(evs).v], Tail(evs))

\* Somebody who keeps a copy of the keys and applies the events of each entry has, after
\* every entry but an import, the keys the store has.
EventsTellTheChange ==
  [][log' # log /\ Last(log').op # "import" =>
       Replayed(fsm[Leader].val, answer'.evs) = fsm'[Leader].val]_kvars

\* A chunk of an import leaves the keys as they were or puts exactly that import's
\* backup in their place, however two imports' chunks fall in the log (applyImport).
ImportsWhole ==
  [][log' # log /\ Last(log').op = "import" =>
       LET s == fsm[Leader] t == fsm'[Leader] b == importer[Last(log').token]
       IN \/ [t EXCEPT !.importing = NoImport] = [s EXCEPT !.importing = NoImport]
          \/ /\ b.stage = "sending"
             /\ t.val = b.snap.val /\ t.rev = b.snap.rev /\ t.leases = b.snap.leases
             /\ t.importing = NoImport /\ t.revision >= b.snap.revision]_kvars

=============================================================================
