----------------------------- MODULE MCServices -----------------------------
(***************************************************************************)
(* What is built on the replicated log, and around it: the key-value store,*)
(* its change feed, the client that calls it, the life of the processes,   *)
(* linearizable reads and disaster recovery.  A behaviour is one of one of *)
(* them, in one situation; the variables of the others keep still.         *)
(***************************************************************************)
EXTENDS Integers, Sequences, FiniteSets, TLC

CONSTANTS m1, m2, None,
          Parts,               \* the components this run is about
          StoreSituations, FeedSituations, Traffics, Processes, ReadSituations

VARIABLES part,
          kGiven, log, applied, fsm, answer, stored, backup, importer, clock, sweep, named,
          cGiven, current, putting, notifyCh, pendingGaps, dispatchers, watcher, subs, view, stopping,
          tGiven, leads, hints, advertised, requests, call,
          lGiven, resource, manager, store, member, calls,
          rGiven, now, lag, role, term, votes, heard, commitIndex, rounds, barriers, reads, committed,
          disk, lost, recovery, crashed

storeVars == <<kGiven, log, applied, fsm, answer, stored, backup, importer, clock, sweep, named>>
feedVars == <<cGiven, current, putting, notifyCh, pendingGaps, dispatchers, watcher, subs, view, stopping>>
clientVars == <<tGiven, leads, hints, advertised, requests, call>>
lifeVars == <<lGiven, resource, manager, store, member, calls>>
readVars == <<rGiven, now, lag, role, term, votes, heard, commitIndex, rounds, barriers, reads, committed>>
diskVars == <<disk, lost, recovery, crashed>>

Each(situations) == {situations[n] : n \in DOMAIN situations}

(***************************************************************************)
(* Situations of the store: the operations and values in play, the entries *)
(* the log may hold, whether replicas snapshot and restore, and imports.   *)
(***************************************************************************)
Store1 == [may |-> {}, values |-> {1}, keys |-> {<<1, 1>>}, entries |-> 3, snapshots |-> FALSE,
           imports |-> FALSE, ticks |-> 0, replicas |-> {1}]

Store2 == [Store1 EXCEPT !.replicas = {1, 2}, !.snapshots = TRUE]

StorePass == Each(
  [transactions |-> [Store1 EXCEPT !.may = {"plain", "txn"}, !.values = {2}, !.keys = {<<1, 1>>, <<2, 1>>},
                                   !.entries = 2],
   conditions |-> [Store2 EXCEPT !.may = {"plain", "conditional"}, !.values = {1, 2}],
   leases |-> [Store1 EXCEPT !.may = {"upsert", "delete", "leased", "txn", "sweep"}, !.ticks = 1],
   leasesRestored |-> [Store2 EXCEPT !.may = {"upsert", "delete", "leased", "sweep"},
                                     !.keys = {<<1, 1>>, <<1, 2>>}, !.ticks = 1],
   imports |-> [Store1 EXCEPT !.may = {"upsert", "delete"}, !.entries = 4, !.imports = TRUE],
   importsRestored |-> [Store2 EXCEPT !.may = {"upsert"}, !.imports = TRUE]])

KV == INSTANCE KVStore WITH Replicas <- {1, 2}, Leader <- 1, Collections <- {1, 2}, Keys <- {1, 2},
                            Tokens <- {"a", "b"}, Situations <- StoreSituations

(***************************************************************************)
(* Situations of the change feed: the capacities of its three queues, the  *)
(* writes, and what the two subscribers watch (key 0 is a whole collection)*)
(***************************************************************************)
Feed1 == [keys |-> {1}, notify |-> 1, queue |-> 1, channel |-> 1, writes |-> 4, stops |-> FALSE,
          cancels |-> FALSE, subscribes |-> <<[c |-> 1, k |-> 0], [c |-> 2, k |-> 0]>>]

FeedPass == Each(
  [narrow |-> Feed1,
   perKey |-> [Feed1 EXCEPT !.keys = {1, 2}, !.notify = 4, !.queue = 4, !.writes = 3,
                            !.subscribes = <<[c |-> 1, k |-> 0], [c |-> 1, k |-> 1]>>],
   leaving |-> [Feed1 EXCEPT !.notify = 2, !.queue = 2, !.channel = 2, !.writes = 3, !.cancels = TRUE,
                             !.stops = TRUE]])

\* A subscriber to one key behind queues that lose events.
FeedOfAKey == {[Feed1 EXCEPT !.subscribes = <<[c |-> 1, k |-> 0], [c |-> 1, k |-> 1]>>]}

CF == INSTANCE ChangeFeed WITH Watched <- {1, 2}, Keys <- {1, 2}, Subscribers <- {1, 2}, Feeds <- FeedSituations

(***************************************************************************)
(* Situations of the client: the calls in flight, the endpoints it was     *)
(* given, how often leadership moves and a message is lost.                *)
(***************************************************************************)
CC == INSTANCE ClientCalls WITH Nodes <- {m1, m2}, Calls <- {"c1", "c2"}, Traffic <- Traffics

\* The requests the situations are made of.
Ask == INSTANCE ClientCalls WITH Nodes <- {}, Calls <- {}, Traffic <- {}

Traffic1 == [endpoints |-> <<m1, m2>>, asks |-> <<>>, attempts |-> 2, maxRedirects |-> 2, changes |-> 1,
             losses |-> 1, first |-> m1, key |-> [there |-> TRUE, rev |-> 1], advertised |-> {m1, m2}]

Asks(a, b) == ("c1" :> a) @@ ("c2" :> b)

TrafficPass == Each(
  [identified |-> [Traffic1 EXCEPT !.endpoints = <<m2>>,
                     !.asks = Asks(Ask!write("create", Ask!NoCond, TRUE), Ask!write("delete", Ask!NoCond, TRUE))],
   conditional |-> [Traffic1 EXCEPT !.endpoints = <<m2>>,
                      !.asks = Asks(Ask!write("update", 1, FALSE), Ask!Mutate(1, FALSE))],
   oneEndpoint |-> [Traffic1 EXCEPT !.asks = ("c1" :> Ask!Mutate(Ask!NoCond, FALSE)), !.endpoints = <<m1>>,
                                    !.advertised = {}, !.changes = 0],
   leases |-> [Traffic1 EXCEPT !.asks = Asks(Ask!grantLease(TRUE), Ask!KeepAlive), !.endpoints = <<m2>>],
   batches |-> [Traffic1 EXCEPT !.asks = Asks(Ask!batch(Ask!NoCond, TRUE), Ask!RevokeLease), !.endpoints = <<m2>>]])

\* A write without identity or condition, and two endpoints.
Ordinary == {[Traffic1 EXCEPT !.asks = ("c1" :> Ask!Mutate(Ask!NoCond, FALSE))]}

\* A write on condition that the key is absent, and a delete.
Absent == {[Traffic1 EXCEPT !.asks = Asks(Ask!write("upsert", 0, FALSE), Ask!write("delete", Ask!NoCond, TRUE)),
                                       !.key = [there |-> FALSE, rev |-> 0]]}

(***************************************************************************)
(* Processes: a store of its own or a manager of two groups, the steps     *)
(* that may fail, and the calls with those each of them waits for.         *)
(***************************************************************************)
Process(kind, shared, joins, leaves, faults, after) ==
  [kind |-> kind, shared |-> shared, joins |-> joins, leaves |-> leaves, http |-> TRUE,
   balances |-> kind = "manager", groups |-> IF kind = "manager" THEN {1, 2} ELSE {1}, faults |-> faults,
   deadlines |-> FALSE, after |-> after]

ProcessPass == Each(
  [single |-> [Process("store", FALSE, TRUE, TRUE, {"listenHTTP", "joinCluster"},
                       [new |-> {}, start |-> {"new"}, stop |-> {"start"}, again |-> {"start"}])
                 EXCEPT !.deadlines = TRUE],
   unstarted |-> Process("store", FALSE, TRUE, TRUE, {}, [new |-> {}, stop |-> {"new"}]),
   shared |-> Process("manager", TRUE, FALSE, TRUE, {"newNode", "listenHTTP", "openWAL"},
                      [start |-> {}, stop |-> {"start"}, stopOne |-> {"start"}]),
   own |-> Process("manager", FALSE, TRUE, FALSE, {"openStorage", "joinCluster", "newNode"},
                   [start |-> {}, stop |-> {"start"}, again |-> {"start"}, stopOne |-> {"start"}]),
   idle |-> Process("manager", TRUE, FALSE, FALSE, {}, [stop |-> {}]),
   removing |-> Process("manager", TRUE, FALSE, FALSE, {},
                        [start |-> {}, remove |-> {"start"}, removeGraceful |-> {"start"},
                         stop |-> {"remove", "removeGraceful"}])])

\* Steps whose failure leaves something open.
LeakListen == {Process("manager", TRUE, FALSE, FALSE, {"listen"}, [start |-> {}])}
LeakBalancing == {Process("manager", TRUE, FALSE, FALSE, {"startBalancing"}, [start |-> {}])}
LeakNode == {Process("store", FALSE, FALSE, FALSE, {"newNode"}, [new |-> {}])}

\* Calls that are not made one after the other.
RemoveBesideStop == {Process("manager", TRUE, FALSE, FALSE, {},
                                      [start |-> {}, remove |-> {"start"}, stop |-> {"start"}])}
StopBesideStart == {Process("manager", FALSE, FALSE, FALSE, {}, [start |-> {}, stop |-> {}])}
RemoveBesideStoreStop == {Process("manager", FALSE, FALSE, FALSE, {},
                                           [start |-> {}, remove |-> {"start"}, stopOne |-> {"start"}])}

LC == INSTANCE Lifecycle WITH Groups <- {1, 2}

(***************************************************************************)
(* Situations of reads: three voters; an election timeout of 0 lets an     *)
(* election happen at any time.                                            *)
(***************************************************************************)
Reading == [voters |-> {1, 2, 3}, readers |-> {"r1"}, forwards |-> TRUE, leases |-> FALSE, resends |-> FALSE,
            prompt |-> FALSE, suspends |-> FALSE, transfers |-> FALSE, electionTimeoutMin |-> 3,
            leaseSafetyMargin |-> 1, entries |-> 2, terms |-> 2, ticks |-> 5]

ReadPass == Each(
  [replaced |-> [Reading EXCEPT !.resends = TRUE, !.transfers = TRUE, !.electionTimeoutMin = 0, !.ticks = 2],
   joining |-> [Reading EXCEPT !.resends = TRUE, !.readers = {"r1", "r2"}, !.terms = 1, !.ticks = 2],
   leased |-> [Reading EXCEPT !.leases = TRUE, !.prompt = TRUE, !.suspends = TRUE],
   fromLease |-> [Reading EXCEPT !.leases = TRUE, !.prompt = TRUE, !.readers = {"r1", "r2"}, !.forwards = FALSE,
                                 !.electionTimeoutMin = 2, !.ticks = 3]])

\* Four voters, of whom two acknowledgements are enough.
FourVoters == {[Reading EXCEPT !.voters = {1, 2, 3, 4}, !.readers = {"r1", "r2"}, !.ticks = 1]}

\* A barrier sent again, a transfer, an election that takes its time, under a lease.
LeaseResend == {[Reading EXCEPT !.leases = TRUE, !.prompt = TRUE, !.resends = TRUE]}
LeaseTransfer == {[Reading EXCEPT !.leases = TRUE, !.prompt = TRUE, !.transfers = TRUE]}
LeaseSlowElection == {[Reading EXCEPT !.leases = TRUE]}

RD == INSTANCE Reads WITH Elections <- ReadSituations

(***************************************************************************)
(* The disks a survivor may be left with: a log of at most two entries,    *)
(* plain or of a configuration, alone or on a snapshot.                    *)
(***************************************************************************)
All3 == (1 :> TRUE) @@ (2 :> TRUE) @@ (3 :> TRUE)

ConfigEntries == {[op |-> "none", peers |-> <<>>], [op |-> "add", peers |-> 3 :> FALSE],
                  [op |-> "remove", peers |-> 2 :> TRUE], [op |-> "joint", peers |-> All3],
                  [op |-> "finalise", peers |-> All3]}

NoSnapshot == [index |-> 0, term |-> 0, hasMembership |-> FALSE,
               membership |-> [joint |-> FALSE, members |-> (1 :> TRUE), old |-> <<>>, new |-> <<>>]]

InJoint == [index |-> 1, term |-> 1, hasMembership |-> TRUE,
            membership |-> [joint |-> TRUE, members |-> <<>>, old |-> All3, new |-> (1 :> TRUE)]]

EntryOf(t, c) == [term |-> t, op |-> c.op, peers |-> c.peers]

LogsAfter(i) == {<<>>} \cup {(i + 1 :> EntryOf(1, a)) : a \in ConfigEntries}
                  \cup {(i + 1 :> EntryOf(1, a)) @@ (i + 2 :> EntryOf(t, b)) : a, b \in ConfigEntries, t \in {1, 2}}

DisksWith(snap, l) == {[term |-> 2, snap |-> snap, log |-> l, recorded |-> r] : r \in {0} \cup DOMAIN l}

\* A log that goes on from the snapshot, or still holds what the snapshot covers.
Survivors == UNION {DisksWith(NoSnapshot, l) : l \in LogsAfter(0)}
               \cup UNION {DisksWith(InJoint, l) : l \in LogsAfter(1) \cup (LogsAfter(0) \ {<<>>})}

RC == INSTANCE Recovery WITH Self <- 1, Disks <- Survivors, Crashes <- 1,
        Memberships <- {(1 :> TRUE), (1 :> TRUE) @@ (2 :> FALSE), (1 :> TRUE) @@ (2 :> TRUE)}

ASSUME SurvivorsAreWellFormed == RC!DisksAreWellFormed

(***************************************************************************)
(* One of them.                                                            *)
(***************************************************************************)
vars == <<part, storeVars, feedVars, clientVars, lifeVars, readVars, diskVars>>

Init ==
  /\ part \in Parts
  /\ IF part = "store" THEN KV!KInit
     ELSE kGiven = 0 /\ log = 0 /\ applied = 0 /\ fsm = 0 /\ answer = 0 /\ stored = 0 /\ backup = 0
          /\ importer = 0 /\ clock = 0 /\ sweep = 0 /\ named = 0
  /\ IF part = "feed" THEN CF!CInit
     ELSE cGiven = 0 /\ current = 0 /\ putting = 0 /\ notifyCh = 0 /\ pendingGaps = 0 /\ dispatchers = 0
          /\ watcher = 0 /\ subs = 0 /\ view = 0 /\ stopping = 0
  /\ IF part = "client" THEN CC!TInit
     ELSE tGiven = 0 /\ leads = 0 /\ hints = 0 /\ advertised = 0 /\ requests = 0 /\ call = 0
  /\ IF part = "process" THEN LC!LInit
     ELSE lGiven = 0 /\ resource = 0 /\ manager = 0 /\ store = 0 /\ member = 0 /\ calls = 0
  /\ IF part = "reads" THEN RD!RInit
     ELSE rGiven = 0 /\ now = 0 /\ lag = 0 /\ role = 0 /\ term = 0 /\ votes = 0 /\ heard = 0
          /\ commitIndex = 0 /\ rounds = 0 /\ barriers = 0 /\ reads = 0 /\ committed = 0
  /\ IF part = "recovery" THEN RC!DInit
     ELSE disk = 0 /\ lost = 0 /\ recovery = 0 /\ crashed = 0

Next ==
  \/ part = "store" /\ KV!KNext /\ UNCHANGED <<part, feedVars, clientVars, lifeVars, readVars, diskVars>>
  \/ part = "feed" /\ CF!CNext /\ UNCHANGED <<part, storeVars, clientVars, lifeVars, readVars, diskVars>>
  \/ part = "client" /\ CC!TNext /\ UNCHANGED <<part, storeVars, feedVars, lifeVars, readVars, diskVars>>
  \/ part = "process" /\ LC!LNext /\ UNCHANGED <<part, storeVars, feedVars, clientVars, readVars, diskVars>>
  \/ part = "reads" /\ RD!RNext /\ UNCHANGED <<part, storeVars, feedVars, clientVars, lifeVars, diskVars>>
  \/ part = "recovery" /\ RC!DNext /\ UNCHANGED <<part, storeVars, feedVars, clientVars, lifeVars, readVars>>

Spec == Init /\ [][Next]_vars

\* Replicas that have applied the same entries hold the same state, also those restored
\* from a snapshot, and in each the tables that say a thing twice agree: leases and the
\* keys they own, running totals and contents (applyEntry, snapshot, restore).
StateIsCoherent == part = "store" => KV!ReplicasAgree /\ KV!LeaseTablesAgree /\ KV!TotalsAreExact


\* What an entry says it did is what it did: a refused one changes nothing, the events of
\* another are its change, an import takes effect whole (rollback, applyEntry, applyImport).
EntriesTellTheTruth == KV!RefusedChangesNothing /\ KV!EventsTellTheChange /\ KV!ImportsWhole




\* A node runs only as a member and on open resources, none of which is closed twice
\* (joinCluster, Manager.Stop, Store.stop, RemoveStore).
RunsOnlyReady ==
  part = "process" => LC!RunsOnOpenResources /\ LC!JoinedBeforeRunning /\ LC!ClosedOnce


\* A read sees every write answered before it was asked for (handleReadIndex).
ReadIsFresh == part = "reads" => RD!ReadIsFresh


\* A read that waits for a round waits behind one that is in flight (Node.waitingReads).
WaitingHasARound == part = "reads" => RD!WaitingHasARound

\* A recovered node is the only voter of the membership asked for, by an entry newer than
\* any other of its log, and no crash leaves it one above its term (RecoverCluster).
RecoveredAlone == part = "recovery" => RC!RecoveredAlone /\ RC!LastWord /\ RC!TermBeforeEntry

\* What is proved committed is kept without a hole, and with DiscardUncommitted nothing
\* else is (RecoverCluster).
KeepsTheProven == part = "recovery" => RC!KeepsTheProven /\ RC!NothingInvented

=============================================================================
