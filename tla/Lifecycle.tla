------------------------------ MODULE Lifecycle ------------------------------
(***************************************************************************)
(* How a process's stores come up and go down: easyraft.NewStore,          *)
(* Store.Start, Store.Stop and Store.Leave, the Manager that runs several  *)
(* groups over one transport and perhaps one log (easyraft/manager.go),    *)
(* and the raft.Manager underneath it (manager.go).                        *)
(*                                                                         *)
(* A call is the list of the steps it has still to take; every step that   *)
(* touches shared state is one action.  A step of Start may fail, which    *)
(* puts the cleanup in place of the rest.  Stopping a node takes two       *)
(* steps: it goes on using its storage and its transport in between.       *)
(***************************************************************************)
EXTENDS Integers, Sequences, FiniteSets, SequencesExt

CONSTANTS Groups,     \* Raft groups: numbers, started in order
          Processes   \* how a process may be configured, and what it calls

VARIABLES lGiven,     \* the configuration of this behaviour
          resource,   \* resource |-> [state, closes]
          manager,    \* the Manager's fields and the raft.Manager's
          store,      \* group |-> the Store's fields, its node included
          member,     \* groups whose cluster counts this process as a member
          calls       \* call |-> [todo, errs, verdict, held]

lvars == <<lGiven, resource, manager, store, member, calls>>

Managed == lGiven.kind = "manager"

WAL == <<"wal", 0>>

Transport == <<"transport", 0>>

HTTP == <<"http", 0>>

Storage(g) == <<"storage", g>>

Resources == {WAL, Transport, HTTP} \cup {Storage(g) : g \in Groups}

do(op) == [op |-> op, g |-> 0]

for(op, g) == [op |-> op, g |-> g]

If(cond, steps) == IF cond THEN steps ELSE <<>>

InTurn(Steps(_), gs) == FlattenSeq([i \in DOMAIN gs |-> Steps(gs[i])])

Sorted == SetToSortSeq(lGiven.groups, <)

(***************************************************************************)
(* The calls, as the steps they take.                                      *)
(***************************************************************************)
\* Everything is closed, the node before what it uses.
closing(g) ==
  <<for("cancel", g)>>
    \o If(~Managed, <<do("shutdownHTTP")>>)
    \o If(store[g].started, <<for("nodeStop", g)>>)
    \o If(~Managed, <<do("closeTransport")>>)
    \o <<for("closeStorage", g), for("stopped", g)>>

\* While the node can still propose it.
departing(g) == If(lGiven.leaves /\ store[g].started, <<for("leave", g)>>)

stop(g) == departing(g) \o closing(g)

NewStore == <<for("openStorage", 1), do("listen"), for("newNode", 1), do("listenHTTP"), do("return")>>

closeAfterFailedInit == <<do("closeTransport"), for("closeStorage", 1), do("failed")>>

Start == If(lGiven.joins, <<for("joinCluster", 1)>>) \o <<for("startNode", 1), do("return")>>

initRaftForManager(g) == If(~lGiven.shared, <<for("openStorage", g)>>) \o <<for("newNode", g)>>

startGroup(g) ==
  initRaftForManager(g) \o If(lGiven.joins, <<for("joinCluster", g)>>)
    \o <<for("Add", g), for("startNode", g)>>

ManagerStart ==
  If(lGiven.shared, <<do("openWAL")>>) \o <<do("listen")>> \o InTurn(startGroup, Sorted)
    \o If(lGiven.http, <<do("listenHTTP")>>) \o If(lGiven.balances, <<do("startBalancing")>>) \o <<do("return")>>


cleanup ==
  <<do("cancelAll"), do("StopAll")>>
    \o InTurn(LAMBDA g : <<for("closeStorage", g), for("clearStorage", g)>>, Sorted)
    \o <<do("closeTransport"), do("closeWAL"), do("failed")>>

\* Mutant: what the groups share is closed before them.
closeFirst(order) ==
  <<do("shutdownHTTP"), do("closeTransport"), do("closeWAL")>>
    \o InTurn(LAMBDA g : <<for("StoreStop", g)>>, order) \o <<do("StopAll"), do("return")>>

\* Manager.Stop once it has its stores.
ManagerStop(order) ==
  <<do("shutdownHTTP")>> \o InTurn(LAMBDA g : <<for("StoreStop", g)>>, order)
    \o <<do("StopAll"), do("closeTransport"), do("closeWAL"), do("return")>>

RemoveStore(g) ==
  <<for("unlist", g), for("cancel", g), for("Remove", g), for("closeStorage", g), for("clearStorage", g),
    do("return")>>

\* The transfer of the leadership is waited for, whatever becomes of it.
RemoveStoreGraceful(g) ==
  <<for("unlist", g), for("cancel", g), for("RemoveGraceful", g), for("closeStorage", g),
    for("clearStorage", g), do("return")>>

Script(c) ==
  CASE c = "new"      -> NewStore
    [] c = "start"    -> IF Managed THEN ManagerStart ELSE Start
    [] c \in {"stop", "again"} -> IF Managed THEN <<do("cancelAll"), do("waitBalancer"), do("take")>>
                                  ELSE <<for("StoreStop", 1), do("return")>>
    [] c = "stopOne"  -> <<for("StoreStop", 1), do("return")>>
    [] c = "remove"   -> RemoveStore(1)
    [] c = "removeGraceful" -> RemoveStoreGraceful(1)

Calls == DOMAIN lGiven.after

(***************************************************************************)
(* Steps.                                                                  *)
(***************************************************************************)
Held(r) == resource[r].state = "open"

\* A resource the caller still has a handle on is closed; the log's own view of a
\* group closes nothing.
close(rs) ==
  resource' = [r \in Resources |-> IF r \in rs THEN [state |-> "closed", closes |-> resource[r].closes + 1]
                                   ELSE resource[r]]

open(r) == resource' = [resource EXCEPT ![r].state = "open"]

Now(c, op) == calls[c].todo # <<>> /\ Head(calls[c].todo).op = op

Group(c) == Head(calls[c].todo).g

Proceed(c) == calls' = [calls EXCEPT ![c].todo = Tail(@)]

Instead(c, steps) == calls' = [calls EXCEPT ![c].todo = steps]

\* What a step that failed leads to, by the call it is in: initRaft returns with what
\* it has opened left open, and so does Manager.Start before cleanup is defined.
AfterFailure(c, op) ==
  CASE c = "new" /\ op = "listenHTTP" -> closeAfterFailedInit
    [] c = "start" /\ Managed /\ op \notin {"openWAL", "listen"} -> cleanup
    [] OTHER -> <<do("failed")>>

Fails(c) ==
  /\ calls[c].todo # <<>>
  /\ Head(calls[c].todo).op \in lGiven.faults
  /\ Instead(c, AfterFailure(c, Head(calls[c].todo).op))
  /\ UNCHANGED <<lGiven, resource, manager, store, member>>

openWAL(c) ==
  /\ Now(c, "openWAL")
  /\ open(WAL)
  /\ manager' = [manager EXCEPT !.wal = TRUE]
  /\ Proceed(c)
  /\ UNCHANGED <<lGiven, store, member>>

listen(c) ==
  /\ Now(c, "listen")
  /\ open(Transport)
  /\ manager' = [manager EXCEPT !.transport = TRUE]
  /\ Proceed(c)
  /\ UNCHANGED <<lGiven, store, member>>

openStorage(c) ==
  /\ Now(c, "openStorage")
  /\ open(Storage(Group(c)))
  /\ store' = [store EXCEPT ![Group(c)].storage = TRUE]
  /\ Proceed(c)
  /\ UNCHANGED <<lGiven, manager, member>>

newNode(c) ==
  /\ Now(c, "newNode")
  /\ store' = [store EXCEPT ![Group(c)].node = "built"]
  /\ Proceed(c)
  /\ UNCHANGED <<lGiven, resource, manager, member>>

listenHTTP(c) ==
  /\ Now(c, "listenHTTP")
  /\ open(HTTP)
  /\ manager' = [manager EXCEPT !.http = TRUE]
  /\ Proceed(c)
  /\ UNCHANGED <<lGiven, store, member>>

\* A seed's handleJoin adds the node and answers; the answer may be lost, and the
\* loop asks again until its context is done.
handleJoin(c, answered) ==
  /\ Now(c, "joinCluster")
  /\ ~store[Group(c)].cancelled
  /\ answered \/ Group(c) \notin member
  /\ member' = member \cup {Group(c)}
  /\ IF answered THEN Proceed(c) ELSE UNCHANGED calls
  /\ UNCHANGED <<lGiven, resource, manager, store>>

joinTimesOut(c) ==
  /\ Now(c, "joinCluster")
  /\ store[Group(c)].cancelled \/ "joinCluster" \in lGiven.faults
  /\ Instead(c, AfterFailure(c, "joinCluster"))
  /\ UNCHANGED <<lGiven, resource, manager, store, member>>

\* raft.Manager.Add.
Add(c) ==
  /\ Now(c, "Add")
  /\ IF manager.stopping THEN Instead(c, cleanup) /\ UNCHANGED manager
     ELSE Proceed(c) /\ manager' = [manager EXCEPT !.nodes = @ \cup {Group(c)}]
  /\ UNCHANGED <<lGiven, resource, store, member>>

startNode(c) ==
  /\ Now(c, "startNode")
  /\ store' = [store EXCEPT ![Group(c)].node = IF @ = "built" THEN "running" ELSE @, ![Group(c)].started = TRUE]
  /\ Proceed(c)
  /\ UNCHANGED <<lGiven, resource, manager, member>>

startBalancing(c) ==
  /\ Now(c, "startBalancing")
  /\ manager' = [manager EXCEPT !.balancing = TRUE]
  /\ Proceed(c)
  /\ UNCHANGED <<lGiven, resource, store, member>>

\* BalanceController.Run returns once its context is cancelled and its transfers are done.
balancerExits ==
  /\ manager.balancing
  /\ manager.cancelled
  /\ manager' = [manager EXCEPT !.balancing = FALSE]
  /\ UNCHANGED <<lGiven, resource, store, member, calls>>

waitBalancer(c) ==
  /\ Now(c, "waitBalancer")
  /\ ~manager.balancing
  /\ Proceed(c)
  /\ UNCHANGED <<lGiven, resource, manager, store, member>>

\* The Manager's context, from which every store's derives.
cancelAll(c) ==
  /\ Now(c, "cancelAll")
  /\ manager' = [manager EXCEPT !.cancelled = TRUE]
  /\ store' = [g \in Groups |-> [store[g] EXCEPT !.cancelled = TRUE]]
  /\ Proceed(c)
  /\ UNCHANGED <<lGiven, resource, member>>

cancel(c) ==
  /\ Now(c, "cancel")
  /\ store' = [store EXCEPT ![Group(c)].cancelled = TRUE]
  /\ Proceed(c)
  /\ UNCHANGED <<lGiven, resource, manager, member>>

\* Manager.Stop, under the lock: the handles are its own from here on.
take(c) ==
  /\ Now(c, "take")
  /\ \E order \in SetToSeqs(manager.stores) :
       calls' = [calls EXCEPT ![c] = [@ EXCEPT !.todo = ManagerStop(order),
                                             !.held = {h \in {"wal", "transport"} : manager[h]}]]
  /\ manager' = [manager EXCEPT !.wal = FALSE, !.transport = FALSE]
  /\ UNCHANGED <<lGiven, resource, store, member>>

\* sync.Once: the first caller does it, the others wait for it to be done.
StoreStop(c) ==
  LET g == Group(c)
  IN /\ Now(c, "StoreStop")
     /\ \/ /\ store[g].once = "no"
           /\ store' = [store EXCEPT ![g].once = "doing"]
           /\ Instead(c, stop(g) \o Tail(calls[c].todo))
        \/ /\ store[g].once = "done"
           /\ calls' = [calls EXCEPT ![c].todo = Tail(@), ![c].errs = @ \cup store[g].errs]
           /\ UNCHANGED store
     /\ UNCHANGED <<lGiven, resource, manager, member>>

stopped(c) ==
  LET g == Group(c)
  IN /\ Now(c, "stopped")
     /\ store' = [store EXCEPT ![g].once = "done", ![g].errs = {e \in calls[c].errs : e.g = g}]
     /\ Proceed(c)
     /\ UNCHANGED <<lGiven, resource, manager, member>>

\* Store.Leave: the removal commits or does not, here or at the leader it is forwarded
\* to, and its answer may be an error or lost; every error is reported by stop.
Leave(c) ==
  \E committed, answered \in BOOLEAN :
    /\ Now(c, "leave")
    /\ member' = IF committed THEN member \ {Group(c)} ELSE member
    /\ calls' = [calls EXCEPT ![c] = [@ EXCEPT !.todo = Tail(@),
                                            !.errs = IF committed /\ answered THEN @ ELSE @ \cup {for("leave", Group(c))}]]
    /\ UNCHANGED <<lGiven, resource, manager, store>>

shutdownHTTP(c) ==
  /\ Now(c, "shutdownHTTP")
  /\ IF manager.http /\ Held(HTTP) THEN close({HTTP}) ELSE UNCHANGED resource
  /\ Proceed(c)
  /\ UNCHANGED <<lGiven, manager, store, member>>

\* Node.Stop: the loops are told to end, and are waited for.
signal(gs) ==
  store' = [g \in Groups |->
              IF g \notin gs THEN store[g]
              ELSE [store[g] EXCEPT !.node = CASE @ = "running" -> "stopping" [] @ = "built" -> "stopped" [] OTHER -> @]]

Down(g) == store[g].node \in {"none", "stopped"}

nodeExits(g) ==
  /\ store[g].node = "stopping"
  /\ store' = [store EXCEPT ![g].node = "stopped"]
  /\ UNCHANGED <<lGiven, resource, manager, member, calls>>

nodeStop(c) ==
  LET g == Group(c)
  IN /\ Now(c, "nodeStop")
     /\ \/ store[g].node \in {"built", "running"} /\ signal({g}) /\ UNCHANGED calls
        \/ Down(g) /\ Proceed(c) /\ UNCHANGED store
     /\ UNCHANGED <<lGiven, resource, manager, member>>

\* raft.Manager.StopAll: no node is added until all of them are down.
StopAll(c) ==
  /\ Now(c, "StopAll")
  /\ signal(manager.nodes)
  /\ manager' = [manager EXCEPT !.nodes = {}, !.stopping = TRUE]
  /\ Instead(c, InTurn(LAMBDA g : <<for("await", g)>>, SetToSortSeq(manager.nodes, <))
                  \o <<do("allStopped")>> \o Tail(calls[c].todo))
  /\ UNCHANGED <<lGiven, resource, member>>

await(c) ==
  /\ Now(c, "await")
  /\ Down(Group(c))
  /\ Proceed(c)
  /\ UNCHANGED <<lGiven, resource, manager, store, member>>

allStopped(c) ==
  /\ Now(c, "allStopped")
  /\ manager' = [manager EXCEPT !.stopping = FALSE]
  /\ Proceed(c)
  /\ UNCHANGED <<lGiven, resource, store, member>>

\* Manager.Stop closes what it took, cleanup what Start opened, a Store what it owns.
closeTransport(c) ==
  /\ Now(c, "closeTransport")
  /\ IF "transport" \in calls[c].held \/ c \in {"start", "new"} \/ (~Managed /\ manager.transport)
     THEN close({Transport}) ELSE UNCHANGED resource
  /\ manager' = IF c = "start" THEN [manager EXCEPT !.transport = FALSE] ELSE manager
  /\ Proceed(c)
  /\ UNCHANGED <<lGiven, store, member>>

closeWAL(c) ==
  /\ Now(c, "closeWAL")
  /\ IF "wal" \in calls[c].held \/ (c = "start" /\ manager.wal) THEN close({WAL}) ELSE UNCHANGED resource
  /\ manager' = IF c = "start" THEN [manager EXCEPT !.wal = FALSE] ELSE manager
  /\ Proceed(c)
  /\ UNCHANGED <<lGiven, store, member>>

closeStorage(c) ==
  /\ Now(c, "closeStorage")
  /\ IF store[Group(c)].storage THEN close({Storage(Group(c))}) ELSE UNCHANGED resource
  /\ Proceed(c)
  /\ UNCHANGED <<lGiven, manager, store, member>>

clearStorage(c) ==
  /\ Now(c, "clearStorage")
  /\ store' = [store EXCEPT ![Group(c)].storage = FALSE]
  /\ Proceed(c)
  /\ UNCHANGED <<lGiven, resource, manager, member>>

unlist(c) ==
  LET known == Group(c) \in manager.stores
  IN /\ Now(c, "unlist")
     /\ manager' = [manager EXCEPT !.stores = @ \ {Group(c)}]
     /\ IF known THEN Proceed(c) ELSE Instead(c, <<do("failed")>>)
     /\ UNCHANGED <<lGiven, resource, store, member>>

\* raft.Manager.Remove; a group that is not registered is not an error here.
removeNode(c) ==
  LET g == Group(c)
  IN /\ Now(c, "Remove")
     /\ manager' = [manager EXCEPT !.nodes = @ \ {g}]
     /\ Instead(c, If(g \in manager.nodes, <<for("nodeStop", g)>>) \o Tail(calls[c].todo))
     /\ UNCHANGED <<lGiven, resource, store, member>>

\* Looked up, waited on while it hands over its leadership, then removed: it may have
\* been removed by somebody else meanwhile.
RemoveGraceful(c) ==
  LET g == Group(c)
  IN /\ Now(c, "RemoveGraceful")
     /\ Instead(c, If(g \in manager.nodes, <<for("Remove", g)>>) \o Tail(calls[c].todo))
     /\ UNCHANGED <<lGiven, resource, manager, store, member>>

\* A call begins when the calls its caller waits for have returned.
Begin(c) ==
  /\ calls[c].verdict = "idle"
  /\ \A d \in lGiven.after[c] : calls[d].verdict \notin {"idle", "busy"}
  /\ "new" \in Calls \ {c} => calls["new"].verdict # "failed"
  /\ calls' = [calls EXCEPT ![c] = [@ EXCEPT !.todo = Script(c), !.verdict = "busy"]]
  /\ UNCHANGED <<lGiven, resource, manager, store, member>>

Return(c) ==
  /\ Now(c, "return") \/ Now(c, "failed")
  /\ calls' = [calls EXCEPT ![c] = [@ EXCEPT !.todo = <<>>,
                !.verdict = IF Now(c, "failed") THEN "failed" ELSE IF @ = "busy" THEN "returned" ELSE @]]
  /\ UNCHANGED <<lGiven, resource, manager, store, member>>

\* Shutdown: the caller stops waiting, the call carries on.
Shutdown(c) ==
  /\ lGiven.deadlines
  /\ c \in {"stop", "again"}
  /\ calls[c].verdict = "busy"
  /\ calls' = [calls EXCEPT ![c].verdict = "deadline"]
  /\ UNCHANGED <<lGiven, resource, manager, store, member>>

LInit ==
  /\ lGiven \in Processes
  /\ resource = [r \in Resources |-> [state |-> "unopened", closes |-> 0]]
  /\ manager = [wal |-> FALSE, transport |-> FALSE, http |-> FALSE, stores |-> lGiven.groups,
                nodes |-> {}, stopping |-> FALSE, cancelled |-> FALSE, balancing |-> FALSE]
  /\ store = [g \in Groups |-> [node |-> "none", storage |-> FALSE, started |-> FALSE, cancelled |-> FALSE,
                                once |-> "no", errs |-> {}]]
  /\ member = IF lGiven.joins THEN {} ELSE lGiven.groups
  /\ calls = [c \in DOMAIN lGiven.after |-> [todo |-> <<>>, errs |-> {}, verdict |-> "idle", held |-> {}]]

Opens(c) ==
  \/ openWAL(c) \/ listen(c) \/ openStorage(c) \/ newNode(c) \/ listenHTTP(c) \/ joinTimesOut(c) \/ Add(c)
  \/ startNode(c) \/ startBalancing(c) \/ Fails(c)
  \/ \E answered \in BOOLEAN : handleJoin(c, answered)

Closes(c) ==
  \/ cancelAll(c) \/ cancel(c) \/ take(c) \/ waitBalancer(c) \/ StoreStop(c) \/ stopped(c) \/ Leave(c)
  \/ shutdownHTTP(c) \/ nodeStop(c) \/ StopAll(c) \/ await(c) \/ allStopped(c)
  \/ closeTransport(c) \/ closeWAL(c) \/ closeStorage(c) \/ clearStorage(c)
  \/ unlist(c) \/ removeNode(c) \/ RemoveGraceful(c)

LNext ==
  \/ \E c \in Calls : Begin(c) \/ Return(c) \/ Shutdown(c) \/ Opens(c) \/ Closes(c)
  \/ \E g \in lGiven.groups : nodeExits(g)
  \/ balancerExits

LSpec == LInit /\ [][LNext]_lvars

(***************************************************************************)
(* Properties.                                                             *)
(***************************************************************************)
Uses(g) == {Transport, IF lGiven.shared THEN WAL ELSE Storage(g)}

\* A node is down before anything it reads or writes is closed, whoever stops it and
\* whatever else is stopping: no write it accepted arrives at a closed log.
RunsOnOpenResources ==
  \A g \in lGiven.groups : store[g].node \in {"running", "stopping"} => \A r \in Uses(g) : Held(r)

\* However a Start that failed, the Stops after it and a store's own Stop overlap,
\* nothing is closed a second time ("so a caller that calls Stop anyway does not").
ClosedOnce == \A r \in Resources : resource[r].closes <= 1

Over(c) == calls[c].verdict # "idle" /\ calls[c].todo = <<>>

NothingLeft ==
  /\ \A r \in Resources : ~Held(r)
  /\ \A g \in lGiven.groups : store[g].node # "running" /\ store[g].node # "stopping"
  /\ ~manager.balancing

\* A Stop that has come to its end has left nothing open and nothing running, a store
\* that was never started and one that could not leave its cluster included.
StopLeavesNothing ==
  \A c \in Calls \cap {"stop", "again"} :
    Over(c) /\ (\A d \in Calls : calls[d].verdict = "idle" \/ Over(d)) => NothingLeft

\* "If Start returns an error, all partially-initialised resources (nodes, goroutines,
\* transport) are cleaned up; the caller does not need to call Stop" (Manager.Start);
\* a caller of NewStore "that only sees an error leaks nothing" (closeAfterFailedInit).
FailedStartLeavesNothing ==
  \A c \in Calls \cap (IF Managed THEN {"start"} ELSE {"new"}) : calls[c].verdict = "failed" => NothingLeft

\* A Stop that reports no failed departure has departed: a node still counted in its
\* cluster's quorum never goes away without its operator being told (Store.stop).
DepartureIsReported ==
  \A c \in Calls \cap {"stop", "again"} :
    Over(c) /\ lGiven.leaves =>
      \A g \in manager.stores : store[g].started /\ for("leave", g) \notin calls[c].errs => g \notin member

\* A group told to join starts only once its cluster has it as a member (Store.Start:
\* it is otherwise "not a replica of that group").
JoinedBeforeRunning ==
  \A g \in lGiven.groups : store[g].node = "running" /\ store[g].once = "no" => g \in member

=============================================================================
