----------------------------- MODULE ChangeFeed -----------------------------
(***************************************************************************)
(* How a write reaches a watcher (easyraft/store.go, easyraft/watcher.go): *)
(* the apply goroutine queues an event, the routing goroutine passes it to *)
(* its collection's queue, that collection's goroutine hands it to the     *)
(* Watcher, and the Watcher to every subscriber's channel.  No hand-over   *)
(* blocks: what does not fit is lost, and a gap is owed in its place.      *)
(*                                                                         *)
(* A key's value is the number of writes to it.  Each collection has one   *)
(* Watcher; key 0 is the empty key, which a gap carries and a subscriber   *)
(* to every key asks for.                                                  *)
(***************************************************************************)
EXTENDS Integers, Sequences, FiniteSets, SequencesExt

CONSTANTS Watched,      \* collections with a handler
          Keys,
          Subscribers,
          Feeds         \* the situations: queue depths, who subscribes to what, bounds

VARIABLES cGiven,       \* the situation this behaviour is in
          current,      \* collection, key |-> writes applied
          putting,      \* the event the apply goroutine is queueing, and how far it is
          notifyCh,     \* Store.notifyCh
          pendingGaps,  \* Store.pendingGaps
          dispatchers,  \* collection |-> [ch, gapOwed]
          watcher,      \* collection |-> Watcher.seq
          subs,         \* subscriber |-> [on, open, ch, gapOwed]
          view,         \* subscriber |-> what it was told
          stopping      \* Store.stopCtx is done

cvars == <<cGiven, current, putting, notifyCh, pendingGaps, dispatchers, watcher, subs, view, stopping>>

changeEvent(c, k, v) == [c |-> c, k |-> k, v |-> v, gap |-> FALSE]

gapMarker(c) == [c |-> c, k |-> 0, v |-> 0, gap |-> TRUE]

Nothing == [phase |-> "none"]

CInit ==
  /\ cGiven \in Feeds
  /\ current = [x \in Watched \X Keys |-> 0]
  /\ putting = Nothing
  /\ notifyCh = <<>>
  /\ pendingGaps = {}
  /\ dispatchers = [c \in Watched |-> [ch |-> <<>>, gapOwed |-> FALSE]]
  /\ watcher = [c \in Watched |-> 0]
  /\ subs = [s \in Subscribers |-> [on |-> FALSE, open |-> TRUE, ch |-> <<>>, gapOwed |-> FALSE]]
  /\ view = [s \in Subscribers |-> [known |-> FALSE]]
  /\ stopping = FALSE

(***************************************************************************)
(* The apply goroutine.                                                    *)
(***************************************************************************)
Written == FoldFunction(+, 0, current)

\* applyEntry: the state changes first, and then the event is queued.
Apply(c, k) ==
  /\ putting = Nothing
  /\ Written < cGiven.writes
  /\ current' = [current EXCEPT ![<<c, k>>] = @ + 1]
  /\ putting' = [phase |-> "flush", ev |-> changeEvent(c, k, current[<<c, k>>] + 1)]
  /\ UNCHANGED <<cGiven, notifyCh, pendingGaps, dispatchers, watcher, subs, view, stopping>>


flushGaps(c) ==
  /\ putting.phase = "flush"
  /\ c \in pendingGaps
  /\ Len(notifyCh) < cGiven.notify
  /\ notifyCh' = Append(notifyCh, gapMarker(c))
  /\ pendingGaps' = pendingGaps \ {c}
  /\ UNCHANGED <<cGiven, current, putting, dispatchers, watcher, subs, view, stopping>>

\* No gap is pending, or the queue is full: on to the event.
flushed ==
  /\ putting.phase = "flush"
  /\ pendingGaps = {} \/ Len(notifyCh) = cGiven.notify
  /\ putting' = [putting EXCEPT !.phase = "send"]
  /\ UNCHANGED <<cGiven, current, notifyCh, pendingGaps, dispatchers, watcher, subs, view, stopping>>

\* A full queue records the gap.
enqueueEvent ==
  LET fits == Len(notifyCh) < cGiven.notify
  IN /\ putting.phase = "send"
     /\ putting' = Nothing
     /\ notifyCh' = IF fits THEN Append(notifyCh, putting.ev) ELSE notifyCh
     /\ pendingGaps' = IF fits THEN pendingGaps ELSE pendingGaps \cup {putting.ev.c}
     /\ UNCHANGED <<cGiven, current, dispatchers, watcher, subs, view, stopping>>

(***************************************************************************)
(* A queue that owes a gap: collectionDispatcher.offer, Watcher.deliver.   *)
(***************************************************************************)
offer(d, ev, gap, depth) ==
  LET full == Len(d.ch) >= depth
      told == IF d.gapOwed THEN Append(d.ch, gap) ELSE d.ch
  IN IF full THEN [d EXCEPT !.gapOwed = TRUE]
     ELSE IF Len(told) < depth THEN [d EXCEPT !.ch = Append(told, ev), !.gapOwed = FALSE]
     ELSE [d EXCEPT !.ch = told, !.gapOwed = TRUE]

dispatchChanges ==
  LET ev == Head(notifyCh)
  IN /\ ~stopping
     /\ notifyCh # <<>>
     /\ notifyCh' = Tail(notifyCh)
     /\ dispatchers' = [dispatchers EXCEPT ![ev.c] = offer(@, ev, gapMarker(ev.c), cGiven.queue)]
     /\ UNCHANGED <<cGiven, current, putting, pendingGaps, watcher, subs, view, stopping>>

\* The routing goroutine stops and drains the queue, so that Apply never waits.
drain ==
  /\ stopping
  /\ notifyCh # <<>>
  /\ notifyCh' = <<>>
  /\ UNCHANGED <<cGiven, current, putting, pendingGaps, dispatchers, watcher, subs, view, stopping>>

Stop ==
  /\ cGiven.stops
  /\ ~stopping
  /\ stopping' = TRUE
  /\ UNCHANGED <<cGiven, current, putting, notifyCh, pendingGaps, dispatchers, watcher, subs, view>>

(***************************************************************************)
(* The Watcher.                                                            *)
(***************************************************************************)
WatchedBy(s) == cGiven.subscribes[s]

\* Registered for every key of the collection, or for the event's own.
Matches(s, c, k) == subs[s].on /\ WatchedBy(s).c = c /\ (WatchedBy(s).k = 0 \/ (k # 0 /\ WatchedBy(s).k = k))

\* runDispatcher and NotifyEvent, which holds the Watcher's lock throughout.
NotifyEvent(c) ==
  LET ev == Head(dispatchers[c].ch)
      seq == watcher[c] + 1
      out == [seq |-> seq, k |-> ev.k, v |-> ev.v, gap |-> ev.gap]
      gap == [seq |-> seq, k |-> 0, v |-> 0, gap |-> TRUE]
  IN /\ dispatchers[c].ch # <<>>
     /\ dispatchers' = [dispatchers EXCEPT ![c].ch = Tail(@)]
     /\ watcher' = [watcher EXCEPT ![c] = seq]
     /\ subs' = [s \in Subscribers |-> IF Matches(s, c, ev.k) THEN offer(subs[s], out, gap, cGiven.channel)
                                      ELSE subs[s]]
     /\ UNCHANGED <<cGiven, current, putting, notifyCh, pendingGaps, view, stopping>>

\* subscribeWithSnapshot: the state is read and the subscriber registered under one lock.
ServeSSEFunc(s) ==
  /\ ~view[s].known
  /\ subs' = [subs EXCEPT ![s].on = TRUE]
  /\ view' = [view EXCEPT ![s] = [known |-> TRUE, told |-> FALSE, seq |-> watcher[WatchedBy(s).c], marked |-> FALSE,
                                  val |-> [k \in Keys |-> current[<<WatchedBy(s).c, k>>]]]]
  /\ UNCHANGED <<cGiven, current, putting, notifyCh, pendingGaps, dispatchers, watcher, stopping>>

\* The subscriber takes an event: it keeps the value, or notes the gap.
Receive(s) ==
  LET ev == Head(subs[s].ch)
  IN /\ subs[s].ch # <<>>
     /\ subs' = [subs EXCEPT ![s].ch = Tail(@)]
     /\ view' = [view EXCEPT ![s] =
          IF ev.gap THEN [@ EXCEPT !.told = TRUE, !.marked = TRUE]
          ELSE [@ EXCEPT !.val[ev.k] = ev.v, !.seq = ev.seq, !.marked = FALSE]]
     /\ UNCHANGED <<cGiven, current, putting, notifyCh, pendingGaps, dispatchers, watcher, stopping>>

unregister(s) == subs' = [subs EXCEPT ![s].on = FALSE]

\* SubscribeContext's goroutine once the context is done, and Unsubscribe.
Cancel(s) ==
  /\ cGiven.cancels
  /\ subs[s].on
  /\ unregister(s)
  /\ UNCHANGED <<cGiven, current, putting, notifyCh, pendingGaps, dispatchers, watcher, view, stopping>>

Close(s) ==
  /\ view[s].known /\ ~subs[s].on /\ subs[s].open
  /\ subs' = [subs EXCEPT ![s].open = FALSE]
  /\ UNCHANGED <<cGiven, current, putting, notifyCh, pendingGaps, dispatchers, watcher, view, stopping>>

CNext ==
  \/ \E c \in Watched, k \in cGiven.keys : Apply(c, k)
  \/ \E c \in Watched : flushGaps(c) \/ NotifyEvent(c)
  \/ flushed \/ enqueueEvent \/ dispatchChanges \/ drain \/ Stop
  \/ \E s \in Subscribers : ServeSSEFunc(s) \/ Receive(s) \/ Cancel(s) \/ Close(s)

CSpec == CInit /\ [][CNext]_cvars

(***************************************************************************)
(* Properties.                                                             *)
(***************************************************************************)
\* What is on its way to the subscriber, the oldest first.
Coming(s) ==
  LET c == WatchedBy(s).c
      mine(q) == SelectSeq(q, LAMBDA ev : ev.c = c)
      hand == IF putting = Nothing THEN <<>> ELSE <<putting.ev>>
  IN subs[s].ch \o mine(dispatchers[c].ch) \o mine(notifyCh) \o mine(hand)

\* A loss the subscriber has been told of, or will be.
Told(s) ==
  LET c == WatchedBy(s).c
  IN \/ view[s].told \/ subs[s].gapOwed
     \/ dispatchers[c].gapOwed
     \/ c \in pendingGaps
     \/ \E i \in DOMAIN Coming(s) : Coming(s)[i].gap

Latest(s, k) ==
  LET evs == SelectSeq(Coming(s), LAMBDA ev : ev.k = k)
  IN IF evs = <<>> THEN view[s].val[k] ELSE Last(evs).v


\* A subscriber to every key can tell a loss after the Watcher by the numbers: they go up
\* by one, or a gap stands in between (NotifyEvent: "one contiguous sequence").
JumpIsMarked ==
  \A s \in Subscribers : view[s].known /\ WatchedBy(s).k = 0 /\ subs[s].ch # <<>> =>
    LET ch == subs[s].ch
    IN /\ Head(ch).gap \/ view[s].marked \/ Head(ch).seq = view[s].seq + 1
       /\ \A i \in 2..Len(ch) : ch[i].gap \/ ch[i-1].gap \/ ch[i].seq = ch[i-1].seq + 1

\* Nothing is ever sent on a closed channel: a subscriber still registered has its open.
RegisteredIsOpen == \A s \in Subscribers : subs[s].on => subs[s].open

=============================================================================
