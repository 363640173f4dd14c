----------------------------- MODULE ClientCalls -----------------------------
(***************************************************************************)
(* A call of the HTTP client (easyraft/client) to a cluster, through the   *)
(* handlers of easyraft/http.go, down to the entry the leader applies.     *)
(*                                                                         *)
(* Each call makes one request at a time: to an endpoint, or where that    *)
(* endpoint redirects it.  A request may arrive after the client has given *)
(* it up, an answer may be lost, and the leader may change while an entry  *)
(* waits to commit; the entry is then kept or lost, and the request is     *)
(* answered ErrNotLeader either way.  The cluster below is one log and one *)
(* key: [there, rev].                                                      *)
(***************************************************************************)
EXTENDS Integers, Sequences, FiniteSets, SequencesExt

CONSTANTS Nodes, None, Calls,
          Traffic       \* the situations: what each call asks, bounds

VARIABLES tGiven,       \* the situation this behaviour is in
          leads,        \* the cluster: who leads, entries waiting to commit, the state
          hints,        \* node |-> Node.Leader()
          advertised,   \* nodes whose HTTP address is in the metadata collection
          requests,     \* requests on their way or being served
          call          \* call |-> where Client.do is

tvars == <<tGiven, leads, hints, advertised, requests, call>>

NoCond == -1


writeHeaders(cond, once) == once \/ cond # NoCond

write(op, cond, once) == [op |-> op, cond |-> cond, once |-> once, idempotent |-> writeHeaders(cond, once)]

Mutate(cond, once) == [op |-> "mutate", cond |-> cond, once |-> once,
                       idempotent |-> cond # NoCond \/ writeHeaders(cond, once)]

\* Client.grantLease and Client.batch: safe only under an identity.
grantLease(once) == [op |-> "grant", cond |-> NoCond, once |-> once, idempotent |-> once]

batch(cond, once) == [op |-> "batch", cond |-> cond, once |-> once, idempotent |-> once]

\* Setting a deadline, and deleting what may be gone, may be done again.
KeepAlive == [op |-> "keepalive", cond |-> NoCond, once |-> FALSE, idempotent |-> TRUE]

RevokeLease == [op |-> "revoke", cond |-> NoCond, once |-> FALSE, idempotent |-> TRUE]

(***************************************************************************)
(* The handlers: the command each proposes.  A create takes no condition.  *)
(***************************************************************************)
handleCreate(req) == [op |-> "create", cond |-> NoCond]

handleUpdate(req) == [op |-> "update", cond |-> req.cond]

handleUpsert(req) == [op |-> "upsert", cond |-> req.cond]

handleDelete(req) == [op |-> "delete", cond |-> req.cond]

handleMutate(req) == [op |-> "mutate", cond |-> req.cond]

handleBatch(req) == [op |-> "upsert", cond |-> req.cond]

handleGrantLease(req) == [op |-> "grant", cond |-> NoCond]

handleKeepAlive(req) == [op |-> "keepalive", cond |-> NoCond]

handleRevokeLease(req) == [op |-> "revoke", cond |-> NoCond]

commandOf(req) ==
  CASE req.op = "create" -> handleCreate(req)
    [] req.op = "update" -> handleUpdate(req)
    [] req.op = "upsert" -> handleUpsert(req)
    [] req.op = "delete" -> handleDelete(req)
    [] req.op = "mutate" -> handleMutate(req)
    [] req.op = "batch"  -> handleBatch(req)
    [] req.op = "grant"  -> handleGrantLease(req)
    [] req.op = "keepalive" -> handleKeepAlive(req)
    [] OTHER             -> handleRevokeLease(req)


onceIDFrom(req) == req.once

(***************************************************************************)
(* The state machine's answer to a command.                                *)
(***************************************************************************)
Outcome(key, cmd) ==
  CASE cmd.cond # NoCond /\ key.rev # cmd.cond -> "ErrRevisionMismatch"
    [] cmd.op = "create" /\ key.there -> "ErrKeyExists"
    [] cmd.op \in {"update", "delete", "mutate"} /\ ~key.there -> "ErrKeyNotFound"
    [] OTHER -> "ok"

After(key, cmd, i) ==
  CASE cmd.op \in {"grant", "keepalive", "revoke"} -> key
    [] cmd.op = "delete" -> [there |-> FALSE, rev |-> 0]
    [] OTHER -> [there |-> TRUE, rev |-> i]

(***************************************************************************)
(* Answers.  statusForError and errorFor make a refusal of the state       *)
(* machine the same error at the client; ErrNotLeader becomes a redirect   *)
(* when the leader is known and has advertised where it is.                *)
(***************************************************************************)
Answer(kind, what) == [kind |-> kind, what |-> what]

Unavailable == Answer("unavailable", "503")

handleRPCError(n) ==
  IF hints[n] # None /\ hints[n] \in advertised THEN Answer("redirect", hints[n]) ELSE Unavailable

statusForError(outcome) == IF outcome = "ok" THEN Answer("ok", "ok") ELSE Answer("known", outcome)

retryable(ans) == ans.kind \in {"unavailable", "transport"}

(***************************************************************************)
(* Client.do: attempts, each over the endpoints in order, each following   *)
(* redirects.                                                              *)
(***************************************************************************)
Idle == [stage |-> "idle", tries |-> 0, left |-> <<>>, at |-> None, hops |-> 0, sent |-> 0,
         lost |-> 0, leader |-> None, result |-> "none"]

\* Client.order: the endpoint last seen leading, and then the others.
order(c) ==
  IF call[c].leader = None THEN tGiven.endpoints
  ELSE <<call[c].leader>> \o SelectSeq(tGiven.endpoints, LAMBDA e : e # call[c].leader)

attempts(c) == IF tGiven.asks[c].idempotent THEN tGiven.attempts ELSE 1

\* The next request of the call: at e, with the endpoints that are left after it.
Sending(k, e, left, hops) ==
  [k EXCEPT !.stage = "waiting", !.at = e, !.left = left, !.hops = hops, !.sent = @ + 1]

Done(k, result) == [k EXCEPT !.stage = "done", !.result = result]

\* The attempt goes on to another endpoint, or is over and may be followed by another.
another(c, k, ans) ==
  IF ~retryable(ans) THEN Done(k, ans.what)
  ELSE IF k.left # <<>> THEN Sending(k, Head(k.left), Tail(k.left), 0)
  ELSE IF k.tries + 1 < attempts(c) THEN [k EXCEPT !.stage = "backoff", !.tries = @ + 1]
  ELSE Done(k, "failed")

follow(c, k, to) ==
  IF to = k.at \/ k.hops + 1 >= tGiven.maxRedirects THEN another(c, k, Answer("transport", "redirect"))
  ELSE Sending(k, to, k.left, k.hops + 1)

\* callFollowingLeader, given an answer to the request that is being waited for.
heard(c, ans) ==
  LET k == call[c]
  IN CASE ans.kind = "ok" -> Done([k EXCEPT !.leader = k.at], "ok")
       [] ans.kind = "redirect" -> follow(c, k, ans.what)
       [] OTHER -> another(c, k, ans)

\* A request of call c, the nth it sent, to node e.
Request(c) == [c |-> c, n |-> call'[c].sent, at |-> call'[c].at, stage |-> "sent"]

\* The call changes, and with it what is on its way.
Moves(c, k, gone) ==
  /\ call' = [call EXCEPT ![c] = k]
  /\ requests' = (requests \ gone) \cup
       (IF k.stage = "waiting" /\ k.sent > call[c].sent THEN {Request(c)} ELSE {})

(***************************************************************************)
(* Steps.                                                                  *)
(***************************************************************************)
TInit ==
  /\ tGiven \in Traffic
  /\ leads = [who |-> tGiven.first, pending |-> <<>>, key |-> tGiven.key, applied |-> tGiven.key.rev,
              table |-> <<>>, times |-> [c \in Calls |-> 0], changes |-> 0]
  /\ hints \in [Nodes -> {tGiven.first, None}]
  /\ advertised = tGiven.advertised
  /\ requests = {}
  /\ call = [c \in Calls |-> Idle]

\* Client.do begins, or begins another attempt.
do(c) ==
  /\ c \in DOMAIN tGiven.asks
  /\ call[c].stage \in {"idle", "backoff"}
  /\ LET es == order(c) IN Moves(c, Sending(call[c], Head(es), Tail(es), 0), {})
  /\ UNCHANGED <<tGiven, leads, hints, advertised>>

Waiting(q) == call[q.c].stage = "waiting" /\ call[q.c].sent = q.n

\* The server answers: the client hears it, or has given up, or the answer is lost.
Respond(q, ans) ==
  IF Waiting(q) THEN Moves(q.c, heard(q.c, ans), {q}) ELSE requests' = requests \ {q} /\ UNCHANGED call

\* proposeWrite at a node that does not lead.
refuse(q) ==
  /\ q.stage = "sent" /\ q.at # leads.who
  /\ Respond(q, handleRPCError(q.at))
  /\ UNCHANGED <<tGiven, leads, hints, advertised>>

\* proposeWrite at the leader: the entry is in its log.
proposeWrite(q) ==
  /\ q.stage = "sent" /\ q.at = leads.who
  /\ leads' = [leads EXCEPT !.pending = Append(@, [c |-> q.c, n |-> q.n, once |-> onceIDFrom(tGiven.asks[q.c]),
                                                    cmd |-> commandOf(tGiven.asks[q.c])])]
  /\ requests' = (requests \ {q}) \cup {[q EXCEPT !.stage = "proposed"]}
  /\ UNCHANGED <<tGiven, hints, advertised, call>>

Table(c) == {r \in Range(leads.table) : r.c = c}

\* The oldest entry commits and is applied; a repeat of an identity gets the first answer.
commit ==
  LET e == Head(leads.pending)
      i == leads.applied + 1
      repeat == e.once /\ Table(e.c) # {}
      outcome == IF repeat THEN (CHOOSE r \in Table(e.c) : TRUE).outcome ELSE Outcome(leads.key, e.cmd)
      effective == ~repeat /\ outcome = "ok"
      served == {q \in requests : q.c = e.c /\ q.n = e.n /\ q.stage = "proposed"}
  IN /\ leads.pending # <<>> /\ leads.who # None
     /\ leads' = [leads EXCEPT !.pending = Tail(@), !.applied = i,
                               !.key = IF effective THEN After(@, e.cmd, i) ELSE @,
                               !.times[e.c] = IF effective THEN @ + 1 ELSE @,
                               !.table = IF e.once /\ ~repeat THEN Append(@, [c |-> e.c, outcome |-> outcome]) ELSE @]
     /\ IF served = {} THEN UNCHANGED <<requests, call>>
        ELSE Respond(CHOOSE q \in served : TRUE, statusForError(outcome))
     /\ UNCHANGED <<tGiven, hints, advertised>>

\* The leader steps down: what it proposed and has not committed may be kept or lost,
\* and the proposals that wait at it are rejected either way.
stepDown ==
  /\ leads.who # None /\ leads.changes < tGiven.changes
  /\ \E kept \in 0..Len(leads.pending) :
       leads' = [leads EXCEPT !.who = None, !.changes = @ + 1, !.pending = SubSeq(@, 1, kept)]
  /\ hints' = [hints EXCEPT ![leads.who] = None]
  /\ requests' = {[q EXCEPT !.stage = IF @ = "proposed" THEN "rejected" ELSE @] : q \in requests}
  /\ UNCHANGED <<tGiven, advertised, call>>

elect(n) ==
  /\ leads.who = None
  /\ leads' = [leads EXCEPT !.who = n]
  /\ hints' = [hints EXCEPT ![n] = n]
  /\ UNCHANGED <<tGiven, advertised, requests, call>>

\* A node hears who leads.
learn(n) ==
  /\ leads.who # None /\ hints[n] # leads.who
  /\ hints' = [hints EXCEPT ![n] = leads.who]
  /\ UNCHANGED <<tGiven, leads, advertised, requests, call>>

advertiseMetadata(n) ==
  /\ n \notin advertised /\ leads.who # None
  /\ advertised' = advertised \cup {n}
  /\ UNCHANGED <<tGiven, leads, hints, requests, call>>

\* A proposal its node rejected as it stepped down is answered like one it refused.
reject(q) ==
  /\ q.stage = "rejected"
  /\ Respond(q, handleRPCError(q.at))
  /\ UNCHANGED <<tGiven, leads, hints, advertised>>

\* No answer: the connection fails, the client's timeout passes, the request or the
\* answer is lost, or the answer is on its way too long.
lose(q) ==
  /\ Waiting(q) /\ call[q.c].lost < tGiven.losses
  /\ \E gone \in {{}, {q}} :
       Moves(q.c, another(q.c, [call[q.c] EXCEPT !.lost = @ + 1], Answer("transport", "lost")), gone)
  /\ UNCHANGED <<tGiven, leads, hints, advertised>>

TNext ==
  \/ \E c \in Calls : do(c)
  \/ \E q \in requests : refuse(q) \/ proposeWrite(q) \/ reject(q) \/ lose(q)
  \/ commit \/ stepDown
  \/ \E n \in Nodes : elect(n) \/ learn(n) \/ advertiseMetadata(n)

TSpec == TInit /\ [][TNext]_tvars



\* Of two writes on the condition of one revision, at most one takes effect.
OneConditionalWins ==
  Cardinality({c \in DOMAIN tGiven.asks : tGiven.asks[c].cond > 0 /\ tGiven.asks[c].cond = tGiven.key.rev
                                          /\ leads.times[c] > 0}) <= 1
=============================================================================
