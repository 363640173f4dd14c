--------------------------- MODULE ElectionProofs ---------------------------
(***************************************************************************)
(* Election safety for every set of nodes, every policy and every bound:   *)
(* ElectionInv is inductive and implies the properties of module Election. *)
(***************************************************************************)
EXTENDS Election, QuorumProofs

-----------------------------------------------------------------------------
(* Hard states, the chain they form, and what waits on them. *)

(* Overwriting twice without going back on a vote is overwriting once so. *)
LEMMA PrecedesTransitive ==
  ASSUME NEW f \in HardState, NEW g \in HardState, NEW h \in HardState,
         Precedes(f, g), Precedes(g, h)
  PROVE  Precedes(f, h)
BY DEF Precedes, HardState

(* What backs a message backs it after being overwritten. *)
LEMMA BackedMonotone ==
  ASSUME NEW m \in Message, NEW g \in HardState, NEW h \in HardState,
         Backed(m, g), Precedes(g, h)
  PROVE  Backed(m, h)
<1>1. g.term <= h.term
  BY DEF Precedes, HardState
<1>2. m.term \in Nat
  BY DEF Message, RequestVoteMsg, VoteReplyMsg, LeadMsg, RefusalMsg, TimeoutNowMsg
<1>3. m.term <= g.term => m.term <= h.term
  BY <1>1, <1>2 DEF HardState
<1>4. \A v : Precedes([term |-> m.term, vote |-> v], g)
               => Precedes([term |-> m.term, vote |-> v], h)
  BY <1>2 DEF Precedes, HardState
<1>5. QED BY <1>3, <1>4 DEF Backed

(* The kind of a message decides its fields. *)
LEMMA MessageKinds ==
  ASSUME NEW m \in Message
  PROVE  /\ m.type = "RequestVote" => m \in RequestVoteMsg
         /\ m.type = "VoteReply" => m \in VoteReplyMsg
         /\ m.type = "Lead" => m \in LeadMsg
         /\ m.type = "Refusal" => m \in RefusalMsg
         /\ m.type = "TimeoutNow" => m \in TimeoutNowMsg
         /\ m.term \in Nat
         /\ m.from \in Node
BY DEF Message, RequestVoteMsg, VoteReplyMsg, LeadMsg, RefusalMsg, TimeoutNowMsg

(* The parts of a queued write. *)
LEMMA WriteParts ==
  ASSUME NEW w \in Seq(Write)
  PROVE  /\ Len(w) \in Nat
         /\ \A i \in 1..Len(w) : /\ w[i] \in Write
                                 /\ w[i].hs \in HardState
                                 /\ w[i].then \in SUBSET Message
<1>1. \A x \in Write : x.hs \in HardState /\ x.then \in SUBSET Message
  BY DEF Write
<1>2. \A i \in 1..Len(w) : w[i] \in Write
  OBVIOUS
<1>3. QED BY <1>1, <1>2

(* Memory is never behind the disk. *)
LEMMA DiskPrecedesMemory ==
  ASSUME NEW w \in Seq(Write), NEW e \in Nat, e <= Len(w),
         NEW d \in HardState, NEW mem \in HardState, Chain(d, w, e, mem)
  PROVE  Precedes(d, mem)
<1>1. CASE e = Len(w)
  BY <1>1 DEF Chain, Precedes, HardState
<1>2. CASE e # Len(w)
  <2>1. Len(w) \in 1..Len(w) /\ Len(w) > e /\ w # <<>>
    BY <1>2
  <2>2. QED BY <2>1 DEF Chain
<1>3. QED BY <1>1, <1>2

(* saveTerm: a write that memory may be overwritten by extends the chain. *)
LEMMA ChainAppend ==
  ASSUME NEW w \in Seq(Write), NEW e \in Nat, e <= Len(w),
         NEW d \in HardState, NEW mem \in HardState, Chain(d, w, e, mem),
         NEW x \in Write, Precedes(mem, x.hs)
  PROVE  Chain(d, Append(w, x), e, x.hs)
<1> DEFINE u == Append(w, x)
<1>1. /\ Len(u) = Len(w) + 1 /\ u[Len(w) + 1] = x
      /\ \A i \in 1..Len(w) : u[i] = w[i]
      /\ u # <<>>
  OBVIOUS
<1>0. x.hs \in HardState /\ \A i \in 1..Len(w) : w[i].hs \in HardState
  <2>1. x.hs \in HardState
    BY DEF Write
  <2>2. QED BY <2>1, WriteParts
<1>2. \A i \in 1..Len(w) : Precedes(w[i].hs, x.hs)
  <2>1. SUFFICES ASSUME NEW i \in 1..Len(w) PROVE Precedes(w[i].hs, x.hs)
    OBVIOUS
  <2>2. Precedes(w[i].hs, w[Len(w)].hs) /\ w[Len(w)].hs = mem
    BY DEF Chain
  <2>3. QED BY <2>2, <1>0, PrecedesTransitive
<1>3. Precedes(d, x.hs)
  BY <1>0, DiskPrecedesMemory, PrecedesTransitive
<1>4. Precedes(x.hs, x.hs)
  BY <1>0 DEF Precedes, HardState
<1>5. \A i, j \in 1..Len(u) : i <= j => Precedes(u[i].hs, u[j].hs)
  BY <1>1, <1>2, <1>4 DEF Chain
<1>6. \A i \in 1..Len(u) : i > e => Precedes(d, u[i].hs)
  BY <1>1, <1>3 DEF Chain
<1>7. \A i \in 1..Len(u) : i <= e => Precedes(u[i].hs, d)
  BY <1>1 DEF Chain
<1>8. u[Len(u)].hs = x.hs /\ e # Len(u)
  BY <1>1
<1>9. QED BY <1>5, <1>6, <1>7, <1>8 DEF Chain

(* WriterExecutes: performing the next write moves the disk along the chain. *)
LEMMA ChainExecute ==
  ASSUME NEW w \in Seq(Write), NEW e \in Nat, e < Len(w),
         NEW d \in HardState, NEW mem \in HardState, Chain(d, w, e, mem)
  PROVE  /\ Chain(w[e + 1].hs, w, e + 1, mem)
         /\ Precedes(d, w[e + 1].hs)
         /\ w[e + 1].hs \in HardState
<1>1. e + 1 \in 1..Len(w) /\ w # <<>>
  OBVIOUS
<1>2. w[e + 1].hs \in HardState
  BY <1>1, WriteParts
<1>3. Precedes(d, w[e + 1].hs)
  BY <1>1 DEF Chain
<1>4. \A i \in 1..Len(w) : i > e + 1 => Precedes(w[e + 1].hs, w[i].hs)
  BY <1>1 DEF Chain
<1>5. \A i \in 1..Len(w) : i <= e + 1 => Precedes(w[i].hs, w[e + 1].hs)
  BY <1>1 DEF Chain
<1>6. e + 1 = Len(w) => w[e + 1].hs = mem
  BY <1>1 DEF Chain
<1>7. QED BY <1>2, <1>3, <1>4, <1>5, <1>6 DEF Chain

(* handleWriteCompletions: forgetting a performed write keeps the chain. *)
LEMMA ChainTail ==
  ASSUME NEW w \in Seq(Write), NEW e \in Nat \ {0}, e <= Len(w),
         NEW d \in HardState, NEW mem \in HardState, Chain(d, w, e, mem)
  PROVE  Chain(d, Tail(w), e - 1, mem) /\ Precedes(w[1].hs, d)
<1> DEFINE u == Tail(w)
<1>1. /\ Len(u) = Len(w) - 1
      /\ \A i \in 1..Len(u) : u[i] = w[i + 1] /\ i + 1 \in 1..Len(w)
      /\ 1 \in 1..Len(w)
      /\ w # <<>>
      /\ Len(w) \in Nat /\ e \in 1..Len(w)
  OBVIOUS
<1> HIDE DEF u
<1>2. \A i, j \in 1..Len(u) : i <= j => Precedes(u[i].hs, u[j].hs)
  BY <1>1 DEF Chain
<1>3. \A i \in 1..Len(u) : i > e - 1 => Precedes(d, u[i].hs)
  BY <1>1 DEF Chain
<1>4. \A i \in 1..Len(u) : i <= e - 1 => Precedes(u[i].hs, d)
  BY <1>1 DEF Chain
<1>5. u # <<>> => u[Len(u)].hs = mem
  <2>1. SUFFICES ASSUME u # <<>> PROVE u[Len(u)].hs = mem
    OBVIOUS
  <2>2. Len(u) \in 1..Len(u)
    BY <1>1, <2>1 DEF u
  <2>3. u[Len(u)] = w[Len(w)]
    BY <1>1, <2>2
  <2>4. QED BY <2>3, <1>1 DEF Chain
<1>6. e - 1 = Len(u) => d = mem
  BY <1>1 DEF Chain
<1>7. Precedes(w[1].hs, d)
  BY <1>1 DEF Chain
<1>8. QED BY <1>2, <1>3, <1>4, <1>5, <1>6, <1>7 DEF Chain, u

(* replyWhenDurable behind a pending write only adds to what waits on it. *)
LEMMA AttachParts ==
  ASSUME NEW w \in Seq(Write), w # <<>>, NEW m \in Message
  PROVE  /\ Attach(w, m) \in Seq(Write) /\ Len(Attach(w, m)) = Len(w)
         /\ Len(w) \in 1..Len(w) /\ Attach(w, m) # <<>>
         /\ \A i \in 1..Len(w) : Attach(w, m)[i].hs = w[i].hs
         /\ \A i \in 1..Len(w) : i # Len(w) => Attach(w, m)[i].then = w[i].then
         /\ Attach(w, m)[Len(w)].then = w[Len(w)].then \cup {m}
<1> DEFINE y == [w[Len(w)] EXCEPT !.then = @ \cup {m}]
           u == Attach(w, m)
<1>1. Len(w) \in 1..Len(w)
  OBVIOUS
<1>2. w[Len(w)] \in Write
  BY <1>1
<1>3. y \in Write /\ y.hs = w[Len(w)].hs /\ y.then = w[Len(w)].then \cup {m}
  BY <1>2 DEF Write
<1>4. u = [w EXCEPT ![Len(w)] = y]
  BY DEF Attach
<1> HIDE DEF y, u
<1>5. u \in Seq(Write) /\ Len(u) = Len(w) /\ u # <<>>
  <2>1. y \in Write
    BY <1>3
  <2>2. u \in Seq(Write)
    <3>1. w \in [1..Len(w) -> Write] /\ Len(w) \in Nat
      OBVIOUS
    <3>2. u \in [1..Len(w) -> Write]
      BY <1>1, <1>4, <2>1, <3>1
    <3>3. QED BY <3>1, <3>2
  <2>3. Len(u) = Len(w)
    BY <1>1, <1>4, <2>1
  <2>4. QED BY <2>2, <2>3, <1>1
<1>6. \A i \in 1..Len(w) : i # Len(w) => u[i] = w[i]
  BY <1>1, <1>4
<1>7. u[Len(w)] = y
  BY <1>1, <1>4
<1>8. \A i \in 1..Len(w) : u[i].hs = w[i].hs
  BY <1>3, <1>6, <1>7
<1>9. \A i \in 1..Len(w) : i # Len(w) => u[i].then = w[i].then
  BY <1>6
<1>10. u[Len(w)].then = w[Len(w)].then \cup {m}
  BY <1>3, <1>7
<1>11. QED BY <1>1, <1>5, <1>8, <1>9, <1>10 DEF u

(* Hence the chain is as it was. *)
LEMMA ChainAttach ==
  ASSUME NEW w \in Seq(Write), w # <<>>, NEW m \in Message,
         NEW d, NEW e \in Nat, NEW mem, Chain(d, w, e, mem)
  PROVE  Chain(d, Attach(w, m), e, mem)
<1> DEFINE u == Attach(w, m)
<1>1. /\ Len(u) = Len(w) /\ Len(w) \in 1..Len(w)
      /\ \A i \in 1..Len(w) : u[i].hs = w[i].hs
      /\ w # <<>>
  BY AttachParts
<1> HIDE DEF u
<1>2. Chain(d, u, e, mem)
  BY <1>1 DEF Chain
<1>3. QED BY <1>2 DEF u

(* What one message waiting on a hard state h of node n must satisfy. *)
WaitsOn(n, m, h, ms) ==
  /\ m.from = n
  /\ m.type \in {"VoteReply", "RequestVote", "Refusal"}
  /\ m.type # "Refusal" => ~m.pre
  /\ Backed(m, h)
  /\ GrantOK(m, ms)

(* Waiting, one message at a time; it survives more messages being sent.   *)
LEMMA WaitingMore ==
  ASSUME NEW n, NEW w, NEW ms, NEW more, ms \subseteq more, Waiting(n, w, ms)
  PROVE  Waiting(n, w, more)
BY ZenonT(60) DEF Waiting, GrantOK

LEMMA WaitingAppend ==
  ASSUME NEW n, NEW w \in Seq(Write), NEW ms, Waiting(n, w, ms),
         NEW x \in Write, \A m \in x.then : WaitsOn(n, m, x.hs, ms)
  PROVE  Waiting(n, Append(w, x), ms)
<1> DEFINE u == Append(w, x)
<1>1. /\ Len(u) = Len(w) + 1 /\ u[Len(w) + 1] = x
      /\ \A i \in 1..Len(w) : u[i] = w[i]
      /\ Len(w) \in Nat
  OBVIOUS
<1> HIDE DEF u
<1>2. SUFFICES ASSUME NEW i \in 1..Len(u), NEW m \in u[i].then PROVE WaitsOn(n, m, u[i].hs, ms)
  BY DEF Waiting, WaitsOn, u
<1>3. CASE i = Len(w) + 1
  BY <1>1, <1>3
<1>4. CASE i # Len(w) + 1
  <2>1. i \in 1..Len(w) /\ u[i] = w[i]
    BY <1>1, <1>4
  <2>2. QED BY <2>1 DEF Waiting, WaitsOn
<1>5. QED BY <1>3, <1>4

LEMMA WaitingTail ==
  ASSUME NEW n, NEW w \in Seq(Write), NEW ms, Waiting(n, w, ms), w # <<>>
  PROVE  /\ Waiting(n, Tail(w), ms)
         /\ \A m \in w[1].then : WaitsOn(n, m, w[1].hs, ms)
<1> DEFINE u == Tail(w)
<1>1. /\ Len(u) = Len(w) - 1 /\ 1 \in 1..Len(w)
      /\ \A i \in 1..Len(u) : u[i] = w[i + 1] /\ i + 1 \in 1..Len(w)
  OBVIOUS
<1> HIDE DEF u
<1>2. Waiting(n, u, ms)
  BY <1>1 DEF Waiting
<1>3. QED BY <1>1, <1>2 DEF Waiting, WaitsOn, u

LEMMA WaitingAttach ==
  ASSUME NEW n, NEW w \in Seq(Write), w # <<>>, NEW m \in Message,
         NEW ms, Waiting(n, w, ms), WaitsOn(n, m, w[Len(w)].hs, ms)
  PROVE  Waiting(n, Attach(w, m), ms)
<1> DEFINE u == Attach(w, m)
<1>1. /\ Len(u) = Len(w)
      /\ \A i \in 1..Len(w) : u[i].hs = w[i].hs
      /\ \A i \in 1..Len(w) : i # Len(w) => u[i].then = w[i].then
      /\ u[Len(w)].then = w[Len(w)].then \cup {m}
  BY AttachParts
<1> HIDE DEF u
<1>2. SUFFICES ASSUME NEW i \in 1..Len(w), NEW k \in u[i].then PROVE WaitsOn(n, k, w[i].hs, ms)
  BY <1>1 DEF Waiting, WaitsOn, u
<1>3. k \in w[i].then \/ (i = Len(w) /\ k = m)
  BY <1>1
<1>4. QED BY <1>3 DEF Waiting, WaitsOn

-----------------------------------------------------------------------------
(* Types. *)

(* The messages the handlers build are messages. *)
LEMMA MessageTypes ==
  ASSUME NEW t \in Nat, NEW s \in Nat, NEW n \in Node, NEW k \in Node,
         NEW p \in BOOLEAN, NEW g \in BOOLEAN
  PROVE  /\ RequestVote(p, t, n) \in Message
         /\ VoteReply(p, s, t, g, n, k) \in Message
         /\ Lead(t, n) \in Message
         /\ Refusal(t, n, k) \in Message
         /\ TimeoutNow(t, n, k) \in Message
BY DEF RequestVote, VoteReply, Lead, Refusal, TimeoutNow, Message, RequestVoteMsg,
       VoteReplyMsg, LeadMsg, RefusalMsg, TimeoutNowMsg

(* saveTerm of a term, a vote and messages keeps the types of what it sets. *)
LEMMA SaveTermType ==
  ASSUME TypeOK, NEW n \in Node, NEW t \in Nat, NEW v \in Node \cup {None},
         NEW then \in SUBSET Message, saveTerm(n, t, v, then)
  PROVE  /\ currentTerm' \in [Node -> Nat]
         /\ votedFor' \in [Node -> Node \cup {None}]
         /\ writes' \in [Node -> Seq(Write)]
         /\ \A k \in Node : Len(writes[k]) <= Len(writes'[k])
<1> DEFINE x == [hs |-> [term |-> t, vote |-> v], then |-> then]
<1>1. x \in Write
  BY DEF Write, HardState
<1>2. writes' = [writes EXCEPT ![n] = Append(writes[n], x)] /\ writes \in [Node -> Seq(Write)]
  BY DEF saveTerm, TypeOK
<1> HIDE DEF x
<1>3. Append(writes[n], x) \in Seq(Write) /\ Len(Append(writes[n], x)) = Len(writes[n]) + 1
  BY <1>1, <1>2
<1>4. writes' \in [Node -> Seq(Write)]
  BY <1>2, <1>3
<1>5. \A k \in Node : Len(writes[k]) <= Len(writes'[k])
  BY <1>2, <1>3
<1>6. currentTerm' \in [Node -> Nat] /\ votedFor' \in [Node -> Node \cup {None}]
  BY DEF saveTerm, TypeOK
<1>7. QED BY <1>4, <1>5, <1>6

LEMMA ReplyType ==
  ASSUME TypeOK, NEW n \in Node, NEW m \in Message, replyWhenDurable(n, m)
  PROVE  /\ writes' \in [Node -> Seq(Write)]
         /\ \A k \in Node : Len(writes[k]) <= Len(writes'[k])
         /\ msgs' \subseteq Message
<1>1. CASE writes[n] = <<>>
  BY <1>1 DEF replyWhenDurable, TypeOK
<1>2. CASE writes[n] # <<>>
  <2>1. writes \in [Node -> Seq(Write)] /\ writes[n] \in Seq(Write)
    BY DEF TypeOK
  <2>2. writes' = [writes EXCEPT ![n] = Attach(writes[n], m)] /\ msgs' = msgs
    BY <1>2 DEF replyWhenDurable
  <2>3. Attach(writes[n], m) \in Seq(Write) /\ Len(Attach(writes[n], m)) = Len(writes[n])
    BY <1>2, <2>1, AttachParts
  <2>4. QED BY <2>1, <2>2, <2>3 DEF TypeOK
<1>3. QED BY <1>1, <1>2

(* What a transition of a node's state keeps: the types of what it touches, *)
(* and a queue that is no shorter.                                          *)
NodeTyped ==
  /\ state' \in [Node -> State] /\ currentTerm' \in [Node -> Nat]
  /\ votedFor' \in [Node -> Node \cup {None}] /\ votes' \in [Node -> SUBSET Node]
  /\ expired' \in [Node -> BOOLEAN]
  /\ writes' \in [Node -> Seq(Write)]
  /\ \A k \in Node : Len(writes[k]) <= Len(writes'[k])

LEMMA NodeTypedSuffices ==
  ASSUME TypeOK, NodeTyped, UNCHANGED <<disk, executed>>, msgs' \subseteq Message, upsets' \in Nat
  PROVE  TypeOK'
<1>1. ASSUME NEW k \in Node PROVE executed[k] <= Len(writes'[k])
  <2>1. writes[k] \in Seq(Write) /\ writes'[k] \in Seq(Write) /\ executed[k] \in Nat
    BY DEF TypeOK, NodeTyped
  <2>2. executed[k] <= Len(writes[k]) /\ Len(writes[k]) <= Len(writes'[k])
    BY DEF TypeOK, NodeTyped
  <2>3. Len(writes[k]) \in Nat /\ Len(writes'[k]) \in Nat
    BY <2>1
  <2>4. QED BY <2>1, <2>2, <2>3
<1>2. QED BY <1>1 DEF TypeOK, NodeTyped

LEMMA BecomeFollowerType ==
  ASSUME TypeOK, NEW n \in Node, NEW t \in Nat, becomeFollower(n, t)
  PROVE  NodeTyped
<1>1. state' \in [Node -> State] /\ votes' \in [Node -> SUBSET Node] /\ expired' \in [Node -> BOOLEAN]
  BY DEF becomeFollower, applyFollowerTransition, TypeOK, State
<1>2. CASE t > currentTerm[n]
  <2>1. saveTerm(n, t, None, {}) /\ {} \in SUBSET Message
    BY <1>2 DEF becomeFollower, TypeOK
  <2>2. QED BY <1>1, <2>1, SaveTermType, ZenonT(60) DEF NodeTyped
<1>3. CASE ~(t > currentTerm[n])
  <2>1. UNCHANGED <<currentTerm, votedFor, writes>>
    BY <1>3 DEF becomeFollower, TypeOK
  <2>2. \A k \in Node : Len(writes[k]) <= Len(writes'[k])
    <3>1. \A k \in Node : writes[k] \in Seq(Write)
      BY DEF TypeOK
    <3>2. QED BY <2>1, <3>1
  <2>3. QED BY <1>1, <2>1, <2>2 DEF TypeOK, NodeTyped
<1>4. QED BY <1>2, <1>3

LEMMA BecomeCandidateType ==
  ASSUME TypeOK, NEW n \in Node, becomeCandidate(n)
  PROVE  NodeTyped
<1>1. state' \in [Node -> State] /\ votes' \in [Node -> SUBSET Node] /\ expired' \in [Node -> BOOLEAN]
  BY DEF becomeCandidate, TypeOK, State
<1>2. currentTerm[n] + 1 \in Nat
  BY DEF TypeOK
<1>3. {RequestVote(FALSE, currentTerm[n] + 1, n)} \in SUBSET Message
  BY <1>2, MessageTypes, ZenonT(60)
<1>4. saveTerm(n, currentTerm[n] + 1, n, {RequestVote(FALSE, currentTerm[n] + 1, n)})
  BY DEF becomeCandidate
<1>5. QED BY <1>1, <1>2, <1>3, <1>4, SaveTermType, ZenonT(60) DEF NodeTyped

(* A step of any node keeps every type. *)
LEMMA StepType ==
  ASSUME TypeOK, NEW n \in Node, Step(n)
  PROVE  TypeOK'
<1>0. msgs \subseteq Message /\ upsets \in Nat
  BY DEF TypeOK
<1>1. CASE WriterExecutes(n)
  <2>1. writes[n] \in Seq(Write) /\ executed[n] + 1 \in 1..Len(writes[n]) /\ executed[n] + 1 \in Nat
    BY <1>1 DEF WriterExecutes, TypeOK
  <2>2. writes[n][executed[n] + 1].hs \in HardState
    BY <2>1, WriteParts
  <2>3. QED BY <1>1, <2>1, <2>2 DEF WriterExecutes, TypeOK, nodeVars
<1>2. CASE handleWriteCompletions(n)
  <2>1. writes[n] \in Seq(Write) /\ writes[n] # <<>> /\ executed[n] - 1 \in Nat
    BY <1>2 DEF handleWriteCompletions, TypeOK
  <2>2. Tail(writes[n]) \in Seq(Write) /\ Len(Tail(writes[n])) = Len(writes[n]) - 1
    BY <2>1
  <2>3. Head(writes[n]).then \in SUBSET Message
    BY <2>1, WriteParts
  <2>4. writes' = [writes EXCEPT ![n] = Tail(writes[n])] /\ executed' = [executed EXCEPT ![n] = executed[n] - 1]
    BY <1>2 DEF handleWriteCompletions
  <2>5. /\ writes' \in [Node -> Seq(Write)] /\ executed' \in [Node -> Nat]
        /\ \A k \in Node : executed'[k] <= Len(writes'[k])
    BY <2>1, <2>2, <2>4 DEF TypeOK
  <2>6. Lead(currentTerm[n], n) \in Message
    BY MessageTypes DEF TypeOK
  <2>7. msgs' \subseteq Message
    BY <1>2, <2>3, <2>6 DEF handleWriteCompletions, TypeOK
  <2>8. state' \in [Node -> State]
    BY <1>2, ZenonT(60) DEF handleWriteCompletions, TypeOK, State
  <2>9. QED BY <1>2, <2>5, <2>7, <2>8 DEF handleWriteCompletions, TypeOK
<1>3. CASE ElectionTimeout(n)
  <2>1. /\ UNCHANGED <<disk, executed>> /\ upsets' \in Nat
    BY <1>3 DEF ElectionTimeout, upset, TypeOK
  <2>2. CASE becomeCandidate(n) /\ UNCHANGED msgs
    BY <1>0, <2>1, <2>2, BecomeCandidateType, NodeTypedSuffices
  <2>3. CASE ~becomeCandidate(n) \/ ~UNCHANGED msgs
    <3>0. currentTerm[n] + 1 \in Nat
      BY DEF TypeOK
    <3>1. RequestVote(TRUE, currentTerm[n] + 1, n) \in Message
      BY <3>0, MessageTypes, ZenonT(60)
    <3>2. QED BY <1>3, <2>1, <2>3, <3>1, ZenonT(60) DEF ElectionTimeout, becomePreCandidate, TypeOK, State
  <2>4. QED BY <2>2, <2>3
<1>4. CASE WitnessTimeout(n)
  BY <1>4 DEF WitnessTimeout, upset, TypeOK
<1>5. CASE StepDown(n)
  <2>1. becomeFollower(n, currentTerm[n]) /\ currentTerm[n] \in Nat /\ upsets' \in Nat
        /\ UNCHANGED <<disk, executed, msgs>>
    BY <1>5 DEF StepDown, upset, TypeOK
  <2>2. QED BY <1>0, <2>1, BecomeFollowerType, NodeTypedSuffices
<1>6. CASE Crash(n)
  <2>1. <<>> \in Seq(Write) /\ Len(<<>>) = 0
    OBVIOUS
  <2>2. disk[n].term \in Nat /\ disk[n].vote \in Node \cup {None}
    BY DEF TypeOK, HardState
  <2>3. QED BY <1>6, <2>1, <2>2 DEF Crash, upset, TypeOK, State
<1>7. ASSUME NEW target \in Node, sendTimeoutNow(n, target) PROVE TypeOK'
  <2>1. TimeoutNow(currentTerm[n], n, target) \in Message
    BY MessageTypes DEF TypeOK
  <2>2. QED BY <1>7, <2>1 DEF sendTimeoutNow, upset, TypeOK, nodeVars
<1>8. ASSUME NEW m \in msgs, NEW logOK \in BOOLEAN, handleRequestVote(n, m, logOK) PROVE TypeOK'
  <2>1. m \in RequestVoteMsg /\ m \in Message
    BY <1>8, MessageKinds DEF handleRequestVote, TypeOK
  <2>2. m.term \in Nat /\ m.from \in Node /\ m.pre \in BOOLEAN /\ currentTerm[n] \in Nat
    BY <2>1 DEF RequestVoteMsg, TypeOK
  <2>3. UNCHANGED <<disk, executed, upsets>>
    BY <1>8 DEF handleRequestVote
  <2>4. CASE handlePreVote(n, m, logOK)
    <3>1. \A g \in BOOLEAN : VoteReply(TRUE, m.term, currentTerm[n], g, n, m.from) \in Message
      BY <2>2, MessageTypes, ZenonT(60)
    <3>2. QED BY <2>3, <2>4, <3>1, ZenonT(60) DEF handlePreVote, TypeOK, nodeVars
  <2>5. CASE voteInNewTerm(n, m, logOK)
    <3> DEFINE grant == n \in Voter /\ logOK
               then == {r \in {VoteReply(FALSE, m.term, m.term, grant, n, m.from)} : grant}
               v == IF grant THEN m.from ELSE None
    <3>1. then \in SUBSET Message
      <4>1. VoteReply(FALSE, m.term, m.term, grant, n, m.from) \in Message
        BY <2>2, MessageTypes, Zenon
      <4>2. QED BY <4>1, ZenonT(60)
    <3>2. saveTerm(n, m.term, v, then) /\ applyFollowerTransition(n) /\ UNCHANGED msgs
      BY <2>5 DEF voteInNewTerm
    <3>3. v \in Node \cup {None}
      BY <2>2
    <3> HIDE DEF then, v
    <3>4. /\ currentTerm' \in [Node -> Nat]
          /\ votedFor' \in [Node -> Node \cup {None}]
          /\ writes' \in [Node -> Seq(Write)]
          /\ \A k \in Node : Len(writes[k]) <= Len(writes'[k])
      BY <2>2, <3>1, <3>2, <3>3, SaveTermType, ZenonT(60)
    <3>5. /\ state' \in [Node -> State] /\ expired' \in [Node -> BOOLEAN]
          /\ UNCHANGED <<votes, msgs>>
      BY <3>2 DEF applyFollowerTransition, TypeOK, State
    <3>6. QED BY <2>3, <3>4, <3>5 DEF TypeOK
  <2>6. CASE voteInCurrentTerm(n, m, logOK)
    <3>1. PICK g \in BOOLEAN :
            LET r == VoteReply(FALSE, m.term, currentTerm[n], g, n, m.from) IN
            \/ /\ saveTerm(n, m.term, m.from, {r})
               /\ expired' = [expired EXCEPT ![n] = FALSE]
               /\ UNCHANGED <<state, votes, msgs>>
            \/ replyWhenDurable(n, r) /\ UNCHANGED nodeVars
      BY <2>6, ZenonT(60) DEF voteInCurrentTerm
    <3> DEFINE r == VoteReply(FALSE, m.term, currentTerm[n], g, n, m.from)
    <3>2. r \in Message /\ {r} \in SUBSET Message
      <4>1. r \in Message
        BY <2>2, MessageTypes, Zenon
      <4>2. QED BY <4>1, ZenonT(60)
    <3> HIDE DEF r
    <3>3. CASE saveTerm(n, m.term, m.from, {r}) /\ expired' = [expired EXCEPT ![n] = FALSE]
               /\ UNCHANGED <<state, votes, msgs>>
      <4>1. /\ currentTerm' \in [Node -> Nat]
            /\ votedFor' \in [Node -> Node \cup {None}]
            /\ writes' \in [Node -> Seq(Write)]
            /\ \A k \in Node : Len(writes[k]) <= Len(writes'[k])
        BY <2>2, <3>2, <3>3, SaveTermType
      <4>2. /\ UNCHANGED <<state, votes, msgs, disk, executed, upsets>>
            /\ expired' \in [Node -> BOOLEAN]
        BY <2>3, <3>3 DEF TypeOK
      <4>3. QED BY <4>1, <4>2 DEF TypeOK
    <3>4. CASE replyWhenDurable(n, r) /\ UNCHANGED nodeVars
      BY <2>3, <3>2, <3>4, ReplyType DEF TypeOK, nodeVars
    <3>5. QED BY <3>1, <3>3, <3>4, ZenonT(60) DEF r
  <2>7. QED BY <1>8, <2>4, <2>5, <2>6 DEF handleRequestVote
<1>9. ASSUME NEW m \in msgs, handleVoteResult(n, m) PROVE TypeOK'
  <2>1. m.term \in Nat /\ m.from \in Node /\ UNCHANGED <<disk, executed, upsets>>
    BY <1>9, MessageKinds DEF handleVoteResult, TypeOK
  <2>2. CASE becomeFollower(n, m.term) /\ UNCHANGED msgs
    BY <1>0, <2>1, <2>2, BecomeFollowerType, NodeTypedSuffices
  <2>3. CASE becomeCandidate(n) /\ UNCHANGED msgs
    BY <1>0, <2>1, <2>3, BecomeCandidateType, NodeTypedSuffices
  <2>4. CASE ~(becomeFollower(n, m.term) /\ UNCHANGED msgs) /\ ~(becomeCandidate(n) /\ UNCHANGED msgs)
    <3>1. Lead(currentTerm[n], n) \in Message
      BY MessageTypes DEF TypeOK
    <3>2. /\ votes' = [votes EXCEPT ![n] = @ \cup {m.from}]
          /\ UNCHANGED <<currentTerm, votedFor, expired, writes>>
          /\ \/ state' = [state EXCEPT ![n] = "Leader"] /\ msgs' = msgs \cup {Lead(currentTerm[n], n)}
             \/ UNCHANGED <<state, msgs>>
      BY <1>9, <2>4, SMTT(90) DEF handleVoteResult, handlePreVoteResult, handleRealVoteResult, becomeLeader
    <3>3. QED BY <2>1, <3>1, <3>2, ZenonT(60) DEF TypeOK, State
  <2>5. QED BY <2>2, <2>3, <2>4
<1>10. ASSUME NEW m \in msgs, handleLead(n, m) PROVE TypeOK'
  <2>1. m.term \in Nat /\ m.from \in Node /\ UNCHANGED <<disk, executed, upsets>>
    BY <1>10, MessageKinds DEF handleLead, TypeOK
  <2>2. CASE becomeFollower(n, m.term) /\ UNCHANGED msgs
    BY <1>0, <2>1, <2>2, BecomeFollowerType, NodeTypedSuffices
  <2>3. CASE replyWhenDurable(n, Refusal(currentTerm[n], n, m.from)) /\ UNCHANGED nodeVars
    <3>1. Refusal(currentTerm[n], n, m.from) \in Message
      BY <2>1, MessageTypes DEF TypeOK
    <3>2. QED BY <2>1, <2>3, <3>1, ReplyType DEF TypeOK, nodeVars
  <2>4. QED BY <1>10, <2>2, <2>3 DEF handleLead
<1>11. ASSUME NEW m \in msgs, handleRefusal(n, m) PROVE TypeOK'
  <2>1. m.term \in Nat /\ UNCHANGED <<disk, executed, msgs, upsets>> /\ becomeFollower(n, m.term)
    BY <1>11, MessageKinds DEF handleRefusal, TypeOK
  <2>2. QED BY <1>0, <2>1, BecomeFollowerType, NodeTypedSuffices
<1>12. ASSUME NEW m \in msgs, handleTimeoutNow(n, m) PROVE TypeOK'
  <2>1. m.term \in Nat /\ UNCHANGED <<disk, executed, msgs, upsets>>
    BY <1>12, MessageKinds DEF handleTimeoutNow, TypeOK
  <2>2. CASE becomeCandidate(n)
    BY <1>0, <2>1, <2>2, BecomeCandidateType, NodeTypedSuffices
  <2>3. CASE ~becomeCandidate(n)
    <3> DEFINE x == [hs |-> [term |-> m.term, vote |-> None], then |-> {}]
               y == [hs |-> [term |-> m.term + 1, vote |-> n], then |-> {RequestVote(FALSE, m.term + 1, n)}]
    <3>0. m.term + 1 \in Nat
      BY <2>1
    <3>1. RequestVote(FALSE, m.term + 1, n) \in Message
      BY <3>0, MessageTypes, ZenonT(60)
    <3>2. x \in Write /\ y \in Write
      BY <2>1, <3>0, <3>1, ZenonT(60) DEF Write, HardState
    <3>3. /\ writes' = [writes EXCEPT ![n] = Append(Append(writes[n], x), y)]
          /\ currentTerm' = [currentTerm EXCEPT ![n] = m.term + 1]
          /\ votedFor' = [votedFor EXCEPT ![n] = n]
          /\ state' = [state EXCEPT ![n] = "Candidate"]
          /\ votes' = [votes EXCEPT ![n] = {}]
          /\ expired' = [expired EXCEPT ![n] = FALSE]
      BY <1>12, <2>3, ZenonT(60) DEF handleTimeoutNow
    <3> HIDE DEF x, y
    <3>4. /\ Append(Append(writes[n], x), y) \in Seq(Write)
          /\ Len(Append(Append(writes[n], x), y)) = Len(writes[n]) + 2
          /\ Len(writes[n]) \in Nat
      BY <3>2 DEF TypeOK
    <3>5. writes' \in [Node -> Seq(Write)] /\ \A k \in Node : executed[k] <= Len(writes'[k])
      BY <3>3, <3>4 DEF TypeOK
    <3>6. QED BY <2>1, <3>0, <3>3, <3>5 DEF TypeOK, State
  <2>4. QED BY <2>2, <2>3, SMTT(90)
<1>13. QED BY <1>1, <1>2, <1>3, <1>4, <1>5, <1>6, <1>7, <1>8, <1>9, <1>10, <1>11, <1>12 DEF Step

-----------------------------------------------------------------------------
(* The invariant. *)

(* Only node n's own variables change. *)
OnlyNode(n) ==
  \A k \in Node \ {n} :
    /\ state'[k] = state[k] /\ votes'[k] = votes[k]
    /\ currentTerm'[k] = currentTerm[k] /\ votedFor'[k] = votedFor[k]
    /\ writes'[k] = writes[k] /\ executed'[k] = executed[k] /\ disk'[k] = disk[k]

(* Sending more messages takes no vote away and elects nobody out of office. *)
LEMMA MoreMessages ==
  ASSUME msgs \subseteq msgs'
  PROVE  /\ \A v, t, c : GrantedTo(v, t, c) => GrantedTo(v, t, c)'
         /\ \A t, c : Elected(t, c) => Elected(t, c)'
         /\ \A m : GrantOK(m, msgs) => GrantOK(m, msgs')
<1>1. \A v, t, c : GrantedTo(v, t, c) => GrantedTo(v, t, c)'
  BY DEF GrantedTo
<1>2. \A t, c : Elected(t, c) => Elected(t, c)'
  BY <1>1 DEF Elected
<1>3. QED BY <1>1, <1>2, ZenonT(60) DEF GrantOK

(* What a step of n must show for the invariant to survive: its own part,  *)
(* that its disk only moves forward, and what it sends.                    *)
LEMMA Frame ==
  ASSUME ElectionInv, TypeOK', NEW n \in Node, OnlyNode(n),
         msgs \subseteq msgs', Precedes(disk[n], disk'[n]),
         \A m \in msgs' \ msgs : m.from = n /\ MsgInv(m)',
         NodeInv(n)'
  PROVE  ElectionInv'
<1>1. ASSUME NEW k \in Node, k # n PROVE NodeInv(k)'
  <2>1. /\ state'[k] = state[k] /\ votes'[k] = votes[k]
        /\ currentTerm'[k] = currentTerm[k] /\ votedFor'[k] = votedFor[k]
        /\ writes'[k] = writes[k] /\ executed'[k] = executed[k] /\ disk'[k] = disk[k]
    BY <1>1 DEF OnlyNode
  <2>2. NodeInv(k)
    BY SMTT(90) DEF ElectionInv
  <2>3. Chain(disk[k], writes[k], executed[k], Memory(k))'
    <3>1. Chain(disk[k], writes[k], executed[k], Memory(k))
      BY <2>2, ZenonT(60) DEF NodeInv
    <3>2. Memory(k)' = Memory(k)
      BY <2>1, ZenonT(60) DEF Memory
    <3>3. QED BY <2>1, <3>1, <3>2, ZenonT(60)
  <2>4. Waiting(k, writes[k], msgs)'
    BY <2>1, <2>2, WaitingMore, ZenonT(60) DEF NodeInv
  <2>5. Lead(currentTerm[k], k).from = k
    BY SMTT(90) DEF Lead
  <2>6. Lead(currentTerm[k], k) \in msgs' => Lead(currentTerm[k], k) \in msgs
    BY <1>1, <2>5
  <2>7. QED BY <2>1, <2>2, <2>3, <2>4, <2>6, MoreMessages, ZenonT(60) DEF NodeInv
<1>2. ASSUME NEW m \in msgs PROVE MsgInv(m)'
  <2>1. MsgInv(m) /\ m \in Message /\ m.from \in Node
    BY MessageKinds DEF ElectionInv, TypeOK
  <2>2. disk[m.from] \in HardState /\ disk'[m.from] \in HardState
    BY <2>1 DEF ElectionInv, TypeOK
  <2>3. Backed(m, disk'[m.from])
    <3>1. CASE m.from = n
      BY <2>1, <2>2, <3>1, BackedMonotone, SMTT(90) DEF MsgInv
    <3>2. CASE m.from # n
      BY <2>1, <3>2, SMTT(90) DEF MsgInv, OnlyNode
    <3>3. QED BY <3>1, <3>2, SMTT(90)
  <2>4. GrantOK(m, msgs') /\ (m.type = "Lead" => Elected(m.term, m.from)')
    BY <2>1, MoreMessages, SMTT(90) DEF MsgInv
  <2>5. QED BY <2>3, <2>4 DEF MsgInv
<1>3. \A k \in Node : NodeInv(k)'
  BY <1>1, SMTT(90)
<1>4. \A m \in msgs' : MsgInv(m)'
  BY <1>2
<1>5. QED BY <1>3, <1>4 DEF ElectionInv

(* The types a node's part of the invariant is about. *)
LEMMA NodeTypes ==
  ASSUME TypeOK, NEW n \in Node
  PROVE  /\ writes[n] \in Seq(Write) /\ executed[n] \in Nat /\ executed[n] <= Len(writes[n])
         /\ disk[n] \in HardState /\ Memory(n) \in HardState /\ currentTerm[n] \in Nat
BY DEF TypeOK, Memory, HardState

LEMMA PrecedesReflexive ==
  ASSUME NEW h \in HardState
  PROVE  Precedes(h, h)
BY DEF Precedes, HardState

(* saveTerm over a hard state that may be overwritten. *)
LEMMA SaveKeepsQueue ==
  ASSUME ElectionInv, TypeOK', NEW n \in Node, NEW t \in Nat, NEW v \in Node \cup {None},
         NEW then \in SUBSET Message, saveTerm(n, t, v, then),
         UNCHANGED <<disk, executed>>, msgs \subseteq msgs',
         Precedes(Memory(n), [term |-> t, vote |-> v]),
         \A m \in then : WaitsOn(n, m, [term |-> t, vote |-> v], msgs)
  PROVE  /\ Chain(disk[n], writes[n], executed[n], Memory(n))'
         /\ Waiting(n, writes[n], msgs)'
         /\ currentTerm'[n] = t
<1> DEFINE h == [term |-> t, vote |-> v]
           x == [hs |-> h, then |-> then]
<1>1. x \in Write /\ x.hs = h /\ x.then = then /\ h \in HardState
  BY DEF Write, HardState
<1>2. /\ writes[n] \in Seq(Write) /\ executed[n] \in Nat /\ executed[n] <= Len(writes[n])
      /\ disk[n] \in HardState /\ Memory(n) \in HardState
  BY NodeTypes, ZenonT(60) DEF ElectionInv
<1>3. /\ writes'[n] = Append(writes[n], x)
      /\ currentTerm'[n] = t /\ votedFor'[n] = v
  BY DEF saveTerm, ElectionInv, TypeOK
<1>4. Memory(n)' = h
  BY <1>3, SMTT(90) DEF Memory
<1> HIDE DEF x, h
<1>5. Chain(disk[n], Append(writes[n], x), executed[n], x.hs)
  BY <1>1, <1>2, ChainAppend, SMTT(90) DEF ElectionInv, NodeInv, h
<1>6. Waiting(n, Append(writes[n], x), msgs)
  BY <1>1, <1>2, WaitingAppend DEF ElectionInv, NodeInv, h
<1>7. Waiting(n, Append(writes[n], x), msgs')
  BY <1>6, WaitingMore, SMTT(90)
<1>8. QED BY <1>1, <1>3, <1>4, <1>5, <1>7, ZenonT(60)

(* replyWhenDurable of an answer that memory backs. *)
LEMMA ReplyKeepsQueue ==
  ASSUME ElectionInv, NEW n \in Node, NEW m \in Message, replyWhenDurable(n, m),
         UNCHANGED <<currentTerm, votedFor, disk, executed>>,
         WaitsOn(n, m, Memory(n), msgs)
  PROVE  /\ Chain(disk[n], writes[n], executed[n], Memory(n))'
         /\ Waiting(n, writes[n], msgs)'
         /\ msgs \subseteq msgs'
         /\ \A k \in msgs' \ msgs : k = m /\ Backed(m, disk[n])
         /\ \A k \in Node \ {n} : writes'[k] = writes[k]
<1>1. /\ writes[n] \in Seq(Write) /\ executed[n] \in Nat /\ executed[n] <= Len(writes[n])
      /\ disk[n] \in HardState /\ Memory(n) \in HardState
  BY NodeTypes, SMTT(90) DEF ElectionInv
<1>2. Chain(disk[n], writes[n], executed[n], Memory(n)) /\ Waiting(n, writes[n], msgs)
  BY DEF ElectionInv, NodeInv
<1>3. Memory(n)' = Memory(n)
  BY SMTT(90) DEF Memory
<1>4. CASE writes[n] = <<>>
  <2>1. UNCHANGED writes /\ msgs' = msgs \cup {m}
    BY <1>4, SMTT(90) DEF replyWhenDurable
  <2>2. disk[n] = Memory(n)
    BY <1>1, <1>2, <1>4, SMTT(90) DEF Chain
  <2>3. Waiting(n, writes[n], msgs')
    BY <1>2, <2>1, WaitingMore
  <2>4. Backed(m, disk[n])
    BY <2>2, SMTT(90) DEF WaitsOn
  <2>5. QED BY <1>2, <1>3, <2>1, <2>3, <2>4
<1>5. CASE writes[n] # <<>>
  <2>1. writes' = [writes EXCEPT ![n] = Attach(writes[n], m)] /\ UNCHANGED msgs
    BY <1>5 DEF replyWhenDurable
  <2>2. writes'[n] = Attach(writes[n], m) /\ \A k \in Node \ {n} : writes'[k] = writes[k]
    BY <2>1, SMTT(90) DEF ElectionInv, TypeOK
  <2>3. writes[n][Len(writes[n])].hs = Memory(n)
    BY <1>2, <1>5, SMTT(90) DEF Chain
  <2>4. Chain(disk[n], Attach(writes[n], m), executed[n], Memory(n))
    BY <1>1, <1>2, <1>5, ChainAttach, SMTT(90)
  <2>5. Waiting(n, Attach(writes[n], m), msgs)
    BY <1>1, <1>2, <1>5, <2>3, WaitingAttach
  <2>6. QED BY <1>3, <2>1, <2>2, <2>4, <2>5
<1>6. QED BY <1>4, <1>5, SMTT(90)

(* A newer term may overwrite anything. *)
LEMMA NewerTermPrecedes ==
  ASSUME TypeOK, NEW n \in Node, NEW t \in Nat, t > currentTerm[n], NEW v
  PROVE  Precedes(Memory(n), [term |-> t, vote |-> v])
BY DEF Precedes, Memory, TypeOK

(* becomeFollower, in any handler that changes nothing else. *)
LEMMA FollowerStep ==
  ASSUME ElectionInv, TypeOK', NEW n \in Node, NEW t \in Nat, becomeFollower(n, t),
         UNCHANGED <<disk, executed, msgs>>
  PROVE  ElectionInv'
<1>1. TypeOK
  BY DEF ElectionInv
<1>2. state'[n] = "Follower"
  BY <1>1 DEF becomeFollower, applyFollowerTransition, TypeOK
<1>3. OnlyNode(n)
  BY <1>1 DEF becomeFollower, applyFollowerTransition, saveTerm, OnlyNode, TypeOK
<1>4. /\ Chain(disk[n], writes[n], executed[n], Memory(n))'
      /\ Waiting(n, writes[n], msgs)'
  <2>1. CASE t > currentTerm[n]
    <3>1. saveTerm(n, t, None, {}) /\ {} \in SUBSET Message
      BY <1>1, <2>1, SMTT(90) DEF becomeFollower, TypeOK
    <3>2. Precedes(Memory(n), [term |-> t, vote |-> None])
      BY <1>1, <2>1, NewerTermPrecedes
    <3>3. \A m \in {} : WaitsOn(n, m, [term |-> t, vote |-> None], msgs)
      BY SMTT(90)
    <3>4. QED BY <3>1, <3>2, <3>3, SaveKeepsQueue
  <2>2. CASE ~(t > currentTerm[n])
    <3>1. UNCHANGED <<currentTerm, votedFor, writes>>
      BY <1>1, <2>2, SMTT(90) DEF becomeFollower, TypeOK
    <3>2. QED BY <3>1 DEF ElectionInv, NodeInv, Memory
  <2>3. QED BY <2>1, <2>2, SMTT(90)
<1>5. NodeInv(n)'
  BY <1>2, <1>4 DEF NodeInv
<1>6. Precedes(disk[n], disk'[n])
  BY <1>1, NodeTypes, PrecedesReflexive
<1>7. QED BY <1>3, <1>5, <1>6, Frame

(* A node has led no term beyond its own. *)
LEMMA NoLeadAhead ==
  ASSUME ElectionInv, NEW n \in Node, NEW t \in Nat, t > currentTerm[n]
  PROVE  Lead(t, n) \notin msgs
<1>1. SUFFICES ASSUME Lead(t, n) \in msgs PROVE FALSE
  OBVIOUS
<1>2. Lead(t, n).type = "Lead" /\ Lead(t, n).term = t /\ Lead(t, n).from = n
  BY DEF Lead
<1>3. Backed(Lead(t, n), disk[n])
  BY <1>1, <1>2 DEF ElectionInv, MsgInv
<1>4. /\ writes[n] \in Seq(Write) /\ executed[n] \in Nat /\ executed[n] <= Len(writes[n])
      /\ disk[n] \in HardState /\ Memory(n) \in HardState /\ currentTerm[n] \in Nat
  BY NodeTypes, SMTT(90) DEF ElectionInv
<1>5. t <= disk[n].term
  BY <1>2, <1>3, <1>4, SMTT(90) DEF Backed, Precedes, HardState
<1>6. Precedes(disk[n], Memory(n))
  BY <1>4, DiskPrecedesMemory DEF ElectionInv, NodeInv
<1>7. disk[n].term <= currentTerm[n]
  BY <1>4, <1>6, SMTT(90) DEF Precedes, Memory, HardState
<1>8. QED BY <1>4, <1>5, <1>7 DEF HardState

(* A campaign waits on the self-vote it rests on. *)
LEMMA CampaignWaits ==
  ASSUME NEW n \in Node, NEW t \in Nat, NEW ms
  PROVE  WaitsOn(n, RequestVote(FALSE, t, n), [term |-> t, vote |-> n], ms)
BY DEF WaitsOn, RequestVote, Backed, GrantOK, Granted, Precedes

(* becomeCandidate, in any handler that changes nothing else. *)
LEMMA CandidateStep ==
  ASSUME ElectionInv, TypeOK', NEW n \in Node, becomeCandidate(n),
         UNCHANGED <<disk, executed, msgs>>
  PROVE  ElectionInv'
<1> DEFINE t == currentTerm[n] + 1
           then == {RequestVote(FALSE, t, n)}
<1>1. TypeOK /\ t \in Nat /\ t > currentTerm[n]
  BY SMTT(90) DEF ElectionInv, TypeOK
<1>2. saveTerm(n, t, n, then) /\ state'[n] = "Candidate" /\ votes'[n] = {}
  BY <1>1, SMTT(90) DEF becomeCandidate, TypeOK
<1>3. OnlyNode(n)
  BY <1>1 DEF becomeCandidate, saveTerm, OnlyNode, TypeOK
<1>4. then \in SUBSET Message
  BY <1>1, MessageTypes, ZenonT(60)
<1>5. \A m \in then : WaitsOn(n, m, [term |-> t, vote |-> n], msgs)
  BY <1>1, CampaignWaits, ZenonT(60)
<1>6. Precedes(Memory(n), [term |-> t, vote |-> n])
  BY <1>1, NewerTermPrecedes
<1>7. Lead(t, n) \notin msgs
  BY <1>1, NoLeadAhead
<1> HIDE DEF t, then
<1>8. /\ Chain(disk[n], writes[n], executed[n], Memory(n))'
      /\ Waiting(n, writes[n], msgs)'
      /\ currentTerm'[n] = t
  BY <1>1, <1>2, <1>4, <1>5, <1>6, SaveKeepsQueue, ZenonT(60)
<1>9. NodeInv(n)'
  BY <1>2, <1>7, <1>8 DEF NodeInv
<1>10. Precedes(disk[n], disk'[n])
  BY <1>1, NodeTypes, PrecedesReflexive, SMTT(90)
<1>11. QED BY <1>3, <1>9, <1>10, Frame

(* A step that only changes the timers, the pre-candidacy or the pre-vote  *)
(* traffic of n.                                                           *)
LEMMA QuietStep ==
  ASSUME ElectionInv, TypeOK', NEW n \in Node, OnlyNode(n),
         UNCHANGED <<currentTerm, votedFor, disk, writes, executed>>,
         (state'[n] = state[n] /\ votes'[n] = votes[n]) \/ state'[n] \in {"Follower", "PreCandidate"},
         msgs \subseteq msgs',
         \A m \in msgs' \ msgs : m.from = n /\ MsgInv(m)' /\ m.type # "Lead"
  PROVE  ElectionInv'
<1>1. NodeInv(n)
  BY SMTT(90) DEF ElectionInv
<1>2. Waiting(n, writes[n], msgs)'
  BY <1>1, WaitingMore DEF NodeInv
<1>3. Lead(currentTerm[n], n) \in msgs' <=> Lead(currentTerm[n], n) \in msgs
  BY DEF Lead
<1>4. NodeInv(n)'
  BY <1>1, <1>2, <1>3, MoreMessages, ZenonT(60) DEF NodeInv, Memory
<1>5. Precedes(disk[n], disk'[n])
  BY NodeTypes, PrecedesReflexive, ZenonT(60) DEF ElectionInv
<1>6. QED BY <1>4, <1>5, Frame, SMTT(90)

(* The storage writer. *)
LEMMA WriterStep ==
  ASSUME ElectionInv, TypeOK', NEW n \in Node, WriterExecutes(n)
  PROVE  ElectionInv'
<1>1. /\ writes[n] \in Seq(Write) /\ executed[n] \in Nat /\ executed[n] < Len(writes[n])
      /\ disk[n] \in HardState /\ Memory(n) \in HardState
  BY NodeTypes DEF ElectionInv, WriterExecutes
<1>2. NodeInv(n)
  BY SMTT(90) DEF ElectionInv
<1>3. /\ disk'[n] = writes[n][executed[n] + 1].hs /\ executed'[n] = executed[n] + 1
      /\ UNCHANGED <<state, currentTerm, votedFor, votes, writes, msgs>>
      /\ OnlyNode(n)
  BY DEF WriterExecutes, nodeVars, OnlyNode, ElectionInv, TypeOK
<1>4. /\ Chain(disk'[n], writes[n], executed'[n], Memory(n))
      /\ Precedes(disk[n], disk'[n])
  BY <1>1, <1>2, <1>3, ChainExecute, ZenonT(60) DEF NodeInv
<1>5. NodeInv(n)'
  BY <1>2, <1>3, <1>4, ZenonT(60) DEF NodeInv, Memory, GrantedTo
<1>6. QED BY <1>3, <1>4, <1>5, Frame, ZenonT(60)

(* A crash. *)
LEMMA CrashStep ==
  ASSUME ElectionInv, TypeOK', NEW n \in Node, Crash(n)
  PROVE  ElectionInv'
<1>1. /\ state'[n] = "Follower" /\ writes'[n] = <<>> /\ executed'[n] = 0
      /\ currentTerm'[n] = disk[n].term /\ votedFor'[n] = disk[n].vote
      /\ UNCHANGED <<disk, msgs>> /\ OnlyNode(n)
  BY DEF Crash, OnlyNode, ElectionInv, TypeOK
<1>2. disk[n] \in HardState
  BY DEF ElectionInv, TypeOK
<1>3. Memory(n)' = disk[n]
  BY <1>1, <1>2 DEF Memory, HardState
<1>4. Chain(disk[n], <<>>, 0, disk[n])
  BY DEF Chain
<1>5. Waiting(n, <<>>, msgs)
  BY SMTT(90) DEF Waiting
<1>6. NodeInv(n)'
  BY <1>1, <1>3, <1>4, <1>5, SMTT(90) DEF NodeInv
<1>7. QED BY <1>1, <1>2, <1>6, PrecedesReflexive, Frame, ZenonT(60)

(* The first message of a leader elected by a quorum, over a durable self-vote. *)
LEMMA LeadIsBacked ==
  ASSUME NEW n \in Node, UNCHANGED <<currentTerm, disk>>,
         Precedes([term |-> currentTerm[n], vote |-> n], disk[n]),
         Elected(currentTerm[n], n)'
  PROVE  Lead(currentTerm[n], n).from = n /\ MsgInv(Lead(currentTerm[n], n))'
<1> DEFINE l == Lead(currentTerm[n], n)
<1>1. l.type = "Lead" /\ l.term = currentTerm[n] /\ l.from = n
  BY DEF Lead
<1>2. MsgInv(l)'
  BY <1>1, ZenonT(60) DEF MsgInv, Backed, GrantOK, Granted
<1>3. QED BY <1>1, <1>2, SMTT(90)

(* A write is reported complete. *)
LEMMA CompletionStep ==
  ASSUME ElectionInv, TypeOK', NEW n \in Node, handleWriteCompletions(n)
  PROVE  ElectionInv'
<1> DEFINE w == writes[n]
           replies == {m \in Head(w).then : m.type # "RequestVote"}
           campaigns == {m \in Head(w).then : /\ m.type = "RequestVote"
                                              /\ state[n] = "Candidate"
                                              /\ m.term = currentTerm[n]}
<1>1. /\ w \in Seq(Write) /\ w # <<>> /\ executed[n] \in Nat \ {0} /\ executed[n] <= Len(w)
      /\ disk[n] \in HardState /\ Memory(n) \in HardState /\ Head(w) = w[1] /\ 1 \in 1..Len(w)
  <2>1. executed[n] > 0
    BY SMTT(90) DEF handleWriteCompletions
  <2>2. QED BY <2>1, NodeTypes, SMTT(90) DEF ElectionInv
<1>2. NodeInv(n)
  BY DEF ElectionInv
<1>3. Chain(disk[n], Tail(w), executed[n] - 1, Memory(n)) /\ Precedes(w[1].hs, disk[n])
  BY <1>1, <1>2, ChainTail, ZenonT(60) DEF NodeInv
<1>4. Waiting(n, Tail(w), msgs) /\ \A m \in w[1].then : WaitsOn(n, m, w[1].hs, msgs)
  BY <1>1, <1>2, WaitingTail, ZenonT(60) DEF NodeInv
<1>5. /\ writes'[n] = Tail(w) /\ executed'[n] = executed[n] - 1
      /\ UNCHANGED <<currentTerm, votedFor, votes, disk>> /\ OnlyNode(n)
      /\ Memory(n)' = Memory(n)
  BY ZenonT(60) DEF handleWriteCompletions, OnlyNode, Memory, ElectionInv, TypeOK
<1>6. \A m \in w[1].then : m \in Message /\ Backed(m, disk[n]) /\ m.from = n /\ GrantOK(m, msgs)
  <2>1. w[1].then \in SUBSET Message /\ w[1].hs \in HardState
    BY <1>1, WriteParts, SMTT(90)
  <2>2. QED BY <1>1, <1>3, <1>4, <2>1, BackedMonotone, ZenonT(60) DEF WaitsOn
<1>7. /\ msgs \subseteq msgs'
      /\ \A m \in msgs' \ msgs : m \in w[1].then \/ m = Lead(currentTerm[n], n)
  BY <1>1, SMTT(90) DEF handleWriteCompletions
<1>8. \A m \in w[1].then : MsgInv(m)'
  <2>1. \A m \in w[1].then : m.type # "Lead"
    BY <1>4, SMTT(90) DEF WaitsOn
  <2>2. QED BY <1>5, <1>6, <1>7, <2>1, MoreMessages, SMTT(90) DEF MsgInv
<1>9. Waiting(n, writes[n], msgs)'
  BY <1>4, <1>5, <1>7, WaitingMore
<1>10. Chain(disk[n], writes[n], executed[n], Memory(n))'
  BY <1>3, <1>5, SMTT(90)
<1>11. CASE campaigns # {} /\ isSingleVoter(n)
  <2>1. PICK m \in w[1].then : m.type = "RequestVote" /\ state[n] = "Candidate" /\ m.term = currentTerm[n]
    BY <1>1, <1>11
  <2>2. ~m.pre /\ m.from = n
    BY <1>4, <2>1, SMTT(90) DEF WaitsOn
  <2>3. Precedes([term |-> currentTerm[n], vote |-> n], disk[n])
    BY <1>6, <2>1, <2>2, ZenonT(60) DEF Backed
  <2>4. state'[n] = "Leader" /\ Lead(currentTerm[n], n) \in msgs'
    <3>1. /\ state' = [state EXCEPT ![n] = "Leader"]
          /\ msgs' = msgs \cup replies \cup {Lead(currentTerm[n], n)}
      BY <1>11, ZenonT(60) DEF handleWriteCompletions
    <3>2. n \in DOMAIN state
      BY ZenonT(60) DEF ElectionInv, TypeOK
    <3>3. QED BY <3>1, <3>2, ZenonT(60)
  <2>5. Elected(currentTerm[n], n)'
    <3>1. Voter = {n} /\ Cardinality(Voter) = 1
      BY <1>11, FS_Singleton, ZenonT(60) DEF isSingleVoter
    <3>2. electionQuorumFor(CommitPolicy, 1) <= 1
      BY ElectionConstants DEF electionQuorumFor, commitQuorumFor, LargerOf, SmallerOf
    <3>3. Cardinality(Voter) >= electionQuorumFor(CommitPolicy, Cardinality(Voter))
      <4>1. CommitPolicy \in Nat /\ 1 \in Nat \ {0}
        BY ElectionConstants
      <4>2. electionQuorumFor(CommitPolicy, 1) \in Nat
        BY <4>1, ElectionQuorumIsMajority, ZenonT(60)
      <4>3. QED BY <3>1, <3>2, <4>2, SMTT(90)
    <3>4. Voter \in SUBSET Voter /\ \A v \in Voter : v = n
      BY <3>1, SMTT(90)
    <3>5. QED BY <3>3, <3>4, SMTT(90) DEF Elected
  <2>6. Lead(currentTerm[n], n).from = n /\ MsgInv(Lead(currentTerm[n], n))'
    BY <1>5, <2>3, <2>5, LeadIsBacked
  <2>7. \A k \in msgs' \ msgs : k.from = n /\ MsgInv(k)'
    BY <1>5, <1>6, <1>7, <1>8, <2>6, ZenonT(60)
  <2>8. NodeInv(n)'
    BY <1>5, <1>9, <1>10, <2>4, ZenonT(60) DEF NodeInv
  <2>9. Precedes(disk[n], disk'[n])
    BY <1>1, <1>5, PrecedesReflexive, SMTT(90)
  <2>10. QED BY <1>5, <1>7, <2>7, <2>8, <2>9, Frame, SMTT(90)
<1>12. CASE ~(campaigns # {} /\ isSingleVoter(n))
  <2>1. UNCHANGED state /\ msgs' = msgs \cup replies \cup campaigns
    BY <1>12 DEF handleWriteCompletions
  <2>2. \A m \in msgs' \ msgs : m \in w[1].then
    BY <1>1, <2>1, SMTT(90)
  <2>3. \A m \in msgs' \ msgs : m.from = n /\ MsgInv(m)' /\ m.type # "Lead"
    BY <1>4, <1>6, <1>8, <2>2 DEF WaitsOn
  <2>4. Lead(currentTerm[n], n) \in msgs' <=> Lead(currentTerm[n], n) \in msgs
    BY <1>7, <2>3 DEF Lead
  <2>5. NodeInv(n)'
    BY <1>2, <1>5, <1>7, <1>9, <1>10, <2>1, <2>4, MoreMessages, ZenonT(60) DEF NodeInv
  <2>6. Precedes(disk[n], disk'[n])
    BY <1>1, <1>5, PrecedesReflexive, ZenonT(60)
  <2>7. QED BY <1>5, <1>7, <2>3, <2>5, <2>6, Frame, SMTT(90)
<1>13. QED BY <1>11, <1>12, SMTT(90)

(* A request for votes, answered. *)
LEMMA RequestVoteStep ==
  ASSUME ElectionInv, TypeOK', NEW n \in Node, NEW m \in msgs, NEW logOK \in BOOLEAN,
         handleRequestVote(n, m, logOK)
  PROVE  ElectionInv'
<1>1. TypeOK /\ m \in RequestVoteMsg /\ m.term \in Nat /\ m.from \in Node /\ m.pre \in BOOLEAN
  BY MessageKinds, SMTT(90) DEF handleRequestVote, ElectionInv, TypeOK, RequestVoteMsg
<1>2. UNCHANGED <<disk, executed, upsets>>
  BY DEF handleRequestVote
<1>3. ~m.pre => RequestVote(FALSE, m.term, m.from) \in msgs
  <2>1. ~m.pre => m = RequestVote(FALSE, m.term, m.from)
    BY <1>1 DEF RequestVoteMsg, RequestVote
  <2>2. QED BY <2>1, ZenonT(60)
<1>4. /\ currentTerm[n] \in Nat /\ Memory(n) \in HardState /\ Precedes(disk[n], disk'[n])
  BY <1>1, <1>2, NodeTypes, PrecedesReflexive
<1>5. CASE handlePreVote(n, m, logOK)
  <2>0. PICK g \in BOOLEAN : msgs' = msgs \cup {VoteReply(TRUE, m.term, currentTerm[n], g, n, m.from)}
    BY <1>5, ZenonT(60) DEF handlePreVote
  <2>1. PICK r : msgs' = msgs \cup {r} /\ r.type = "VoteReply" /\ r.pre /\ r.from = n
    <3>1. /\ VoteReply(TRUE, m.term, currentTerm[n], g, n, m.from).type = "VoteReply"
          /\ VoteReply(TRUE, m.term, currentTerm[n], g, n, m.from).pre
          /\ VoteReply(TRUE, m.term, currentTerm[n], g, n, m.from).from = n
      BY SMTT(90) DEF VoteReply
    <3>2. QED BY <2>0, <3>1, ZenonT(60)
  <2>2. r.from = n /\ MsgInv(r)' /\ r.type # "Lead"
    BY <2>1 DEF MsgInv, Backed, GrantOK, Granted
  <2>4. /\ UNCHANGED <<state, votes, currentTerm, votedFor, disk, writes, executed>>
        /\ OnlyNode(n)
    BY <1>2, <1>5, ZenonT(60) DEF handlePreVote, nodeVars, OnlyNode
  <2>5. msgs \subseteq msgs' /\ \A k \in msgs' \ msgs : k = r
    BY <2>1
  <2>6. \A k \in msgs' \ msgs : k.from = n /\ MsgInv(k)' /\ k.type # "Lead"
    BY <2>2, <2>5, SMTT(90)
  <2>7. QED BY <2>4, <2>5, <2>6, QuietStep
<1>6. CASE voteInNewTerm(n, m, logOK)
  <2> DEFINE grant == n \in Voter /\ logOK
             r == VoteReply(FALSE, m.term, m.term, grant, n, m.from)
             then == {k \in {r} : grant}
             v == IF grant THEN m.from ELSE None
             h == [term |-> m.term, vote |-> v]
  <2>1. saveTerm(n, m.term, v, then) /\ applyFollowerTransition(n) /\ UNCHANGED msgs
        /\ ~m.pre /\ m.term > currentTerm[n] /\ v \in Node \cup {None}
    BY <1>1, <1>6 DEF voteInNewTerm
  <2>2. then \in SUBSET Message
    <3>1. r \in Message
      BY <1>1, MessageTypes, Zenon
    <3>2. QED BY <3>1, ZenonT(60)
  <2>3. \A k \in then : WaitsOn(n, k, h, msgs)
    <3>1. SUFFICES ASSUME grant PROVE WaitsOn(n, r, h, msgs)
      BY ZenonT(60)
    <3>2. /\ r.type = "VoteReply" /\ ~r.pre /\ r.from = n /\ r.to = m.from /\ r.term = m.term
          /\ h.term = m.term /\ h.vote = m.from /\ m.term <= m.term
      BY <1>1, <3>1, SMTT(90) DEF VoteReply
    <3> HIDE DEF r, h
    <3>3. Backed(r, h)
      BY <3>2 DEF Backed, Precedes
    <3>4. GrantOK(r, msgs)
      BY <1>3, <2>1, <3>1, <3>2, ZenonT(60) DEF GrantOK
    <3>5. QED BY <3>2, <3>3, <3>4 DEF WaitsOn
  <2>4. Precedes(Memory(n), h)
    BY <1>1, <2>1, NewerTermPrecedes, ZenonT(60)
  <2>5. state'[n] = "Follower" /\ OnlyNode(n)
    BY <1>1, <1>2, <2>1, ZenonT(60) DEF applyFollowerTransition, saveTerm, OnlyNode, TypeOK
  <2> HIDE DEF then, v
  <2>6. /\ Chain(disk[n], writes[n], executed[n], Memory(n))'
        /\ Waiting(n, writes[n], msgs)'
    BY <1>1, <1>2, <2>1, <2>2, <2>3, <2>4, SaveKeepsQueue, ZenonT(60)
  <2>7. NodeInv(n)'
    BY <2>5, <2>6, ZenonT(60) DEF NodeInv
  <2>8. QED BY <1>4, <2>1, <2>5, <2>7, Frame, ZenonT(60)
<1>7. CASE voteInCurrentTerm(n, m, logOK)
  <2> DEFINE grant == /\ n \in Voter /\ m.term = currentTerm[n]
                      /\ votedFor[n] \in {None, m.from} /\ logOK
             r == VoteReply(FALSE, m.term, currentTerm[n], grant, n, m.from)
             h == [term |-> m.term, vote |-> m.from]
  <2>1. /\ r.type = "VoteReply" /\ ~r.pre /\ r.from = n /\ r.to = m.from
        /\ r.term = currentTerm[n] /\ r.granted = grant
    BY ZenonT(60) DEF VoteReply
  <2>2. r \in Message
    BY <1>1, <1>4, MessageTypes, Zenon
  <2>3. ~m.pre
    BY <1>7, SMTT(90) DEF voteInCurrentTerm
  <2>4. CASE grant
    <3>1. saveTerm(n, m.term, m.from, {r}) /\ UNCHANGED <<state, votes, msgs>>
      BY <1>7, <2>4, ZenonT(60) DEF voteInCurrentTerm
    <3>2. OnlyNode(n)
      BY <1>1, <1>2, <3>1, SMTT(90) DEF saveTerm, OnlyNode, TypeOK
    <3>3. Precedes(Memory(n), h)
      BY <2>4, SMTT(90) DEF Precedes, Memory
    <3> HIDE DEF r
    <3>4. WaitsOn(n, r, h, msgs)
      <4>1. r.term = m.term /\ h.term = m.term /\ h.vote = m.from /\ m.term <= m.term
        BY <1>1, <2>1, <2>4, SMTT(90)
      <4> HIDE DEF h
      <4>2. Backed(r, h)
        BY <2>1, <4>1 DEF Backed, Precedes
      <4>3. GrantOK(r, msgs)
        BY <1>3, <2>1, <2>3, <2>4, <4>1, ZenonT(60) DEF GrantOK
      <4>4. QED BY <2>1, <4>2, <4>3 DEF WaitsOn
    <3>5. {r} \in SUBSET Message /\ \A k \in {r} : WaitsOn(n, k, h, msgs)
      BY <2>2, <3>4
    <3>6. /\ Chain(disk[n], writes[n], executed[n], Memory(n))'
          /\ Waiting(n, writes[n], msgs)'
          /\ currentTerm'[n] = m.term
      <4>1. m.from \in Node \cup {None} /\ UNCHANGED <<disk, executed>> /\ msgs \subseteq msgs'
        BY <1>1, <1>2, <3>1
      <4>2. TypeOK' /\ saveTerm(n, m.term, m.from, {r}) /\ m.term \in Nat
        BY <1>1, <3>1
      <4>3. QED BY <3>3, <3>5, <4>1, <4>2, SaveKeepsQueue, ZenonT(60)
    <3>7. NodeInv(n)'
      BY <2>4, <3>1, <3>6, MoreMessages, ZenonT(60) DEF NodeInv, ElectionInv
    <3>8. QED BY <1>4, <3>1, <3>2, <3>7, Frame, SMTT(90)
  <2>5. CASE ~grant
    <3>1. replyWhenDurable(n, r) /\ UNCHANGED nodeVars
      BY <1>7, <2>5, ZenonT(60) DEF voteInCurrentTerm
    <3> HIDE DEF r
    <3>2. WaitsOn(n, r, Memory(n), msgs)
      <4>1. Memory(n).term = currentTerm[n] /\ currentTerm[n] <= currentTerm[n]
        BY <1>4, SMTT(90) DEF Memory
      <4>2. Backed(r, Memory(n)) /\ GrantOK(r, msgs)
        BY <2>1, <2>5, <4>1, ZenonT(60) DEF Backed, GrantOK, Granted
      <4>3. QED BY <2>1, <4>2, SMTT(90) DEF WaitsOn
    <3>3. /\ Chain(disk[n], writes[n], executed[n], Memory(n))'
          /\ Waiting(n, writes[n], msgs)'
          /\ msgs \subseteq msgs'
          /\ \A k \in msgs' \ msgs : k = r /\ Backed(r, disk[n])
          /\ \A k \in Node \ {n} : writes'[k] = writes[k]
      BY <1>2, <2>2, <3>1, <3>2, ReplyKeepsQueue, ZenonT(60) DEF nodeVars
    <3>4. \A k \in msgs' \ msgs : k.from = n /\ MsgInv(k)' /\ k.type # "Lead"
      <4>1. \A k \in msgs' \ msgs : k.from = n /\ k.type = "VoteReply"
        BY <2>1, <3>3, ZenonT(60)
      <4>2. \A k \in msgs' \ msgs : Backed(k, disk'[n]) /\ GrantOK(k, msgs')
        BY <1>2, <3>2, <3>3, MoreMessages, ZenonT(60) DEF WaitsOn
      <4>3. QED BY <4>1, <4>2, SMTT(90) DEF MsgInv
    <3>5. OnlyNode(n)
      BY <1>2, <3>1, <3>3, ZenonT(60) DEF OnlyNode, nodeVars
    <3>6. Lead(currentTerm[n], n) \in msgs' <=> Lead(currentTerm[n], n) \in msgs
      <4>1. Lead(currentTerm[n], n).type = "Lead"
        BY DEF Lead
      <4>2. QED BY <3>3, <3>4, <4>1, ZenonT(60)
    <3>7. NodeInv(n)'
      BY <3>1, <3>3, <3>6, MoreMessages, ZenonT(60) DEF NodeInv, ElectionInv, nodeVars
    <3>8. QED BY <1>4, <3>3, <3>4, <3>5, <3>7, Frame, ZenonT(60)
  <2>6. QED BY <2>4, <2>5
<1>8. QED BY <1>5, <1>6, <1>7 DEF handleRequestVote

(* Votes counted. *)
LEMMA VoteResultStep ==
  ASSUME ElectionInv, TypeOK', NEW n \in Node, NEW m \in msgs, handleVoteResult(n, m)
  PROVE  ElectionInv'
<1>1. /\ TypeOK /\ m \in VoteReplyMsg /\ m.term \in Nat /\ m.from \in Node /\ m.to = n
      /\ m.type = "VoteReply" /\ UNCHANGED <<disk, executed, upsets>>
  BY MessageKinds, ZenonT(60) DEF handleVoteResult, ElectionInv, TypeOK, VoteReplyMsg
<1>2. CASE becomeFollower(n, m.term) /\ UNCHANGED msgs
  BY <1>1, <1>2, FollowerStep, SMTT(90)
<1>3. CASE becomeCandidate(n) /\ UNCHANGED msgs
  BY <1>1, <1>3, CandidateStep
<1>4. CASE /\ state[n] = "PreCandidate" /\ votes' = [votes EXCEPT ![n] = @ \cup {m.from}]
           /\ UNCHANGED <<state, currentTerm, votedFor, expired, writes, msgs>>
  <2>1. OnlyNode(n) /\ state'[n] \in {"Follower", "PreCandidate"}
    BY <1>1, <1>4 DEF OnlyNode, TypeOK
  <2>2. QED BY <1>1, <1>4, <2>1, QuietStep, ZenonT(60)
<1>5. CASE /\ ~m.pre /\ state[n] = "Candidate" /\ m.term = currentTerm[n] /\ m.granted
           /\ votes' = [votes EXCEPT ![n] = @ \cup {m.from}]
           /\ \/ electionWon(n, votes[n] \cup {m.from}) /\ becomeLeader(n)
              \/ ~electionWon(n, votes[n] \cup {m.from}) /\ UNCHANGED <<state, msgs>>
           /\ UNCHANGED <<currentTerm, votedFor, expired, writes>>
  <2>1. OnlyNode(n) /\ votes'[n] = votes[n] \cup {m.from} /\ msgs \subseteq msgs'
    BY <1>1, <1>5, SMTT(90) DEF OnlyNode, TypeOK, becomeLeader
  <2>2. GrantedTo(m.from, currentTerm[n], n) /\ MsgInv(m)
    BY <1>1, <1>5 DEF GrantedTo, Granted, ElectionInv
  <2>3. \A v \in votes'[n] : GrantedTo(v, currentTerm[n], n)'
    BY <1>5, <2>1, <2>2, MoreMessages, ZenonT(60) DEF ElectionInv, NodeInv
  <2>4. /\ Chain(disk[n], writes[n], executed[n], Memory(n))'
        /\ Waiting(n, writes[n], msgs)'
    <3>1. Chain(disk[n], writes[n], executed[n], Memory(n))'
      BY <1>1, <1>5, ZenonT(60) DEF ElectionInv, NodeInv, Memory
    <3>2. Waiting(n, writes[n], msgs)'
      BY <1>5, <2>1, WaitingMore, ZenonT(60) DEF ElectionInv, NodeInv
    <3>3. QED BY <3>1, <3>2, ZenonT(60)
  <2>5. Precedes(disk[n], disk'[n])
    BY <1>1, NodeTypes, PrecedesReflexive
  <2>6. CASE UNCHANGED <<state, msgs>>
    <3>1. NodeInv(n)'
      BY <1>5, <2>3, <2>4, <2>6, ZenonT(60) DEF NodeInv, ElectionInv
    <3>2. QED BY <2>1, <2>5, <2>6, <3>1, Frame
  <2>7. CASE electionWon(n, votes[n] \cup {m.from}) /\ becomeLeader(n)
    <3>1. state'[n] = "Leader" /\ msgs' = msgs \cup {Lead(currentTerm[n], n)}
      BY <1>1, <2>7, SMTT(90) DEF becomeLeader, TypeOK
    <3>2. RequestVote(FALSE, currentTerm[n], n) \in msgs
      BY <1>1, <1>5, <2>2, ZenonT(60) DEF MsgInv, GrantOK, Granted
    <3>3. Precedes([term |-> currentTerm[n], vote |-> n], disk[n])
      <4> DEFINE q == RequestVote(FALSE, currentTerm[n], n)
      <4>1. q.type = "RequestVote" /\ ~q.pre /\ q.term = currentTerm[n] /\ q.from = n
        BY SMTT(90) DEF RequestVote
      <4>2. Backed(q, disk[n])
        BY <3>2, <4>1, ZenonT(60) DEF ElectionInv, MsgInv
      <4> HIDE DEF q
      <4>3. QED BY <4>1, <4>2 DEF Backed
    <3>4. Elected(currentTerm[n], n)'
      <4> DEFINE Q == (votes'[n] \cup {n}) \cap Voter
      <4>1. Cardinality(Q) >= electionQuorumFor(CommitPolicy, Cardinality(Voter))
        BY <2>1, <2>7, SMTT(90) DEF electionWon
      <4>2. \A v \in Q : v = n \/ GrantedTo(v, currentTerm[n], n)'
        BY <2>3, SMTT(90)
      <4>3. Q \in SUBSET Voter
        OBVIOUS
      <4> HIDE DEF Q
      <4>4. QED BY <1>5, <4>1, <4>2, <4>3 DEF Elected
    <3>5. Lead(currentTerm[n], n).from = n /\ MsgInv(Lead(currentTerm[n], n))'
      BY <1>1, <1>5, <3>3, <3>4, LeadIsBacked, ZenonT(60)
    <3>6. \A k \in msgs' \ msgs : k.from = n /\ MsgInv(k)'
      BY <1>5, <3>1, <3>5
    <3>7. NodeInv(n)'
      BY <1>5, <2>4, <3>1, ZenonT(60) DEF NodeInv
    <3>8. QED BY <2>1, <2>5, <3>6, <3>7, Frame, SMTT(90)
  <2>8. QED BY <1>5, <2>6, <2>7, SMTT(90)
<1>6. QED BY <1>2, <1>3, <1>4, <1>5, ZenonT(60)
         DEF handleVoteResult, handlePreVoteResult, handleRealVoteResult

(* A leader's request, answered or refused. *)
LEMMA LeadStep ==
  ASSUME ElectionInv, TypeOK', NEW n \in Node, NEW m \in msgs, handleLead(n, m)
  PROVE  ElectionInv'
<1>1. TypeOK /\ m.term \in Nat /\ m.from \in Node /\ UNCHANGED <<disk, executed, upsets>>
  BY MessageKinds DEF handleLead, ElectionInv, TypeOK
<1>2. CASE becomeFollower(n, m.term) /\ UNCHANGED msgs
  BY <1>1, <1>2, FollowerStep
<1>3. CASE replyWhenDurable(n, Refusal(currentTerm[n], n, m.from)) /\ UNCHANGED nodeVars
  <2>1. PICK r : r = Refusal(currentTerm[n], n, m.from)
    OBVIOUS
  <2>2. r \in Message /\ r.type = "Refusal" /\ r.from = n /\ r.term = currentTerm[n]
    <3>1. currentTerm[n] \in Nat
      BY <1>1, NodeTypes, SMTT(90)
    <3>2. r \in Message
      BY <1>1, <2>1, <3>1, MessageTypes, ZenonT(60)
    <3>3. QED BY <2>1, <3>2 DEF Refusal
  <2>3. WaitsOn(n, r, Memory(n), msgs)
    <3>1. Memory(n).term = currentTerm[n]
      BY DEF Memory
    <3>2. currentTerm[n] \in Nat
      BY <1>1, NodeTypes
    <3>3. r.term <= Memory(n).term
      BY <2>2, <3>1, <3>2, SMTT(90)
    <3>4. Backed(r, Memory(n)) /\ GrantOK(r, msgs)
      BY <2>2, <3>3 DEF Backed, GrantOK, Granted
    <3>5. QED BY <2>2, <3>4 DEF WaitsOn
  <2>4. /\ Chain(disk[n], writes[n], executed[n], Memory(n))'
        /\ Waiting(n, writes[n], msgs)'
        /\ msgs \subseteq msgs'
        /\ \A k \in msgs' \ msgs : k = r /\ Backed(r, disk[n])
        /\ \A k \in Node \ {n} : writes'[k] = writes[k]
    BY <1>1, <1>3, <2>1, <2>2, <2>3, ReplyKeepsQueue, ZenonT(60) DEF nodeVars
  <2>5. \A k \in msgs' \ msgs : k.from = n /\ MsgInv(k)' /\ k.type # "Lead"
    <3>1. \A k \in msgs' \ msgs : k.from = n /\ k.type = "Refusal" /\ Backed(k, disk'[n])
      BY <1>1, <2>2, <2>4, SMTT(90)
    <3>2. QED BY <3>1, ZenonT(60) DEF MsgInv, GrantOK, Granted
  <2>6. OnlyNode(n)
    BY <1>1, <1>3, <2>4, ZenonT(60) DEF OnlyNode, nodeVars
  <2>7. Lead(currentTerm[n], n) \in msgs' <=> Lead(currentTerm[n], n) \in msgs
    <3>1. Lead(currentTerm[n], n).type = "Lead"
      BY DEF Lead
    <3>2. QED BY <2>4, <2>5, <3>1, ZenonT(60)
  <2>8. NodeInv(n)'
    BY <1>3, <2>4, <2>7, MoreMessages, ZenonT(60) DEF NodeInv, ElectionInv, nodeVars
  <2>9. Precedes(disk[n], disk'[n])
    BY <1>1, NodeTypes, PrecedesReflexive
  <2>10. QED BY <2>4, <2>5, <2>6, <2>8, <2>9, Frame, ZenonT(60)
<1>4. QED BY <1>2, <1>3, SMTT(90) DEF handleLead

(* A transfer of leadership, sent and obeyed. *)
LEMMA SendTimeoutNowStep ==
  ASSUME ElectionInv, TypeOK', NEW n \in Node, NEW target \in Node, sendTimeoutNow(n, target)
  PROVE  ElectionInv'
<1>1. /\ state[n] = "Leader" /\ OnlyNode(n)
      /\ UNCHANGED <<state, votes, currentTerm, votedFor, disk, writes, executed>>
  BY DEF sendTimeoutNow, nodeVars, OnlyNode
<1>2. PICK r : r = TimeoutNow(currentTerm[n], n, target) /\ msgs' = msgs \cup {r}
  BY DEF sendTimeoutNow
<1>3. r.type = "TimeoutNow" /\ r.from = n /\ r.term = currentTerm[n]
  BY <1>2, SMTT(90) DEF TimeoutNow
<1>4. currentTerm[n] <= disk[n].term
  <2>1. PICK l \in msgs : l.type = "Lead" /\ l.term = currentTerm[n] /\ l.from = n
    BY <1>1, ZenonT(60) DEF ElectionInv, NodeInv, Lead
  <2>2. Backed(l, disk[n])
    BY <2>1, SMTT(90) DEF ElectionInv, MsgInv
  <2>3. disk[n] \in HardState /\ currentTerm[n] \in Nat
    BY NodeTypes, SMTT(90) DEF ElectionInv
  <2>4. QED BY <2>1, <2>2, <2>3, SMTT(90) DEF Backed, Precedes, HardState
<1>5. MsgInv(r)'
  BY <1>1, <1>3, <1>4 DEF MsgInv, Backed, GrantOK, Granted
<1>6. msgs \subseteq msgs' /\ \A k \in msgs' \ msgs : k.from = n /\ MsgInv(k)' /\ k.type # "Lead"
  BY <1>2, <1>3, <1>5
<1>7. QED BY <1>1, <1>6, QuietStep, ZenonT(60)

LEMMA TimeoutNowStep ==
  ASSUME ElectionInv, TypeOK', NEW n \in Node, NEW m \in msgs, handleTimeoutNow(n, m)
  PROVE  ElectionInv'
<1>1. TypeOK /\ m.term \in Nat /\ UNCHANGED <<disk, executed, msgs, upsets>>
  BY MessageKinds, ZenonT(60) DEF handleTimeoutNow, ElectionInv, TypeOK
<1>2. CASE becomeCandidate(n)
  BY <1>1, <1>2, CandidateStep
<1>3. CASE ~becomeCandidate(n)
  <2> DEFINE t == m.term + 1
             x == [hs |-> [term |-> m.term, vote |-> None], then |-> {}]
             y == [hs |-> [term |-> t, vote |-> n], then |-> {RequestVote(FALSE, t, n)}]
  <2>0. t \in Nat
    BY <1>1
  <2>1. /\ m.term > currentTerm[n]
        /\ writes' = [writes EXCEPT ![n] = Append(Append(writes[n], x), y)]
        /\ currentTerm' = [currentTerm EXCEPT ![n] = t]
        /\ votedFor' = [votedFor EXCEPT ![n] = n]
        /\ state' = [state EXCEPT ![n] = "Candidate"]
        /\ votes' = [votes EXCEPT ![n] = {}]
    BY <1>3, ZenonT(60) DEF handleTimeoutNow
  <2>1a. /\ t > m.term
         /\ x.hs = [term |-> m.term, vote |-> None] /\ x.then = {}
         /\ y.hs = [term |-> t, vote |-> n] /\ y.then = {RequestVote(FALSE, t, n)}
    BY <1>1
  <2>2. RequestVote(FALSE, t, n) \in Message
    BY <2>0, MessageTypes, ZenonT(60)
  <2>3. x \in Write /\ y \in Write /\ x.hs \in HardState /\ y.hs \in HardState
    BY <1>1, <2>0, <2>2, ZenonT(60) DEF Write, HardState
  <2> HIDE DEF x, y, t
  <2>4. /\ writes[n] \in Seq(Write) /\ executed[n] \in Nat /\ executed[n] <= Len(writes[n])
        /\ disk[n] \in HardState /\ Memory(n) \in HardState /\ currentTerm[n] \in Nat
    BY <1>1, NodeTypes, SMTT(90)
  <2>5. Precedes(Memory(n), x.hs) /\ Precedes(x.hs, y.hs)
    BY <1>1, <2>0, <2>1, <2>1a, <2>4 DEF Precedes, Memory
  <2>6. \A k \in x.then : WaitsOn(n, k, x.hs, msgs)
    BY <2>1a, ZenonT(60)
  <2>7. \A k \in y.then : WaitsOn(n, k, y.hs, msgs)
    BY <2>0, <2>1a, CampaignWaits, ZenonT(60)
  <2> DEFINE w1 == Append(writes[n], x)
  <2>8. w1 \in Seq(Write) /\ executed[n] <= Len(w1) /\ Len(w1) = Len(writes[n]) + 1
    BY <2>3, <2>4
  <2>9. Chain(disk[n], w1, executed[n], x.hs) /\ Waiting(n, w1, msgs)
    <3>1. Chain(disk[n], writes[n], executed[n], Memory(n)) /\ Waiting(n, writes[n], msgs)
      BY ZenonT(60) DEF ElectionInv, NodeInv
    <3>2. QED BY <2>3, <2>4, <2>5, <2>6, <3>1, ChainAppend, WaitingAppend, ZenonT(60)
  <2> HIDE DEF w1
  <2>10. Chain(disk[n], Append(w1, y), executed[n], y.hs) /\ Waiting(n, Append(w1, y), msgs)
    BY <2>3, <2>4, <2>5, <2>7, <2>8, <2>9, ChainAppend, WaitingAppend, ZenonT(60)
  <2>11. /\ writes'[n] = Append(w1, y) /\ Memory(n)' = y.hs
         /\ currentTerm'[n] = t /\ state'[n] = "Candidate" /\ votes'[n] = {} /\ OnlyNode(n)
    BY <1>1, <2>1, <2>1a, ZenonT(60) DEF w1, Memory, OnlyNode, TypeOK
  <2>12. Lead(t, n) \notin msgs
    <3>1. m.term \in Nat /\ currentTerm[n] \in Nat
      BY <1>1, <2>4, ZenonT(60)
    <3>2. m.term > currentTerm[n] /\ t > m.term
      BY <2>1, <2>1a, ZenonT(60)
    <3>3. t > currentTerm[n]
      BY <2>0, <3>1, <3>2, SMTT(90)
    <3>4. QED BY <2>0, <3>3, NoLeadAhead
  <2>13. NodeInv(n)'
    BY <1>1, <2>10, <2>11, <2>12, ZenonT(60) DEF NodeInv
  <2>14. QED BY <1>1, <2>4, <2>11, <2>13, PrecedesReflexive, Frame, ZenonT(60)
<1>4. QED BY <1>2, <1>3
=============================================================================
