-------------------------- MODULE ElectionTheorems --------------------------
(***************************************************************************)
(* The theorems of election: the inductive invariant of ElectionProofs,    *)
(* the agreement of everything a node says of its vote, and from the two   *)
(* one vote per node and one leader per term.                              *)
(***************************************************************************)
EXTENDS ElectionProofs

-----------------------------------------------------------------------------
(* ElectionInv is inductive. *)

(* The state a node starts in. *)
LEMMA InitInv ==
  ASSUME Init
  PROVE  ElectionInv
<1>1. TypeOK
  <2>1. writes \in [Node -> Seq(Write)] /\ \A n \in Node : Len(writes[n]) = 0
    BY DEF Init
  <2>2. QED BY <2>1 DEF Init, TypeOK, State, HardState
<1>2. ASSUME NEW n \in Node PROVE NodeInv(n)
  <2>1. /\ writes[n] = <<>> /\ Len(writes[n]) = 0 /\ disk[n] = Memory(n) /\ state[n] = "Follower"
    BY DEF Init, Memory
  <2>2. 1..Len(writes[n]) = {}
    BY <2>1
  <2>3. QED BY <2>1, <2>2 DEF NodeInv, Chain, Waiting
<1>3. QED BY <1>1, <1>2 DEF ElectionInv, Init

(* Every handler of a node preserves it. *)
LEMMA StepInv ==
  ASSUME ElectionInv, NEW n \in Node, Step(n)
  PROVE  ElectionInv'
<1>1. TypeOK /\ TypeOK'
  BY StepType DEF ElectionInv
<1>2. CASE WriterExecutes(n)
  BY <1>1, <1>2, WriterStep
<1>3. CASE handleWriteCompletions(n)
  BY <1>1, <1>3, CompletionStep
<1>4. CASE ElectionTimeout(n)
  <2>1. CASE becomeCandidate(n) /\ UNCHANGED msgs
    BY <1>1, <1>4, <2>1, CandidateStep DEF ElectionTimeout
  <2>2. CASE ~(becomeCandidate(n) /\ UNCHANGED msgs)
    <3>1. PICK r : r = RequestVote(TRUE, currentTerm[n] + 1, n) /\ msgs' = msgs \cup {r}
      BY <1>4, <2>2, ZenonT(60) DEF ElectionTimeout, becomePreCandidate
    <3>2. r.type = "RequestVote" /\ r.pre /\ r.from = n
      BY <3>1 DEF RequestVote
    <3>3. r.from = n /\ MsgInv(r)' /\ r.type # "Lead"
      BY <3>2 DEF MsgInv, Backed, GrantOK, Granted
    <3>4. /\ UNCHANGED <<currentTerm, votedFor, disk, writes, executed>>
          /\ OnlyNode(n) /\ state'[n] \in {"Follower", "PreCandidate"}
      BY <1>1, <1>4, <2>2, ZenonT(60) DEF ElectionTimeout, becomePreCandidate, OnlyNode, TypeOK
    <3>5. msgs \subseteq msgs' /\ \A k \in msgs' \ msgs : k.from = n /\ MsgInv(k)' /\ k.type # "Lead"
      BY <3>1, <3>3, ZenonT(60)
    <3>6. QED BY <1>1, <3>4, <3>5, QuietStep
  <2>3. QED BY <2>1, <2>2
<1>5. CASE WitnessTimeout(n)
  <2>1. OnlyNode(n) /\ UNCHANGED <<state, votes, currentTerm, votedFor, disk, writes, executed, msgs>>
    BY <1>5 DEF WitnessTimeout, OnlyNode
  <2>2. QED BY <1>1, <2>1, QuietStep
<1>6. CASE StepDown(n)
  <2>1. currentTerm[n] \in Nat
    BY <1>1, NodeTypes
  <2>2. QED BY <1>1, <1>6, <2>1, FollowerStep DEF StepDown
<1>7. CASE Crash(n)
  BY <1>1, <1>7, CrashStep
<1>8. ASSUME NEW target \in Node, sendTimeoutNow(n, target) PROVE ElectionInv'
  BY <1>1, <1>8, SendTimeoutNowStep
<1>9. ASSUME NEW m \in msgs, NEW logOK \in BOOLEAN, handleRequestVote(n, m, logOK) PROVE ElectionInv'
  BY <1>1, <1>9, RequestVoteStep
<1>10. ASSUME NEW m \in msgs, handleVoteResult(n, m) PROVE ElectionInv'
  BY <1>1, <1>10, VoteResultStep
<1>11. ASSUME NEW m \in msgs, handleLead(n, m) PROVE ElectionInv'
  BY <1>1, <1>11, LeadStep
<1>12. ASSUME NEW m \in msgs, handleRefusal(n, m) PROVE ElectionInv'
  <2>1. m.term \in Nat
    BY <1>1, MessageKinds DEF TypeOK
  <2>2. QED BY <1>1, <1>12, <2>1, FollowerStep DEF handleRefusal
<1>13. ASSUME NEW m \in msgs, handleTimeoutNow(n, m) PROVE ElectionInv'
  BY <1>1, <1>13, TimeoutNowStep
<1>14. QED BY <1>2, <1>3, <1>4, <1>5, <1>6, <1>7, <1>8, <1>9, <1>10, <1>11, <1>12, <1>13 DEF Step

(* A step of the specification that changes nothing. *)
LEMMA StutterInv ==
  ASSUME ElectionInv, UNCHANGED vars
  PROVE  ElectionInv'
<1>1. UNCHANGED <<state, currentTerm, votedFor, votes, expired, disk, writes, executed, msgs, upsets>>
  BY DEF vars, nodeVars
<1>2. TypeOK'
  BY <1>1 DEF ElectionInv, TypeOK
<1>3. \A n \in Node : NodeInv(n)'
  BY <1>1 DEF ElectionInv, NodeInv, Memory, GrantedTo
<1>4. \A m \in msgs' : MsgInv(m)'
  <2>1. \A t, c : Elected(t, c) => Elected(t, c)'
    BY <1>1, MoreMessages
  <2>2. QED BY <1>1, <2>1 DEF ElectionInv, MsgInv
<1>5. QED BY <1>2, <1>3, <1>4 DEF ElectionInv

(* In every reachable state the disk, the queue and the memory of a node   *)
(* form a chain that never goes back on a vote and backs all it has sent.  *)
THEOREM ElectionInvariant == Spec => []ElectionInv
<1>1. ElectionInv /\ [Next]_vars => ElectionInv'
  BY StepInv, StutterInv DEF Next
<1>2. QED BY InitInv, <1>1, PTL DEF Spec

(* Type correctness of the election. *)
THEOREM ElectionTypes == Spec => []TypeOK
<1>1. ElectionInv => TypeOK
  BY DEF ElectionInv
<1>2. QED BY ElectionInvariant, <1>1, PTL

(* What a node has said in a term survives its crash, pre-vote traffic     *)
(* apart: replyWhenDurable, afterWrite and sendGate hold it back.          *)
THEOREM ElectionSpokenTerms == Spec => []SpokenTermIsDurable
<1>1. ElectionInv => SpokenTermIsDurable
  <2>1. SUFFICES ASSUME ElectionInv, NEW m \in msgs,
                        m.type \in {"Lead", "Refusal", "TimeoutNow"}
                          \/ (m.type \in {"RequestVote", "VoteReply"} /\ ~m.pre)
                 PROVE  m.term <= disk[m.from].term
    BY DEF SpokenTermIsDurable
  <2>2. m.term \in Nat /\ m.from \in Node /\ Backed(m, disk[m.from])
    BY <2>1, MessageKinds DEF ElectionInv, TypeOK, MsgInv
  <2>3. disk[m.from] \in HardState
    BY <2>1, <2>2 DEF ElectionInv, TypeOK
  <2>4. QED BY <2>1, <2>2, <2>3 DEF Backed, Precedes, HardState
<1>2. QED BY ElectionInvariant, <1>1, PTL

-----------------------------------------------------------------------------
(* A node's votes agree. *)

(* What waits in a queue after saveTerm, replyWhenDurable and a completion. *)
LEMMA PendingAppend ==
  ASSUME NEW w \in Seq(Write), NEW x \in Write
  PROVE  Pending(Append(w, x)) = Pending(w) \cup x.then
<1> DEFINE u == Append(w, x)
<1>1. /\ Len(u) = Len(w) + 1 /\ u[Len(w) + 1] = x /\ Len(w) \in Nat
      /\ \A i \in 1..Len(w) : u[i] = w[i]
  OBVIOUS
<1>2. 1..Len(u) = (1..Len(w)) \cup {Len(w) + 1}
  BY <1>1
<1> HIDE DEF u
<1>3. \A m : m \in Pending(u) <=> m \in Pending(w) \cup x.then
  BY <1>1, <1>2 DEF Pending
<1>4. QED BY <1>3 DEF u

LEMMA PendingAttach ==
  ASSUME NEW w \in Seq(Write), w # <<>>, NEW m \in Message
  PROVE  Pending(Attach(w, m)) = Pending(w) \cup {m}
<1> DEFINE u == Attach(w, m)
<1>1. /\ Len(u) = Len(w) /\ Len(w) \in 1..Len(w)
      /\ \A i \in 1..Len(w) : i # Len(w) => u[i].then = w[i].then
      /\ u[Len(w)].then = w[Len(w)].then \cup {m}
  BY AttachParts
<1> HIDE DEF u
<1>2. \A k : k \in Pending(u) <=> k \in Pending(w) \cup {m}
  BY <1>1 DEF Pending
<1>3. QED BY <1>2 DEF u

LEMMA PendingTail ==
  ASSUME NEW w \in Seq(Write), w # <<>>
  PROVE  Pending(Tail(w)) \subseteq Pending(w) /\ w[1].then \subseteq Pending(w)
<1> DEFINE u == Tail(w)
<1>1. /\ 1 \in 1..Len(w) /\ \A i \in 1..Len(u) : u[i] = w[i + 1] /\ i + 1 \in 1..Len(w)
  OBVIOUS
<1> HIDE DEF u
<1>2. Pending(u) \subseteq Pending(w) /\ w[1].then \subseteq Pending(w)
  BY <1>1, ZenonT(60) DEF Pending
<1>3. QED BY <1>2 DEF u

(* A vote a node announces, or is about to, may not be gone back on by     *)
(* what the node has in memory.                                            *)
LEMMA VotePrecedesMemory ==
  ASSUME ElectionInv, NEW n \in Node, NEW m \in Said(n), IsVote(m)
  PROVE  /\ m.term \in Nat /\ VoteFor(m) \in Node
         /\ Precedes([term |-> m.term, vote |-> VoteFor(m)], Memory(n))
<1>1. /\ writes[n] \in Seq(Write) /\ executed[n] \in Nat /\ executed[n] <= Len(writes[n])
      /\ disk[n] \in HardState /\ Memory(n) \in HardState
      /\ Chain(disk[n], writes[n], executed[n], Memory(n)) /\ Waiting(n, writes[n], msgs)
  BY NodeTypes DEF ElectionInv, NodeInv
<1>2. PICK h \in HardState : m \in Message /\ Backed(m, h) /\ Precedes(h, Memory(n))
  <2>1. CASE m \in msgs /\ m.from = n
    <3>1. m \in Message /\ Backed(m, disk[n])
      BY <2>1 DEF ElectionInv, MsgInv, TypeOK
    <3>2. Precedes(disk[n], Memory(n))
      BY <1>1, DiskPrecedesMemory
    <3>3. QED BY <1>1, <3>1, <3>2
  <2>2. CASE m \in Pending(writes[n])
    <3>1. PICK i \in 1..Len(writes[n]) : m \in writes[n][i].then
      BY <2>2 DEF Pending
    <3>2. writes[n][i].hs \in HardState /\ m \in Message /\ Len(writes[n]) \in Nat
      BY <1>1, <3>1, WriteParts
    <3>3. Backed(m, writes[n][i].hs)
      BY <1>1, <3>1 DEF Waiting
    <3>4. Len(writes[n]) \in 1..Len(writes[n]) /\ i <= Len(writes[n]) /\ writes[n] # <<>>
      BY <3>1, <3>2
    <3>5. Precedes(writes[n][i].hs, Memory(n))
      BY <1>1, <3>4 DEF Chain
    <3>6. QED BY <3>2, <3>3, <3>5
  <2>3. QED BY <2>1, <2>2 DEF Said
<1>3. m.term \in Nat /\ VoteFor(m) \in Node
  BY <1>2, MessageKinds DEF VoteFor, VoteReplyMsg
<1>4. Precedes([term |-> m.term, vote |-> VoteFor(m)], h)
  BY <1>2 DEF Backed, IsVote, Granted, VoteFor
<1>5. [term |-> m.term, vote |-> VoteFor(m)] \in HardState
  BY <1>3 DEF HardState
<1>6. QED BY <1>1, <1>2, <1>3, <1>4, <1>5, PrecedesTransitive

(* Somebody in S announces the same vote as m. *)
Twin(m, S) == \E k \in S : IsVote(k) /\ k.term = m.term /\ VoteFor(k) = VoteFor(m)

(* A step that announces no vote, beyond those announced before it, except *)
(* the one hard state h that memory may be overwritten by.                 *)
NewVote(n, h) ==
  /\ h \in HardState
  /\ Precedes(Memory(n), h)
  /\ \A k \in Node : \A m \in Said(k)' :
       IsVote(m) => \/ Twin(m, Said(k))
                    \/ k = n /\ h = [term |-> m.term, vote |-> VoteFor(m)]

LEMMA VotesStayAgreed ==
  ASSUME ElectionInv, VotesAgree, NEW n \in Node, NEW h, NewVote(n, h)
  PROVE  VotesAgree'
<1>1. SUFFICES ASSUME NEW k \in Node, NEW m1 \in Said(k)', NEW m2 \in Said(k)',
                      IsVote(m1), IsVote(m2), m1.term = m2.term
               PROVE  VoteFor(m1) = VoteFor(m2)
  BY DEF VotesAgree, IsVote, VoteFor, Granted
<1>2. ASSUME NEW p \in Said(n), IsVote(p), p.term = h.term
      PROVE  VoteFor(p) = h.vote
  <2>1. /\ p.term \in Nat /\ VoteFor(p) \in Node
        /\ Precedes([term |-> p.term, vote |-> VoteFor(p)], Memory(n))
    BY <1>2, VotePrecedesMemory
  <2>2. h \in HardState /\ Memory(n) \in HardState
    BY NodeTypes DEF NewVote, ElectionInv
  <2>3. [term |-> p.term, vote |-> VoteFor(p)] \in HardState
    BY <2>1 DEF HardState
  <2>4. Precedes([term |-> p.term, vote |-> VoteFor(p)], h)
    BY <2>1, <2>2, <2>3, PrecedesTransitive DEF NewVote
  <2>5. None \notin Node
    BY ElectionConstants
  <2>6. QED BY <1>2, <2>1, <2>2, <2>4, <2>5 DEF Precedes, HardState
<1>3. Twin(m1, Said(k)) \/ (k = n /\ h = [term |-> m1.term, vote |-> VoteFor(m1)])
  BY <1>1 DEF NewVote
<1>4. Twin(m2, Said(k)) \/ (k = n /\ h = [term |-> m2.term, vote |-> VoteFor(m2)])
  BY <1>1 DEF NewVote
<1>5. CASE Twin(m1, Said(k)) /\ Twin(m2, Said(k))
  BY <1>1, <1>5 DEF Twin, VotesAgree
<1>6. CASE k = n /\ h = [term |-> m1.term, vote |-> VoteFor(m1)] /\ Twin(m2, Said(k))
  BY <1>1, <1>2, <1>6 DEF Twin
<1>7. CASE k = n /\ h = [term |-> m2.term, vote |-> VoteFor(m2)] /\ Twin(m1, Said(k))
  BY <1>1, <1>2, <1>7 DEF Twin
<1>8. QED BY <1>3, <1>4, <1>5, <1>6, <1>7

(* A step that announces no new vote at all. *)
LEMMA NoNewVote ==
  ASSUME ElectionInv, NEW n \in Node,
         \A k \in Node : \A m \in Said(k)' : IsVote(m) => m \in Said(k)
  PROVE  \E h : NewVote(n, h)
<1>1. Memory(n) \in HardState
  BY NodeTypes DEF ElectionInv
<1>2. Precedes(Memory(n), Memory(n))
  BY <1>1, PrecedesReflexive
<1>3. NewVote(n, Memory(n))
  BY <1>1, <1>2 DEF NewVote, Twin
<1>4. QED BY <1>3

(* saveTerm announces what it registers, once the write is done. *)
LEMMA SaidSave ==
  ASSUME TypeOK, NEW n \in Node, NEW t \in Nat, NEW v \in Node \cup {None},
         NEW then \in SUBSET Message, saveTerm(n, t, v, then), UNCHANGED msgs
  PROVE  \A k \in Node : \A m \in Said(k)' : m \in Said(k) \/ (k = n /\ m \in then)
<1> DEFINE x == [hs |-> [term |-> t, vote |-> v], then |-> then]
<1>1. x \in Write /\ x.then = then
  BY DEF Write, HardState
<1>2. writes' = [writes EXCEPT ![n] = Append(writes[n], x)]
  BY DEF saveTerm
<1> HIDE DEF x
<1>3. /\ writes'[n] = Append(writes[n], x) /\ writes[n] \in Seq(Write)
      /\ \A k \in Node \ {n} : writes'[k] = writes[k]
  BY <1>2 DEF TypeOK
<1>4. Pending(writes'[n]) = Pending(writes[n]) \cup then
  BY <1>1, <1>3, PendingAppend
<1>5. QED BY <1>3, <1>4, ZenonT(60) DEF Said

LEMMA FollowerVotes ==
  ASSUME ElectionInv, NEW n \in Node, NEW t \in Nat, becomeFollower(n, t), UNCHANGED msgs
  PROVE  \E h : NewVote(n, h)
<1>1. TypeOK
  BY DEF ElectionInv
<1>2. CASE saveTerm(n, t, None, {})
  <2>1. PICK nothing \in SUBSET Message, v \in Node \cup {None} :
               nothing = {} /\ saveTerm(n, t, v, nothing)
    BY <1>2
  <2>2. \A k \in Node : \A m \in Said(k)' : m \in Said(k) \/ (k = n /\ m \in nothing)
    BY <1>1, <2>1, SaidSave
  <2>3. QED BY <2>1, <2>2, NoNewVote
<1>3. CASE UNCHANGED writes
  BY <1>3, NoNewVote DEF Said
<1>4. QED BY <1>2, <1>3 DEF becomeFollower

LEMMA CandidateVotes ==
  ASSUME ElectionInv, NEW n \in Node, becomeCandidate(n), UNCHANGED msgs
  PROVE  \E h : NewVote(n, h)
<1> DEFINE t == currentTerm[n] + 1
           r == RequestVote(FALSE, t, n)
           h == [term |-> t, vote |-> n]
<1>1. TypeOK /\ t \in Nat /\ t > currentTerm[n]
  BY DEF ElectionInv, TypeOK
<1>2. saveTerm(n, t, n, {r})
  BY DEF becomeCandidate
<1>3. {r} \in SUBSET Message /\ h \in HardState
  BY <1>1, MessageTypes, ZenonT(60) DEF HardState
<1>4. r.term = t /\ VoteFor(r) = n
  BY DEF RequestVote, VoteFor
<1>5. Precedes(Memory(n), h)
  BY <1>1, NewerTermPrecedes
<1> HIDE DEF t, r
<1>6. \A k \in Node : \A m \in Said(k)' : m \in Said(k) \/ (k = n /\ m \in {r})
  BY <1>1, <1>2, <1>3, SaidSave
<1>7. NewVote(n, h)
  BY <1>3, <1>4, <1>5, <1>6 DEF NewVote, Twin
<1>8. QED BY <1>7

(* An answer that is no vote, sent or made to wait. *)
LEMMA ReplyVotes ==
  ASSUME ElectionInv, NEW n \in Node, NEW r \in Message, replyWhenDurable(n, r), ~IsVote(r)
  PROVE  \E h : NewVote(n, h)
<1>1. TypeOK /\ writes[n] \in Seq(Write)
  BY NodeTypes DEF ElectionInv
<1>2. CASE writes[n] = <<>>
  <2>1. UNCHANGED writes /\ msgs' = msgs \cup {r}
    BY <1>2 DEF replyWhenDurable
  <2>2. QED BY <2>1, NoNewVote DEF Said
<1>3. CASE writes[n] # <<>>
  <2>1. UNCHANGED msgs /\ writes' = [writes EXCEPT ![n] = Attach(writes[n], r)]
    BY <1>3 DEF replyWhenDurable
  <2>2. writes'[n] = Attach(writes[n], r) /\ \A k \in Node \ {n} : writes'[k] = writes[k]
    BY <1>1, <2>1 DEF TypeOK
  <2>3. Pending(writes'[n]) = Pending(writes[n]) \cup {r}
    BY <1>1, <1>3, <2>2, PendingAttach
  <2>4. \A k \in Node : \A m \in Said(k)' : IsVote(m) => m \in Said(k)
    BY <2>1, <2>2, <2>3 DEF Said
  <2>5. QED BY <2>4, NoNewVote
<1>4. QED BY <1>2, <1>3

(* A leader announces the vote it asked for. *)
LEMMA LeadVotes ==
  ASSUME ElectionInv, NEW n \in Node, NEW q \in Said(n),
         q.type = "RequestVote", ~q.pre, q.from = n, q.term = currentTerm[n],
         \A k \in Node : \A m \in Said(k)' : m \in Said(k) \/ (k = n /\ m = Lead(currentTerm[n], n))
  PROVE  \E h : NewVote(n, h)
<1> DEFINE l == Lead(currentTerm[n], n)
<1>1. l.term = currentTerm[n] /\ VoteFor(l) = n
  BY DEF Lead, VoteFor
<1>2. IsVote(q) /\ VoteFor(q) = n
  BY DEF IsVote, VoteFor
<1> HIDE DEF l
<1>3. Twin(l, Said(n))
  BY <1>1, <1>2 DEF Twin
<1>4. Memory(n) \in HardState
  BY NodeTypes DEF ElectionInv
<1>5. Precedes(Memory(n), Memory(n))
  BY <1>4, PrecedesReflexive
<1>6. \A k \in Node : \A m \in Said(k)' : IsVote(m) => Twin(m, Said(k))
  BY <1>3 DEF Twin, l
<1>7. NewVote(n, Memory(n))
  BY <1>4, <1>5, <1>6 DEF NewVote
<1>8. QED BY <1>7

LEMMA CompletionVotes ==
  ASSUME ElectionInv, NEW n \in Node, handleWriteCompletions(n)
  PROVE  \E h : NewVote(n, h)
<1> DEFINE w == writes[n]
           campaigns == {m \in Head(w).then : /\ m.type = "RequestVote"
                                              /\ state[n] = "Candidate"
                                              /\ m.term = currentTerm[n]}
<1>1. /\ TypeOK /\ w \in Seq(Write) /\ w # <<>> /\ Head(w) = w[1] /\ 1 \in 1..Len(w)
  <2>1. executed[n] > 0
    BY DEF handleWriteCompletions
  <2>2. QED BY <2>1, NodeTypes DEF ElectionInv
<1>2. \A m \in w[1].then : WaitsOn(n, m, w[1].hs, msgs)
  BY <1>1, WaitingTail, ZenonT(60) DEF ElectionInv, NodeInv
<1>3. writes'[n] = Tail(w) /\ \A k \in Node \ {n} : writes'[k] = writes[k]
  BY <1>1 DEF handleWriteCompletions, TypeOK
<1>4. Pending(writes'[n]) \subseteq Pending(w) /\ w[1].then \subseteq Pending(w)
  BY <1>1, <1>3, PendingTail
<1>5. CASE campaigns # {} /\ isSingleVoter(n)
  <2>1. PICK q \in w[1].then : q.type = "RequestVote" /\ q.term = currentTerm[n]
    BY <1>1, <1>5
  <2>2. ~q.pre /\ q.from = n /\ q \in Said(n)
    BY <1>2, <1>4, <2>1 DEF WaitsOn, Said
  <2>3. \A m \in msgs' : m \in msgs \/ m \in w[1].then \/ m = Lead(currentTerm[n], n)
    BY <1>1, <1>5 DEF handleWriteCompletions
  <2>4. Lead(currentTerm[n], n).from = n /\ \A m \in w[1].then : m.from = n
    BY <1>2 DEF Lead, WaitsOn
  <2>5. \A k \in Node : \A m \in Said(k)' : m \in Said(k) \/ (k = n /\ m = Lead(currentTerm[n], n))
    BY <1>3, <1>4, <2>3, <2>4 DEF Said
  <2>6. QED BY <2>1, <2>2, <2>5, LeadVotes
<1>6. CASE ~(campaigns # {} /\ isSingleVoter(n))
  <2>1. \A m \in msgs' : m \in msgs \/ m \in w[1].then
    BY <1>1, <1>6 DEF handleWriteCompletions
  <2>2. \A m \in w[1].then : m.from = n
    BY <1>2 DEF WaitsOn
  <2>3. \A k \in Node : \A m \in Said(k)' : m \in Said(k)
    BY <1>3, <1>4, <2>1, <2>2 DEF Said
  <2>4. QED BY <2>3, NoNewVote
<1>7. QED BY <1>5, <1>6

LEMMA RequestVoteVotes ==
  ASSUME ElectionInv, NEW n \in Node, NEW m \in msgs, NEW logOK \in BOOLEAN,
         handleRequestVote(n, m, logOK)
  PROVE  \E h : NewVote(n, h)
<1>1. TypeOK /\ m.term \in Nat /\ m.from \in Node /\ currentTerm[n] \in Nat
  BY MessageKinds, NodeTypes DEF ElectionInv, TypeOK
<1> DEFINE h == [term |-> m.term, vote |-> m.from]
<1>2. h \in HardState
  BY <1>1 DEF HardState
<1>3. ASSUME NEW r \in Message, r.type = "VoteReply", r.to = m.from, r.term = m.term,
             saveTerm(n, m.term, m.from, {r}), UNCHANGED msgs, Precedes(Memory(n), h)
      PROVE  NewVote(n, h)
  <2>1. VoteFor(r) = m.from
    BY <1>3 DEF VoteFor
  <2>2. {r} \in SUBSET Message
    BY <1>3
  <2>3. \A k \in Node : \A p \in Said(k)' : p \in Said(k) \/ (k = n /\ p \in {r})
    BY <1>1, <1>3, <2>2, SaidSave
  <2>4. QED BY <1>2, <1>3, <2>1, <2>3 DEF NewVote, Twin
<1>4. CASE handlePreVote(n, m, logOK)
  <2>0. PICK g \in BOOLEAN : msgs' = msgs \cup {VoteReply(TRUE, m.term, currentTerm[n], g, n, m.from)}
    BY <1>4, ZenonT(60) DEF handlePreVote
  <2>1. ~IsVote(VoteReply(TRUE, m.term, currentTerm[n], g, n, m.from))
    BY DEF IsVote, Granted, VoteReply
  <2>2. UNCHANGED writes
    BY <1>4 DEF handlePreVote
  <2>3. \A k \in Node : \A p \in Said(k)' : IsVote(p) => p \in Said(k)
    BY <2>0, <2>1, <2>2, ZenonT(60) DEF Said
  <2>4. QED BY <2>3, NoNewVote
<1>5. CASE voteInNewTerm(n, m, logOK)
  <2> DEFINE grant == n \in Voter /\ logOK
             r == VoteReply(FALSE, m.term, m.term, grant, n, m.from)
  <2>1. r \in Message
    BY <1>1, MessageTypes, Zenon
  <2>2. CASE grant
    <3>1. saveTerm(n, m.term, m.from, {r}) /\ UNCHANGED msgs
      BY <1>5, <2>2, ZenonT(60) DEF voteInNewTerm
    <3>2. Precedes(Memory(n), h)
      BY <1>1, <1>5, NewerTermPrecedes DEF voteInNewTerm
    <3>3. r.type = "VoteReply" /\ r.to = m.from /\ r.term = m.term
      BY DEF VoteReply
    <3> HIDE DEF r
    <3>4. QED BY <1>3, <2>1, <3>1, <3>2, <3>3
  <2>3. CASE ~grant
    <3>1. saveTerm(n, m.term, None, {}) /\ UNCHANGED msgs
      BY <1>5, <2>3, ZenonT(60) DEF voteInNewTerm
    <3>2. PICK nothing \in SUBSET Message, v \in Node \cup {None} :
                 nothing = {} /\ saveTerm(n, m.term, v, nothing)
      BY <3>1
    <3>3. \A k \in Node : \A p \in Said(k)' : p \in Said(k) \/ (k = n /\ p \in nothing)
      BY <1>1, <3>1, <3>2, SaidSave
    <3>4. QED BY <3>2, <3>3, NoNewVote
  <2>4. QED BY <2>2, <2>3
<1>6. CASE voteInCurrentTerm(n, m, logOK)
  <2> DEFINE grant == /\ n \in Voter /\ m.term = currentTerm[n]
                      /\ votedFor[n] \in {None, m.from} /\ logOK
             r == VoteReply(FALSE, m.term, currentTerm[n], grant, n, m.from)
  <2>1. r \in Message
    BY <1>1, MessageTypes, Zenon
  <2>2. r.type = "VoteReply" /\ r.to = m.from /\ r.term = currentTerm[n] /\ r.granted = grant
    BY SMTT(90) DEF VoteReply
  <2>3. CASE grant
    <3>1. saveTerm(n, m.term, m.from, {r}) /\ UNCHANGED msgs
      BY <1>6, <2>3, ZenonT(60) DEF voteInCurrentTerm
    <3>2. Precedes(Memory(n), h)
      BY <2>3 DEF Precedes, Memory
    <3> HIDE DEF r
    <3>3. QED BY <1>3, <2>1, <2>2, <2>3, <3>1, <3>2
  <2>4. CASE ~grant
    <3>1. replyWhenDurable(n, r)
      BY <1>6, <2>4, ZenonT(60) DEF voteInCurrentTerm
    <3> HIDE DEF r
    <3>2. ~IsVote(r)
      BY <2>2, <2>4, SMTT(90) DEF IsVote, Granted
    <3>3. QED BY <2>1, <3>1, <3>2, ReplyVotes
  <2>5. QED BY <2>3, <2>4
<1>7. QED BY <1>4, <1>5, <1>6 DEF handleRequestVote

LEMMA VoteResultVotes ==
  ASSUME ElectionInv, NEW n \in Node, NEW m \in msgs, handleVoteResult(n, m)
  PROVE  \E h : NewVote(n, h)
<1>1. m.term \in Nat /\ m.type = "VoteReply" /\ m.to = n
  BY MessageKinds DEF handleVoteResult, ElectionInv, TypeOK
<1>2. CASE becomeFollower(n, m.term) /\ UNCHANGED msgs
  BY <1>1, <1>2, FollowerVotes
<1>3. CASE becomeCandidate(n) /\ UNCHANGED msgs
  BY <1>3, CandidateVotes
<1>4. CASE UNCHANGED <<writes, msgs>>
  BY <1>4, NoNewVote DEF Said
<1>5. CASE /\ ~m.pre /\ m.term = currentTerm[n] /\ m.granted
           /\ becomeLeader(n) /\ UNCHANGED writes
  <2> DEFINE q == RequestVote(FALSE, currentTerm[n], n)
  <2>1. q \in msgs
    BY <1>1, <1>5, ZenonT(60) DEF ElectionInv, MsgInv, GrantOK, Granted
  <2>2. q.type = "RequestVote" /\ ~q.pre /\ q.from = n /\ q.term = currentTerm[n]
    BY DEF RequestVote
  <2> HIDE DEF q
  <2>3. msgs' = msgs \cup {Lead(currentTerm[n], n)} /\ Lead(currentTerm[n], n).from = n
    BY <1>5 DEF becomeLeader, Lead
  <2>4. \A k \in Node : \A p \in Said(k)' : p \in Said(k) \/ (k = n /\ p = Lead(currentTerm[n], n))
    BY <1>5, <2>3 DEF Said
  <2>5. q \in Said(n)
    BY <2>1, <2>2 DEF Said
  <2>6. QED BY <2>2, <2>4, <2>5, LeadVotes
<1>6. QED BY <1>2, <1>3, <1>4, <1>5, SMTT(90)
         DEF handleVoteResult, handlePreVoteResult, handleRealVoteResult

LEMMA TimeoutNowVotes ==
  ASSUME ElectionInv, NEW n \in Node, NEW m \in msgs, handleTimeoutNow(n, m)
  PROVE  \E h : NewVote(n, h)
<1>1. TypeOK /\ m.term \in Nat /\ currentTerm[n] \in Nat /\ UNCHANGED msgs /\ writes[n] \in Seq(Write)
  BY MessageKinds, NodeTypes DEF handleTimeoutNow, ElectionInv, TypeOK
<1>2. CASE becomeCandidate(n)
  BY <1>1, <1>2, CandidateVotes
<1>3. CASE ~becomeCandidate(n)
  <2> DEFINE t == m.term + 1
             r == RequestVote(FALSE, t, n)
             x == [hs |-> [term |-> m.term, vote |-> None], then |-> {}]
             y == [hs |-> [term |-> t, vote |-> n], then |-> {r}]
             w1 == Append(writes[n], x)
             h == [term |-> t, vote |-> n]
  <2>1. t \in Nat /\ h \in HardState
    BY <1>1 DEF HardState
  <2>2. writes' = [writes EXCEPT ![n] = Append(w1, y)] /\ m.term > currentTerm[n]
    BY <1>3, ZenonT(60) DEF handleTimeoutNow
  <2>3. r \in Message /\ r.term = t /\ VoteFor(r) = n
    <3>1. r \in Message
      BY <2>1, MessageTypes, ZenonT(60)
    <3>2. r.term = t /\ VoteFor(r) = n
      BY DEF RequestVote, VoteFor
    <3>3. QED BY <3>1, <3>2, ZenonT(60)
  <2>4. x \in Write /\ y \in Write /\ x.then = {} /\ y.then = {r}
    BY <1>1, <2>1, <2>3, ZenonT(60) DEF Write, HardState
  <2>5. t > currentTerm[n]
    BY <1>1, <2>2
  <2> HIDE DEF t, r, x, y
  <2>6. w1 \in Seq(Write) /\ Pending(w1) = Pending(writes[n])
    <3>1. Pending(w1) = Pending(writes[n]) \cup x.then
      BY <1>1, <2>4, PendingAppend, ZenonT(60)
    <3>2. w1 \in Seq(Write)
      BY <1>1, <2>4
    <3>3. QED BY <2>4, <3>1, <3>2
  <2> HIDE DEF w1
  <2>7. Pending(Append(w1, y)) = Pending(writes[n]) \cup {r}
    BY <2>4, <2>6, PendingAppend
  <2>8. writes'[n] = Append(w1, y) /\ \A k \in Node \ {n} : writes'[k] = writes[k]
    BY <1>1, <2>2 DEF TypeOK
  <2>9. \A k \in Node : \A p \in Said(k)' : p \in Said(k) \/ (k = n /\ p = r)
    BY <1>1, <2>7, <2>8, ZenonT(60) DEF Said
  <2>10. Precedes(Memory(n), h)
    BY <1>1, <2>1, <2>5, NewerTermPrecedes, SMTT(90)
  <2>11. NewVote(n, h)
    BY <2>1, <2>3, <2>9, <2>10 DEF NewVote, Twin
  <2>12. QED BY <2>11
<1>4. QED BY <1>2, <1>3, SMTT(90)

(* Every step of a node leaves its votes agreed. *)
LEMMA StepVotes ==
  ASSUME ElectionInv, VotesAgree, NEW n \in Node, Step(n)
  PROVE  VotesAgree'
<1>1. SUFFICES \E h : NewVote(n, h)
  BY VotesStayAgreed
<1>2. TypeOK /\ currentTerm[n] \in Nat /\ writes[n] \in Seq(Write)
  BY NodeTypes DEF ElectionInv
<1>3. CASE WriterExecutes(n) \/ WitnessTimeout(n)
  <2>1. UNCHANGED <<writes, msgs>>
    BY <1>3 DEF WriterExecutes, WitnessTimeout
  <2>2. QED BY <2>1, NoNewVote DEF Said
<1>4. CASE handleWriteCompletions(n)
  BY <1>4, CompletionVotes
<1>5. CASE ElectionTimeout(n)
  <2>1. CASE becomeCandidate(n) /\ UNCHANGED msgs
    BY <2>1, CandidateVotes
  <2>2. CASE UNCHANGED writes /\ msgs' = msgs \cup {RequestVote(TRUE, currentTerm[n] + 1, n)}
    <3>1. ~IsVote(RequestVote(TRUE, currentTerm[n] + 1, n))
      BY DEF IsVote, Granted, RequestVote
    <3>2. QED BY <2>2, <3>1, NoNewVote, ZenonT(60) DEF Said
  <2>3. QED BY <1>5, <2>1, <2>2, ZenonT(60) DEF ElectionTimeout, becomePreCandidate
<1>6. CASE StepDown(n)
  BY <1>2, <1>6, FollowerVotes DEF StepDown
<1>7. CASE Crash(n)
  <2>1. UNCHANGED msgs /\ writes'[n] = <<>> /\ \A k \in Node \ {n} : writes'[k] = writes[k]
    BY <1>2, <1>7 DEF Crash, TypeOK
  <2>2. Pending(<<>>) = {}
    BY DEF Pending
  <2>3. QED BY <2>1, <2>2, NoNewVote DEF Said
<1>8. ASSUME NEW target \in Node, sendTimeoutNow(n, target) PROVE \E h : NewVote(n, h)
  <2>1. UNCHANGED writes /\ msgs' = msgs \cup {TimeoutNow(currentTerm[n], n, target)}
    BY <1>8 DEF sendTimeoutNow
  <2>2. ~IsVote(TimeoutNow(currentTerm[n], n, target))
    BY DEF IsVote, Granted, TimeoutNow
  <2>3. QED BY <2>1, <2>2, NoNewVote DEF Said
<1>9. ASSUME NEW m \in msgs, NEW logOK \in BOOLEAN, handleRequestVote(n, m, logOK)
      PROVE  \E h : NewVote(n, h)
  BY <1>9, RequestVoteVotes
<1>10. ASSUME NEW m \in msgs, handleVoteResult(n, m) PROVE \E h : NewVote(n, h)
  BY <1>10, VoteResultVotes
<1>11. ASSUME NEW m \in msgs, handleLead(n, m) PROVE \E h : NewVote(n, h)
  <2>1. m.term \in Nat /\ m.from \in Node
    BY <1>2, MessageKinds DEF TypeOK
  <2>2. CASE becomeFollower(n, m.term) /\ UNCHANGED msgs
    BY <2>1, <2>2, FollowerVotes
  <2>3. CASE replyWhenDurable(n, Refusal(currentTerm[n], n, m.from))
    <3>1. Refusal(currentTerm[n], n, m.from) \in Message
      BY <1>2, <2>1, MessageTypes, ZenonT(60)
    <3>2. ~IsVote(Refusal(currentTerm[n], n, m.from))
      BY DEF IsVote, Granted, Refusal
    <3>3. QED BY <2>3, <3>1, <3>2, ReplyVotes
  <2>4. QED BY <1>11, <2>2, <2>3 DEF handleLead
<1>12. ASSUME NEW m \in msgs, handleRefusal(n, m) PROVE \E h : NewVote(n, h)
  <2>1. m.term \in Nat
    BY <1>2, MessageKinds DEF TypeOK
  <2>2. QED BY <1>12, <2>1, FollowerVotes DEF handleRefusal
<1>13. ASSUME NEW m \in msgs, handleTimeoutNow(n, m) PROVE \E h : NewVote(n, h)
  BY <1>13, TimeoutNowVotes
<1>14. QED BY <1>3, <1>4, <1>5, <1>6, <1>7, <1>8, <1>9, <1>10, <1>11, <1>12, <1>13 DEF Step

(* At every moment all that a node has said or will say of its vote in a   *)
(* term names one candidate.                                               *)
THEOREM ElectionVotes == Spec => []VotesAgree
<1>1. Init => VotesAgree
  <2>1. Init => \A n \in Node : Said(n) = {}
    <3>1. Pending(<<>>) = {}
      BY DEF Pending
    <3>2. QED BY <3>1 DEF Init, Said
  <2>2. QED BY <2>1 DEF VotesAgree
<1>2. ElectionInv /\ VotesAgree /\ [Next]_vars => VotesAgree'
  <2>1. ElectionInv /\ VotesAgree /\ Next => VotesAgree'
    BY StepVotes DEF Next
  <2>2. VotesAgree /\ UNCHANGED vars => VotesAgree'
    BY DEF VotesAgree, vars, nodeVars, Said
  <2>3. QED BY <2>1, <2>2
<1>3. QED BY ElectionInvariant, <1>1, <1>2, PTL DEF Spec

(* A node that votes, crashes and restarts never votes for somebody else   *)
(* in the same term.                                                       *)
THEOREM ElectionOneVote == Spec => []OneVotePerTerm
<1>1. VotesAgree => OneVotePerTerm
  <2>1. ASSUME NEW v \in Node, NEW t, NEW c \in Node, Cast(v, t, c)
        PROVE  \E m \in Said(v) : IsVote(m) /\ m.term = t /\ VoteFor(m) = c
    <3>1. CASE v = c /\ RequestVote(FALSE, t, c) \in msgs
      <4> DEFINE q == RequestVote(FALSE, t, c)
      <4>1. q.type = "RequestVote" /\ ~q.pre /\ q.from = c /\ q.term = t
        BY DEF RequestVote
      <4> HIDE DEF q
      <4>2. q \in Said(v) /\ IsVote(q) /\ VoteFor(q) = c
        BY <3>1, <4>1, ZenonT(60) DEF Said, IsVote, VoteFor, q
      <4>3. QED BY <4>1, <4>2
    <3>2. CASE ~(v = c /\ RequestVote(FALSE, t, c) \in msgs)
      <4>1. PICK m \in msgs : /\ m.type = "VoteReply" /\ ~m.pre /\ m.granted
                              /\ m.from = v /\ m.term = t /\ m.to = c
        BY <2>1, <3>2, ZenonT(60) DEF Cast
      <4>2. m \in Said(v) /\ IsVote(m) /\ VoteFor(m) = c
        BY <4>1 DEF Said, IsVote, Granted, VoteFor
      <4>3. QED BY <4>1, <4>2
    <3>3. QED BY <3>1, <3>2, ZenonT(60)
  <2>2. SUFFICES ASSUME VotesAgree, NEW v \in Node, NEW c1 \in Node, NEW c2 \in Node, NEW t,
                        Cast(v, t, c1), Cast(v, t, c2)
                 PROVE  c1 = c2
    BY DEF OneVotePerTerm
  <2>3. PICK m1 \in Said(v) : IsVote(m1) /\ m1.term = t /\ VoteFor(m1) = c1
    BY <2>1, <2>2
  <2>4. PICK m2 \in Said(v) : IsVote(m2) /\ m2.term = t /\ VoteFor(m2) = c2
    BY <2>1, <2>2
  <2>5. QED BY <2>2, <2>3, <2>4 DEF VotesAgree
<1>2. QED BY ElectionVotes, <1>1, PTL

-----------------------------------------------------------------------------
(* One leader per term. *)

(* Everybody a leader was elected by announces a vote for that leader. *)
LEMMA ElectorVotes ==
  ASSUME NEW l \in msgs, l.type = "Lead", NEW v, v = l.from \/ GrantedTo(v, l.term, l.from)
  PROVE  \E m \in Said(v) : IsVote(m) /\ m.term = l.term /\ VoteFor(m) = l.from
<1>1. CASE v = l.from
  <2>1. l \in Said(v) /\ IsVote(l) /\ VoteFor(l) = l.from
    BY <1>1 DEF Said, IsVote, VoteFor
  <2>2. QED BY <2>1
<1>2. CASE GrantedTo(v, l.term, l.from)
  <2>1. PICK m \in msgs : Granted(m) /\ m.from = v /\ m.term = l.term /\ m.to = l.from
    BY <1>2 DEF GrantedTo
  <2>2. m \in Said(v) /\ IsVote(m) /\ VoteFor(m) = l.from
    BY <2>1 DEF Said, IsVote, Granted, VoteFor
  <2>3. QED BY <2>1, <2>2
<1>3. QED BY <1>1, <1>2

(* Two leaders of one term were elected by quorums that share a voter. *)
LEMMA LeadersAgree ==
  ASSUME ElectionInv, VotesAgree
  PROVE  UniqueLead
<1>1. SUFFICES ASSUME NEW m1 \in msgs, NEW m2 \in msgs,
                      m1.type = "Lead", m2.type = "Lead", m1.term = m2.term
               PROVE  m1.from = m2.from
  BY DEF UniqueLead
<1>2. PICK A \in SUBSET Voter :
        /\ Cardinality(A) >= electionQuorumFor(CommitPolicy, Cardinality(Voter))
        /\ \A v \in A : v = m1.from \/ GrantedTo(v, m1.term, m1.from)
  BY <1>1 DEF ElectionInv, MsgInv, Elected
<1>3. PICK B \in SUBSET Voter :
        /\ Cardinality(B) >= electionQuorumFor(CommitPolicy, Cardinality(Voter))
        /\ \A v \in B : v = m2.from \/ GrantedTo(v, m2.term, m2.from)
  BY <1>1 DEF ElectionInv, MsgInv, Elected
<1>4. A \cap B # {}
  <2>1. IsFiniteSet(Voter) /\ Voter # {} /\ CommitPolicy \in Nat
    BY ElectionConstants, FS_Subset
  <2>2. QED BY <1>2, <1>3, <2>1, ElectionQuorumsIntersect
<1>5. PICK v \in Node : v \in A /\ v \in B
  BY <1>4, ElectionConstants
<1>6. PICK k1 \in Said(v) : IsVote(k1) /\ k1.term = m1.term /\ VoteFor(k1) = m1.from
  BY <1>1, <1>2, <1>5, ElectorVotes
<1>7. PICK k2 \in Said(v) : IsVote(k2) /\ k2.term = m2.term /\ VoteFor(k2) = m2.from
  BY <1>1, <1>3, <1>5, ElectorVotes
<1>8. QED BY <1>1, <1>6, <1>7 DEF VotesAgree

(* Only a candidate becomes leader, in the term it stood in. *)
LEMMA LeaderWasCandidate ==
  ASSUME TypeOK, NEW n \in Node, NEW k \in Node, Step(k),
         state[n] # "Leader", state'[n] = "Leader"
  PROVE  /\ state[n] = "Candidate" /\ currentTerm'[n] = currentTerm[n]
         /\ msgs \subseteq msgs'
<1>1. CASE handleWriteCompletions(k)
  BY <1>1, SMTT(90) DEF handleWriteCompletions, TypeOK
<1>2. ASSUME NEW m \in msgs, handleVoteResult(k, m)
      PROVE  /\ state[n] = "Candidate" /\ currentTerm'[n] = currentTerm[n] /\ msgs \subseteq msgs'
  BY <1>2 DEF handleVoteResult, handlePreVoteResult, handleRealVoteResult, becomeFollower,
              applyFollowerTransition, becomeCandidate, becomeLeader, TypeOK
<1>3. CASE ~handleWriteCompletions(k) /\ ~(\E m \in msgs : handleVoteResult(k, m))
  <2>1. \/ UNCHANGED state
        \/ \E s \in {"Follower", "PreCandidate", "Candidate"} : state' = [state EXCEPT ![k] = s]
    BY <1>3, ZenonT(60) DEF Step, WriterExecutes, ElectionTimeout, becomePreCandidate, becomeCandidate,
                WitnessTimeout, StepDown, becomeFollower, applyFollowerTransition, Crash,
                sendTimeoutNow, handleRequestVote, handlePreVote, voteInNewTerm,
                voteInCurrentTerm, handleLead, handleRefusal, handleTimeoutNow, nodeVars
  <2>2. QED BY <2>1 DEF TypeOK
<1>4. QED BY <1>1, <1>2, <1>3, SMTT(90)

(* A node becomes leader only in a term nobody, itself included, has led:  *)
(* becomeLeader starts a term's log exactly once.                          *)
THEOREM ElectionOneLeader == Spec => OneLeaderPerTerm
<1>1. ElectionInv /\ VotesAgree => UniqueLead
  BY LeadersAgree
<1>2. ASSUME ElectionInv, ElectionInv', UniqueLead', [Next]_vars
      PROVE  [\A n \in Node :
                state[n] # "Leader" /\ state'[n] = "Leader"
                  => \A m \in msgs : m.type = "Lead" => m.term # currentTerm'[n]]_vars
  <2>1. SUFFICES ASSUME Next, NEW n \in Node, state[n] # "Leader", state'[n] = "Leader",
                        NEW m \in msgs, m.type = "Lead", m.term = currentTerm'[n]
                 PROVE  FALSE
    BY <1>2
  <2>2. /\ state[n] = "Candidate" /\ currentTerm'[n] = currentTerm[n] /\ msgs \subseteq msgs'
    BY <1>2, <2>1, LeaderWasCandidate, SMTT(90) DEF Next, ElectionInv
  <2>3. PICK l : l = Lead(currentTerm[n], n) /\ l \in msgs' /\ l \notin msgs
    BY <1>2, <2>1, <2>2 DEF ElectionInv, NodeInv
  <2>4. l.type = "Lead" /\ l.term = currentTerm[n] /\ l.from = n
    BY <2>3, SMTT(90) DEF Lead
  <2>5. m.from = n
    BY <1>2, <2>1, <2>2, <2>3, <2>4, SMTT(90) DEF UniqueLead
  <2>6. m = Lead(currentTerm[n], n)
    <3>1. m \in LeadMsg
      BY <1>2, <2>1, MessageKinds DEF ElectionInv, TypeOK
    <3>2. QED BY <2>1, <2>2, <2>5, <3>1 DEF LeadMsg, Lead
  <2>7. QED BY <2>3, <2>6
<1>3. QED BY ElectionInvariant, ElectionVotes, <1>1, <1>2, PTL DEF Spec, OneLeaderPerTerm
=============================================================================
