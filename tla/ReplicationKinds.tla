-------------------------- MODULE ReplicationKinds --------------------------
(***************************************************************************)
(* What the actions of Replication have in common, as far as log matching  *)
(* is concerned: a few kinds of steps, each a summary of several actions.  *)
(* A step recasts the hard state (elections, votes, refusals, stepping     *)
(* down), accepts a request, appends to a leader's log, only speaks,       *)
(* completes a write or crashes. Definitions only.                         *)
(***************************************************************************)
EXTENDS Replication, ReplicationInv

(* The vote x of node n when its hard state becomes that of im. *)
VoteOf(n, x, im) ==
  /\ x.term = im.term /\ Choice(x) = im.vote
  /\ \/ /\ x.type = "RequestVote" /\ im.term > mem[n].term
        /\ x.lastIndex = Len(mem[n].log) /\ x.lastTerm = termAt(mem[n].log, Len(mem[n].log))
     \/ /\ x.type = "VoteReply" /\ (im.term > mem[n].term \/ mem[n].vote \in {None, im.vote})
        /\ \E r \in msgs : /\ r.type = "RequestVote" /\ r.from = x.to /\ r.term = x.term
                           /\ isUpToDate(mem[n].log, r.lastIndex, r.lastTerm)

(* What becomes of a leader, a candidate or a follower whose hard state    *)
(* changes to that of im.                                                  *)
Turns(n, im) ==
  \/ UNCHANGED <<state, leaderVars>> /\ im.term = mem[n].term
  \/ applyFollowerTransition(n)
  \/ /\ state[n] # "Leader" /\ im.term > mem[n].term
     /\ state' = [state EXCEPT ![n] = "Candidate"] /\ UNCHANGED leaderVars

(* A step of n that changes at most the hard state, to that of im, and     *)
(* acknowledges nothing: elections, votes, refusals and stepping down.     *)
Recast(n, im, ops, gate, R) ==
  /\ im \in Image /\ im.log = mem[n].log /\ im.term >= mem[n].term
  /\ im.term = mem[n].term /\ mem[n].vote # None => im.vote = mem[n].vote
  /\ (ops = <<>> /\ im = mem[n]) \/ ops = <<Op("HardState", im)>>
  /\ gate \in 0..Len(writes[n] \o ops) /\ Queued(n, writes[n] \o ops, gate, R)
  /\ R \subseteq Promise /\ \A x \in R : x.from = n /\ ~ IsAck(x)
  /\ \A x \in R : IsVote(x) => R = {x} /\ gate = Len(writes[n] \o ops) /\ ops # <<>> /\ VoteOf(n, x, im)
  /\ mem' = [mem EXCEPT ![n] = im] /\ Turns(n, im)
  /\ UNCHANGED <<disk, given, restarts, commitIndex, committed>>
IsRecast(n) == \E im, ops, gate, R : Recast(n, im, ops, gate, R)

-----------------------------------------------------------------------------
(* s is the slice of l from `next' to a `to' that does not pass the end. *)
SliceOf(s, l, next, to) ==
  /\ s = SubSeq(l, next, to)
  /\ Len(s) = (IF next <= to THEN to - next + 1 ELSE 0)
  /\ \A i \in 1..Len(s) : s[i] = l[next - 1 + i]

(* Request m carries a piece of log l, or nothing at all. *)
PieceOf(l, m) == Fragment(l, m) \/ (m.entries = <<>> /\ m.prevTerm = 0 /\ m.prev > 0)

(* m is the request replicateToPeer sends. *)
RequestOf(m, n, p, l, next, commit, batch) ==
  /\ m = AppendEntries(n, p, l, next, commit, batch)
  /\ m.type = "AppendEntries" /\ m.from = n /\ m.to = p /\ m.term = mem[n].term
  /\ m.commit = commit /\ m.prev = next - 1 /\ PieceOf(l, m)
  /\ next <= Len(l) + 1 => Fragment(l, m)

(* A leader speaks: it sends requests R and nothing of its log changes. *)
Speaks(n, R) ==
  /\ state[n] = "Leader" /\ msgs' = msgs \cup R
  /\ UNCHANGED <<state, mem, disk, writes, termStart, restarts, given>>
  /\ nextIndex' \in [Node -> [Node -> Nat]] /\ matchIndex' \in [Node -> [Node -> Nat]] /\ commitIndex' \in [Node -> Nat]
  /\ \A p \in Node : p # n => nextIndex'[p] = nextIndex[p]
  /\ \A p \in Node : nextIndex'[n][p] >= 1
  /\ \A x \in R : /\ x \in AppendRequests /\ x.type = "AppendEntries" /\ x.from = n /\ x.term = mem[n].term
                  /\ PieceOf(mem[n].log, x)
IsSpeaking(n) == \E R : Speaks(n, R)

(* Leader n appends entry x to its log and sends requests R. *)
Appends(n, x, R) ==
  /\ x \in Entry /\ x.term = mem[n].term /\ mem[n].term \in Term
  /\ mem' = [mem EXCEPT ![n] = [mem[n] EXCEPT !.log = Append(mem[n].log, x)]]
  /\ Len(Append(mem[n].log, x)) <= MaxLog
  /\ replyWhenDurable(n, Append(writes[n], Op("Append", [mem[n] EXCEPT !.log = Append(mem[n].log, x)])), 0, R)
  /\ state' = [state EXCEPT ![n] = "Leader"]
  /\ UNCHANGED <<disk, restarts, given>>
  /\ nextIndex' \in [Node -> [Node -> Nat]] /\ matchIndex' \in [Node -> [Node -> Nat]]
  /\ termStart' \in [Node -> Nat] /\ commitIndex' \in [Node -> Nat]
  /\ \A p \in Node : p # n => termStart'[p] = termStart[p] /\ nextIndex'[p] = nextIndex[p]
  /\ \A p \in Node : nextIndex'[n][p] >= 1
  /\ \A y \in R : /\ y \in AppendRequests /\ y.type = "AppendEntries" /\ y.from = n /\ y.term = mem[n].term
                  /\ PieceOf(Append(mem[n].log, x), y)

(* The image and the writes of such a step. *)
AppendsAs(n, x, R, im, ops) ==
  /\ ops = <<Op("Append", im)>> /\ im = mem'[n] /\ OpImages(ops) = {im}
  /\ im.term = mem[n].term /\ im.vote = mem[n].vote /\ im.log = Append(mem[n].log, x)
  /\ Moves(n, {im}, R, WaitImages(n, ops, 0)) /\ (\A p \in Node : QueueOK(p)') /\ Types'

(* Leader n of term T appends to the log of its term, as a new leader or   *)
(* in the course of its leadership.                                        *)
AppendsTo(n, x, R, T, L) ==
  /\ Appends(n, x, R) /\ mem[n].term = T /\ Elected(n, T)
  /\ L[T] = <<>> \/ mem[n].log = L[T]
  /\ \/ termStart'[n] = Len(Append(mem[n].log, x))
     \/ termStart'[n] = termStart[n] /\ termStart[n] \in 1..Len(mem[n].log)
        /\ \A i \in termStart[n]..Len(mem[n].log) : mem[n].log[i].term = T
IsAppending(n, L) == \E x, R : \E T \in Term : AppendsTo(n, x, R, T, L)

-----------------------------------------------------------------------------
MergeOf(l, k, l0, m) == l = Merged(l0, m) /\ k = m.prev + Held(l0, m)
MergeWritesOf(ops, base, m) == ops = mergeWrites(base, base.log, m)
MergeQueue(ops, base, k, l) ==
  /\ ops \in Seq(Write) /\ Unasked(ops)
  /\ ops = <<>> => l = base.log
  /\ ops # <<>> => ops[Len(ops)].image = [base EXCEPT !.log = l]
  /\ \A i \in 1..Len(ops) : Through(base, base.log, k, l, ops[i].image)

(* Writes ops take node n to image im of term t, through images of base. *)
Leads(n, t, base, k, l, im, ops) ==
  /\ im \in Image /\ im.term = t /\ im.vote = base.vote /\ im.log = l
  /\ ops \in Seq(Write) /\ Unasked(ops)
  /\ ops = <<>> => im = mem[n]
  /\ ops # <<>> => ops[Len(ops)].image = im
  /\ \A i \in 1..Len(ops) : Through(base, base.log, k, l, ops[i].image)
  /\ t # mem[n].term => ops # <<>> /\ ops[1].kind = "HardState"

(* Node n accepts request m: writes ops take its log to l, and once the    *)
(* first `gate' writes are done it says so.                                *)
Accepting(n, m, L, base, k, l, im, ops, gate) ==
  /\ m.term \in Term /\ m.term >= mem[n].term
  /\ base \in Image /\ base.term = m.term /\ base.log = mem[n].log /\ (m.term = mem[n].term => base = mem[n])
  /\ MergedTo(l, k, mem[n].log, L[m.term], m)
  /\ Leads(n, m.term, base, k, l, im, ops) /\ mem' = [mem EXCEPT ![n] = im]
  /\ applyFollowerTransition(n) /\ setCommitIndex(n, l, coveredCommit(l, m), m.term)
  /\ UNCHANGED <<disk, restarts, given>>
  /\ gate \in 0..Len(writes[n] \o ops) /\ Queued(n, writes[n] \o ops, gate, {accepted(m)})
  /\ \A a \in WaitImages(n, ops, gate) :
       a.term = m.term /\ (m.entries # <<>> => SameTo(a.log, l, m.prev + Len(m.entries)))
IsAccepting(n, m, L) == \E base, k, l, im, ops, gate : Accepting(n, m, L, base, k, l, im, ops, gate)
=============================================================================
