------------------------ MODULE ReplicationTheorems -------------------------
(***************************************************************************)
(* Log matching holds for every group, every quorum policy, every batch    *)
(* size, every bound and every schedule of crashes, losses and slow disks. *)
(* Here are the leader's handlers, completions and crashes, the proof that *)
(* every action is sound, and the theorem.                                 *)
(***************************************************************************)
EXTENDS ReplicationProperties, ReplicationActions, ReplicationInduction

(* replicateToPeer: a piece of the leader's log, if nextIndex is not past  *)
(* its end.                                                                *)
LEMMA AppendEntriesIs ==
  \A n \in Node, p \in Node, l \in Seq(Entry), next \in Nat \ {0}, commit \in Nat, batch \in Nat :
    /\ restarts[n] \in Nat
    /\ mem[n].term \in Term
    => \E m \in AppendRequests : RequestOf(m, n, p, l, next, commit, batch)
(* The entries a request carries. *)
<1>SliceIs.
    ASSUME NEW l \in Seq(Entry), NEW next \in Nat \ {0}, NEW to \in Nat, to <= Len(l)
    PROVE  \E s \in Seq(Entry) : SliceOf(s, l, next, to)
  <2> USE <1>SliceIs
  <2>1. Len(l) \in Nat
    BY SeqLen
  <2>2. \A i \in next..to : l[i] \in Entry
    <3>1. \A i \in next..to : i \in 1..Len(l)
      BY <2>1
    <3>2. QED BY <3>1, SeqItem
  <2> DEFINE s == SubSeq(l, next, to)
  <2>3. /\ s \in Seq(Entry) /\ Len(s) = (IF next <= to THEN to - next + 1 ELSE 0)
        /\ \A i \in 1..(to - next + 1) : s[i] = l[next + i - 1]
    BY <2>2, SeqPart
  <2> HIDE DEF s
  <2>4. \A i \in 1..Len(s) : i \in 1..(to - next + 1) /\ next + i - 1 = next - 1 + i
    BY <2>3
  <2>5. \A i \in 1..Len(s) : s[i] = l[next - 1 + i]
    BY <2>3, <2>4
  <2>6. s = SubSeq(l, next, to)
    BY DEF s
  <2>7. SliceOf(s, l, next, to)
    BY <2>3, <2>5, <2>6 DEF SliceOf
  <2>8. QED BY <2>3, <2>7
<1>AppendEntriesIs.
    ASSUME NEW n \in Node, NEW p \in Node, NEW l \in Seq(Entry), NEW next \in Nat \ {0}, NEW commit \in Nat,
           NEW batch \in Nat, restarts[n] \in Nat, mem[n].term \in Term
    PROVE  \E m \in AppendRequests : RequestOf(m, n, p, l, next, commit, batch)
  <2> USE <1>AppendEntriesIs
  <2> DEFINE m == AppendEntries(n, p, l, next, commit, batch)
  <2>1. Len(l) \in Nat /\ next - 1 \in Nat /\ next - 1 + batch \in Nat
    BY SeqLen
  <2>2. PICK to \in Nat : /\ to = Min({Len(l), next - 1 + batch})
                          /\ to <= Len(l) /\ to <= next - 1 + batch
                          /\ to = Len(l) \/ to = next - 1 + batch
    <3>1. Min({Len(l), next - 1 + batch}) = IF Len(l) <= next - 1 + batch THEN Len(l) ELSE next - 1 + batch
      BY <2>1, MinOfTwo
    <3>2. QED BY <2>1, <3>1
  <2>3. PICK s \in Seq(Entry) : SliceOf(s, l, next, to)
    BY SMTT(30), <2>2, <1>SliceIs
  <2>4. m = [type |-> "AppendEntries", from |-> n, to |-> p, process |-> restarts[n],
             term |-> mem[n].term, prev |-> next - 1, prevTerm |-> termAt(l, next - 1),
             entries |-> s, commit |-> commit]
    BY <2>2, <2>3 DEF AppendEntries, currentTerm, SliceOf
  <2> HIDE DEF m
  <2>5. termAt(l, next - 1) \in 0..MaxTerm
    BY SMTT(30), TermAtTyped
  <2>6. /\ m \in AppendRequests /\ m.type = "AppendEntries" /\ m.from = n /\ m.to = p /\ m.term = mem[n].term
        /\ m.commit = commit /\ m.prev = next - 1 /\ m.prevTerm = termAt(l, next - 1) /\ m.entries = s
    BY SMTT(30), <2>1, <2>4, <2>5 DEF AppendRequests
  <2>7. PieceOf(l, m) /\ (next <= Len(l) + 1 => Fragment(l, m))
    <3>1. CASE next <= Len(l) + 1
      <4>1. PICK k \in Nat : k = Len(s)
        BY SeqLen
      <4>2. k = (IF next <= to THEN to - next + 1 ELSE 0) /\ \A i \in 1..k : s[i] = l[next - 1 + i]
        BY ZenonT(30), <2>3, <4>1 DEF SliceOf
      <4>5. next - 1 + k <= Len(l)
        BY SMTT(30), <2>1, <2>2, <3>1, <4>2
      <4>6. Fragment(l, m)
        BY SMTT(30), <2>6, <4>1, <4>2, <4>5 DEF Fragment
      <4>7. QED BY <4>6 DEF PieceOf
    <3>2. CASE ~ (next <= Len(l) + 1)
      <4>1. Len(s) = 0 /\ next - 1 > 0 /\ next - 1 \notin 1..Len(l)
        BY <2>1, <2>2, <2>3, <3>2 DEF SliceOf
      <4>2. s = <<>> /\ termAt(l, next - 1) = 0
        BY <4>1, SeqEmpty DEF termAt
      <4>3. QED BY <2>6, <3>2, <4>1, <4>2 DEF PieceOf
    <3>3. QED BY <3>1, <3>2
  <2>8. m = AppendEntries(n, p, l, next, commit, batch)
    BY DEF m
  <2>9. RequestOf(m, n, p, l, next, commit, batch)
    BY SMTT(30), <2>6, <2>7, <2>8 DEF RequestOf
  <2>10. QED BY <2>6, <2>9
<1>q. QED BY <1>AppendEntriesIs

(* maybeAdvanceCommit returns the commit index or a later index of this    *)
(* term that enough voters count for.                                      *)
LEMMA AdvanceIs ==
  ASSUME Basics, NEW n, NEW l \in Seq(Entry), NEW match, NEW stable, commitIndex[n] \in Nat, termStart[n] \in Nat,
         NEW j, j = maybeAdvanceCommit(n, l, match, stable)
  PROVE  /\ j \in Nat /\ j >= commitIndex[n]
         /\ j # commitIndex[n] => /\ j \in 1..Len(l) /\ j >= termStart[n]
                                  /\ replicatedOnMajority(n, j, match, stable)
<1>1. PICK ci \in Nat, start \in Nat, e \in Nat : ci = commitIndex[n] /\ start = termStart[n] /\ e = Len(l)
  BY SeqLen
<1>2. PICK low \in Nat : low = Max({ci + 1, start}) /\ low >= ci + 1 /\ low >= start
  <2>1. Max({ci + 1, start}) = IF ci + 1 >= start THEN ci + 1 ELSE start
    BY MaxOfTwo
  <2>2. QED BY <2>1
<1> DEFINE K == {i \in low..e : replicatedOnMajority(n, i, match, stable)}
           J == {ci} \cup K
<1>3. j = Max(J)
  BY SMTT(30), <1>1, <1>2 DEF maybeAdvanceCommit
<1>4. J \subseteq Nat /\ J # {} /\ ci + e \in Nat /\ \A y \in J : y <= ci + e
  OBVIOUS
<1>5. ci \in J /\ \A y \in J : y # ci => y \in low..e /\ replicatedOnMajority(n, y, match, stable)
  OBVIOUS
<1> HIDE DEF J
<1>6. j \in J /\ \A y \in J : j >= y
  BY Zenon, <1>3, <1>4, MaxIs
<1>7. j \in Nat /\ j >= ci
  BY <1>4, <1>5, <1>6
<1>8. j # ci => j \in low..e /\ replicatedOnMajority(n, j, match, stable)
  BY ZenonT(30), <1>5, <1>6
<1>9. j # ci => j \in 1..e /\ j >= start
  BY <1>2, <1>8
<1>10. QED BY <1>1, <1>7, <1>8, <1>9

(* A leader that only sends is sound: its requests are pieces of its log. *)
LEMMA SpeakingIsSound ==
  ASSUME NEW L \in SomeLogs, MatchInv(L), NEW n \in Node, NEW R, Speaks(n, R)
  PROVE  Sound(n, {}, R, Images(n), L)
<1>0. Types /\ (\A p \in Node : QueueOK(p)) /\ LeadersOK(L) /\ LeaderLogs(L)
  BY DEF MatchInv
<1>1. Moves(n, {}, R, Images(n)) /\ \A p \in Node : QueueOK(p)'
  BY ZenonT(30), <1>0, UnqueuedMoves DEF Speaks
<1>2. Types'
  BY SMTT(30), <1>0 DEF Types, Speaks
<1>3. Voting(n, {}, R, Images(n))
  <2>1. \A x \in R : ~ IsVote(x)
    BY ZenonT(30) DEF Speaks, IsVote
  <2>2. mem'[n].term \in Nat /\ R \subseteq Promise \cup AppendRequests
    BY SMTT(30), <1>0, NodeTyped DEF Speaks
  <2>3. state'[n] = "Candidate" => state[n] = "Candidate" /\ mem'[n].term = mem[n].term /\ mem'[n].log = log(n)
    BY Zenon DEF Speaks, log
  <2>4. QED BY Zenon, <2>1, <2>2, <2>3 DEF Voting
<1>4. Leading(n)
  BY DEF Leading, Speaks
<1>5. \A x \in R : RequestOK(L, x)
  <2>1. PICK t \in Term : mem[n].term = t /\ mem[n].log = L[t] /\ termStart[n] \in 1..Len(mem[n].log)
    BY Zenon, <1>0 DEF LeadersOK, currentTerm, log, Speaks
  <2>2. L[t] # <<>>
    BY SMTT(30), <2>1
  <2>3. QED BY ZenonT(30), <2>1, <2>2 DEF Speaks, RequestOK, PieceOf
<1>6. QED BY ZenonT(30), <1>1, <1>2, <1>3, <1>4, <1>5 DEF Sound

(* A leader's variables. *)
LEMMA LeaderFacts ==
  ASSUME NEW L, MatchInv(L), NEW n \in Node, state[n] = "Leader"
  PROVE  /\ Types /\ mem[n].term \in Term /\ restarts[n] \in Nat /\ commitIndex[n] \in Nat /\ termStart[n] \in Nat
         /\ mem[n].log \in Seq(Entry) /\ situation.batch \in Nat /\ Len(mem[n].log) \in Nat
         /\ nextIndex \in [Node -> [Node -> Nat]] /\ matchIndex \in [Node -> [Node -> Nat]]
         /\ commitIndex \in [Node -> Nat]
         /\ \A p \in Node : nextIndex[n][p] \in Nat \ {0} /\ matchIndex[n][p] \in Nat
<1>1. Types /\ LeadersOK(L)
  BY DEF MatchInv
<1>2. /\ restarts[n] \in Nat /\ commitIndex[n] \in Nat /\ termStart[n] \in Nat
      /\ nextIndex \in [Node -> [Node -> Nat]] /\ matchIndex \in [Node -> [Node -> Nat]]
      /\ commitIndex \in [Node -> Nat]
  BY <1>1 DEF Types
<1>3. mem[n].log \in Seq(Entry) /\ situation.batch \in Nat /\ Len(mem[n].log) \in Nat
  BY <1>1, NodeTyped, BatchIs
<1>4. mem[n].term \in Term /\ \A p \in Node : nextIndex[n][p] >= 1
  BY <1>1 DEF LeadersOK, currentTerm
<1>5. \A p \in Node : nextIndex[n][p] \in Nat \ {0} /\ matchIndex[n][p] \in Nat
  BY <1>2, <1>4
<1>6. QED BY ZenonT(30), <1>1, <1>2, <1>3, <1>4, <1>5

(* The actions of a leader that only send: heartbeats, and what it does    *)
(* with an answer.                                                         *)
LEMMA SpeakingActions ==
  ASSUME Basics
  PROVE  \A L \in SomeLogs, n \in Node :
           /\ MatchInv(L)
           /\ broadcastHeartbeat(n) \/ \E m \in msgs : handleAppendResult(n, m) /\ ~ stepDown(n, m.term)
           => IsSpeaking(n)
(* Heartbeats. *)
<1>broadcastHeartbeatSpeaks.
    ASSUME NEW L, MatchInv(L), NEW n \in Node, broadcastHeartbeat(n)
    PROVE  Speaks(n, {heartbeatPeer(n, p, log(n), nextIndex[n][p], commitIndex[n]) : p \in Node \ {n}})
  <2> USE <1>broadcastHeartbeatSpeaks
  <2> DEFINE R == {heartbeatPeer(n, p, log(n), nextIndex[n][p], commitIndex[n]) : p \in Node \ {n}}
  <2>1. /\ state[n] = "Leader" /\ msgs' = msgs \cup R
        /\ UNCHANGED <<state, mem, disk, writes, nextIndex, matchIndex, termStart, commitIndex, restarts, given>>
    BY SMTT(30) DEF broadcastHeartbeat, leaderVars
  <2>2. /\ mem[n].term \in Term /\ restarts[n] \in Nat /\ commitIndex[n] \in Nat /\ mem[n].log \in Seq(Entry)
        /\ nextIndex \in [Node -> [Node -> Nat]] /\ matchIndex \in [Node -> [Node -> Nat]]
        /\ commitIndex \in [Node -> Nat] /\ \A p \in Node : nextIndex[n][p] \in Nat \ {0}
    BY <2>1, LeaderFacts
  <2>3. ASSUME NEW x \in R
        PROVE  /\ x \in AppendRequests /\ x.type = "AppendEntries" /\ x.from = n /\ x.term = mem[n].term
               /\ PieceOf(mem[n].log, x)
    <3>1. PICK p \in Node : x = AppendEntries(n, p, mem[n].log, nextIndex[n][p], commitIndex[n], 0)
      BY DEF heartbeatPeer, log
    <3>2. PICK next \in Nat \ {0}, ci \in Nat, l \in Seq(Entry) :
             next = nextIndex[n][p] /\ ci = commitIndex[n] /\ l = mem[n].log
      BY ZenonT(30), <2>2
    <3>3. PICK m \in AppendRequests : RequestOf(m, n, p, l, next, ci, 0)
      <4>1. restarts[n] \in Nat /\ mem[n].term \in Term /\ 0 \in Nat
        BY <2>2
      <4>2. QED BY Zenon, <4>1, AppendEntriesIs
    <3>4. x = m
      BY Zenon, <3>1, <3>2, <3>3 DEF RequestOf
    <3>5. QED BY Zenon, <3>2, <3>3, <3>4 DEF RequestOf
  <2> HIDE DEF R
  <2>4. \A p \in Node : nextIndex[n][p] >= 1
    BY <2>2
  <2>5. Speaks(n, R)
    BY <2>1, <2>2, <2>3, <2>4 DEF Speaks
  <2>6. QED BY <2>5 DEF R
(* Where to go back to after a refusal. *)
<1>BacktrackIs.
    ASSUME NEW L, MatchInv(L), NEW n \in Node, state[n] = "Leader", NEW m \in AppendReplies
    PROVE  backtrack(n, m) \in Nat \ {0}
  <2> USE <1>BacktrackIs
  <2>1. mem[n].log \in Seq(Entry) /\ Len(mem[n].log) \in Nat /\ \A p \in Node : matchIndex[n][p] \in Nat
    BY LeaderFacts
  <2>2. m.conflictIndex \in Nat /\ m.from \in Node
    BY DEF AppendReplies
  <2>3. PICK k \in Nat : k = matchIndex[n][m.from]
    BY Zenon, <2>1, <2>2
  <2> DEFINE T == lastIndexOfTerm(log(n), m.conflictTerm)
             hint == IF m.conflictTerm # 0 /\ T # {} THEN Max(T) + 1 ELSE m.conflictIndex
  <2>4. hint \in Nat
    <3>1. CASE T # {}
      <4>1. T \subseteq Nat /\ \A y \in T : y <= Len(mem[n].log)
        BY <2>1 DEF lastIndexOfTerm, log
      <4> HIDE DEF T
      <4>2. Max(T) \in T
        BY Zenon, <2>1, <3>1, <4>1, MaxIs
      <4>3. PICK z \in Nat : z = Max(T)
        BY Zenon, <4>1, <4>2
      <4>4. QED BY <2>2, <4>3
    <3>2. CASE T = {}
      BY <2>2, <3>2
    <3>3. QED BY <3>1, <3>2
  <2>5. backtrack(n, m) = Max({hint, 1, k + 1})
    BY <2>3 DEF backtrack
  <2> HIDE DEF hint
  <2> DEFINE A == {hint, 1, k + 1}
  <2>6. A \subseteq Nat /\ A # {} /\ hint + k + 1 \in Nat /\ 1 \in A /\ \A y \in A : y <= hint + k + 1
    BY <2>4
  <2> HIDE DEF A
  <2>7. Max(A) \in A /\ \A y \in A : Max(A) >= y
    BY Zenon, <2>6, MaxIs
  <2>8. Max(A) \in Nat \ {0}
    <3>1. PICK z \in Nat : z = Max(A)
      BY Zenon, <2>6, <2>7
    <3>2. z >= 1
      BY SMTT(30), <2>6, <2>7, <3>1
    <3>3. QED BY <3>1, <3>2
  <2>9. QED BY <2>5, <2>8 DEF A
(* A refusal. *)
<1>retryRejectedSpeaks.
    ASSUME NEW L, MatchInv(L), NEW n \in Node, NEW m \in AppendReplies, state[n] = "Leader", retryRejected(n, m),
           UNCHANGED <<state, mem, writes, termStart, disk, restarts, given>>
    PROVE  Speaks(n, {replicateToPeer(n, m.from, log(n), backtrack(n, m), commitIndex[n])})
  <2> USE <1>retryRejectedSpeaks
  <2>1. /\ mem[n].term \in Term /\ restarts[n] \in Nat /\ commitIndex[n] \in Nat /\ mem[n].log \in Seq(Entry)
        /\ nextIndex \in [Node -> [Node -> Nat]] /\ matchIndex \in [Node -> [Node -> Nat]]
        /\ commitIndex \in [Node -> Nat] /\ (\A p \in Node : nextIndex[n][p] \in Nat \ {0}) /\ situation.batch \in Nat
    BY LeaderFacts
  <2>2. PICK next \in Nat \ {0} : next = backtrack(n, m)
    BY <1>BacktrackIs
  <2>3. PICK p \in Node : p = m.from
    BY DEF AppendReplies
  <2>4. PICK ci \in Nat, l \in Seq(Entry), b \in Nat : ci = commitIndex[n] /\ l = mem[n].log /\ b = situation.batch
    BY SMTT(30), <2>1
  <2>5. PICK x \in AppendRequests : RequestOf(x, n, p, l, next, ci, b)
    BY ZenonT(30), <2>1, AppendEntriesIs
  <2>6. x = replicateToPeer(n, m.from, log(n), backtrack(n, m), commitIndex[n])
    BY <2>2, <2>3, <2>4, <2>5 DEF RequestOf, replicateToPeer, log
  <2>7. nextIndex' = [nextIndex EXCEPT ![n][p] = next] /\ UNCHANGED <<matchIndex, commitIndex>> /\ msgs' = msgs \cup {x}
    BY <2>2, <2>3, <2>6 DEF retryRejected
  <2>8. /\ nextIndex' \in [Node -> [Node -> Nat]] /\ \A q \in Node : q # n => nextIndex'[q] = nextIndex[q]
        /\ \A q \in Node : nextIndex'[n][q] \in Nat \ {0}
    BY ZenonT(30), <2>1, <2>7
  <2>9. Speaks(n, {x})
    <3>1. \A q \in Node : nextIndex'[n][q] >= 1
      BY <2>8
    <3>2. x \in AppendRequests /\ x.type = "AppendEntries" /\ x.from = n /\ x.term = mem[n].term /\ PieceOf(mem[n].log, x)
      BY ZenonT(30), <2>4, <2>5 DEF RequestOf
    <3>3. QED BY ZenonT(30), <2>1, <2>7, <2>8, <3>1, <3>2 DEF Speaks
  <2>10. QED BY SMTT(30), <2>6, <2>9
(* An acknowledgement. *)
<1>noteAcknowledgedSpeaks.
    ASSUME NEW L, MatchInv(L), NEW n \in Node, NEW m \in AppendReplies, state[n] = "Leader", noteAcknowledged(n, m),
           UNCHANGED <<state, mem, writes, termStart, disk, restarts, given>>
    PROVE  \E R : Speaks(n, R) /\ \A x \in R : /\ nextAfter(n, m.from, m.last) <= Len(log(n))
                                               /\ x.prev = nextAfter(n, m.from, m.last) - 1
                                               /\ x.commit = commitIndex'[n]
  <2> USE <1>noteAcknowledgedSpeaks
  <2>1. /\ mem[n].term \in Term /\ restarts[n] \in Nat /\ commitIndex[n] \in Nat /\ mem[n].log \in Seq(Entry)
        /\ nextIndex \in [Node -> [Node -> Nat]] /\ matchIndex \in [Node -> [Node -> Nat]] /\ termStart[n] \in Nat
        /\ commitIndex \in [Node -> Nat] /\ (\A p \in Node : nextIndex[n][p] \in Nat \ {0}) /\ situation.batch \in Nat
    BY SMTT(30), LeaderFacts
  <2>2. PICK p \in Node, last \in Nat : p = m.from /\ last = m.last
    BY SMTT(30) DEF AppendReplies, noteAcknowledged
  <2>3. PICK a \in Nat \ {0}, g \in Nat : a = nextIndex[n][p] /\ g = matchIndex[n][p]
    BY SMTT(30), <2>1
  <2>4. PICK next \in Nat \ {0} : next = nextAfter(n, p, last)
    <3>1. Max({a, last + 1}) = IF a >= last + 1 THEN a ELSE last + 1
      BY MaxOfTwo
    <3>2. QED BY <2>3, <3>1 DEF nextAfter
  <2>5. PICK h \in Nat : h = Max({g, last})
    <3>1. Max({g, last}) = IF g >= last THEN g ELSE last
      BY SMTT(30), MaxOfTwo
    <3>2. QED BY <3>1
  <2> DEFINE match == [matchIndex[n] EXCEPT ![p] = h]
             j == maybeAdvanceCommit(n, log(n), match, stableIndex(disk[n], writes[n], log(n)))
  <2>6. match \in [Node -> Nat] /\ match = [matchIndex[n] EXCEPT ![p] = Max({@, last})]
    BY <2>1, <2>3, <2>5
  <2>7. j \in Nat /\ j >= commitIndex[n]
    <3> HIDE DEF match
    <3>1. log(n) \in Seq(Entry)
      BY <2>1 DEF log
    <3>2. QED BY ZenonT(30), <2>1, <3>1, AdvanceIs
  <2>8. /\ matchIndex' = [matchIndex EXCEPT ![n] = match]
        /\ nextIndex' = [nextIndex EXCEPT ![n][p] = next]
        /\ setCommitIndex(n, log(n), j, currentTerm(n))
        /\ msgs' = msgs \cup {r \in {replicateToPeer(n, p, log(n), next, j)} : next <= Len(log(n))}
    BY ZenonT(30), <2>2, <2>4, <2>6 DEF noteAcknowledged
  <2> HIDE DEF j, match
  <2>9. commitIndex' \in [Node -> Nat] /\ commitIndex'[n] = j
    <3>1. /\ commitIndex' \in [Node -> Nat]
          /\ commitIndex'[n] = (IF j >= commitIndex[n] THEN j ELSE commitIndex[n])
      BY ZenonT(30), <2>1, <2>7, <2>8, CommitTyped
    <3>2. QED BY <2>7, <3>1
  <2>10. /\ nextIndex' \in [Node -> [Node -> Nat]] /\ matchIndex' \in [Node -> [Node -> Nat]]
         /\ \A q \in Node : q # n => nextIndex'[q] = nextIndex[q]
         /\ \A q \in Node : nextIndex'[n][q] \in Nat \ {0}
    BY ZenonT(30), <2>1, <2>6, <2>8
  <2>10a. \A q \in Node : nextIndex'[n][q] >= 1
    <3>1. SUFFICES ASSUME NEW q \in Node PROVE nextIndex'[n][q] >= 1
      OBVIOUS
    <3>2. PICK z \in Nat \ {0} : z = nextIndex'[n][q]
      BY <2>10
    <3>3. QED BY <3>2
  <2>11. PICK l \in Seq(Entry), b \in Nat : l = mem[n].log /\ b = situation.batch
    BY SMTT(30), <2>1
  <2>12. PICK x \in AppendRequests : RequestOf(x, n, p, l, next, j, b)
    BY ZenonT(60), <2>1, <2>7, AppendEntriesIs
  <2>13. x = replicateToPeer(n, p, log(n), next, j)
    BY Zenon, <2>11, <2>12 DEF RequestOf, replicateToPeer, log
  <2> DEFINE R == {r \in {x} : next <= Len(log(n))}
  <2>14. msgs' = msgs \cup R
    BY <2>8, <2>13
  <2>15. \A r \in R : r = x /\ next <= Len(log(n))
    OBVIOUS
  <2> HIDE DEF R
  <2>16. Speaks(n, R)
    <3>2. x \in AppendRequests /\ x.type = "AppendEntries" /\ x.from = n /\ x.term = mem[n].term /\ PieceOf(mem[n].log, x)
      BY <2>11, <2>12 DEF RequestOf
    <3>3. QED BY ZenonT(60), <2>9, <2>10, <2>10a, <2>14, <2>15, <3>2 DEF Speaks
  <2>17. x.prev = next - 1 /\ x.commit = j
    BY ZenonT(30), <2>12 DEF RequestOf
  <2>18. next = nextAfter(n, m.from, m.last)
    BY <2>2, <2>4
  <2>19. QED BY ZenonT(60), <2>9, <2>15, <2>16, <2>17, <2>18
<1>SpeakingActions.
    ASSUME NEW L \in SomeLogs, MatchInv(L), NEW n \in Node,
           broadcastHeartbeat(n) \/ \E m \in msgs : handleAppendResult(n, m) /\ ~ stepDown(n, m.term)
    PROVE  IsSpeaking(n)
  <2> USE <1>SpeakingActions
  <2>1. CASE broadcastHeartbeat(n)
    BY Zenon, <2>1, <1>broadcastHeartbeatSpeaks DEF IsSpeaking
  <2>2. CASE \E m \in msgs : handleAppendResult(n, m) /\ ~ stepDown(n, m.term)
    <3>1. PICK m \in msgs : handleAppendResult(n, m) /\ ~ stepDown(n, m.term)
      BY <2>2
    <3>2. /\ m.type = "AppendReply" /\ state[n] = "Leader"
          /\ retryRejected(n, m) \/ noteAcknowledged(n, m)
          /\ UNCHANGED <<state, mem, writes, termStart, disk, restarts, given>>
      BY ZenonT(30), <3>1 DEF handleAppendResult
    <3>3. m \in AppendReplies
      BY <3>2, MessageTyped DEF MatchInv
    <3>4. QED BY ZenonT(30), <3>2, <3>3, <1>retryRejectedSpeaks, <1>noteAcknowledgedSpeaks DEF IsSpeaking
  <2>3. QED BY <2>1, <2>2
<1>q. QED BY <1>SpeakingActions

(* handleWriteCompletions is sound. *)
LEMMA CompletionIsSound ==
  ASSUME Basics
  PROVE  \A L \in SomeLogs, n \in Node :
           /\ MatchInv(L)
           /\ handleWriteCompletions(n)
           => Sound(n, {}, {}, {}, L)
(* It may advance the commit index. *)
<1>CompletionCommit.
    ASSUME NEW L, MatchInv(L), NEW n \in Node, handleWriteCompletions(n)
    PROVE  commitIndex' \in [Node -> Nat]
  <2> USE <1>CompletionCommit
  <2>1. Types
    BY DEF MatchInv
  <2>2. CASE state[n] = "Leader"
    <3>1. /\ commitIndex[n] \in Nat /\ termStart[n] \in Nat /\ mem[n].log \in Seq(Entry) /\ commitIndex \in [Node -> Nat]
      BY <2>2, LeaderFacts
    <3>2. PICK j \in Nat : setCommitIndex(n, log(n), j, currentTerm(n))
      <4> DEFINE stable == stableIndex(Head(writes[n]).image, Tail(writes[n]), log(n))
                 j == maybeAdvanceCommit(n, log(n), matchIndex[n], stable)
      <4>1. setCommitIndex(n, log(n), j, currentTerm(n))
        BY ZenonT(30), <2>2 DEF handleWriteCompletions
      <4> HIDE DEF stable
      <4>2. j \in Nat
        <5>1. log(n) \in Seq(Entry)
          BY <3>1 DEF log
        <5>2. QED BY <3>1, <5>1, AdvanceIs
      <4> HIDE DEF j
      <4>3. QED BY <4>1, <4>2
    <3>3. QED BY ZenonT(30), <3>1, <3>2, CommitTyped
  <2>3. CASE state[n] # "Leader"
    BY Zenon, <2>1, <2>3 DEF handleWriteCompletions, Types
  <2>4. QED BY <2>2, <2>3
<1>CompletionIsSound.
    ASSUME NEW L \in SomeLogs, MatchInv(L), NEW n \in Node, handleWriteCompletions(n)
    PROVE  Sound(n, {}, {}, {}, L)
  <2> USE <1>CompletionIsSound
  <2>1. Types /\ (\A p \in Node : QueueOK(p)) /\ LeadersOK(L)
    BY DEF MatchInv
  <2>0. PICK Q : Completes(n, Q)
    <3> DEFINE O == {m \in Head(writes[n]).then : m.type = "RequestVote" /\ (state[n] # "Candidate" \/ m.term # currentTerm(n))}
    <3>1. Completes(n, Head(writes[n]).then \ O)
      BY DEF handleWriteCompletions, Completes
    <3>2. QED BY Zenon, <3>1
  <2>2. /\ Moves(n, {}, {}, {}) /\ writes' \in [Node -> Seq(Write)] /\ disk' \in [Node -> Image]
        /\ \A p \in Node : QueueOK(p)'
        /\ msgs' \subseteq Promise \cup AppendRequests
    BY Zenon, <2>0, <2>1, CompletionMoves
  <2>3. UNCHANGED <<state, mem, nextIndex, matchIndex, termStart, restarts, given>>
    BY Zenon DEF handleWriteCompletions, leaderVars
  <2>4. Types'
    BY ZenonT(60), <2>1, <2>2, <2>3, <1>CompletionCommit DEF Types
  <2>5. Voting(n, {}, {}, {})
    BY SMTT(30), <2>1, <2>3, NodeTyped, SilentVoting
  <2>6. Leading(n)
    BY <2>1, <2>3 DEF Leading, LeadersOK
  <2>7. QED BY ZenonT(30), <2>2, <2>4, <2>5, <2>6 DEF Sound
<1>q. QED BY <1>CompletionIsSound

(* A crash is sound. *)
LEMMA CrashIsSound ==
  ASSUME NEW L \in SomeLogs, MatchInv(L), NEW n \in Node, Crash(n)
  PROVE  Sound(n, {}, {}, {}, L)
<1>1. Types /\ (\A p \in Node : QueueOK(p))
  BY DEF MatchInv
<1>0. PICK image : Stops(n, image)
  BY ZenonT(60) DEF Crash, Stops, applyFollowerTransition
<1>2. /\ Moves(n, {}, {}, {}) /\ writes' \in [Node -> Seq(Write)] /\ disk' \in [Node -> Image]
      /\ mem' \in [Node -> Image]
      /\ \A p \in Node : QueueOK(p)'
  BY Zenon, <1>0, <1>1, CrashMoves
<1>3. /\ applyFollowerTransition(n) /\ commitIndex' = [commitIndex EXCEPT ![n] = 0]
      /\ restarts' = [restarts EXCEPT ![n] = @ + 1] /\ msgs' = msgs /\ given' = given
  BY SMTT(30) DEF Crash
<1>4. /\ state' \in [Node -> State] /\ nextIndex' \in [Node -> [Node -> Nat]]
      /\ matchIndex' \in [Node -> [Node -> Nat]] /\ termStart' \in [Node -> Nat]
      /\ state'[n] = "Follower"
      /\ \A p \in Node : p # n => state'[p] = state[p] /\ termStart'[p] = termStart[p] /\ nextIndex'[p] = nextIndex[p]
  BY SMTT(30), <1>1, <1>3, FollowerVars
<1>5. commitIndex' \in [Node -> Nat] /\ restarts' \in [Node -> Nat] /\ given' \in DOMAIN Situations
      /\ msgs' \subseteq Promise \cup AppendRequests
  BY <1>1, <1>3 DEF Types
<1>6. Types'
  BY Zenon, <1>2, <1>4, <1>5 DEF Types
<1>7. Voting(n, {}, {}, {})
  <2>1. mem'[n].term \in Nat
    <3>1. mem'[n].term \in 0..MaxTerm
      BY <1>2 DEF Image
    <3>2. QED BY <3>1
  <2>2. QED BY Zenon, <1>4, <2>1, SilentVoting
<1>8. Leading(n)
  BY <1>4 DEF Leading
<1>9. QED BY <1>2, <1>6, <1>7, <1>8, Zenon DEF Sound

-----------------------------------------------------------------------------
(* A leader that appends an entry to its log queues one write. *)
LEMMA AppendsWrites ==
  ASSUME Types, \A p \in Node : QueueOK(p), NEW n \in Node, NEW x, NEW R, Appends(n, x, R)
  PROVE  \E im \in Image, ops \in Seq(Write) : AppendsAs(n, x, R, im, ops)
<1>1. mem[n] \in Image /\ mem[n].log \in Seq(Entry) /\ writes[n] \in Seq(Write) /\ mem \in [Node -> Image]
      /\ mem[n].term \in 0..MaxTerm /\ Len(writes[n]) \in Nat
  <2>1. mem \in [Node -> Image]
    BY DEF Types
  <2>2. QED BY Zenon, <2>1, NodeTyped DEF Image
<1>2. PICK l2 \in Seq(Entry) : l2 = Append(mem[n].log, x)
  BY Zenon, <1>1, SeqGrown DEF Appends
<1>3. PICK im \in Image : im = [mem[n] EXCEPT !.log = l2]
  BY Zenon, <1>1, <1>2 DEF Image
<1>4. im.term = mem[n].term /\ im.vote = mem[n].vote /\ im.log = Append(mem[n].log, x)
  BY <1>1, <1>2, <1>3 DEF Image
<1>5. PICK o \in Write : o = Op("Append", im)
  BY Zenon DEF Op, Write, Kind
<1>5a. o.then = {} /\ o.image = im /\ o.kind = "Append"
  BY <1>5 DEF Op
<1>6. PICK ops \in Seq(Write) : ops = <<o>>
  <2>1. <<o>> \in Seq(Write)
    OBVIOUS
  <2>2. QED BY <2>1, Zenon
<1>7. Unasked(ops) /\ OpImages(ops) = {im} /\ Len(ops) = 1 /\ ops[1] = o
  <2>1. Len(ops) = 1 /\ ops[1] = o
    BY <1>6
  <2>2. QED BY <1>5a, <2>1 DEF Unasked, OpImages
<1>8. Append(writes[n], o) = writes[n] \o ops
  <2>1. \A w \in Seq(Write) : Append(w, o) = w \o <<o>>
    OBVIOUS
  <2>2. QED BY <1>1, <1>6, <2>1, Zenon
<1>9. Queued(n, writes[n] \o ops, 0, R)
  <2>1. replyWhenDurable(n, writes[n] \o ops, 0, R)
    BY ZenonT(30), <1>2, <1>3, <1>5, <1>8 DEF Appends
  <2>2. QED BY <2>1, ReplyQueues
<1>10. mem'[n] = im /\ mem' \in [Node -> Image] /\ \A p \in Node : p # n => mem'[p] = mem[p]
  BY <1>1, <1>2, <1>3 DEF Appends
<1>11. state' \in [Node -> State] /\ \A p \in Node : p # n => state'[p] = state[p]
  BY DEF Appends, Types, State
<1>12. Writing(n, ops, 0, R)
  <2>1. 0 \in 0..Len(writes[n] \o ops)
    BY <1>1, <1>6
  <2>2. MayWait(0, R)
    BY DEF MayWait
  <2>3. QED BY SMTT(30), <1>7, <1>9, <1>10, <1>11, <2>1, <2>2 DEF Writing, Appends
<1>13. Moves(n, {im}, R, WaitImages(n, ops, 0)) /\ writes' \in [Node -> Seq(Write)]
  BY ZenonT(30), <1>7, <1>12, WritingMoves
<1>14. \A p \in Node : QueueOK(p)'
  <2>1. Leaves(n, ops)
    <3>1. ops # <<>> /\ Len(ops) = 1
      BY <1>6
    <3>2. \A k \in 1..Len(ops) : ops[k].image.term = mem'[n].term
      BY <1>5a, <1>7, <1>10
    <3>3. mem'[n].term \in 0..MaxTerm /\ mem[n].term <= mem'[n].term /\ mem[n].term = mem'[n].term
      BY <1>1, <1>4, <1>10
    <3>4. mem'[n] = ops[Len(ops)].image
      BY SMTT(30), <1>5a, <1>7, <1>10
    <3>5. QED BY <3>1, <3>2, <3>3, <3>4 DEF Leaves
  <2>2. AckTerms(n, ops, 0, R)
    BY DEF AckTerms
  <2>3. QED BY SMTT(30), <1>12, <2>1, <2>2, WritingQueue
<1>15. Types'
  <2>1. msgs' \subseteq Promise \cup AppendRequests
    <3>1. msgs' = msgs \cup R
      BY <1>9 DEF Queued, Sent
    <3>2. QED BY <3>1 DEF Types, Appends
  <2>2. given' \in DOMAIN Situations /\ disk' \in [Node -> Image] /\ restarts' \in [Node -> Nat]
        /\ nextIndex' \in [Node -> [Node -> Nat]] /\ matchIndex' \in [Node -> [Node -> Nat]]
        /\ termStart' \in [Node -> Nat] /\ commitIndex' \in [Node -> Nat]
    BY ZenonT(60) DEF Appends, Types
  <2>3. QED BY <1>10, <1>11, <1>13, <2>1, <2>2 DEF Types
<1>16. AppendsAs(n, x, R, im, ops)
  BY <1>4, <1>5, <1>6, <1>7, <1>10, <1>13, <1>14, <1>15 DEF AppendsAs
<1>17. QED BY <1>16

(* The no-op of a new leader is an entry. *)
LEMMA NoopEntry ==
  ASSUME NEW t \in Term, NEW c \in Command \cup {Noop}
  PROVE  [term |-> t, val |-> c] \in Entry /\ [term |-> t, val |-> c].term = t
BY DEF Entry, Term

(* becomeLeader appends a no-op of the new term. *)
LEMMA winElectionAppends ==
  ASSUME Types, NEW n \in Node, winElection(n), mem[n].term \in Term
  PROVE  /\ Appends(n, [term |-> mem[n].term, val |-> Noop],
                    {heartbeatPeer(n, p, Append(mem[n].log, [term |-> mem[n].term, val |-> Noop]),
                                   Len(mem[n].log) + 1, commitIndex[n]) : p \in Node \ {n}})
         /\ termStart'[n] = Len(Append(mem[n].log, [term |-> mem[n].term, val |-> Noop]))
<1>1. PICK T \in Term : T = mem[n].term
  OBVIOUS
<1>2. PICK x \in Entry : x = [term |-> T, val |-> Noop] /\ x.term = T
  BY ZenonT(30), NoopEntry
<1>3. mem[n].log \in Seq(Entry) /\ Len(mem[n].log) \in Nat /\ restarts[n] \in Nat /\ commitIndex[n] \in Nat
  BY SMTT(30), NodeTyped DEF Types
<1>4a. PICK l \in Seq(Entry) : l = Append(mem[n].log, x)
  BY Zenon, <1>3, SeqGrown
<1>4b. PICK next \in Nat \ {0} : next = Len(mem[n].log) + 1
  BY SMTT(30), <1>3
<1>4. l = Append(mem[n].log, x) /\ next = Len(mem[n].log) + 1
  BY <1>4a, <1>4b
<1> DEFINE R == {heartbeatPeer(n, p, l, next, commitIndex[n]) : p \in Node \ {n}}
<1>5. \A y \in R : /\ y \in AppendRequests /\ y.type = "AppendEntries" /\ y.from = n /\ y.term = mem[n].term
                   /\ PieceOf(l, y)
  <2>1. SUFFICES ASSUME NEW p \in Node, NEW y, y = heartbeatPeer(n, p, l, next, commitIndex[n])
                 PROVE  /\ y \in AppendRequests /\ y.type = "AppendEntries" /\ y.from = n /\ y.term = mem[n].term
                        /\ PieceOf(l, y)
    OBVIOUS
  <2>2. PICK ci \in Nat : ci = commitIndex[n]
    BY <1>3
  <2>3. PICK z \in AppendRequests : RequestOf(z, n, p, l, next, ci, 0)
    BY <1>1, <1>3, AppendEntriesIs
  <2>4. y = z
    BY ZenonT(30), <2>1, <2>2, <2>3 DEF RequestOf, heartbeatPeer
  <2>5. QED BY <2>3, <2>4 DEF RequestOf
<1>6. /\ Len(l) <= MaxLog
      /\ state' = [state EXCEPT ![n] = "Leader"]
      /\ mem' = [mem EXCEPT ![n] = [mem[n] EXCEPT !.log = l]]
      /\ nextIndex' = [nextIndex EXCEPT ![n] = [p \in Node |-> next]]
      /\ matchIndex' = [matchIndex EXCEPT ![n] = NoPeers]
      /\ termStart' = [termStart EXCEPT ![n] = Len(l)]
      /\ replyWhenDurable(n, Append(writes[n], Op("Append", [mem[n] EXCEPT !.log = l])), 0, R)
      /\ UNCHANGED <<disk, commitIndex, restarts, given, committed>>
  BY <1>1, <1>2, <1>4 DEF winElection, becomeLeader, log, currentTerm
<1> HIDE DEF R
<1>7. Len(l) \in Nat
  BY SeqLen
<1>8. /\ nextIndex' \in [Node -> [Node -> Nat]] /\ matchIndex' \in [Node -> [Node -> Nat]]
      /\ termStart' \in [Node -> Nat] /\ commitIndex' \in [Node -> Nat] /\ termStart'[n] = Len(l)
      /\ \A p \in Node : p # n => termStart'[p] = termStart[p] /\ nextIndex'[p] = nextIndex[p]
      /\ \A p \in Node : nextIndex'[n][p] = next
  BY <1>6, <1>7 DEF Types, NoPeers
<1>9. \A p \in Node : nextIndex'[n][p] >= 1
  BY <1>8
<1>10. Appends(n, x, R)
  BY <1>1, <1>2, <1>4, <1>5, <1>6, <1>8, <1>9 DEF Appends
<1>11. QED BY Zenon, <1>1, <1>2, <1>4, <1>8, <1>10 DEF R

(* Propose appends the command. *)
LEMMA ProposeAppends ==
  ASSUME NEW L \in SomeLogs, MatchInv(L), NEW n \in Node, NEW c \in situation.propose, Propose(n, c)
  PROVE  Appends(n, [term |-> mem[n].term, val |-> c],
                 {replicateToPeer(n, p, Append(mem[n].log, [term |-> mem[n].term, val |-> c]),
                                  nextIndex[n][p], commitIndex[n]) : p \in Node \ {n}})
<1>0. Types /\ state[n] = "Leader"
  BY DEF MatchInv, Propose
<1>1. /\ mem[n].term \in Term /\ restarts[n] \in Nat /\ commitIndex[n] \in Nat /\ mem[n].log \in Seq(Entry)
      /\ nextIndex \in [Node -> [Node -> Nat]] /\ matchIndex \in [Node -> [Node -> Nat]] /\ Len(mem[n].log) \in Nat
      /\ commitIndex \in [Node -> Nat] /\ (\A p \in Node : nextIndex[n][p] \in Nat \ {0}) /\ situation.batch \in Nat
  BY <1>0, LeaderFacts
<1>2. c \in Command
  <2>1. situation \in Range(Situations)
    BY SMTT(30), <1>0 DEF situation, Types, Range
  <2>2. QED BY ZenonT(30), <2>1, ReplicationConstants
<1>3. PICK T \in Term : T = mem[n].term
  BY <1>1
<1>4. PICK x \in Entry : x = [term |-> T, val |-> c] /\ x.term = T
  BY Zenon, <1>2, NoopEntry
<1>5. PICK l \in Seq(Entry) : l = Append(mem[n].log, x)
  BY ZenonT(30), <1>1, SeqGrown
<1> DEFINE R == {replicateToPeer(n, p, l, nextIndex[n][p], commitIndex[n]) : p \in Node \ {n}}
<1>6. \A y \in R : /\ y \in AppendRequests /\ y.type = "AppendEntries" /\ y.from = n /\ y.term = mem[n].term
                   /\ PieceOf(l, y)
  <2>1. SUFFICES ASSUME NEW p \in Node, NEW y, y = replicateToPeer(n, p, l, nextIndex[n][p], commitIndex[n])
                 PROVE  /\ y \in AppendRequests /\ y.type = "AppendEntries" /\ y.from = n /\ y.term = mem[n].term
                        /\ PieceOf(l, y)
    OBVIOUS
  <2>2. PICK ci \in Nat, next \in Nat \ {0}, b \in Nat : ci = commitIndex[n] /\ next = nextIndex[n][p] /\ b = situation.batch
    BY <1>1
  <2>3. PICK z \in AppendRequests : RequestOf(z, n, p, l, next, ci, b)
    BY Zenon, <1>1, AppendEntriesIs
  <2>4. y = z
    BY Zenon, <2>1, <2>2, <2>3 DEF RequestOf, replicateToPeer
  <2>5. QED BY <2>3, <2>4 DEF RequestOf
<1>7. /\ Len(l) <= MaxLog
      /\ mem' = [mem EXCEPT ![n] = [mem[n] EXCEPT !.log = l]]
      /\ replyWhenDurable(n, Append(writes[n], Op("Append", [mem[n] EXCEPT !.log = l])), 0, R)
      /\ UNCHANGED <<state, disk, nextIndex, matchIndex, termStart, commitIndex, restarts, given, committed>>
  BY <1>3, <1>4, <1>5 DEF Propose, leaderVars, log, currentTerm
<1> HIDE DEF R
<1>8. state' = [state EXCEPT ![n] = "Leader"]
  BY <1>0, <1>7 DEF Types
<1>9. \A p \in Node : nextIndex'[n][p] >= 1
  BY <1>1, <1>7
<1>10. termStart' \in [Node -> Nat]
  BY <1>0, <1>7 DEF Types
<1>11. Appends(n, x, R)
  BY ZenonT(30), <1>1, <1>3, <1>4, <1>5, <1>6, <1>7, <1>8, <1>9, <1>10 DEF Appends
<1>12. QED BY Zenon, <1>3, <1>4, <1>5, <1>11 DEF R

(* The logs that exist are the logs of the images, so they match. *)
LEMMA MatchInvMatches ==
  ASSUME NEW L \in SomeLogs, MatchInv(L)
  PROVE  LogMatching
<1>1. ASSUME NEW k \in Logs PROVE k \in Seq(Entry) /\ Matching(L, k)
  <2>0. PICK n \in Node : \E im \in {mem[n], disk[n]} \cup Ahead(writes[n]) : k = im.log
    BY DEF Logs
  <2>1. PICK im \in {mem[n], disk[n]} \cup Ahead(writes[n]) : k = im.log
    BY <2>0
  <2>2. im \in Images(n)
    <3>1. CASE im \in {mem[n], disk[n]}
      BY ZenonT(60), <3>1, MemIsImage DEF MatchInv
    <3>2. CASE im \in Ahead(writes[n])
      <4>1. PICK i \in 1..Len(writes[n]) : im = writes[n][i].image
        BY <3>2 DEF Ahead
      <4>2. i \in 0..Len(writes[n]) /\ i # 0
        BY NodeTyped DEF MatchInv
      <4>3. QED BY SMTT(30), <4>1, <4>2 DEF Images, ImagesOf, ImageOf
    <3>3. QED BY <3>1, <3>2
  <2>3. QED BY ZenonT(60), <2>1, <2>2, LogOfImage DEF MatchInv, ImagesOK
<1>2. SUFFICES ASSUME NEW k \in Logs, NEW l \in Logs, NEW i \in 1..Min({Len(k), Len(l)}), k[i].term = l[i].term
               PROVE  SameTo(k, l, i)
  BY DEF LogMatching
<1>3. k \in Seq(Entry) /\ l \in Seq(Entry) /\ Matching(L, k) /\ Matching(L, l)
  BY <1>1
<1>4. Len(k) \in Nat /\ Len(l) \in Nat
  BY <1>3, SeqLen
<1>5. i \in 1..Len(k) /\ i <= Len(l)
  BY <1>4, MinOfTwo
<1>6. Alike(k, l)
  BY <1>3, MatchingAlike
<1>7. QED BY ZenonT(60), <1>2, <1>5, <1>6 DEF Alike

(* winElection: the candidate was elected and nobody had led its term. *)
LEMMA winElectionWins ==
  ASSUME Basics, NEW L \in SomeLogs, MatchInv(L), NEW n \in Node, winElection(n)
  PROVE  /\ mem[n].term \in Term /\ Elected(n, mem[n].term) /\ L[mem[n].term] = <<>>
<1>1. Types /\ Votes /\ LeaderLogs(L) /\ (\A p \in Node : QueueOK(p))
  BY DEF MatchInv
<1> DEFINE T == mem[n].term
           Q == (receivedVoteSet(n) \cup {n}) \cap Voter
<1>2. state[n] = "Candidate" /\ Quorate(Q) /\ Q \subseteq Voter
  BY DEF winElection, electionWon, Quorate
<1>3. \A v \in receivedVoteSet(n) : Voted(v, n, T)
  BY DEF receivedVoteSet, Voted, IsVote, Choice, currentTerm
<1>4. PICK r \in msgs : r.type = "RequestVote" /\ r.from = n /\ r.term = T
  <2> HIDE DEF Q
  <2>1. PICK v \in Q : v # n
    BY <1>1, <1>2, QuorateIsTwo
  <2>2. v \in receivedVoteSet(n)
    BY <2>1 DEF Q
  <2>3. PICK x \in msgs : x.type = "VoteReply" /\ x.to = n /\ x.granted /\ x.term = T /\ x.from = v
    BY <2>2 DEF receivedVoteSet, currentTerm
  <2>4. v \in Node
    BY <2>1, ReplicationConstants DEF Q
  <2>5. Says(v, x)
    BY ZenonT(60), <1>1, <2>3, <2>4, SentIsSaid, NodeTyped
  <2>6. QED BY SMTT(30), <1>1, <2>3, <2>4, <2>5 DEF Votes, VotesAsked
<1>5. T \in Term
  <2>1. r \in RequestVotes
    BY SMTT(30), <1>1, <1>4, MessageTyped
  <2>2. QED BY SMTT(30), <1>4, <2>1 DEF RequestVotes
<1>6. Voted(n, n, T)
  BY <1>4 DEF Voted, IsVote, Choice
<1>7. Elected(n, T)
  <2>1. \A v \in Q : Voted(v, n, T)
    BY <1>3, <1>6
  <2> HIDE DEF Q, T
  <2>2. QED BY <1>2, <2>1 DEF Elected
<1>8. L[T] = <<>>
  <2>1. SUFFICES ASSUME L[T] # <<>> PROVE FALSE
    OBVIOUS
  <2>2. PICK c \in Node : Elected(c, T) /\ ~(state[c] = "Candidate" /\ currentTerm(c) = T)
    BY SMTT(30), <1>1, <1>5, <2>1 DEF LeaderLogs, Settled
  <2>3. c = n
    BY <1>1, <1>7, <2>2, ElectedUnique
  <2>4. QED BY SMTT(30), <1>2, <2>2, <2>3 DEF currentTerm
<1>9. QED BY <1>5, <1>7, <1>8

(* winElection and Propose append to the log of the term's leader. *)
LEMMA AppendingActions ==
  ASSUME Basics, NEW L \in SomeLogs, MatchInv(L), NEW n \in Node,
         winElection(n) \/ \E c \in situation.propose : Propose(n, c)
  PROVE  IsAppending(n, L)
<1>1. CASE winElection(n)
  <2>1. mem[n].term \in Term /\ Elected(n, mem[n].term) /\ L[mem[n].term] = <<>>
    BY <1>1, winElectionWins
  <2>2. PICK x, R : Appends(n, x, R) /\ termStart'[n] = Len(Append(mem[n].log, x))
    BY Zenon, <1>1, <2>1, winElectionAppends DEF MatchInv
  <2>3. AppendsTo(n, x, R, mem[n].term, L)
    BY Zenon, <2>1, <2>2 DEF AppendsTo
  <2>4. QED BY Zenon, <2>1, <2>3 DEF IsAppending
<1>2. CASE \E c \in situation.propose : Propose(n, c)
  <2>1. PICK c \in situation.propose : Propose(n, c)
    BY <1>2
  <2>2. PICK x, R : Appends(n, x, R)
    BY Zenon, <2>1, ProposeAppends
  <2>3. state[n] = "Leader" /\ termStart' = termStart
    BY <2>1 DEF Propose, leaderVars
  <2>4. PICK t \in Term :
          /\ mem[n].term = t /\ mem[n].log = L[t] /\ Elected(n, t)
          /\ termStart[n] \in 1..Len(mem[n].log) /\ \A i \in termStart[n]..Len(mem[n].log) : mem[n].log[i].term = t
    BY <2>3 DEF MatchInv, LeadersOK, currentTerm, log
  <2>5. AppendsTo(n, x, R, t, L)
    BY Zenon, <2>2, <2>3, <2>4 DEF AppendsTo
  <2>6. QED BY Zenon, <2>5 DEF IsAppending
<1>3. QED BY <1>1, <1>2

(* The log of its term, one entry longer, matches the others. *)
LEMMA AppendsMatch ==
  ASSUME Basics, NEW L \in SomeLogs, MatchInv(L), NEW n \in Node, NEW x, NEW R, NEW T \in Term, AppendsTo(n, x, R, T, L)
  PROVE  \E L2 \in SomeLogs : MatchInv(L2)'
<1>0. Types /\ (\A p \in Node : QueueOK(p))
  BY Zenon DEF MatchInv
<1>1. Appends(n, x, R) /\ mem[n].term = T /\ Elected(n, T)
  BY Zenon DEF AppendsTo
<1>2. PICK im \in Image, ops \in Seq(Write) : AppendsAs(n, x, R, im, ops)
  BY Zenon, <1>0, <1>1, AppendsWrites
<1>3. PICK Rep : Rep = WaitImages(n, ops, 0)
  BY Zenon
<1>4. /\ im = mem'[n] /\ im.term = mem[n].term /\ im.vote = mem[n].vote /\ im.log = Append(mem[n].log, x)
      /\ Moves(n, {im}, R, Rep) /\ (\A p \in Node : QueueOK(p)') /\ Types'
  BY Zenon, <1>2, <1>3 DEF AppendsAs
<1>5. PICK l2 : l2 = im.log
  BY Zenon
<1>6. PICK L2 : Update(L2, L, T, l2)
  BY Zenon DEF Update
<1>7. /\ x \in Entry /\ x.term = T /\ Len(l2) <= MaxLog /\ state' = [state EXCEPT ![n] = "Leader"]
      /\ (\A p \in Node : nextIndex'[n][p] >= 1)
      /\ \A p \in Node : p # n => termStart'[p] = termStart[p] /\ nextIndex'[p] = nextIndex[p]
  BY Zenon, <1>1, <1>4, <1>5 DEF Appends
<1>8. \A y \in R : /\ y \in AppendRequests /\ y.type = "AppendEntries" /\ y.from = n /\ y.term = T
                   /\ PieceOf(l2, y)
  BY Zenon, <1>1, <1>4, <1>5 DEF Appends
<1>9. state'[n] = "Leader"
  BY <1>0, <1>7 DEF Types
<1>10. Voting(n, {im}, R, Rep)
  <2>1. \A y \in R : ~ IsVote(y)
    BY <1>8 DEF IsVote
  <2>2. R \subseteq Promise \cup AppendRequests
    BY Zenon, <1>8
  <2>3. im.term \in Nat /\ im.term >= mem[n].term
    BY <1>1, <1>4, ReplicationConstants DEF Term
  <2>4. QED BY Zenon, <1>4, <1>9, <2>1, <2>2, <2>3 DEF Voting
<1>11. \A y \in R : y.type = "AppendEntries" => RequestOK(L2, y)
  <2>1. L2[T] = l2
    BY <1>6 DEF Update, SomeLogs
  <2>2. l2 # <<>>
    <3>1. mem[n].log \in Seq(Entry)
      BY Zenon, <1>0, NodeTyped
    <3>2. Append(mem[n].log, x) # <<>>
      BY Zenon, <1>7, <3>1, SeqGrown
    <3>3. QED BY Zenon, <1>4, <1>5, <3>2
  <2>3. QED BY Zenon, <1>8, <2>1, <2>2 DEF RequestOK, PieceOf
<1>12. /\ \/ termStart'[n] = Len(l2)
          \/ termStart'[n] = termStart[n] /\ termStart[n] \in 1..Len(mem[n].log)
             /\ \A i \in termStart[n]..Len(mem[n].log) : mem[n].log[i].term = T
       /\ L[T] = <<>> \/ mem[n].log = L[T]
  BY Zenon, <1>4, <1>5 DEF AppendsTo
<1>13. Grown(l2, mem[n].log, x) /\ mem'[n].log = l2 /\ mem'[n].term = T
  BY Zenon, <1>1, <1>4, <1>5 DEF Grown
<1>14. AppendStep(n, {im}, R, Rep, T, L, x, l2, L2)
  BY Zenon, <1>1, <1>4, <1>6, <1>7, <1>9, <1>10, <1>11, <1>12, <1>13 DEF AppendStep
<1>15. QED BY Zenon, <1>7, <1>14, MatchStepAppending

(* So log matching is kept for the longer log. *)
LEMMA AppendingMatch ==
  ASSUME Basics, NEW L \in SomeLogs, MatchInv(L), NEW n \in Node, IsAppending(n, L)
  PROVE  \E L2 \in SomeLogs : MatchInv(L2)'
BY Zenon, AppendsMatch DEF IsAppending

(* Every step is of one of the kinds. *)
LEMMA StepKinds ==
  ASSUME Basics, NEW L \in SomeLogs, MatchInv(L), [Next]_vars
  PROVE  \/ \E n \in Node : \/ IsRecast(n) \/ IsSpeaking(n) \/ IsAppending(n, L)
                            \/ \E m \in msgs : m \in AppendRequests /\ m.to = n /\ IsAccepting(n, m, L)
                            \/ handleWriteCompletions(n) \/ Crash(n)
         \/ UNCHANGED vars
<1>0. Types
  BY DEF MatchInv
<1>1. SUFFICES ASSUME Next
      PROVE \E n \in Node : \/ IsRecast(n) \/ IsSpeaking(n) \/ IsAppending(n, L)
                            \/ \E m \in msgs : m \in AppendRequests /\ m.to = n /\ IsAccepting(n, m, L)
                            \/ handleWriteCompletions(n) \/ Crash(n)
  OBVIOUS
<1>2. CASE \E n \in Node : handleWriteCompletions(n) \/ Crash(n)
  BY <1>2
<1>3. CASE \E n \in Node : becomeCandidate(n)
  BY ZenonT(60), <1>0, <1>3, becomeCandidateRecasts
<1>4. CASE \E n \in Node : winElection(n) \/ \E c \in situation.propose : Propose(n, c)
  BY <1>4, AppendingActions
<1>5. CASE \E n \in Node : broadcastHeartbeat(n)
  BY <1>5, SpeakingActions
<1>6. CASE \E n \in Node, m \in msgs : Receive(n, m)
  <2>1. PICK n \in Node, m \in msgs : Receive(n, m)
    BY <1>6
  <2>2. CASE handleRequestVote(n, m) \/ handleVoteResult(n, m)
    BY <2>2, handleRequestsRecast
  <2>3. CASE handleAppendEntries(n, m) /\ acceptEntries(n, m)
    <3>1. m.type = "AppendEntries" /\ m.to = n /\ UNCHANGED <<disk, restarts, given>>
      BY <2>3 DEF handleAppendEntries
    <3>2. m \in AppendRequests
      BY SMTT(30), <1>0, <3>1, MessageTyped
    <3>3. IsAccepting(n, m, L)
      BY <2>3, <3>1, acceptEntriesAccepts
    <3>4. QED BY SMTT(30), <3>1, <3>2, <3>3
  <2>4. CASE handleAppendEntries(n, m) /\ ~ acceptEntries(n, m)
    BY <2>4, handleRequestsRecast
  <2>5. CASE handleAppendResult(n, m) /\ stepDown(n, m.term)
    BY <2>5, handleRequestsRecast
  <2>6. CASE handleAppendResult(n, m) /\ ~ stepDown(n, m.term)
    BY <2>6, SpeakingActions
  <2>7. QED BY ZenonT(60), <2>1, <2>2, <2>3, <2>4, <2>5, <2>6 DEF Receive
<1>7. QED BY ZenonT(60), <1>1, <1>2, <1>3, <1>4, <1>5, <1>6 DEF Next

(* So every step keeps log matching for some logs of the leaders. *)
LEMMA NextMatch ==
  ASSUME Basics, NEW L \in SomeLogs, MatchInv(L), [Next]_vars
  PROVE  \E L2 \in SomeLogs : MatchInv(L2)'
<1>1. CASE UNCHANGED vars
  <2>1. PICK n \in Node : TRUE
    BY Zenon DEF Basics
  <2>2. Sound(n, {}, {}, Images(n), L)
    BY <1>1, StutterIsSound
  <2>3. QED BY <2>2, MatchStep
<1>2. ASSUME NEW n \in Node, IsRecast(n) PROVE MatchInv(L)'
  <2>1. PICK im, ops, gate, R : Recast(n, im, ops, gate, R)
    BY <1>2 DEF IsRecast
  <2>2. QED BY <2>1, RecastIsSound, MatchStep
<1>3. ASSUME NEW n \in Node, IsSpeaking(n) PROVE MatchInv(L)'
  BY SMTT(30), <1>3, SpeakingIsSound, MatchStep DEF IsSpeaking
<1>4. ASSUME NEW n \in Node, NEW m \in msgs, m \in AppendRequests, m.to = n, IsAccepting(n, m, L) PROVE MatchInv(L)'
  <2>1. PICK base, k, l, im, ops, gate : Accepting(n, m, L, base, k, l, im, ops, gate)
    BY <1>4 DEF IsAccepting
  <2>2. Sound(n, OpImages(ops), {accepted(m)}, WaitImages(n, ops, gate), L)
    BY <1>4, <2>1, AcceptingIsSound, Zenon
  <2>3. QED BY <2>2, MatchStep
<1>5. ASSUME NEW n \in Node, handleWriteCompletions(n) \/ Crash(n) PROVE MatchInv(L)'
  BY SMTT(30), <1>5, CompletionIsSound, CrashIsSound, MatchStep
<1>6. ASSUME NEW n \in Node, IsAppending(n, L) PROVE \E L2 \in SomeLogs : MatchInv(L2)'
  BY <1>6, AppendingMatch
<1>7. QED BY ZenonT(60), <1>1, <1>2, <1>3, <1>4, <1>5, <1>6, StepKinds

(* At the start nobody has said anything and every log is empty. *)
LEMMA InitQueue ==
  ASSUME Init, NEW n \in Node
  PROVE  /\ disk[n] = Blank /\ mem[n] = Blank /\ writes[n] = <<>> /\ Len(writes[n]) = 0
         /\ Blank \in Image /\ Blank.term = 0 /\ Blank.log = <<>> /\ Len(Blank.log) = 0
         /\ QueueOK(n) /\ (\A im : im \in Images(n) => im = Blank) /\ \A x : ~ Says(n, x)
<1>1. disk[n] = Blank /\ mem[n] = Blank /\ writes[n] = <<>> /\ Len(writes[n]) = 0 /\ msgs = {}
  BY DEF Init
<1>2. Blank \in Image /\ Blank.term = 0 /\ Blank.log = <<>> /\ Len(Blank.log) = 0
  BY ReplicationConstants DEF Blank, Image
<1>3. \A k \in 0..Len(writes[n]) : k = 0
  BY <1>1
<1>4. QueueOK(n)
  <2>1. \A k \in 0..Len(writes[n]) : ImageOf(disk[n], writes[n], k) = Blank
    BY <1>1, <1>3 DEF ImageOf
  <2>2. Len(writes[n]) \in 0..Len(writes[n]) /\ \A k : k \notin 1..Len(writes[n])
    BY <1>1
  <2>3. Blank.term <= Blank.term
    BY <1>2
  <2>4. QED BY ZenonT(30), <1>1, <2>1, <2>2, <2>3 DEF QueueOK, QueueOf
<1>5. \A im : im \in Images(n) => im = Blank
  BY <1>1, <1>3 DEF Images, ImagesOf, ImageOf
<1>6. \A x : ~ Says(n, x)
  BY <1>1, <1>3 DEF Says, SaysOf, SaidOf
<1>7. QED BY SMTT(30), <1>1, <1>2, <1>4, <1>5, <1>6

(* So they match. *)
LEMMA InitMatch ==
  ASSUME Init
  PROVE  NoLogs \in SomeLogs /\ MatchInv(NoLogs)
<1>1. NoLogs \in SomeLogs /\ \A t \in Term : NoLogs[t] = <<>>
  BY DEF NoLogs, SomeLogs
<1>2. Types
  <2>1. Blank \in Image
    BY ReplicationConstants DEF Blank, Image
  <2>2. QED BY <2>1 DEF Init, Types, State, NoPeers
<1>3. \A n \in Node : QueueOK(n)
  BY ZenonT(60), InitQueue
<1>4. Votes
  <2>1. \A n \in Node : \A x : ~ Says(n, x)
    BY InitQueue
  <2>2. \A n \in Node : \A x, im : ~ Bond(n, x, im)
    BY Zenon, <2>1 DEF Bond, BondOf, Says, SaysOf
  <2>3. QED BY ZenonT(60), <2>1, <2>2 DEF Votes, VotesKept, OneVote, VotesAsked, RequestTells
<1>5. LeaderLogs(NoLogs)
  <2>1. Len(<<>>) = 0 /\ 0 <= MaxLog
    BY ReplicationConstants
  <2>2. Matching(NoLogs, <<>>) /\ \A t : EndsIn(<<>>, t)
    BY <2>1 DEF Matching, EndsIn
  <2>3. QED BY <1>1, <2>1, <2>2 DEF LeaderLogs, SomeLogs
<1>6. ImagesOK(NoLogs)
  <2>1. Matching(NoLogs, Blank.log) /\ Timely(Blank)
    BY DEF Blank, Matching, Timely
  <2>2. \A n \in Node : \A im : im \in Images(n) => im = Blank
    BY InitQueue
  <2>3. QED BY <2>1, <2>2 DEF ImagesOK
<1>7. LeadersOK(NoLogs) /\ RequestsOK(NoLogs)
  BY DEF Init, LeadersOK, RequestsOK
<1>8. QED BY ZenonT(60), <1>1, <1>2, <1>3, <1>4, <1>5, <1>6, <1>7 DEF MatchInv

-----------------------------------------------------------------------------
(* What has been assumed of numbers and quorums so far. *)

INSTANCE WellFoundedInduction
INSTANCE QuorumProofs

(* A non-empty set of naturals has a least element. *)
LEMMA LeastExists ==
  ASSUME NEW S, S \subseteq Nat, S # {}
  PROVE  \E x \in S : \A y \in S : x <= y
<1>1. PICK x \in S : \A y \in S : <<y, x>> \notin OpToRel(<, Nat)
  BY Zenon, NatLessThanWellFounded, WFMin
<1>2. \A y \in S : x <= y
  <2>1. TAKE y \in S
  <2>1a. x \in Nat /\ y \in Nat
    OBVIOUS
  <2>2. <<y, x>> \notin OpToRel(<, Nat)
    BY <1>1, Zenon
  <2>3. ~ (y < x)
    BY <2>1a, <2>2 DEF OpToRel
  <2>4. QED BY <2>1a, <2>3
<1>3. QED BY <1>2

(* A bounded one has a greatest element, which is what Max returns. *)
LEMMA GreatestExists ==
  ASSUME NEW S, S \subseteq Nat, S # {}, NEW b \in Nat, \A y \in S : y <= b
  PROVE  Max(S) \in S /\ \A y \in S : Max(S) >= y
<1> DEFINE B == {z \in Nat : \A y \in S : y <= z}
<1>1. PICK z \in B : \A y \in B : z <= y
  <2>1. b \in B
    OBVIOUS
  <2>2. QED BY Zenon, <2>1, LeastExists
<1>2. z \in S
  <2>1. SUFFICES ASSUME z \notin S PROVE FALSE
    OBVIOUS
  <2>2. PICK y \in S : TRUE
    BY Zenon
  <2>3. y < z /\ y \in Nat
    BY <1>1, <2>1, <2>2
  <2>4. z - 1 \in B
    BY <1>1, <2>1, <2>3
  <2>5. QED BY <1>1, <2>4
<1>3. \E x \in S : \A y \in S : x >= y
  BY ZenonT(60), <1>1, <1>2
<1>4. QED BY Zenon, <1>3 DEF Max

(* Min and Max return what the code's loops over indexes look for, and     *)
(* election quorums, of a group with at least two voters, have two members *)
(* at least and meet.                                                      *)
LEMMA BasicsHold == Basics
<1>1. LeastIs
  BY Zenon, LeastExists DEF LeastIs, Min
<1>2. GreatestIs
  BY Zenon, GreatestExists DEF GreatestIs
<1>3. IsFiniteSet(Voter) /\ Cardinality(Voter) \in Nat \ {0} /\ Cardinality(Voter) > 1 /\ Voter # {}
  <2>1. IsFiniteSet(Voter)
    BY ZenonT(60), ReplicationConstants, FS_Subset
  <2>2. Cardinality(Voter) \in Nat /\ Cardinality(Voter) > 1
    BY ZenonT(60), <2>1, FS_CardinalityType, ReplicationConstants
  <2>3. QED BY <2>1, <2>2, FS_EmptySet
<1>4. QuorumsMeet
  BY Zenon, <1>3, ElectionQuorumsIntersect DEF QuorumsMeet
<1>5. QuorumsAreTwo
  <2>1. SUFFICES ASSUME NEW q \in Nat, NEW Q \in SUBSET Voter, NEW c, Q \subseteq {c},
                        Cardinality(Q) >= electionQuorumFor(q, Cardinality(Voter))
                 PROVE  FALSE
    BY DEF QuorumsAreTwo
  <2>2. IsFiniteSet({c}) /\ Cardinality({c}) = 1
    BY Zenon, FS_Singleton
  <2>3. Cardinality(Q) <= 1 /\ Cardinality(Q) \in Nat
    <3>1. IsFiniteSet(Q) /\ Cardinality(Q) <= Cardinality({c})
      BY Zenon, <2>1, <2>2, FS_Subset
    <3>2. Cardinality(Q) \in Nat
      BY Zenon, <3>1, FS_CardinalityType
    <3>3. QED BY ZenonT(60), <2>2, <3>1, <3>2
  <2>4. PICK k \in Nat \ {0} : k = Cardinality(Voter) /\ k > 1
    BY <1>3
  <2>5. 2 * electionQuorumFor(q, k) > k /\ electionQuorumFor(q, k) \in Nat
    BY ElectionQuorumIsMajority
  <2>6. Cardinality(Q) >= electionQuorumFor(q, k)
    BY <2>1, <2>4
  <2>7. QED BY <2>3, <2>4, <2>5, <2>6
<1>6. QED BY ZenonT(60), <1>1, <1>2, <1>3, <1>4, <1>5, ReplicationConstants DEF Basics

-----------------------------------------------------------------------------
(* If two logs, in the memory of a node, on its disk or about to be there, *)
(* hold an entry of one term at one index, they are the same up to there,  *)
(* whatever crashes, whatever is lost and however late the disks are       *)
(* (handleAppendEntries, its truncations and the write queue).             *)
THEOREM LogMatchingHolds == Spec => []LogMatching
<1>0. Basics
  BY BasicsHold
<1>1. Init => SomeMatch
  BY ZenonT(60), InitMatch DEF SomeMatch
<1>2. SomeMatch /\ [Next]_vars => SomeMatch'
  <2>1. SUFFICES ASSUME SomeMatch, [Next]_vars PROVE SomeMatch'
    OBVIOUS
  <2>2. PICK L \in SomeLogs : MatchInv(L)
    BY <2>1 DEF SomeMatch
  <2>3. PICK L2 \in SomeLogs : MatchInv(L2)'
    BY Zenon, <1>0, <2>1, <2>2, NextMatch
  <2>4. SomeLogs' = SomeLogs
    BY DEF SomeLogs, Term, Entry
  <2>5. QED BY ZenonT(60), <2>3, <2>4 DEF SomeMatch
<1>3. SomeMatch => LogMatching
  BY MatchInvMatches DEF SomeMatch
<1>4. QED BY <1>1, <1>2, <1>3, PTL DEF Spec
=============================================================================
