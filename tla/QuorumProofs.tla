---------------------------- MODULE QuorumProofs ----------------------------
(***************************************************************************)
(* Why the quorum sizes of quorum.go are enough: the facts its header      *)
(* comment appeals to, for every number of voters and every policy.        *)
(***************************************************************************)
EXTENDS QuorumSizes, FiniteSets, FiniteSetTheorems, TLAPS

(* Two subsets of a finite set that together outnumber it share a member. *)
LEMMA TwoLargeSubsetsMeet ==
  ASSUME NEW S, IsFiniteSet(S), NEW A, NEW B, A \subseteq S, B \subseteq S,
         Cardinality(A) + Cardinality(B) > Cardinality(S)
  PROVE  A \cap B # {}
<1>1. IsFiniteSet(A) /\ IsFiniteSet(B)
  BY FS_Subset
<1>2. IsFiniteSet(A \cup B)
  BY <1>1, FS_Union
<1>3. Cardinality(A \cup B) = Cardinality(A) + Cardinality(B) - Cardinality(A \cap B)
  BY <1>1, FS_Union
<1>4. Cardinality(A \cup B) <= Cardinality(S)
  <2>1. A \cup B \subseteq S
    OBVIOUS
  <2>2. QED BY <2>1, FS_Subset
<1>5. /\ Cardinality(A) \in Nat /\ Cardinality(B) \in Nat
      /\ Cardinality(S) \in Nat /\ Cardinality(A \cup B) \in Nat
  BY <1>1, <1>2, FS_CardinalityType
<1>6. A \cap B = {} => Cardinality(A \cap B) = 0
  BY FS_EmptySet
<1>7. QED BY <1>3, <1>4, <1>5, <1>6

(* electionQuorumFor is a size, and more than half of the voters whatever  *)
(* the policy.                                                             *)
LEMMA ElectionQuorumIsMajority ==
  ASSUME NEW q \in Nat, NEW total \in Nat \ {0}
  PROVE  /\ commitQuorumFor(q, total) \in Nat
         /\ electionQuorumFor(q, total) \in Nat
         /\ 2 * electionQuorumFor(q, total) > total
         /\ electionQuorumFor(q, total) + commitQuorumFor(q, total) > total
BY DEF electionQuorumFor, commitQuorumFor, LargerOf, SmallerOf

(* quorum.go, "two of them must intersect each other, so that a term has   *)
(* at most one leader": any two sets of voters electionQuorumFor accepts   *)
(* share a voter, for every policy.                                        *)
THEOREM ElectionQuorumsIntersect ==
  ASSUME NEW V, IsFiniteSet(V), NEW q \in Nat, V # {},
         NEW A, A \subseteq V, Cardinality(A) >= electionQuorumFor(q, Cardinality(V)),
         NEW B, B \subseteq V, Cardinality(B) >= electionQuorumFor(q, Cardinality(V))
  PROVE  A \cap B # {}
<1>1. Cardinality(V) \in Nat \ {0}
  BY FS_CardinalityType, FS_EmptySet
<1>2. Cardinality(A) \in Nat /\ Cardinality(B) \in Nat
  BY FS_Subset, FS_CardinalityType
<1>3. /\ commitQuorumFor(q, Cardinality(V)) \in Nat
      /\ electionQuorumFor(q, Cardinality(V)) \in Nat
      /\ 2 * electionQuorumFor(q, Cardinality(V)) > Cardinality(V)
      /\ electionQuorumFor(q, Cardinality(V)) + commitQuorumFor(q, Cardinality(V)) > Cardinality(V)
  BY <1>1, ElectionQuorumIsMajority
<1>4. Cardinality(A) + Cardinality(B) > Cardinality(V)
  BY <1>1, <1>2, <1>3
<1>5. QED BY <1>4, TwoLargeSubsetsMeet

(* quorum.go, "they intersect, so a new leader has every committed entry": *)
(* any set of voters that commits an entry shares a voter with any set     *)
(* that elects a leader under the same policy.                             *)
THEOREM CommitAndElectionQuorumsIntersect ==
  ASSUME NEW V, IsFiniteSet(V), NEW q \in Nat, V # {},
         NEW A, A \subseteq V, Cardinality(A) >= commitQuorumFor(q, Cardinality(V)),
         NEW B, B \subseteq V, Cardinality(B) >= electionQuorumFor(q, Cardinality(V))
  PROVE  A \cap B # {}
<1>1. Cardinality(V) \in Nat \ {0}
  BY FS_CardinalityType, FS_EmptySet
<1>2. Cardinality(A) \in Nat /\ Cardinality(B) \in Nat
  BY FS_Subset, FS_CardinalityType
<1>3. /\ commitQuorumFor(q, Cardinality(V)) \in Nat
      /\ electionQuorumFor(q, Cardinality(V)) \in Nat
      /\ 2 * electionQuorumFor(q, Cardinality(V)) > Cardinality(V)
      /\ electionQuorumFor(q, Cardinality(V)) + commitQuorumFor(q, Cardinality(V)) > Cardinality(V)
  BY <1>1, ElectionQuorumIsMajority
<1>4. Cardinality(A) + Cardinality(B) > Cardinality(V)
  BY <1>1, <1>2, <1>3
<1>5. QED BY <1>4, TwoLargeSubsetsMeet

(* quorum.go, "Stricter is always safe": while the policy changes from     *)
(* `applied' to `latest', what a node in transition accepts as a commit    *)
(* quorum meets every election quorum of either policy, and what it        *)
(* accepts as an election quorum meets every commit quorum of either.      *)
THEOREM StricterOfTwoPoliciesIsSafe ==
  ASSUME NEW V, IsFiniteSet(V), V # {},
         NEW applied \in Nat, NEW latest \in Nat, NEW q \in {applied, latest},
         NEW A, A \subseteq V, NEW B, B \subseteq V
  PROVE  /\ /\ Cardinality(A) >= commitQuorumNeeded(applied, latest, Cardinality(V))
            /\ Cardinality(B) >= electionQuorumFor(q, Cardinality(V))
            => A \cap B # {}
         /\ /\ Cardinality(A) >= commitQuorumFor(q, Cardinality(V))
            /\ Cardinality(B) >= electionQuorumNeeded(applied, latest, Cardinality(V))
            => A \cap B # {}
<1>1. Cardinality(V) \in Nat \ {0}
  BY FS_CardinalityType, FS_EmptySet
<1>2. Cardinality(A) \in Nat /\ Cardinality(B) \in Nat
  BY FS_Subset, FS_CardinalityType
<1>3. \A p \in {applied, latest} :
        /\ commitQuorumFor(p, Cardinality(V)) \in Nat
        /\ electionQuorumFor(p, Cardinality(V)) \in Nat
  BY <1>1, ElectionQuorumIsMajority
<1>4. /\ commitQuorumNeeded(applied, latest, Cardinality(V)) >= commitQuorumFor(q, Cardinality(V))
      /\ electionQuorumNeeded(applied, latest, Cardinality(V)) >= electionQuorumFor(q, Cardinality(V))
      /\ commitQuorumNeeded(applied, latest, Cardinality(V)) \in Nat
      /\ electionQuorumNeeded(applied, latest, Cardinality(V)) \in Nat
  BY <1>3 DEF commitQuorumNeeded, electionQuorumNeeded, LargerOf
<1>5. Cardinality(A) >= commitQuorumNeeded(applied, latest, Cardinality(V))
        => Cardinality(A) >= commitQuorumFor(q, Cardinality(V))
  BY <1>2, <1>3, <1>4
<1>6. Cardinality(B) >= electionQuorumNeeded(applied, latest, Cardinality(V))
        => Cardinality(B) >= electionQuorumFor(q, Cardinality(V))
  BY <1>2, <1>3, <1>4
<1>7. QED BY <1>5, <1>6, CommitAndElectionQuorumsIntersect
=============================================================================
