------------------------- MODULE MCQuorumCert_proofs -------------------------
(***************************************************************************)
(* What the run over QuorumCert checks up to seven validators holds for    *)
(* any number of validators and any times of their votes.                  *)
(***************************************************************************)
EXTENDS MCQuorumCert, QuorumCert_proofs

(* The places of the array that no vote has filled are zero.               *)
VotesInv ==
    /\ n \in Nat \ {0}
    /\ timestamps \in [Indexes(n) -> Nat]
    /\ voters \in SUBSET Indexes(n)
    /\ \A v \in Indexes(n) \ voters : timestamps[v] = 0

(* However the votes come in, they leave the array in that shape.          *)
LEMMA VotesInvariant == Spec => []VotesInv
<1>1. Init => VotesInv
    BY VotesAssumption DEF Init, VotesInv
<1>2. VotesInv /\ [Next]_vars => VotesInv'
  <2> SUFFICES ASSUME VotesInv, [Next]_vars PROVE VotesInv'
      OBVIOUS
  <2>1. CASE \E v \in Indexes(n), t \in 1 .. MaxVote : Vote(v, t)
      BY <2>1, VotesAssumption DEF VotesInv, Vote
  <2>2. CASE UNCHANGED vars
      BY <2>2 DEF VotesInv, vars
  <2> QED  BY <2>1, <2>2 DEF Next
<1> QED  BY <1>1, <1>2, PTL DEF Spec

(* Any two quorums share a validator, unless there are four.               *)
THEOREM QuorumsAlwaysIntersect == Spec => []QuorumsIntersect
<1>1. VotesInv => QuorumsIntersect
  <2> SUFFICES ASSUME VotesInv, Certified, n # 4, NEW other \in SUBSET Indexes(n),
                      HasReachedQuorum(n, Cardinality(other))
               PROVE  other \cap voters # {}
      BY DEF QuorumsIntersect
  <2>1. n \in Nat \ {0, 4} /\ voters \in SUBSET Indexes(n)
      BY DEF VotesInv
  <2> QED  BY <2>1, QuorumsShareValidator DEF Certified
<1> QED  BY <1>1, VotesInvariant, PTL

(* The certified timestamp of a quorum of votes lies between two of them,  *)
(* unless there are four validators.                                       *)
THEOREM AlwaysWithinVotes == Spec => []WithinVotes
<1>1. VotesInv => WithinVotes
  <2> SUFFICES ASSUME VotesInv, Certified, n # 4
               PROVE  /\ \E v \in voters : timestamps[v] <= CertifiedTimestamp(n, timestamps)
                      /\ \E v \in voters : CertifiedTimestamp(n, timestamps) <= timestamps[v]
      BY DEF WithinVotes
  <2> DEFINE times == {timestamps[v] : v \in voters}
  <2>1. n \in Nat \ {0, 4} /\ timestamps \in [Indexes(n) -> Nat]
        /\ voters \in SUBSET Indexes(n)
        /\ \A v \in Indexes(n) \ voters : timestamps[v] = 0
      BY DEF VotesInv
  <2>2. voters # {}
    <3>1. Cardinality(voters) \in Nat /\ 2 * Cardinality(voters) > n
        BY <2>1, IndexSubset, QuorumIsMajority DEF Certified
    <3>2. Cardinality(voters) # 0
        BY <2>1, <3>1
    <3> QED  BY <3>2, FS_EmptySet
  <2>3. \E lo \in voters : \A v \in voters : timestamps[lo] <= timestamps[v]
    <3>1. times \in SUBSET Nat /\ times # {}
        BY <2>1, <2>2
    <3>2. PICK x \in times : \A y \in times : x <= y
        BY <3>1, LeastNat
    <3> QED  BY <3>2
  <2>4. PICK lo \in voters : \A v \in voters : timestamps[lo] <= timestamps[v]
      BY <2>3
  <2>5. \E hi \in voters : \A v \in voters : timestamps[v] <= timestamps[hi]
    <3>1. PICK j \in Indexes(n) : \A k \in Indexes(n) : timestamps[k] <= timestamps[j]
        BY <2>1, LatestExists
    <3>2. CASE j \in voters
        BY <2>1, <3>1, <3>2
    <3>3. CASE j \notin voters
      <4>1. \A v \in voters : timestamps[v] = 0
          BY <2>1, <3>1, <3>3
      <4> QED  BY <2>2, <4>1
    <3> QED  BY <3>2, <3>3
  <2>6. PICK hi \in voters : \A v \in voters : timestamps[v] <= timestamps[hi]
      BY <2>5
  <2>7. timestamps[lo] \in Nat /\ timestamps[hi] \in Nat
      BY <2>1
  <2>8. /\ timestamps[lo] <= CertifiedTimestamp(n, timestamps)
        /\ CertifiedTimestamp(n, timestamps) <= timestamps[hi]
      BY <2>1, <2>4, <2>6, <2>7, CertifiedTimestampWithinVotes DEF Certified
  <2> QED  BY <2>8
<1> QED  BY <1>1, VotesInvariant, PTL
=============================================================================
