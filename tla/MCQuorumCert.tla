---------------------------- MODULE MCQuorumCert ----------------------------
(***************************************************************************)
(* QuorumCert over every way the votes of a call can come in: n validators,*)
(* up to MaxN, vote one after the other with any time of 1 .. MaxVote, and *)
(* the counting stops at the quorum.                                       *)
(***************************************************************************)
EXTENDS QuorumCert

CONSTANTS MinN, MaxN, MaxVote

ASSUME VotesAssumption == MinN \in Nat \ {0} /\ MaxN \in Nat /\ MaxVote \in Nat

VARIABLES n, timestamps, voters

vars == <<n, timestamps, voters>>

Init ==
    /\ n \in MinN .. MaxN
    /\ timestamps = [v \in Indexes(n) |-> 0]
    /\ voters = {}

Vote(v, t) ==
    /\ v \notin voters
    /\ ~HasReachedQuorum(n, Cardinality(voters))
    /\ timestamps' = [timestamps EXCEPT ![v] = t]
    /\ voters' = voters \cup {v}
    /\ UNCHANGED n

Next == \E v \in Indexes(n), t \in 1 .. MaxVote : Vote(v, t)

Spec == Init /\ [][Next]_vars

Certified == HasReachedQuorum(n, Cardinality(voters))

(* The certified timestamp of a quorum of votes lies between the earliest  *)
(* and the latest of them: certified_timestamp also sorts in the zeros of  *)
(* the validators that did not vote, which must not reach the middle.      *)
(* Four validators are the exception: two votes are a quorum, and a zero   *)
(* is among the two middle elements.                                       *)
WithinVotes ==
    Certified /\ n # 4 =>
        LET t == CertifiedTimestamp(n, timestamps)
        IN  /\ \E v \in voters : timestamps[v] <= t
            /\ \E v \in voters : t <= timestamps[v]

(* Any two quorums that has_reached_quorum accepts share a validator, so   *)
(* the same message is never certified both available and unavailable at   *)
(* one instant.  Four validators are the exception.                        *)
QuorumsIntersect ==
    Certified /\ n # 4 =>
        \A other \in SUBSET Indexes(n) :
            HasReachedQuorum(n, Cardinality(other)) => other \cap voters # {}
=============================================================================
