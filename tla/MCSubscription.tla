--------------------------- MODULE MCSubscription ---------------------------
(***************************************************************************)
(* Instances of Subscription for TLC.                                      *)
(***************************************************************************)
EXTENDS Subscription

OneNamespace == {<<11>>}
Feed == <<11>>

OneMessage == {<<21>>}
TwoMessages == {<<21>>, <<22>>}
NoFaulty == {}

(* client/spec.rs, on subscribe_certified: "Subscribe to all certified     *)
(* records in the given namespace"; common.rs, on CertifiedRecord:         *)
(* "Contains the quorum signature for the message."  So the signatures of  *)
(* a certified record are those of a quorum of validators.                 *)
SignedByQuorum ==
    \A i \in DOMAIN sent :
        HasReachedQuorum(N, Cardinality({sent[i].sigs[k].key : k \in DOMAIN sent[i].sigs}))
=============================================================================
