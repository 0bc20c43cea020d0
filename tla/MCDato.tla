------------------------------- MODULE MCDato -------------------------------
(***************************************************************************)
(* Instances of Dato for TLC.                                              *)
(***************************************************************************)
EXTENDS DatoClaims, DatoAvailability, TLC

(* Namespaces and messages of one byte each.                               *)
OneNamespace == {<<11>>}
OneMessage == {<<21>>}
TwoMessages == {<<21>>, <<22>>}
ThreeMessages == {<<21>>, <<22>>, <<23>>}

(* Calls are interchangeable: sound for the safety properties.             *)
CallSymmetry == Permutations(Ops)

NoFaulty == {}
LastFaulty == {2}
=============================================================================
