----------------------------- MODULE MCLogRead -----------------------------
(***************************************************************************)
(* Instances of LogRead for TLC.                                           *)
(***************************************************************************)
EXTENDS LogRead

OneNamespace == {<<11>>}
TwoMessages == {<<21>>, <<22>>}
LastFaulty == {2}

(* Records are made at the times 0 and 1; the range has the second.        *)
SecondTime == {<<1, 1>>}
=============================================================================
