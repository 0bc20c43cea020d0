----------------------------- MODULE DatoClaims -----------------------------
(***************************************************************************)
(* What the repository's documents, comments, assertions and tests say of  *)
(* the clients and validators of Dato, where the code does something else. *)
(* Each of these is checked by a run that expects a counterexample.        *)
(***************************************************************************)
EXTENDS Dato

(* The answers waiting in the futures of call o that would count.          *)
Waiting(o) ==
    {v \in pending[o] : \/ CountsAvailable(call[o], v, replies[o][v])
                        \/ CountsUnavailable(call[o], v, replies[o][v])}

(* client.rs, on the loops of write and read_message: "Iterate over the    *)
(* responses until we have a quorum of valid responses OR we run out of    *)
(* valid responses."  So a write does not return NoQuorum while the        *)
(* answers that wait besides one failed validator would make a quorum.     *)
StopsOnlyWhenOutOfResponses ==
    [][\A o \in Ops :
          call[o].type = "write" /\ result[o] = NoResult /\ result'[o] = NoQuorum
            => \E failed \in Validators :
                  ~HasReachedQuorum(N, available[o].votes
                                         + Cardinality(Waiting(o) \ {failed}))]_vars

(* README.md, on the quorum certificate: "This certificate can then be     *)
(* verified by anyone / any chain".  So every signature under an absence   *)
(* is over the absence the certificate states.                             *)
AbsenceVerifies ==
    \A o \in Ops :
        result[o].type = "unavailable" =>
            \A s \in result[o].sigs : s.digest.msg_id = result[o].msg_id
=============================================================================
