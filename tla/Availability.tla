---------------------------- MODULE Availability ----------------------------
(***************************************************************************)
(* What DATO promises its clients about one another's certificates, with   *)
(* no validators, messages or votes in sight.  A key (a namespace and a    *)
(* message id) becomes recorded and stays recorded.  A call runs from      *)
(* Begin to one of three ends: a certificate of availability, only for a   *)
(* recorded key; a certificate of unavailability, only for a key that was  *)
(* not recorded when the call began; or no quorum, at any time.            *)
(*                                                                         *)
(* Consequence: once any client holds a certificate of availability of a   *)
(* key, no call that begins later certifies that the key is unavailable.   *)
(***************************************************************************)
CONSTANTS Ops, Keys

VARIABLES
    recorded,   \* the recorded keys
    status,     \* [Ops -> Statuses]
    key,        \* the key a begun call is about
    mustFind    \* whether that key was recorded when the call began

Statuses == {"idle", "writing", "reading",
             "available", "unavailable", "noQuorum"}

vars == <<recorded, status, key, mustFind>>

NoKey == <<>>

Init ==
    /\ recorded = {}
    /\ status = [o \in Ops |-> "idle"]
    /\ key = [o \in Ops |-> NoKey]
    /\ mustFind = [o \in Ops |-> FALSE]

Running(o) == status[o] \in {"writing", "reading"}

Record(k) ==
    /\ recorded' = recorded \cup {k}
    /\ UNCHANGED <<status, key, mustFind>>

Begin(o, kind, k) ==
    /\ status[o] = "idle"
    /\ status' = [status EXCEPT ![o] = kind]
    /\ key' = [key EXCEPT ![o] = k]
    /\ mustFind' = [mustFind EXCEPT ![o] = k \in recorded]
    /\ UNCHANGED recorded

End(o, outcome) ==
    /\ Running(o)
    /\ outcome = "available" => key[o] \in recorded
    /\ outcome = "unavailable" => status[o] = "reading" /\ ~mustFind[o]
    /\ status' = [status EXCEPT ![o] = outcome]
    /\ UNCHANGED <<recorded, key, mustFind>>

Next ==
    \/ \E k \in Keys : Record(k)
    \/ \E o \in Ops, kind \in {"writing", "reading"}, k \in Keys : Begin(o, kind, k)
    \/ \E o \in Ops, outcome \in {"available", "unavailable", "noQuorum"} :
          End(o, outcome)

Spec == Init /\ [][Next]_vars
=============================================================================
