-------------------------- MODULE DatoAvailability --------------------------
(***************************************************************************)
(* Dato implements Availability.  A key is recorded when the validators    *)
(* that hold it are a quorum; the write or read that observed a quorum may *)
(* return later, or never.  The promise is made for correct validators     *)
(* that drop nothing: with eviction or restarts a recorded key can be      *)
(* forgotten (NoConflict in Dato says what then remains).                  *)
(***************************************************************************)
EXTENDS Dato

HoldersOf(k) == {v \in Validators : Holds(v, k[1], k[2])}

Recorded ==
    {k \in Namespaces \X MsgIds : HasReachedQuorum(N, Cardinality(HoldersOf(k)))}

Status(o) ==
    CASE call[o] = Idle -> "idle"
      [] Running(o) -> IF call[o].type = "write" THEN "writing" ELSE "reading"
      [] OTHER -> result[o].type

Key(o) == IF call[o] = Idle THEN <<>> ELSE <<call[o].ns, CallId(call[o])>>

MustFind(o) == call[o] # Idle /\ HasReachedQuorum(N, Cardinality(holders[o]))

A == INSTANCE Availability
        WITH Keys <- Namespaces \X MsgIds,
             recorded <- Recorded,
             status <- [o \in Ops |-> Status(o)],
             key <- [o \in Ops |-> Key(o)],
             mustFind <- [o \in Ops |-> MustFind(o)]

(* Every behaviour of the clients and validators is one of Availability: a *)
(* write's Ok and a read's Available answer only for recorded messages, an *)
(* Unavailable answer only for a message that was not recorded when        *)
(* read_message was called.                                                *)
ImplementsAvailability == A!Spec
=============================================================================
