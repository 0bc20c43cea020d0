-------------------------------- MODULE Dato --------------------------------
(***************************************************************************)
(* The core of DATO: clients that write a message to all validators, or    *)
(* ask all of them for one message, and turn the answers into a            *)
(* certificate (Client::write and Client::read_message,                    *)
(* src/client/client.rs), and the validators that stamp, sign, store and   *)
(* answer (src/validator/).                                                *)
(*                                                                         *)
(* A client call is an element of Ops and runs at most once.  It sends one *)
(* request to every validator, then takes the completed futures one by one *)
(* in any order.  A future yields the validator's answer or, after an      *)
(* error or the timeout, nothing; the code's loop ends at the first        *)
(* nothing.  A request whose call has ended may still be handled later.    *)
(***************************************************************************)
EXTENDS Protocol

CONSTANT Ops   \* client calls

VARIABLES
    now,          \* real time; a validator's clock is within Skew of it
    store,        \* store[v][ns]: entries of validator v in namespace ns
    restarts,     \* restarts so far
    reqs,         \* <<o, v>>: the request of call o that v has yet to handle
    call,         \* the arguments of each call
    pending,      \* pending[o]: validators whose answer has not been taken
    replies,      \* replies[o][v]: the answer waiting in the future
    available,    \* tally of records (the only tally of a write)
    unavailable,  \* tally of signed absences
    message,      \* the message a read has taken from an answer
    result,       \* what the call returned
    holders,      \* history: correct validators that have held the call's key
                  \* since the call began
    startedAt,    \* history: when the call began
    endedAt       \* history: when the call returned

history == <<holders, startedAt, endedAt>>
client == <<call, pending, available, unavailable, message, result>>
vars == <<now, store, restarts, reqs, call, pending, replies, available,
          unavailable, message, result, holders, startedAt, endedAt>>

-----------------------------------------------------------------------------
Running(o) == call[o] # Idle /\ result[o] = NoResult

Clock == ClockAt(now)

Holds(v, ns, id) == id \in KeysOf(store[v][ns])

Init ==
    /\ now = Skew + 1
    /\ store = [v \in Validators |-> [ns \in Namespaces |-> <<>>]]
    /\ restarts = 0
    /\ reqs = {}
    /\ call = [o \in Ops |-> Idle]
    /\ pending = [o \in Ops |-> {}]
    /\ replies = [o \in Ops |-> [v \in Validators |-> NoReply]]
    /\ available = [o \in Ops |-> EmptyTally]
    /\ unavailable = [o \in Ops |-> EmptyTally]
    /\ message = [o \in Ops |-> NoMessage]
    /\ result = [o \in Ops |-> NoResult]
    /\ holders = [o \in Ops |-> {}]
    /\ startedAt = [o \in Ops |-> 0]
    /\ endedAt = [o \in Ops |-> 0]

Tick ==
    /\ now < MaxTime
    /\ now' = now + 1
    /\ UNCHANGED <<store, restarts, reqs, replies, client, history>>

-----------------------------------------------------------------------------
(* The client begins a call: one request, and one future, per validator.   *)
Begin(o, c, msg) ==
    /\ call' = [call EXCEPT ![o] = c]
    /\ pending' = [pending EXCEPT ![o] = Validators]
    /\ reqs' = reqs \cup {<<o, v>> : v \in Validators}
    /\ message' = [message EXCEPT ![o] = msg]
    /\ holders' = [holders EXCEPT ![o] =
                      {v \in Validators \ Faulty : Holds(v, c.ns, CallId(c))}]
    /\ startedAt' = [startedAt EXCEPT ![o] = now]
    /\ UNCHANGED <<now, store, restarts, replies, available, unavailable,
                   result, endedAt>>

(* Client::write                                                           *)
Write(o, ns, m) ==
    /\ call[o] = Idle
    /\ Begin(o, [type |-> "write", ns |-> ns, message |-> m], m)

(* Client::read_message                                                    *)
ReadMessage(o, ns, id) ==
    /\ call[o] = Idle
    /\ Begin(o, [type |-> "read", ns |-> ns, id |-> id], NoMessage)

-----------------------------------------------------------------------------
(* A validator answers call o.  The answer of a future that the client has *)
(* given up on goes nowhere.                                               *)
Respond(o, v, reply) ==
    /\ reqs' = reqs \ {<<o, v>>}
    /\ replies' = IF Running(o) /\ v \in pending[o]
                  THEN [replies EXCEPT ![o][v] = reply]
                  ELSE replies

(* The holders of each running call that still hold its key in newStore.   *)
Retained(newStore) ==
    [o \in Ops |->
        IF Running(o)
        THEN {v \in holders[o] :
                CallId(call[o]) \in KeysOf(newStore[v][call[o].ns])}
        ELSE holders[o]]

(* Mutant: Validator::write answers but does not store.                    *)
HandleWriteNoStore(v, o) ==
    /\ <<o, v>> \in reqs
    /\ call[o].type = "write"
    /\ \E ts \in Clock :
          Respond(o, v, RecordReply(Stamped(v, call[o].ns, ts, call[o].message)))
    /\ UNCHANGED <<now, store, restarts, client, history>>

(* Validator::write, called for Request::Write: stamp, sign, store, answer.*)
HandleWrite(v, o) ==
    /\ <<o, v>> \in reqs
    /\ call[o].type = "write"
    /\ LET ns == call[o].ns
           m == call[o].message
       IN  \E ts \in Clock :
             LET record == Stamped(v, ns, ts, m)
             IN  /\ \E entries \in WriteOne(store[v][ns], Cap, ns, record) :
                       store' = [store EXCEPT ![v][ns] = entries]
                 /\ Respond(o, v, RecordReply(record))
    /\ holders' = Retained(store')
    /\ UNCHANGED <<now, restarts, client, startedAt, endedAt>>

(* Validator::read_message, called for Request::ReadMessage.               *)
HandleReadMessage(v, o) ==
    /\ <<o, v>> \in reqs
    /\ call[o].type = "read"
    /\ \E reply \in MessageReplies(v, store[v][call[o].ns], call[o].id, now) :
          Respond(o, v, reply)
    /\ UNCHANGED <<now, store, restarts, client, history>>

FaultyReply(v, o) ==
    /\ v \in Faulty
    /\ <<o, v>> \in reqs
    /\ \E reply \in FaultyReplies(v, call[o]) : Respond(o, v, reply)
    /\ UNCHANGED <<now, store, restarts, client, history>>

(* A validator process restarts: its key survives, its store does not.     *)
(* (With an empty store it restarts unnoticed.)                            *)
Restart(v) ==
    /\ \E ns \in Namespaces : store[v][ns] # <<>>
    /\ restarts < MaxRestarts
    /\ restarts' = restarts + 1
    /\ store' = [store EXCEPT ![v] = [ns \in Namespaces |-> <<>>]]
    /\ holders' = Retained(store')
    /\ UNCHANGED <<now, reqs, replies, client, startedAt, endedAt>>

-----------------------------------------------------------------------------
(* The call returns; its remaining futures are dropped with their answers. *)
Return(o, a, u, msg) ==
    /\ result' = [result EXCEPT ![o] = Concluded(call[o], a, u, msg)]
    /\ endedAt' = [endedAt EXCEPT ![o] = now]
    /\ replies' = [replies EXCEPT ![o] = [v \in Validators |-> NoReply]]

(* One iteration of the loop on the answer of validator v: checks that     *)
(* fail leave the tallies alone and go on; a counted answer may end it.    *)
TakeReply(o, v) ==
    /\ Running(o)
    /\ v \in pending[o]
    /\ replies[o][v] # NoReply
    /\ LET c == call[o]
           reply == replies[o][v]
           counted == CountsAvailable(c, v, reply) \/ CountsUnavailable(c, v, reply)
           a == TallyRecord(c, v, reply, available[o])
           u == TallyAbsence(c, v, reply, unavailable[o])
           msg == TakenMessage(c, reply, message[o])
       IN  /\ available' = [available EXCEPT ![o] = a]
           /\ unavailable' = [unavailable EXCEPT ![o] = u]
           /\ message' = [message EXCEPT ![o] = msg]
           /\ IF counted /\ LoopBreaks(a, u)
              THEN Return(o, a, u, msg)
              ELSE /\ replies' = [replies EXCEPT ![o][v] = NoReply]
                   /\ UNCHANGED <<result, endedAt>>
    /\ pending' = [pending EXCEPT ![o] = @ \ {v}]
    /\ UNCHANGED <<now, store, restarts, reqs, call, holders, startedAt>>

(* Mutant: a request without a timeout fails only once it is answered.     *)
GiveUpNoTimeout(o, v) ==
    /\ Running(o)
    /\ v \in pending[o]
    /\ replies[o][v] # NoReply
    /\ Return(o, available[o], unavailable[o], message[o])
    /\ UNCHANGED <<now, store, restarts, reqs, call, pending, available,
                   unavailable, message, holders, startedAt>>

(* The future of validator v ends with an error or the timeout, even if an *)
(* answer is on its way: "while let Some(Some(..))" ends the loop.         *)
GiveUp(o, v) ==
    /\ Running(o)
    /\ v \in pending[o]
    /\ Return(o, available[o], unavailable[o], message[o])
    /\ UNCHANGED <<now, store, restarts, reqs, call, pending, available,
                   unavailable, message, holders, startedAt>>

(* No future is left: next() yields None and the loop ends.                *)
RunOut(o) ==
    /\ Running(o)
    /\ pending[o] = {}
    /\ Return(o, available[o], unavailable[o], message[o])
    /\ UNCHANGED <<now, store, restarts, reqs, call, pending, available,
                   unavailable, message, holders, startedAt>>

-----------------------------------------------------------------------------
Collect(o) ==
    \/ \E v \in Validators : TakeReply(o, v) \/ GiveUp(o, v)
    \/ RunOut(o)

Next ==
    \/ Tick
    \/ \E o \in Ops, ns \in Namespaces, m \in Messages : Write(o, ns, m)
    \/ \E o \in Ops, ns \in Namespaces, id \in MsgIds : ReadMessage(o, ns, id)
    \/ \E o \in Ops, v \in Validators : HandleWrite(v, o)
    \/ \E o \in Ops, v \in Validators : HandleReadMessage(v, o)
    \/ \E o \in Ops, v \in Validators : FaultyReply(v, o)
    \/ \E v \in Validators : Restart(v)
    \/ \E o \in Ops, v \in Validators : TakeReply(o, v)
    \/ \E o \in Ops, v \in Validators : GiveUp(o, v)
    \/ \E o \in Ops : RunOut(o)

Spec == Init /\ [][Next]_vars

(* Every future completes, by its timeout at the latest, and the runtime   *)
(* polls the call's task: a begun call keeps taking completed futures.     *)
FairSpec == Spec /\ \A o \in Ops : WF_vars(Collect(o))

-----------------------------------------------------------------------------
(* Every variable has its type: the shapes of stores, requests, answers,   *)
(* tallies and results that client.rs and validator/ pass around.          *)
TypeOK ==
    /\ now \in Nat
    /\ store \in [Validators -> [Namespaces -> Seq(Entries)]]
    /\ restarts \in 0 .. MaxRestarts
    /\ reqs \subseteq Ops \X Validators
    /\ call \in [Ops -> {Idle} \cup Calls]
    /\ pending \in [Ops -> SUBSET Validators]
    /\ replies \in [Ops -> [Validators -> Replies]]
    /\ available \in [Ops -> Tallies]
    /\ unavailable \in [Ops -> Tallies]
    /\ message \in [Ops -> Messages \cup {NoMessage}]
    /\ result \in [Ops -> Results]
    /\ holders \in [Ops -> SUBSET Validators]
    /\ startedAt \in [Ops -> Nat]
    /\ endedAt \in [Ops -> Nat]
    /\ \A o \in Ops, v \in Validators : <<o, v>> \in reqs => call[o] # Idle

(* write_one deduplicates by message digest and never exceeds the          *)
(* capacity: however often messages are rewritten and evicted, a digest    *)
(* has one entry, stored under the digest of its own message and signed by *)
(* the validator that holds it.                                            *)
StoreSound ==
    \A v \in Validators, ns \in Namespaces :
        /\ Len(store[v][ns]) <= Cap
        /\ \A i, j \in DOMAIN store[v][ns] :
              store[v][ns][i].id = store[v][ns][j].id => i = j
        /\ \A i \in DOMAIN store[v][ns] :
              LET r == store[v][ns][i].record
              IN  /\ store[v][ns][i].id = MsgId(ns, r.message)
                  /\ Verify(r.signature, v, RecordDigest(ns, r.timestamp, r.message))

(* A validator drops a message only when it restarts, or when its          *)
(* namespace is full and the message is the oldest entry (write_one on a   *)
(* full FIFO map); in particular a rewrite evicts nothing.                 *)
DropsOnlyOldest ==
    [][\A v \in Validators, ns \in Namespaces :
          \A id \in KeysOf(store[v][ns]) \ KeysOf(store'[v][ns]) :
             \/ restarts' # restarts
             \/ Len(store[v][ns]) = Cap /\ store[v][ns][1].id = id]_vars

(* A read does not return a certificate of unavailability for a message    *)
(* that a quorum of correct validators held when the read began and has    *)
(* not dropped since, whatever the order, loss or failure of answers and   *)
(* whatever the faulty validators answer.  (The quorums of four validators *)
(* need not intersect.)                                                    *)
NoConflict ==
    \A o \in Ops :
        result[o].type = "unavailable" /\ N # 4
            => ~HasReachedQuorum(N, Cardinality(holders[o]))

(* Where a certificate's array of timestamps has t, and which of its       *)
(* signatures are over a digest.                                           *)
PlacesOf(timestamps, t) == {v \in Validators : timestamps[v] = t}
Over(sigs, digest) == {s \in sigs : s.digest = digest}

(* A certificate returned by write or read_message can be checked by a     *)
(* third party, who has nothing but the certificate: it is about the       *)
(* message the call was about, its aggregate has the signatures of a       *)
(* quorum of validators, each is over the certified message (or absence)   *)
(* and one of the certificate's own timestamps, and there are as many of   *)
(* these as signatures over them.  Which is whose is not told: the array   *)
(* is sorted before it is returned.  The signatures of faulty validators   *)
(* under an absence are excepted: read_message does not compare their      *)
(* msg_id.                                                                 *)
CertificateVerifies ==
    \A o \in Ops :
        LET c == call[o]
            r == result[o]
            digest(v) == RecordDigest(c.ns, r.timestamps[v], r.message)
            absence(v) == UnavailableDigest(r.msg_id, r.timestamps[v])
            correct == {s \in r.sigs : s.key \notin Faulty}
        IN  /\ r.type = "available" =>
                 /\ HasReachedQuorum(N, Cardinality(Voters(r)))
                 /\ MsgId(c.ns, r.message) = CallId(c)
                 /\ \A s \in r.sigs : \E v \in Validators : s.digest = digest(v)
                 /\ \A v \in Validators :
                      Cardinality(Over(r.sigs, digest(v)))
                         <= Cardinality(PlacesOf(r.timestamps, r.timestamps[v]))
            /\ r.type = "unavailable" =>
                 /\ HasReachedQuorum(N, Cardinality(Voters(r)))
                 /\ r.msg_id = CallId(c)
                 /\ \A s \in correct : \E v \in Validators : s.digest = absence(v)
                 /\ \A v \in Validators :
                      Cardinality(Over(correct, absence(v)))
                         <= Cardinality(PlacesOf(r.timestamps, r.timestamps[v]))

(* A certificate of availability is only ever issued for a message that    *)
(* some client wrote, as long as the faulty validators are no quorum.      *)
AvailableOnlyIfWritten ==
    \A o \in Ops :
        result[o].type = "available" /\ ~HasReachedQuorum(N, Cardinality(Faulty))
            => \E w \in Ops : /\ call[w].type = "write"
                              /\ call[w].ns = call[o].ns
                              /\ call[w].message = result[o].message

(* A write that had an answer from every validator is refused a            *)
(* certificate only if the correct validators are no quorum.               *)
WriteDeniedOnlyByFaults ==
    \A o \in Ops :
        call[o].type = "write" /\ result[o] = NoQuorum /\ pending[o] = {}
            => ~HasReachedQuorum(N, N - Cardinality(Faulty))

(* With correct validators the certified timestamp of a write, or of an    *)
(* absence, lies between the beginning and the end of the call, up to the  *)
(* validators' clock error; that of a message read lies between the        *)
(* beginning of some write of it and the end of the read.  The zeros that  *)
(* stand for validators that did not vote never pull it out of the window. *)
CertifiedTimeInWindow ==
    \A o \in Ops :
        result[o].type \in {"available", "unavailable"} /\ Faulty = {} /\ N # 4
            => LET t == CertifiedTimestamp(N, result[o].timestamps)
               IN  /\ t <= endedAt[o] + Skew
                   /\ \E w \in Ops :
                         /\ startedAt[w] - Skew <= t
                         /\ \/ w = o
                            \/ /\ call[o].type = "read"
                               /\ result[o].type = "available"
                               /\ call[w].type = "write"
                               /\ call[w].ns = call[o].ns
                               /\ call[w].message = result[o].message

(* A client that knows a validator never panics: whenever the votes are    *)
(* accepted as a quorum there is an aggregate signature to unwrap          *)
(* (expect("Quorum passed") in write and read_message).                    *)
NoPanic == N > 0 => \A o \in Ops : result[o] # Panic

(* Every call that begins returns: a lost request or a silent validator    *)
(* costs at most the timeout.                                              *)
Termination == \A o \in Ops : Running(o) ~> result[o] # NoResult
=============================================================================
