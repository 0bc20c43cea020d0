----------------------------- MODULE Dato_proofs -----------------------------
(***************************************************************************)
(* Type correctness of Dato and the theorem that certificates of           *)
(* availability and unavailability do not conflict, for any number of      *)
(* validators, calls, messages, any capacity and any clock error.          *)
(***************************************************************************)
EXTENDS Dato, Protocol_proofs

-----------------------------------------------------------------------------
(* The initial state, fresh validators and no call, is type correct.       *)
LEMMA InitTypeOK == Init => TypeOK
<1> SUFFICES ASSUME Init PROVE TypeOK
    OBVIOUS
<1>1. now \in Nat /\ restarts \in 0 .. MaxRestarts
    BY ClockAssumption, RestartAssumption DEF Init
<1>2. store \in [Validators -> [Namespaces -> Seq(Entries)]]
    BY DEF Init
<1>3. /\ reqs \subseteq Ops \X Validators
      /\ \A o \in Ops, v \in Validators : <<o, v>> \in reqs => call[o] # Idle
    BY DEF Init
<1>4. /\ call \in [Ops -> {Idle} \cup Calls]
      /\ pending \in [Ops -> SUBSET Validators]
      /\ message \in [Ops -> Messages \cup {NoMessage}]
      /\ holders \in [Ops -> SUBSET Validators]
      /\ startedAt \in [Ops -> Nat]
      /\ endedAt \in [Ops -> Nat]
    BY DEF Init
<1>5. replies \in [Ops -> [Validators -> Replies]]
    BY DEF Init, Replies
<1>6. available \in [Ops -> Tallies] /\ unavailable \in [Ops -> Tallies]
    BY EmptyTallyType DEF Init
<1>7. result \in [Ops -> Results]
    BY DEF Init, Results
<1> QED  BY <1>1, <1>2, <1>3, <1>4, <1>5, <1>6, <1>7 DEF TypeOK

(* An answer goes to a future, or nowhere.                                 *)
LEMMA RespondTypeOK ==
    ASSUME TypeOK, NEW o \in Ops, NEW v \in Validators, NEW reply \in Replies,
           Respond(o, v, reply)
    PROVE  /\ replies' \in [Ops -> [Validators -> Replies]]
           /\ reqs' \subseteq reqs
BY DEF Respond, TypeOK

(* Returning yields a result and drops the waiting answers.                *)
LEMMA ReturnTypeOK ==
    ASSUME TypeOK, NEW o \in Ops, call[o] \in Calls,
           NEW a \in Tallies, NEW u \in Tallies, NEW msg \in Messages \cup {NoMessage},
           Return(o, a, u, msg)
    PROVE  /\ replies' \in [Ops -> [Validators -> Replies]]
           /\ result' \in [Ops -> Results]
           /\ endedAt' \in [Ops -> Nat]
<1>1. NoReply \in Replies
    BY DEF Replies
<1>2. [v \in Validators |-> NoReply] \in [Validators -> Replies]
    BY <1>1
<1> QED  BY <1>2, ConcludedType DEF Return, TypeOK

(* Beginning a call preserves types.                                       *)
LEMMA BeginTypeOK ==
    ASSUME TypeOK, NEW o \in Ops, NEW c \in Calls,
           NEW msg \in Messages \cup {NoMessage}, Begin(o, c, msg)
    PROVE  TypeOK'
<1>1. call' \in [Ops -> {Idle} \cup Calls] /\ c # Idle
    BY DEF Begin, TypeOK, Calls, Idle
<1>2. \A p \in Ops, v \in Validators : <<p, v>> \in reqs' => call'[p] # Idle
    BY <1>1 DEF Begin, TypeOK
<1>3. reqs' \subseteq Ops \X Validators
    BY DEF Begin, TypeOK
<1>4. holders' \in [Ops -> SUBSET Validators]
    BY DEF Begin, TypeOK
<1>5. /\ pending' \in [Ops -> SUBSET Validators]
      /\ message' \in [Ops -> Messages \cup {NoMessage}]
      /\ startedAt' \in [Ops -> Nat]
    BY DEF Begin, TypeOK
<1>6. UNCHANGED <<now, store, restarts, replies, available, unavailable, result, endedAt>>
    BY DEF Begin
<1> QED  BY <1>1, <1>2, <1>3, <1>4, <1>5, <1>6 DEF TypeOK

(* Client::write preserves types.                                          *)
LEMMA WriteTypeOK ==
    ASSUME TypeOK, NEW o \in Ops, NEW ns \in Namespaces, NEW m \in Messages,
           Write(o, ns, m)
    PROVE  TypeOK'
<1>1. [type |-> "write", ns |-> ns, message |-> m] \in Calls
    BY DEF Calls
<1> QED  BY <1>1, BeginTypeOK DEF Write

(* Client::read_message preserves types.                                   *)
LEMMA ReadMessageTypeOK ==
    ASSUME TypeOK, NEW o \in Ops, NEW ns \in Namespaces, NEW id \in MsgIds,
           ReadMessage(o, ns, id)
    PROVE  TypeOK'
<1>1. [type |-> "read", ns |-> ns, id |-> id] \in Calls
    BY DEF Calls
<1> QED  BY <1>1, BeginTypeOK DEF ReadMessage

(* The history of holders stays a set of validators per call.              *)
LEMMA RetainedType ==
    ASSUME TypeOK, NEW newStore
    PROVE  Retained(newStore) \in [Ops -> SUBSET Validators]
BY DEF Retained, TypeOK

(* Validator::write preserves types.                                       *)
LEMMA HandleWriteTypeOK ==
    ASSUME TypeOK, NEW o \in Ops, NEW v \in Validators, HandleWrite(v, o)
    PROVE  TypeOK'
<1> DEFINE ns == call[o].ns
           m == call[o].message
           record(ts) == Stamped(v, ns, ts, m)
<1>1. call[o] \in Calls /\ call[o].type = "write"
    BY DEF HandleWrite, TypeOK
<1>2. ns \in Namespaces /\ m \in Messages
    BY <1>1 DEF Calls
<1>3. PICK ts \in Clock :
         /\ \E entries \in Insert(store[v][ns], Cap, MsgId(ns, m), record(ts)) :
               store' = [store EXCEPT ![v][ns] = entries]
         /\ Respond(o, v, RecordReply(record(ts)))
    BY DEF HandleWrite, WriteOne, Stamped
<1>4. ts \in Nat
    BY <1>3, ClockAssumption DEF Clock, ClockAt, Times
<1>5. record(ts) \in Records
    BY <1>2, <1>4, SignedRecordType
<1>6. MsgId(ns, m) \in MsgIds
    BY <1>2, MsgIdType
<1>7. store[v][ns] \in Seq(Entries)
    BY <1>2 DEF TypeOK
<1>8. PICK entries \in Seq(Entries) : store' = [store EXCEPT ![v][ns] = entries]
  <2> HIDE DEF record, ns, m
  <2> QED  BY <1>3, <1>5, <1>6, <1>7, InsertType
<1>9. store' \in [Validators -> [Namespaces -> Seq(Entries)]]
  <2> HIDE DEF ns
  <2> QED  BY <1>2, <1>8 DEF TypeOK
<1>10. replies' \in [Ops -> [Validators -> Replies]] /\ reqs' \subseteq reqs
  <2> HIDE DEF record
  <2> QED  BY <1>3, <1>5, RecordReplyType, RespondTypeOK
<1>11. holders' \in [Ops -> SUBSET Validators]
    BY RetainedType DEF HandleWrite
<1>12. UNCHANGED <<now, restarts, client, startedAt, endedAt>>
    BY DEF HandleWrite
<1> QED  BY <1>9, <1>10, <1>11, <1>12 DEF TypeOK, client

(* Validator::read_message preserves types.                                *)
LEMMA HandleReadMessageTypeOK ==
    ASSUME TypeOK, NEW o \in Ops, NEW v \in Validators, HandleReadMessage(v, o)
    PROVE  TypeOK'
<1>1. call[o] \in Calls /\ call[o].type = "read"
    BY DEF HandleReadMessage, TypeOK
<1>2. call[o].ns \in Namespaces /\ call[o].id \in MsgIds
    BY <1>1 DEF Calls
<1>3. store[v][call[o].ns] \in Seq(Entries)
    BY <1>2 DEF TypeOK
<1>4. \E reply \in Replies : Respond(o, v, reply)
    BY <1>2, <1>3, MessageRepliesType DEF HandleReadMessage
<1>5. replies' \in [Ops -> [Validators -> Replies]] /\ reqs' \subseteq reqs
    BY <1>4, RespondTypeOK
<1>6. UNCHANGED <<now, store, restarts, client, history>>
    BY DEF HandleReadMessage
<1> QED  BY <1>5, <1>6 DEF TypeOK, client, history

(* The answer of a faulty validator preserves types.                       *)
LEMMA FaultyReplyTypeOK ==
    ASSUME TypeOK, NEW o \in Ops, NEW v \in Validators, FaultyReply(v, o)
    PROVE  TypeOK'
<1>1. call[o] \in Calls
    BY DEF FaultyReply, TypeOK
<1>2. \E reply \in Replies : Respond(o, v, reply)
    BY <1>1, FaultyRepliesType DEF FaultyReply
<1>3. replies' \in [Ops -> [Validators -> Replies]] /\ reqs' \subseteq reqs
    BY <1>2, RespondTypeOK
<1>4. UNCHANGED <<now, store, restarts, client, history>>
    BY DEF FaultyReply
<1> QED  BY <1>3, <1>4 DEF TypeOK, client, history

(* A restart preserves types.                                              *)
LEMMA RestartTypeOK ==
    ASSUME TypeOK, NEW v \in Validators, Restart(v)
    PROVE  TypeOK'
<1>1. restarts' \in 0 .. MaxRestarts
    BY RestartAssumption DEF Restart, TypeOK
<1>2. store' \in [Validators -> [Namespaces -> Seq(Entries)]]
    BY DEF Restart, TypeOK
<1>3. holders' \in [Ops -> SUBSET Validators]
    BY RetainedType DEF Restart
<1>4. UNCHANGED <<now, reqs, replies, client, startedAt, endedAt>>
    BY DEF Restart
<1> QED  BY <1>1, <1>2, <1>3, <1>4 DEF TypeOK, client

(* The names TakeReply gives to what the loop computes from one answer.    *)
Reply(o, v) == replies[o][v]
Yes(o, v) == CountsAvailable(call[o], v, Reply(o, v))
No(o, v) == CountsUnavailable(call[o], v, Reply(o, v))
NewAvailable(o, v) == TallyRecord(call[o], v, Reply(o, v), available[o])
NewUnavailable(o, v) == TallyAbsence(call[o], v, Reply(o, v), unavailable[o])
NewMessage(o, v) == TakenMessage(call[o], Reply(o, v), message[o])

(* TakeReply in those names.                                               *)
LEMMA TakeReplyUnfolded ==
    ASSUME NEW o \in Ops, NEW v \in Validators, TakeReply(o, v)
    PROVE  /\ Running(o) /\ v \in pending[o] /\ Reply(o, v) # NoReply
           /\ available' = [available EXCEPT ![o] = NewAvailable(o, v)]
           /\ unavailable' = [unavailable EXCEPT ![o] = NewUnavailable(o, v)]
           /\ message' = [message EXCEPT ![o] = NewMessage(o, v)]
           /\ \/ Return(o, NewAvailable(o, v), NewUnavailable(o, v), NewMessage(o, v))
              \/ /\ replies' = [replies EXCEPT ![o][v] = NoReply]
                 /\ UNCHANGED <<result, endedAt>>
           /\ pending' = [pending EXCEPT ![o] = @ \ {v}]
           /\ UNCHANGED <<now, store, restarts, reqs, call, holders, startedAt>>
BY Zenon DEF TakeReply, Reply, NewAvailable, NewUnavailable, NewMessage

(* They have their types.                                                  *)
LEMMA TakeReplyTypes ==
    ASSUME TypeOK, NEW o \in Ops, NEW v \in Validators, Running(o)
    PROVE  /\ call[o] \in Calls
           /\ NewAvailable(o, v) \in Tallies
           /\ NewUnavailable(o, v) \in Tallies
           /\ NewMessage(o, v) \in Messages \cup {NoMessage}
<1>1. Reply(o, v) \in Replies
    BY DEF TypeOK, Reply
<1>2. call[o] \in Calls
    BY DEF TypeOK, Running
<1>3. available[o] \in Tallies /\ unavailable[o] \in Tallies
      /\ message[o] \in Messages \cup {NoMessage}
    BY DEF TypeOK
<1>4. NewAvailable(o, v) \in Tallies
    BY <1>1, <1>3, CountedType, AddVoteType DEF NewAvailable, TallyRecord
<1>5. NewUnavailable(o, v) \in Tallies
    BY <1>1, <1>3, CountedType, AddVoteType DEF NewUnavailable, TallyAbsence
<1>6. NewMessage(o, v) \in Messages \cup {NoMessage}
    BY <1>1, <1>3, CountedType DEF NewMessage, TakenMessage, Records
<1> QED  BY <1>2, <1>4, <1>5, <1>6

(* One iteration of a response loop preserves types.                       *)
LEMMA TakeReplyTypeOK ==
    ASSUME TypeOK, NEW o \in Ops, NEW v \in Validators, TakeReply(o, v)
    PROVE  TypeOK'
<1>1. Running(o)
    BY TakeReplyUnfolded
<1>2. /\ available' \in [Ops -> Tallies]
      /\ unavailable' \in [Ops -> Tallies]
      /\ message' \in [Ops -> Messages \cup {NoMessage}]
  <2>1. /\ available' = [available EXCEPT ![o] = NewAvailable(o, v)]
        /\ unavailable' = [unavailable EXCEPT ![o] = NewUnavailable(o, v)]
        /\ message' = [message EXCEPT ![o] = NewMessage(o, v)]
      BY TakeReplyUnfolded, Zenon
  <2>2. /\ NewAvailable(o, v) \in Tallies
        /\ NewUnavailable(o, v) \in Tallies
        /\ NewMessage(o, v) \in Messages \cup {NoMessage}
      BY <1>1, TakeReplyTypes, Zenon
  <2> QED  BY <2>1, <2>2 DEF TypeOK
<1>3. /\ replies' \in [Ops -> [Validators -> Replies]]
      /\ result' \in [Ops -> Results]
      /\ endedAt' \in [Ops -> Nat]
  <2>1. CASE Return(o, NewAvailable(o, v), NewUnavailable(o, v), NewMessage(o, v))
      BY <1>1, <2>1, TakeReplyTypes, ReturnTypeOK
  <2>2. CASE /\ replies' = [replies EXCEPT ![o][v] = NoReply]
             /\ UNCHANGED <<result, endedAt>>
    <3>1. NoReply \in Replies
        BY DEF Replies
    <3> QED  BY <2>2, <3>1 DEF TypeOK
  <2> QED  BY <2>1, <2>2, TakeReplyUnfolded
<1>4. pending' \in [Ops -> SUBSET Validators]
  <2>1. pending' = [pending EXCEPT ![o] = @ \ {v}]
      BY TakeReplyUnfolded, Zenon
  <2> QED  BY <2>1 DEF TypeOK
<1>5. UNCHANGED <<now, store, restarts, reqs, call, holders, startedAt>>
    BY TakeReplyUnfolded
<1> QED  BY <1>2, <1>3, <1>4, <1>5 DEF TypeOK

(* A call that returns without another answer.                             *)
LEMMA GiveUpOrRunOutTypeOK ==
    ASSUME TypeOK, NEW o \in Ops, Running(o),
           Return(o, available[o], unavailable[o], message[o]),
           UNCHANGED <<now, store, restarts, reqs, call, pending, available,
                       unavailable, message, holders, startedAt>>
    PROVE  TypeOK'
<1>1. /\ call[o] \in Calls
      /\ available[o] \in Tallies
      /\ unavailable[o] \in Tallies
      /\ message[o] \in Messages \cup {NoMessage}
    BY DEF TypeOK, Running
<1>2. /\ replies' \in [Ops -> [Validators -> Replies]]
      /\ result' \in [Ops -> Results]
      /\ endedAt' \in [Ops -> Nat]
    BY <1>1, ReturnTypeOK
<1> QED  BY <1>2 DEF TypeOK

(* Every step preserves types: one case per action.                        *)
LEMMA NextTypeOK ==
    ASSUME TypeOK, [Next]_vars
    PROVE  TypeOK'
<1>1. CASE Tick
    BY <1>1 DEF TypeOK, Tick, client, history
<1>2. CASE \E o \in Ops, ns \in Namespaces, m \in Messages : Write(o, ns, m)
    BY <1>2, WriteTypeOK
<1>3. CASE \E o \in Ops, ns \in Namespaces, id \in MsgIds : ReadMessage(o, ns, id)
    BY <1>3, ReadMessageTypeOK
<1>4. CASE \E o \in Ops, v \in Validators : HandleWrite(v, o)
    BY <1>4, HandleWriteTypeOK
<1>5. CASE \E o \in Ops, v \in Validators : HandleReadMessage(v, o)
    BY <1>5, HandleReadMessageTypeOK
<1>6. CASE \E o \in Ops, v \in Validators : FaultyReply(v, o)
    BY <1>6, FaultyReplyTypeOK
<1>7. CASE \E v \in Validators : Restart(v)
    BY <1>7, RestartTypeOK
<1>8. CASE \E o \in Ops, v \in Validators : TakeReply(o, v)
    BY <1>8, TakeReplyTypeOK
<1>9. CASE \E o \in Ops, v \in Validators : GiveUp(o, v)
    BY <1>9, GiveUpOrRunOutTypeOK DEF GiveUp
<1>10. CASE \E o \in Ops : RunOut(o)
    BY <1>10, GiveUpOrRunOutTypeOK DEF RunOut
<1>11. CASE UNCHANGED vars
    BY <1>11 DEF TypeOK, vars
<1> QED  BY <1>1, <1>2, <1>3, <1>4, <1>5, <1>6, <1>7, <1>8, <1>9, <1>10, <1>11 DEF Next

(* The variables of clients and validators always have their types.        *)
THEOREM TypeCorrect == Spec => []TypeOK
<1>1. TypeOK /\ [Next]_vars => TypeOK'
    BY NextTypeOK
<1> QED  BY <1>1, InitTypeOK, PTL DEF Spec

-----------------------------------------------------------------------------
(* No conflict.  NoConflict is not inductive: that the voters of an        *)
(* absence miss every validator that has held the key throughout rests on  *)
(* what the waiting answers say and on what the stores hold, and that the  *)
(* votes are as many as the voters rests on each future being taken once.  *)

(* The votes of a tally come from distinct validators whose future has     *)
(* been taken.                                                             *)
Counted(o, tally) ==
    /\ tally.votes = Cardinality(Voters(tally))
    /\ Voters(tally) \cap pending[o] = {}

(* A call that has not begun has counted and returned nothing.             *)
IdleClean(o) ==
    call[o] = Idle => /\ available[o] = EmptyTally
                      /\ unavailable[o] = EmptyTally
                      /\ result[o] = NoResult

(* The holders of a call are correct and, while it runs, hold its key.     *)
HoldersHold(o) ==
    /\ holders[o] \cap Faulty = {}
    /\ Running(o) => \A v \in holders[o] : Holds(v, call[o].ns, CallId(call[o]))

(* No holder has an absence waiting, or counted.                           *)
HoldersVouch(o) ==
    \A v \in holders[o] : /\ replies[o][v].type # "unavailable"
                          /\ v \notin Voters(unavailable[o])

(* Answers wait only for calls that run.                                   *)
RepliesWait(o) ==
    ~Running(o) => \A v \in Validators : replies[o][v] = NoReply

(* A certificate of unavailability has its quorum.                         *)
ResultBacked(o) ==
    result[o].type = "unavailable"
        => N # 0 /\ HasReachedQuorum(N, unavailable[o].votes)

CallInv(o) ==
    /\ Counted(o, available[o])
    /\ Counted(o, unavailable[o])
    /\ IdleClean(o)
    /\ HoldersHold(o)
    /\ HoldersVouch(o)
    /\ RepliesWait(o)
    /\ ResultBacked(o)

Inv == TypeOK /\ \A o \in Ops : CallInv(o)

(* The initial state satisfies the inductive invariant.                    *)
LEMMA InitInv == Init => Inv
<1> SUFFICES ASSUME Init PROVE Inv
    OBVIOUS
<1>1. TypeOK
    BY InitTypeOK
<1>2. ASSUME NEW o \in Ops PROVE CallInv(o)
  <2>1. /\ available[o] = EmptyTally /\ unavailable[o] = EmptyTally
        /\ result[o] = NoResult /\ holders[o] = {} /\ call[o] = Idle
        /\ \A v \in Validators : replies[o][v] = NoReply
      BY DEF Init
  <2>2. Counted(o, available[o]) /\ Counted(o, unavailable[o])
      BY <2>1, EmptyTallyCounted DEF Counted
  <2>3. ResultBacked(o)
      BY <2>1 DEF ResultBacked, NoResult
  <2> QED  BY <2>1, <2>2, <2>3
           DEF CallInv, IdleClean, HoldersHold, HoldersVouch, RepliesWait, Running
<1> QED  BY <1>1, <1>2 DEF Inv

(* Beginning a call.                                                       *)
LEMMA BeginInv ==
    ASSUME Inv, NEW o \in Ops, call[o] = Idle, NEW c \in Calls,
           NEW msg \in Messages \cup {NoMessage}, Begin(o, c, msg)
    PROVE  \A p \in Ops : CallInv(p)'
<1> SUFFICES ASSUME NEW p \in Ops PROVE CallInv(p)'
    OBVIOUS
<1>1. TypeOK /\ CallInv(p) /\ c # Idle
    BY DEF Inv, Calls, Idle
<1>2. UNCHANGED <<store, replies, available, unavailable, result>>
    BY DEF Begin
<1>3. CASE p # o
  <2>1. UNCHANGED <<call[p], pending[p], holders[p]>>
      BY <1>1, <1>3 DEF Begin, TypeOK
  <2> QED  BY <1>1, <1>2, <2>1
           DEF CallInv, Counted, IdleClean, HoldersHold, HoldersVouch,
               RepliesWait, ResultBacked, Running, Holds
<1>4. CASE p = o
  <2>1. /\ call'[p] = c
        /\ holders'[p] = {v \in Validators \ Faulty : Holds(v, c.ns, CallId(c))}
      BY <1>1, <1>4 DEF Begin, TypeOK
  <2>2. /\ available'[p] = EmptyTally /\ unavailable'[p] = EmptyTally
        /\ result'[p] = NoResult
        /\ \A v \in Validators : replies'[p][v] = NoReply
      BY <1>1, <1>2, <1>4 DEF CallInv, IdleClean, RepliesWait, Running
  <2>3. Counted(p, available[p])' /\ Counted(p, unavailable[p])'
      BY <2>2, EmptyTallyCounted DEF Counted
  <2>4. HoldersHold(p)'
      BY <1>2, <2>1 DEF HoldersHold, Holds
  <2>5. HoldersVouch(p)'
      BY <2>1, <2>2, EmptyTallyCounted DEF HoldersVouch, NoReply
  <2>6. IdleClean(p)' /\ RepliesWait(p)' /\ ResultBacked(p)'
      BY <2>2 DEF IdleClean, RepliesWait, ResultBacked, NoResult
  <2> QED  BY <2>3, <2>4, <2>5, <2>6 DEF CallInv
<1> QED  BY <1>3, <1>4

(* A step of a validator or of time: the client's locals stay, holders can *)
(* only become fewer and hold what they held, and no holder of a running   *)
(* call gets an absence into its future.                                   *)
LEMMA ValidatorStepInv ==
    ASSUME Inv, UNCHANGED client,
           \A p \in Ops : holders'[p] \subseteq holders[p],
           \A p \in Ops : Running(p) =>
              \A v \in holders'[p] : Holds(v, call[p].ns, CallId(call[p]))',
           \A p \in Ops, v \in Validators :
              \/ replies'[p][v] = replies[p][v]
              \/ Running(p) /\ (replies'[p][v].type = "unavailable" => v \notin holders[p])
    PROVE  \A p \in Ops : CallInv(p)'
<1> SUFFICES ASSUME NEW p \in Ops PROVE CallInv(p)'
    OBVIOUS
<1>1. TypeOK /\ CallInv(p)
    BY DEF Inv
<1>2. UNCHANGED <<call, pending, available, unavailable, message, result>>
    BY DEF client
<1>3. Running(p)' = Running(p)
    BY <1>2 DEF Running
<1>4. Counted(p, available[p])' /\ Counted(p, unavailable[p])' /\ IdleClean(p)' /\ ResultBacked(p)'
    BY <1>1, <1>2 DEF CallInv, Counted, IdleClean, ResultBacked
<1>5. HoldersHold(p)'
  <2>1. holders'[p] \cap Faulty = {}
      BY <1>1 DEF CallInv, HoldersHold
  <2>2. Running(p) => \A v \in holders'[p] : Holds(v, call[p].ns, CallId(call[p]))'
      OBVIOUS
  <2> QED  BY <1>3, <2>1, <2>2 DEF HoldersHold
<1>6. HoldersVouch(p)'
  <2> SUFFICES ASSUME NEW v \in holders'[p]
               PROVE  /\ replies'[p][v].type # "unavailable"
                      /\ v \notin Voters(unavailable'[p])
      BY DEF HoldersVouch
  <2>1. v \in holders[p] /\ v \in Validators
      BY <1>1 DEF TypeOK
  <2>2. replies[p][v].type # "unavailable" /\ v \notin Voters(unavailable[p])
      BY <1>1, <2>1 DEF CallInv, HoldersVouch
  <2> QED  BY <1>2, <2>1, <2>2
<1>7. RepliesWait(p)'
    BY <1>1, <1>3 DEF CallInv, RepliesWait
<1> QED  BY <1>4, <1>5, <1>6, <1>7 DEF CallInv

(* An answer changes one future, of a running call.                        *)
LEMMA RespondEffect ==
    ASSUME TypeOK, NEW o \in Ops, NEW v \in Validators, NEW reply, Respond(o, v, reply)
    PROVE  \A p \in Ops, w \in Validators :
              \/ replies'[p][w] = replies[p][w]
              \/ p = o /\ w = v /\ Running(o) /\ replies'[p][w] = reply
BY DEF Respond, TypeOK

(* Holders that are kept hold the key in the new store.                    *)
LEMMA RetainedEffect ==
    ASSUME TypeOK, holders' = Retained(store'), UNCHANGED call
    PROVE  /\ \A p \in Ops : holders'[p] \subseteq holders[p]
           /\ \A p \in Ops : Running(p) =>
                 \A v \in holders'[p] : Holds(v, call[p].ns, CallId(call[p]))'
<1>1. \A p \in Ops : holders'[p] =
         IF Running(p)
         THEN {v \in holders[p] : CallId(call[p]) \in KeysOf(store'[v][call[p].ns])}
         ELSE holders[p]
    BY DEF Retained
<1> QED  BY <1>1 DEF Holds

(* Validator::write preserves the invariant: holders only shrink.          *)
LEMMA HandleWriteInv ==
    ASSUME Inv, NEW o \in Ops, NEW v \in Validators, HandleWrite(v, o)
    PROVE  \A p \in Ops : CallInv(p)'
<1>1. TypeOK
    BY DEF Inv
<1>2. PICK r : Respond(o, v, RecordReply(r))
    BY Zenon DEF HandleWrite
<1>3. \A p \in Ops, w \in Validators :
         \/ replies'[p][w] = replies[p][w]
         \/ Running(p) /\ (replies'[p][w].type = "unavailable" => w \notin holders[p])
    BY <1>1, <1>2, RespondEffect DEF RecordReply
<1>4. holders' = Retained(store') /\ UNCHANGED client /\ UNCHANGED call
    BY DEF HandleWrite, client
<1>5. /\ \A p \in Ops : holders'[p] \subseteq holders[p]
      /\ \A p \in Ops : Running(p) =>
            \A w \in holders'[p] : Holds(w, call[p].ns, CallId(call[p]))'
    BY <1>1, <1>4, RetainedEffect
<1> QED  BY <1>3, <1>4, <1>5, ValidatorStepInv

(* A restart preserves the invariant: holders only shrink.                 *)
LEMMA RestartInv ==
    ASSUME Inv, NEW v \in Validators, Restart(v)
    PROVE  \A p \in Ops : CallInv(p)'
<1>1. TypeOK
    BY DEF Inv
<1>2. holders' = Retained(store') /\ UNCHANGED client /\ UNCHANGED call /\ UNCHANGED replies
    BY DEF Restart, client
<1>3. /\ \A p \in Ops : holders'[p] \subseteq holders[p]
      /\ \A p \in Ops : Running(p) =>
            \A w \in holders'[p] : Holds(w, call[p].ns, CallId(call[p]))'
    BY <1>1, <1>2, RetainedEffect
<1> QED  BY <1>2, <1>3, ValidatorStepInv

(* A step that touches neither stores nor holders.                         *)
LEMMA HoldersUntouched ==
    ASSUME Inv, UNCHANGED <<store, holders, call>>
    PROVE  /\ \A p \in Ops : holders'[p] \subseteq holders[p]
           /\ \A p \in Ops : Running(p) =>
                 \A w \in holders'[p] : Holds(w, call[p].ns, CallId(call[p]))'
BY DEF Inv, CallInv, HoldersHold, Holds

(* Validator::read_message preserves the invariant: a validator that still *)
(* holds the key of a running call answers with the record.                *)
LEMMA HandleReadMessageInv ==
    ASSUME Inv, NEW o \in Ops, NEW v \in Validators, HandleReadMessage(v, o)
    PROVE  \A p \in Ops : CallInv(p)'
<1>1. TypeOK /\ CallInv(o)
    BY DEF Inv
<1>2. UNCHANGED <<store, holders, call>> /\ UNCHANGED client
    BY DEF HandleReadMessage, client, history
<1>3. PICK reply : /\ Respond(o, v, reply)
                   /\ reply.type = "unavailable" => ~Holds(v, call[o].ns, call[o].id)
  <2>1. call[o] \in Calls /\ call[o].type = "read"
      BY <1>1 DEF HandleReadMessage, TypeOK
  <2>2. call[o].ns \in Namespaces /\ call[o].id \in MsgIds
      BY <2>1 DEF Calls
  <2>3. store[v][call[o].ns] \in Seq(Entries)
      BY <1>1, <2>2 DEF TypeOK
  <2> QED  BY <2>2, <2>3, MessageRepliesType DEF HandleReadMessage, Holds
<1>4. CallId(call[o]) = call[o].id
    BY DEF HandleReadMessage, CallId
<1>5. Running(o) /\ reply.type = "unavailable" => v \notin holders[o]
    BY <1>1, <1>3, <1>4 DEF CallInv, HoldersHold
<1>6. \A p \in Ops, w \in Validators :
         \/ replies'[p][w] = replies[p][w]
         \/ Running(p) /\ (replies'[p][w].type = "unavailable" => w \notin holders[p])
    BY <1>1, <1>3, <1>5, RespondEffect
<1> QED  BY <1>2, <1>6, HoldersUntouched, ValidatorStepInv

(* The answer of a faulty validator preserves the invariant: it is never   *)
(* among the holders.                                                      *)
LEMMA FaultyReplyInv ==
    ASSUME Inv, NEW o \in Ops, NEW v \in Validators, FaultyReply(v, o)
    PROVE  \A p \in Ops : CallInv(p)'
<1>1. TypeOK /\ CallInv(o)
    BY DEF Inv
<1>2. UNCHANGED <<store, holders, call>> /\ UNCHANGED client
    BY DEF FaultyReply, client, history
<1>3. PICK reply : Respond(o, v, reply)
    BY DEF FaultyReply
<1>4. v \notin holders[o]
    BY <1>1 DEF FaultyReply, CallInv, HoldersHold
<1>5. \A p \in Ops, w \in Validators :
         \/ replies'[p][w] = replies[p][w]
         \/ Running(p) /\ (replies'[p][w].type = "unavailable" => w \notin holders[p])
    BY <1>1, <1>3, <1>4, RespondEffect
<1> QED  BY <1>2, <1>5, HoldersUntouched, ValidatorStepInv

(* Returning leaves the tallies and certifies an absence only with a       *)
(* quorum.                                                                 *)
LEMMA ReturnEffect ==
    ASSUME TypeOK, NEW o \in Ops, NEW a \in Tallies, a.votes = Cardinality(Voters(a)),
           NEW u, NEW msg, Return(o, a, u, msg)
    PROVE  /\ \A v \in Validators : replies'[o][v] = NoReply
           /\ \A p \in Ops \ {o} : replies'[p] = replies[p] /\ result'[p] = result[p]
           /\ result'[o].type = "unavailable" => N # 0 /\ HasReachedQuorum(N, u.votes)
<1>1. /\ \A v \in Validators : replies'[o][v] = NoReply
      /\ \A p \in Ops \ {o} : replies'[p] = replies[p] /\ result'[p] = result[p]
      /\ result'[o] = Concluded(call[o], a, u, msg)
    BY DEF Return, TypeOK
<1> QED  BY <1>1, ConcludedUnavailable

(* Taking an answer keeps the tallies counted and adds no holder to the    *)
(* voters of the absence.                                                  *)
LEMMA TakeReplyTallies ==
    ASSUME Inv, NEW o \in Ops, NEW v \in Validators, Running(o), v \in pending[o]
    PROVE  /\ NewAvailable(o, v).votes = Cardinality(Voters(NewAvailable(o, v)))
           /\ NewUnavailable(o, v).votes = Cardinality(Voters(NewUnavailable(o, v)))
           /\ Voters(NewAvailable(o, v)) \subseteq Voters(available[o]) \cup {v}
           /\ Voters(NewUnavailable(o, v)) \subseteq Voters(unavailable[o]) \cup {v}
           /\ \A w \in holders[o] : w \notin Voters(NewUnavailable(o, v))
<1>1. TypeOK /\ CallInv(o)
    BY DEF Inv
<1>2. Reply(o, v) \in Replies /\ available[o] \in Tallies /\ unavailable[o] \in Tallies
    BY <1>1 DEF TypeOK, Reply
<1>3. /\ Counted(o, available[o]) /\ Counted(o, unavailable[o])
      /\ v \notin Voters(available[o]) /\ v \notin Voters(unavailable[o])
    BY <1>1 DEF CallInv, Counted
<1>4. /\ available[o].votes = Cardinality(Voters(available[o]))
      /\ unavailable[o].votes = Cardinality(Voters(unavailable[o]))
    BY <1>3 DEF Counted
<1>5. /\ NewAvailable(o, v).votes = Cardinality(Voters(NewAvailable(o, v)))
      /\ Voters(NewAvailable(o, v)) \subseteq Voters(available[o]) \cup {v}
  <2>1. CASE Yes(o, v)
    <3> DEFINE ts == Reply(o, v).record.timestamp
               sig == Reply(o, v).record.signature
    <3>1. ts \in Nat /\ sig \in Signatures /\ sig.key = v
        BY <1>2, <2>1, CountedType, CountedKey DEF Yes
    <3>2. NewAvailable(o, v) = AddVote(available[o], v, ts, sig)
        BY <2>1 DEF NewAvailable, TallyRecord, Yes
    <3> HIDE DEF ts, sig
    <3> QED  BY <1>2, <1>3, <1>4, <3>1, <3>2, AddVoteCounts
  <2>2. CASE ~Yes(o, v)
      BY <1>4, <2>2 DEF NewAvailable, TallyRecord, Yes
  <2> QED  BY <2>1, <2>2
<1>6. /\ NewUnavailable(o, v).votes = Cardinality(Voters(NewUnavailable(o, v)))
      /\ Voters(NewUnavailable(o, v)) \subseteq Voters(unavailable[o]) \cup {v}
      /\ \A w \in holders[o] : w \notin Voters(NewUnavailable(o, v))
  <2>1. CASE No(o, v)
    <3> DEFINE ts == Reply(o, v).unavailable.timestamp
               sig == Reply(o, v).unavailable.signature
    <3>1. /\ ts \in Nat /\ sig \in Signatures /\ sig.key = v
          /\ Reply(o, v).type = "unavailable"
        BY <1>2, <2>1, CountedType, CountedKey DEF No
    <3>2. NewUnavailable(o, v) = AddVote(unavailable[o], v, ts, sig)
        BY <2>1 DEF NewUnavailable, TallyAbsence, No
    <3>3. v \notin holders[o]
        BY <1>1, <3>1 DEF CallInv, HoldersVouch, Reply
    <3>4. \A w \in holders[o] : w \notin Voters(unavailable[o])
        BY <1>1 DEF CallInv, HoldersVouch
    <3> HIDE DEF ts, sig
    <3>5. /\ NewUnavailable(o, v).votes = Cardinality(Voters(NewUnavailable(o, v)))
          /\ Voters(NewUnavailable(o, v)) = Voters(unavailable[o]) \cup {v}
        BY <1>2, <1>3, <1>4, <3>1, <3>2, AddVoteCounts
    <3> QED  BY <3>3, <3>4, <3>5
  <2>2. CASE ~No(o, v)
      BY <1>1, <1>4, <2>2 DEF NewUnavailable, TallyAbsence, No, CallInv, HoldersVouch
  <2> QED  BY <2>1, <2>2
<1> QED  BY <1>5, <1>6

(* The other calls do not notice a step of call o.                         *)
LEMMA OtherCallsInv ==
    ASSUME Inv, NEW o \in Ops, UNCHANGED <<store, call, holders>>,
           \A p \in Ops \ {o} : UNCHANGED <<available[p], unavailable[p], pending[p],
                                            replies[p], result[p]>>
    PROVE  \A p \in Ops \ {o} : CallInv(p)'
<1> SUFFICES ASSUME NEW p \in Ops \ {o} PROVE CallInv(p)'
    OBVIOUS
<1>1. CallInv(p)
    BY DEF Inv
<1>2. UNCHANGED <<available[p], unavailable[p], pending[p], replies[p], result[p],
                  call[p], holders[p], store>>
    OBVIOUS
<1> QED  BY <1>1, <1>2
         DEF CallInv, Counted, IdleClean, HoldersHold, HoldersVouch,
             RepliesWait, ResultBacked, Running, Holds

(* One iteration of a response loop preserves the invariant: a vote is     *)
(* counted at most once per validator, and never for an absence by a       *)
(* holder.                                                                 *)
LEMMA TakeReplyInv ==
    ASSUME Inv, NEW o \in Ops, NEW v \in Validators, TakeReply(o, v)
    PROVE  \A p \in Ops : CallInv(p)'
<1> DEFINE a == NewAvailable(o, v)
           u == NewUnavailable(o, v)
           msg == NewMessage(o, v)
           Returns == Return(o, a, u, msg)
           GoesOn == /\ replies' = [replies EXCEPT ![o][v] = NoReply]
                     /\ UNCHANGED <<result, endedAt>>
<1>1. TypeOK /\ CallInv(o)
    BY DEF Inv
<1>2. /\ Running(o) /\ v \in pending[o]
      /\ available' = [available EXCEPT ![o] = a]
      /\ unavailable' = [unavailable EXCEPT ![o] = u]
      /\ Returns \/ GoesOn
      /\ pending' = [pending EXCEPT ![o] = @ \ {v}]
      /\ UNCHANGED <<store, call, holders>>
    BY TakeReplyUnfolded, Zenon
<1>3. /\ a.votes = Cardinality(Voters(a)) /\ u.votes = Cardinality(Voters(u))
      /\ Voters(a) \subseteq Voters(available[o]) \cup {v}
      /\ Voters(u) \subseteq Voters(unavailable[o]) \cup {v}
      /\ \A w \in holders[o] : w \notin Voters(u)
    BY <1>2, TakeReplyTallies
<1>4. a \in Tallies /\ u \in Tallies
    BY <1>1, <1>2, TakeReplyTypes
<1> HIDE DEF a, u, msg
<1>5. available'[o] = a /\ unavailable'[o] = u /\ pending'[o] = pending[o] \ {v}
    BY <1>1, <1>2 DEF TypeOK
<1>6. Returns =>
        /\ \A w \in Validators : replies'[o][w] = NoReply
        /\ \A p \in Ops \ {o} : replies'[p] = replies[p] /\ result'[p] = result[p]
        /\ result'[o].type = "unavailable" => N # 0 /\ HasReachedQuorum(N, u.votes)
    BY <1>1, <1>3, <1>4, ReturnEffect
<1>7. GoesOn =>
        /\ result'[o] = NoResult
        /\ \A p \in Ops \ {o} : replies'[p] = replies[p] /\ result'[p] = result[p]
        /\ \A w \in Validators : replies'[o][w] \in {replies[o][w], NoReply}
    BY <1>1, <1>2 DEF TypeOK, Running
<1>8. \A p \in Ops \ {o} : CallInv(p)'
  <2>1. \A p \in Ops \ {o} :
           UNCHANGED <<available[p], unavailable[p], pending[p], replies[p], result[p]>>
      BY <1>1, <1>2, <1>6, <1>7 DEF TypeOK
  <2> QED  BY <1>2, <2>1, OtherCallsInv
<1>9. CallInv(o)'
  <2>1. Counted(o, available[o])' /\ Counted(o, unavailable[o])'
      BY <1>1, <1>3, <1>5 DEF CallInv, Counted
  <2>2. IdleClean(o)'
      BY <1>2 DEF IdleClean, Running
  <2>3. HoldersHold(o)'
      BY <1>1, <1>2 DEF CallInv, HoldersHold, Holds
  <2>4. HoldersVouch(o)'
    <3>1. \A w \in holders[o] : w \in Validators /\ replies[o][w].type # "unavailable"
        BY <1>1 DEF CallInv, HoldersVouch, TypeOK
    <3>2. \A w \in holders[o] : replies'[o][w].type # "unavailable"
        BY <1>2, <1>6, <1>7, <3>1 DEF NoReply
    <3> QED  BY <1>2, <1>3, <1>5, <3>2 DEF HoldersVouch
  <2>5. RepliesWait(o)'
    <3>1. CASE Returns
        BY <1>6, <3>1 DEF RepliesWait
    <3>2. CASE GoesOn
        BY <1>2, <1>7, <3>2 DEF RepliesWait, Running
    <3> QED  BY <1>2, <3>1, <3>2
  <2>6. ResultBacked(o)'
    <3>1. CASE Returns
        BY <1>5, <1>6, <3>1 DEF ResultBacked
    <3>2. CASE GoesOn
        BY <1>7, <3>2 DEF ResultBacked, NoResult
    <3> QED  BY <1>2, <3>1, <3>2
  <2> QED  BY <2>1, <2>2, <2>3, <2>4, <2>5, <2>6 DEF CallInv
<1> QED  BY <1>8, <1>9

(* The end of a response loop without a new vote preserves the invariant.  *)
LEMMA GiveUpOrRunOutInv ==
    ASSUME Inv, NEW o \in Ops, Running(o),
           Return(o, available[o], unavailable[o], message[o]),
           UNCHANGED <<store, call, pending, available, unavailable, holders>>
    PROVE  \A p \in Ops : CallInv(p)'
<1>1. TypeOK /\ CallInv(o)
    BY DEF Inv
<1>2. available[o] \in Tallies /\ available[o].votes = Cardinality(Voters(available[o]))
    BY <1>1 DEF TypeOK, CallInv, Counted
<1>3. /\ \A w \in Validators : replies'[o][w] = NoReply
      /\ \A p \in Ops \ {o} : replies'[p] = replies[p] /\ result'[p] = result[p]
      /\ result'[o].type = "unavailable"
            => N # 0 /\ HasReachedQuorum(N, unavailable[o].votes)
    BY <1>1, <1>2, ReturnEffect
<1>4. \A p \in Ops \ {o} : CallInv(p)'
    BY <1>3, OtherCallsInv
<1>5. CallInv(o)'
  <2>1. Counted(o, available[o])' /\ Counted(o, unavailable[o])'
      BY <1>1 DEF CallInv, Counted
  <2>2. IdleClean(o)' /\ RepliesWait(o)' /\ ResultBacked(o)'
      BY <1>3 DEF IdleClean, RepliesWait, ResultBacked, Running
  <2>3. HoldersHold(o)'
      BY <1>1 DEF CallInv, HoldersHold, Holds
  <2>4. HoldersVouch(o)'
    <3>1. \A w \in holders[o] : w \in Validators /\ w \notin Voters(unavailable[o])
        BY <1>1 DEF CallInv, HoldersVouch, TypeOK
    <3> QED  BY <1>3, <3>1 DEF HoldersVouch, NoReply
  <2> QED  BY <2>1, <2>2, <2>3, <2>4 DEF CallInv
<1> QED  BY <1>4, <1>5

(* Every step preserves the invariant: one case per action.                *)
LEMMA NextInv ==
    ASSUME Inv, [Next]_vars
    PROVE  Inv'
<1>1. TypeOK'
    BY NextTypeOK DEF Inv
<1>2. \A p \in Ops : CallInv(p)'
  <2>1. CASE Tick
    <3>1. UNCHANGED <<store, holders, call>> /\ UNCHANGED client /\ UNCHANGED replies
        BY <2>1 DEF Tick, client, history
    <3> QED  BY <3>1, HoldersUntouched, ValidatorStepInv
  <2>2. CASE \E o \in Ops, ns \in Namespaces, m \in Messages : Write(o, ns, m)
    <3>1. \A ns \in Namespaces, m \in Messages :
             [type |-> "write", ns |-> ns, message |-> m] \in Calls
        BY DEF Calls
    <3> QED  BY <2>2, <3>1, BeginInv DEF Write
  <2>3. CASE \E o \in Ops, ns \in Namespaces, id \in MsgIds : ReadMessage(o, ns, id)
    <3>1. \A ns \in Namespaces, id \in MsgIds :
             [type |-> "read", ns |-> ns, id |-> id] \in Calls
        BY DEF Calls
    <3> QED  BY <2>3, <3>1, BeginInv DEF ReadMessage
  <2>4. CASE \E o \in Ops, v \in Validators : HandleWrite(v, o)
      BY <2>4, HandleWriteInv
  <2>5. CASE \E o \in Ops, v \in Validators : HandleReadMessage(v, o)
      BY <2>5, HandleReadMessageInv
  <2>6. CASE \E o \in Ops, v \in Validators : FaultyReply(v, o)
      BY <2>6, FaultyReplyInv
  <2>7. CASE \E v \in Validators : Restart(v)
      BY <2>7, RestartInv
  <2>8. CASE \E o \in Ops, v \in Validators : TakeReply(o, v)
      BY <2>8, TakeReplyInv
  <2>9. CASE \E o \in Ops, v \in Validators : GiveUp(o, v)
      BY <2>9, GiveUpOrRunOutInv DEF GiveUp
  <2>10. CASE \E o \in Ops : RunOut(o)
      BY <2>10, GiveUpOrRunOutInv DEF RunOut
  <2>11. CASE UNCHANGED vars
    <3>1. UNCHANGED <<store, holders, call>> /\ UNCHANGED client /\ UNCHANGED replies
        BY <2>11 DEF vars, client
    <3> QED  BY <3>1, HoldersUntouched, ValidatorStepInv
  <2> QED  BY <2>1, <2>2, <2>3, <2>4, <2>5, <2>6, <2>7, <2>8, <2>9, <2>10, <2>11
           DEF Next
<1> QED  BY <1>1, <1>2 DEF Inv

(* The voters of an absence and the holders of its key are disjoint, and   *)
(* two quorums are not.                                                    *)
LEMMA InvNoConflict == Inv => NoConflict
<1> SUFFICES ASSUME Inv, NEW o \in Ops, result[o].type = "unavailable", N # 4,
                    HasReachedQuorum(N, Cardinality(holders[o]))
             PROVE  FALSE
    BY DEF NoConflict
<1> DEFINE voters == Voters(unavailable[o])
<1>1. TypeOK /\ CallInv(o)
    BY DEF Inv
<1>2. voters \in SUBSET Indexes(N) /\ holders[o] \in SUBSET Indexes(N)
    BY <1>1, VotersType DEF TypeOK, Validators
<1>3. HasReachedQuorum(N, Cardinality(voters)) /\ N \in Nat \ {0, 4}
    BY <1>1, NAssumption DEF CallInv, ResultBacked, Counted
<1>4. voters \cap holders[o] = {}
    BY <1>1 DEF CallInv, HoldersVouch
<1> HIDE DEF voters
<1> QED  BY <1>2, <1>3, <1>4, QuorumsShareValidator

(* read_message never certifies the unavailability of a message that a     *)
(* quorum of correct validators has held since the call began: for every   *)
(* number of validators but four, every set of faulty ones, every capacity *)
(* and every pattern of restarts, losses and delays.                       *)
THEOREM CertificatesDoNotConflict == Spec => []NoConflict
<1>1. Inv /\ [Next]_vars => Inv'
    BY NextInv
<1> QED  BY <1>1, InitInv, InvNoConflict, PTL DEF Spec
=============================================================================
