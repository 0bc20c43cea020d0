----------------------- MODULE DatoCertificates_proofs -----------------------
(***************************************************************************)
(* What stores hold, what certificates say and that Dato implements        *)
(* Availability, for any number of validators, calls and messages, any     *)
(* capacity and any clock error.                                           *)
(***************************************************************************)
EXTENDS DatoAvailability, Dato_proofs

-----------------------------------------------------------------------------
(* The inductive invariant.  What a certificate says depends on every      *)
(* place its content has passed: the stores, the answers that wait, and    *)
(* the tallies.  So the invariant follows a record from the write that     *)
(* made it to the result, with the validator that signed it, the time it   *)
(* was stamped with and the call that asked for it.                        *)

(* Some client has begun to write m, not later than the clock time ts.     *)
WrittenBy(ns, m, ts) ==
    \E w \in Ops : /\ call[w].type = "write"
                   /\ call[w].ns = ns
                   /\ call[w].message = m
                   /\ startedAt[w] - Skew <= ts

(* What validators store was written by a client.                          *)
StoreWritten ==
    \A v \in Validators, ns \in Namespaces :
        \A i \in DOMAIN store[v][ns] :
            LET r == store[v][ns][i].record
            IN  r.timestamp <= now + Skew /\ WrittenBy(ns, r.message, r.timestamp)

(* The time ts of a record of m is in the window of call o: not before the *)
(* write, which for a write is the call itself.                            *)
FromWrite(o, m, ts) ==
    IF call[o].type = "write" THEN startedAt[o] - Skew <= ts
                              ELSE WrittenBy(call[o].ns, m, ts)

(* An answer of a correct validator v to call o.                           *)
SoundRecord(o, v, r) ==
    /\ Matches(call[o], r)
    /\ Verify(r.signature, v, RecordDigest(call[o].ns, r.timestamp, r.message))
    /\ FromWrite(o, r.message, r.timestamp)
    /\ r.timestamp <= now + Skew
SoundAbsence(o, v, u) ==
    /\ call[o].type = "read"
    /\ u.msg_id = call[o].id
    /\ Verify(u.signature, v, UnavailableDigest(u.msg_id, u.timestamp))
    /\ startedAt[o] - Skew <= u.timestamp
    /\ u.timestamp <= now + Skew

RepliesSound(o) ==
    \A v \in Validators \ Faulty :
        \/ replies[o][v] = NoReply
        \/ /\ replies[o][v].type = "record"
           /\ SoundRecord(o, v, replies[o][v].record)
        \/ /\ replies[o][v].type = "unavailable"
           /\ SoundAbsence(o, v, replies[o][v].unavailable)

(* Until when answers have come in.                                        *)
Until(o) == IF result[o] = NoResult THEN now ELSE endedAt[o]

(* The tally of records: every signature is over the taken message and the *)
(* time entered for its validator, which is not after t.                   *)
RecordVotes(o, a, msg, t) ==
    /\ ZeroElsewhere(a)
    /\ a.sigs # {} => MsgId(call[o].ns, msg) = CallId(call[o])
    /\ \A s \in a.sigs :
          /\ s = Sign(s.key, RecordDigest(call[o].ns, a.timestamps[s.key], msg))
          /\ s.key \notin Faulty =>
                /\ FromWrite(o, msg, a.timestamps[s.key])
                /\ a.timestamps[s.key] <= t + Skew

(* The tally of absences: the same for the requested id, as far as correct *)
(* validators signed.                                                      *)
AbsenceVotes(o, u, t) ==
    /\ ZeroElsewhere(u)
    /\ \A s \in u.sigs :
          s.key \notin Faulty =>
             /\ s = Sign(s.key, UnavailableDigest(call[o].id, u.timestamps[s.key]))
             /\ startedAt[o] - Skew <= u.timestamps[s.key]
             /\ u.timestamps[s.key] <= t + Skew

(* A correct validator whose answer to a write was taken has voted.        *)
WriteVotes(o) ==
    call[o].type = "write" =>
        Validators \ (Faulty \cup pending[o]) \subseteq Voters(available[o])

(* A result is what the tallies conclude to.                               *)
ResultIs(o) ==
    result[o] # NoResult =>
        result[o] = Concluded(call[o], available[o], unavailable[o], message[o])

CertInv(o) ==
    /\ startedAt[o] <= now
    /\ RepliesSound(o)
    /\ RecordVotes(o, available[o], message[o], Until(o))
    /\ AbsenceVotes(o, unavailable[o], Until(o))
    /\ WriteVotes(o)
    /\ ResultIs(o)

CertificateInv ==
    /\ Inv
    /\ StoreSound
    /\ StoreWritten
    /\ \A o \in Ops : CertInv(o)

-----------------------------------------------------------------------------
(* Steps in general.                                                       *)

(* Time does not go back, and a call that has begun keeps its arguments    *)
(* and its beginning.                                                      *)
Monotone ==
    /\ now <= now'
    /\ \A w \in Ops : call[w] # Idle => UNCHANGED <<call[w], startedAt[w]>>

(* So does every step.                                                     *)
LEMMA NextMonotone ==
    ASSUME TypeOK, [Next]_vars
    PROVE  Monotone
<1>1. now \in Nat
    BY DEF TypeOK
<1>2. CASE Tick
    BY <1>1, <1>2 DEF Tick, client, history, Monotone
<1>3. ASSUME NEW o \in Ops, NEW c, NEW msg, call[o] = Idle, Begin(o, c, msg)
      PROVE  Monotone
    BY <1>1, <1>3 DEF Begin, Monotone, TypeOK
<1>4. CASE \E o \in Ops, ns \in Namespaces, m \in Messages : Write(o, ns, m)
    BY <1>3, <1>4 DEF Write
<1>5. CASE \E o \in Ops, ns \in Namespaces, id \in MsgIds : ReadMessage(o, ns, id)
    BY <1>3, <1>5 DEF ReadMessage
<1>6. CASE UNCHANGED <<now, call, startedAt>>
    BY <1>1, <1>6 DEF Monotone
<1>7. CASE \E o \in Ops, v \in Validators : HandleWrite(v, o)
    BY <1>6, <1>7 DEF HandleWrite, client
<1>8. CASE \E o \in Ops, v \in Validators : HandleReadMessage(v, o)
    BY <1>6, <1>8 DEF HandleReadMessage, client, history
<1>9. CASE \E o \in Ops, v \in Validators : FaultyReply(v, o)
    BY <1>6, <1>9 DEF FaultyReply, client, history
<1>10. CASE \E v \in Validators : Restart(v)
    BY <1>6, <1>10 DEF Restart, client
<1>11. CASE \E o \in Ops, v \in Validators : TakeReply(o, v)
    BY <1>6, <1>11, TakeReplyUnfolded
<1>12. CASE \E o \in Ops, v \in Validators : GiveUp(o, v)
    BY <1>6, <1>12 DEF GiveUp
<1>13. CASE \E o \in Ops : RunOut(o)
    BY <1>6, <1>13 DEF RunOut
<1>14. CASE UNCHANGED vars
    BY <1>6, <1>14 DEF vars
<1> QED  BY <1>2, <1>4, <1>5, <1>7, <1>8, <1>9, <1>10, <1>11, <1>12, <1>13, <1>14
         DEF Next

(* What was written stays written.                                         *)
LEMMA WrittenKept ==
    ASSUME TypeOK, Monotone, NEW ns, NEW m, NEW ts, WrittenBy(ns, m, ts)
    PROVE  WrittenBy(ns, m, ts)'
<1>1. PICK w \in Ops : /\ call[w].type = "write"
                       /\ call[w].ns = ns
                       /\ call[w].message = m
                       /\ startedAt[w] - Skew <= ts
    BY DEF WrittenBy
<1>2. call[w] # Idle
    BY <1>1 DEF Idle
<1>3. call'[w] = call[w] /\ startedAt'[w] = startedAt[w]
    BY <1>2 DEF Monotone
<1> QED  BY <1>1, <1>3 DEF WrittenBy

(* A record in the window of a call stays there.                           *)
LEMMA FromWriteKept ==
    ASSUME TypeOK, Monotone, NEW o \in Ops, call[o] # Idle, NEW m, NEW ts,
           FromWrite(o, m, ts)
    PROVE  FromWrite(o, m, ts)'
<1>1. call'[o] = call[o] /\ startedAt'[o] = startedAt[o]
    BY DEF Monotone
<1>2. CASE call[o].type = "write"
    BY <1>1, <1>2 DEF FromWrite
<1>3. CASE call[o].type # "write"
  <2>1. WrittenBy(call[o].ns, m, ts)
      BY <1>3 DEF FromWrite
  <2>2. PICK ns : ns = call[o].ns
      OBVIOUS
  <2>3. WrittenBy(ns, m, ts)'
      BY <2>1, <2>2, WrittenKept
  <2> QED  BY <1>1, <1>3, <2>2, <2>3 DEF FromWrite, WrittenBy
<1> QED  BY <1>2, <1>3

(* A sound answer stays sound.                                             *)
LEMMA SoundKept ==
    ASSUME TypeOK, TypeOK', Monotone, NEW o \in Ops, call[o] # Idle, NEW v
    PROVE  /\ \A r \in Records : SoundRecord(o, v, r) => SoundRecord(o, v, r)'
           /\ \A u \in Unavailables : SoundAbsence(o, v, u) => SoundAbsence(o, v, u)'
<1>1. call'[o] = call[o] /\ startedAt'[o] = startedAt[o]
    BY DEF Monotone
<1>2. ASSUME NEW ts \in Nat, ts <= now + Skew
      PROVE  ts <= now' + Skew
  <2>1. now \in Nat /\ now' \in Nat /\ now <= now'
      BY DEF TypeOK, Monotone
  <2>2. \A x, y \in Nat : x <= y /\ ts <= x + Skew => ts <= y + Skew
      BY ClockAssumption
  <2> QED  BY <1>2, <2>1, <2>2
<1>3. ASSUME NEW r \in Records, SoundRecord(o, v, r)
      PROVE  SoundRecord(o, v, r)'
  <2>1. FromWrite(o, r.message, r.timestamp)'
      BY <1>3, FromWriteKept DEF SoundRecord
  <2>2. r.timestamp <= now' + Skew
      BY <1>2, <1>3 DEF SoundRecord, Records
  <2> QED  BY <1>1, <1>3, <2>1, <2>2 DEF SoundRecord
<1>4. ASSUME NEW u \in Unavailables, SoundAbsence(o, v, u)
      PROVE  SoundAbsence(o, v, u)'
  <2>1. u.timestamp <= now' + Skew
      BY <1>2, <1>4 DEF SoundAbsence, Unavailables
  <2> QED  BY <1>1, <1>4, <2>1 DEF SoundAbsence
<1> QED  BY <1>3, <1>4

(* Votes stay what they are, and their bound in time may move on.          *)
LEMMA VotesKept ==
    ASSUME TypeOK, Monotone, NEW o \in Ops, call[o] # Idle,
           NEW a \in Tallies, NEW msg, NEW s \in Nat, NEW t \in Nat, s <= t
    PROVE  /\ RecordVotes(o, a, msg, s) => RecordVotes(o, a, msg, t)'
           /\ AbsenceVotes(o, a, s) => AbsenceVotes(o, a, t)'
<1>1. call'[o] = call[o] /\ startedAt'[o] = startedAt[o]
    BY DEF Monotone
<1>2. \A x \in a.sigs : a.timestamps[x.key] \in Nat
    BY DEF Tallies, Signatures
<1>3. \A x \in a.sigs : a.timestamps[x.key] <= s + Skew => a.timestamps[x.key] <= t + Skew
    BY <1>2, ClockAssumption
<1>4. ASSUME RecordVotes(o, a, msg, s)
      PROVE  RecordVotes(o, a, msg, t)'
  <2>1. \A x \in a.sigs : FromWrite(o, msg, a.timestamps[x.key])
                             => FromWrite(o, msg, a.timestamps[x.key])'
    <3> SUFFICES ASSUME NEW x \in a.sigs, FromWrite(o, msg, a.timestamps[x.key])
                 PROVE  FromWrite(o, msg, a.timestamps[x.key])'
        OBVIOUS
    <3> QED  BY FromWriteKept
  <2> QED  BY <1>1, <1>3, <1>4, <2>1 DEF RecordVotes, ZeroElsewhere, Voters
<1>5. ASSUME AbsenceVotes(o, a, s)
      PROVE  AbsenceVotes(o, a, t)'
    BY <1>1, <1>3, <1>5 DEF AbsenceVotes, ZeroElsewhere, Voters
<1> QED  BY <1>4, <1>5

-----------------------------------------------------------------------------
(* The stores.                                                             *)

(* What Validator::write does to the stores.                               *)
LEMMA HandleWriteStore ==
    ASSUME TypeOK, NEW o \in Ops, NEW v \in Validators, HandleWrite(v, o)
    PROVE  /\ call[o] \in Calls /\ call[o].type = "write"
           /\ call[o].ns \in Namespaces /\ call[o].message \in Messages
           /\ \E ts \in Clock :
                /\ Respond(o, v, RecordReply(Stamped(v, call[o].ns, ts, call[o].message)))
                /\ \E entries \in WriteOne(store[v][call[o].ns], Cap, call[o].ns,
                                           Stamped(v, call[o].ns, ts, call[o].message)) :
                      store' = [store EXCEPT ![v][call[o].ns] = entries]
<1>1. call[o] \in Calls /\ call[o].type = "write"
    BY DEF HandleWrite, TypeOK
<1>2. call[o].ns \in Namespaces /\ call[o].message \in Messages
    BY <1>1 DEF Calls
<1> QED  BY <1>1, <1>2, Zenon DEF HandleWrite

(* A time a clock shows is a time, and near the real one.                  *)
LEMMA ClockFacts ==
    ASSUME TypeOK, NEW ts \in Clock
    PROVE  ts \in Nat /\ now - Skew <= ts /\ ts <= now + Skew
BY ClockAssumption DEF Clock, ClockAt, Times, TypeOK

(* Every step but Validator::write and a restart leaves the stores alone.  *)
LEMMA StoreSteps ==
    ASSUME [Next]_vars
    PROVE  \/ \E o \in Ops, v \in Validators : HandleWrite(v, o)
           \/ \E v \in Validators : Restart(v)
           \/ UNCHANGED <<store, restarts>>
<1>1. CASE Tick
    BY <1>1 DEF Tick
<1>2. CASE \E o \in Ops, ns \in Namespaces, m \in Messages : Write(o, ns, m)
    BY <1>2 DEF Write, Begin
<1>3. CASE \E o \in Ops, ns \in Namespaces, id \in MsgIds : ReadMessage(o, ns, id)
    BY <1>3 DEF ReadMessage, Begin
<1>4. CASE \E o \in Ops, v \in Validators : HandleReadMessage(v, o)
    BY <1>4 DEF HandleReadMessage
<1>5. CASE \E o \in Ops, v \in Validators : FaultyReply(v, o)
    BY <1>5 DEF FaultyReply
<1>6. CASE \E o \in Ops, v \in Validators : TakeReply(o, v)
    BY <1>6, TakeReplyUnfolded
<1>7. CASE \E o \in Ops, v \in Validators : GiveUp(o, v)
    BY <1>7 DEF GiveUp
<1>8. CASE \E o \in Ops : RunOut(o)
    BY <1>8 DEF RunOut
<1>9. CASE UNCHANGED vars
    BY <1>9 DEF vars
<1> QED  BY <1>1, <1>2, <1>3, <1>4, <1>5, <1>6, <1>7, <1>8, <1>9 DEF Next

(* StoreSound says that all entries are sound.                             *)
LEMMA StoreSoundEntries ==
    StoreSound <=> \A v \in Validators, ns \in Namespaces :
                      SoundEntries(v, ns, store[v][ns])
BY DEF StoreSound, SoundEntries

(* Every step keeps the stores sound.                                      *)
LEMMA NextStoreSound ==
    ASSUME TypeOK, StoreSound, [Next]_vars
    PROVE  StoreSound'
<1>1. SUFFICES ASSUME NEW w \in Validators, NEW k \in Namespaces
               PROVE  SoundEntries(w, k, store'[w][k])
    BY DEF StoreSound, SoundEntries
<1>2. /\ store[w][k] \in Seq(Entries)
      /\ SoundEntries(w, k, store[w][k])
    BY StoreSoundEntries DEF TypeOK
<1>3. CASE UNCHANGED <<store, restarts>>
    BY <1>2, <1>3
<1>4. ASSUME NEW v \in Validators, Restart(v)
      PROVE  SoundEntries(w, k, store'[w][k])
  <2>1. store'[w][k] = IF w = v THEN <<>> ELSE store[w][k]
      BY <1>4 DEF Restart, TypeOK
  <2> QED  BY <1>2, <2>1, EmptySound
<1>5. ASSUME NEW o \in Ops, NEW v \in Validators, HandleWrite(v, o)
      PROVE  SoundEntries(w, k, store'[w][k])
  <2> DEFINE ns == call[o].ns
             m == call[o].message
  <2>1. ns \in Namespaces /\ m \in Messages
      BY <1>5, HandleWriteStore
  <2>2. PICK ts \in Clock :
           \E entries \in WriteOne(store[v][ns], Cap, ns, Stamped(v, ns, ts, m)) :
              store' = [store EXCEPT ![v][ns] = entries]
      BY <1>5, HandleWriteStore
  <2>3. PICK entries \in WriteOne(store[v][ns], Cap, ns, Stamped(v, ns, ts, m)) :
           store' = [store EXCEPT ![v][ns] = entries]
      BY <2>2
  <2>4. ts \in Nat
      BY ClockFacts
  <2>5. store[v][ns] \in Seq(Entries) /\ SoundEntries(v, ns, store[v][ns])
      BY <2>1, StoreSoundEntries DEF TypeOK
  <2> HIDE DEF ns, m
  <2>6. SoundEntries(v, ns, entries)
      BY <2>1, <2>4, <2>5, WriteOneSound
  <2>7. store'[w][k] = IF w = v /\ k = ns THEN entries ELSE store[w][k]
      BY <2>1, <2>3 DEF TypeOK
  <2> QED  BY <1>2, <2>6, <2>7
<1> QED  BY <1>3, <1>4, <1>5, StoreSteps

(* However messages are rewritten, evicted and lost in restarts, the       *)
(* entries of every validator stay within the capacity, one per message,   *)
(* filed under its digest and signed by the validator.                     *)
THEOREM StoresStaySound == Spec => []StoreSound
<1>1. Init => TypeOK /\ StoreSound
  <2> SUFFICES ASSUME Init PROVE StoreSound
      BY InitTypeOK
  <2>1. \A v \in Validators, ns \in Namespaces : store[v][ns] = <<>>
      BY DEF Init
  <2> QED  BY <2>1, EmptySound, StoreSoundEntries
<1>2. TypeOK /\ StoreSound /\ [Next]_vars => TypeOK' /\ StoreSound'
    BY NextTypeOK, NextStoreSound
<1> QED  BY <1>1, <1>2, PTL DEF Spec

(* A validator drops a message only when it restarts, or as the oldest one *)
(* of a full namespace.                                                    *)
THEOREM OnlyOldestDropped == Spec => DropsOnlyOldest
<1> DEFINE Drop == \A v \in Validators, ns \in Namespaces :
                      \A id \in KeysOf(store[v][ns]) \ KeysOf(store'[v][ns]) :
                         \/ restarts' # restarts
                         \/ Len(store[v][ns]) = Cap /\ store[v][ns][1].id = id
<1>1. TypeOK /\ StoreSound /\ [Next]_vars => [Drop]_vars
  <2> SUFFICES ASSUME TypeOK, StoreSound, [Next]_vars,
                      NEW w \in Validators, NEW k \in Namespaces,
                      NEW id \in KeysOf(store[w][k]), id \notin KeysOf(store'[w][k])
               PROVE  \/ restarts' # restarts
                      \/ Len(store[w][k]) = Cap /\ store[w][k][1].id = id
      OBVIOUS
  <2>1. CASE UNCHANGED <<store, restarts>>
      BY <2>1
  <2>2. ASSUME NEW v \in Validators, Restart(v)
        PROVE  restarts' # restarts
      BY <2>2 DEF Restart, TypeOK
  <2>3. ASSUME NEW o \in Ops, NEW v \in Validators, HandleWrite(v, o)
        PROVE  Len(store[w][k]) = Cap /\ store[w][k][1].id = id
    <3> DEFINE ns == call[o].ns
               m == call[o].message
               was == store[v][ns]
    <3>1. ns \in Namespaces /\ m \in Messages
        BY <2>3, HandleWriteStore
    <3>2. PICK ts \in Clock :
             \E entries \in WriteOne(store[v][ns], Cap, ns, Stamped(v, ns, ts, m)) :
                store' = [store EXCEPT ![v][ns] = entries]
        BY <2>3, HandleWriteStore
    <3>3. PICK entries \in WriteOne(store[v][ns], Cap, ns, Stamped(v, ns, ts, m)) :
             store' = [store EXCEPT ![v][ns] = entries]
        BY <3>2
    <3>4. Stamped(v, ns, ts, m) \in Records /\ MsgId(ns, m) \in MsgIds
        BY <3>1, ClockFacts, SignedRecordType, MsgIdType
    <3>5. entries \in Insert(was, Cap, MsgId(ns, m), Stamped(v, ns, ts, m))
        BY DEF WriteOne, Stamped
    <3>6. was \in Seq(Entries) /\ UniqueKeys(was) /\ Len(was) <= Cap
        BY <3>1, StoreSoundEntries DEF TypeOK, SoundEntries, UniqueKeys
    <3> HIDE DEF ns, m, was
    <3>7. store'[w][k] = IF w = v /\ k = ns THEN entries ELSE store[w][k]
        BY <3>1, <3>3 DEF TypeOK
    <3>8. w = v /\ k = ns /\ store[w][k] = was /\ id \notin KeysOf(entries)
        BY <3>7 DEF was
    <3>9. PICK j \in DOMAIN was : was[j].id = id
        BY <3>8 DEF KeysOf
    <3>10. /\ \E i \in DOMAIN entries :
                 entries[i] = [id |-> MsgId(ns, m), record |-> Stamped(v, ns, ts, m)]
           /\ \/ was[j].id = MsgId(ns, m)
              \/ \E i \in DOMAIN entries : entries[i] = was[j]
              \/ j = 1 /\ Len(was) = Cap
        BY <3>4, <3>5, <3>6, <3>9, InsertEntries
    <3>11. j = 1 /\ Len(was) = Cap
        BY <3>8, <3>9, <3>10 DEF KeysOf
    <3> QED  BY <3>8, <3>9, <3>11
  <2> QED  BY <2>1, <2>2, <2>3, StoreSteps
<1>2. Spec => [](TypeOK /\ StoreSound)
    BY TypeCorrect, StoresStaySound, PTL
<1> QED  BY <1>1, <1>2, PTL DEF Spec, DropsOnlyOldest

(* A record that was written by now stays so.                              *)
LEMMA StampKept ==
    ASSUME TypeOK, TypeOK', Monotone, NEW ns, NEW r \in Records,
           r.timestamp <= now + Skew, WrittenBy(ns, r.message, r.timestamp)
    PROVE  r.timestamp <= now' + Skew /\ WrittenBy(ns, r.message, r.timestamp)'
<1>1. now \in Nat /\ now' \in Nat /\ now <= now' /\ r.timestamp \in Nat
    BY DEF TypeOK, Monotone, Records
<1>2. \A x, y, t \in Nat : x <= y /\ t <= x + Skew => t <= y + Skew
    BY ClockAssumption
<1> QED  BY <1>1, <1>2, WrittenKept

(* A call that has a request with a validator began before now, so what a  *)
(* clock then shows is in its window.                                      *)
LEMMA ClockAfterStart ==
    ASSUME CertificateInv, NEW o \in Ops, NEW ts \in Clock
    PROVE  startedAt[o] - Skew <= ts /\ ts <= now + Skew
<1>1. startedAt[o] \in Nat /\ now \in Nat /\ startedAt[o] <= now
    BY DEF CertificateInv, CertInv, Inv, TypeOK
<1>2. ts \in Nat /\ now - Skew <= ts /\ ts <= now + Skew
    BY ClockFacts DEF CertificateInv, Inv
<1> QED  BY <1>1, <1>2, ClockAssumption

(* Every step leaves in the stores only what was written.                  *)
LEMMA NextStoreWritten ==
    ASSUME CertificateInv, [Next]_vars
    PROVE  StoreWritten'
<1>1. TypeOK /\ TypeOK' /\ Monotone /\ StoreSound
    BY NextTypeOK, NextMonotone DEF CertificateInv, Inv
<1>2. SUFFICES ASSUME NEW w \in Validators, NEW k \in Namespaces,
                      NEW i \in DOMAIN store'[w][k], NEW r, r = store'[w][k][i].record
               PROVE  r.timestamp <= now' + Skew /\ WrittenBy(k, r.message, r.timestamp)'
    BY DEF StoreWritten, WrittenBy
<1>3. ASSUME NEW j \in DOMAIN store[w][k], NEW q, q = store[w][k][j].record
      PROVE  q.timestamp <= now' + Skew /\ WrittenBy(k, q.message, q.timestamp)'
  <2>1. store[w][k] \in Seq(Entries)
      BY <1>1 DEF TypeOK
  <2>2. store[w][k][j] \in Entries
      BY <2>1
  <2>3. q \in Records
      BY <1>3, <2>2 DEF Entries
  <2>4. q.timestamp <= now + Skew /\ WrittenBy(k, q.message, q.timestamp)
      BY <1>3 DEF CertificateInv, StoreWritten
  <2> QED  BY <1>1, <2>3, <2>4, StampKept
<1>4. CASE UNCHANGED <<store, restarts>>
    BY <1>2, <1>3, <1>4
<1>5. ASSUME NEW v \in Validators, Restart(v)
      PROVE  r.timestamp <= now' + Skew /\ WrittenBy(k, r.message, r.timestamp)'
  <2>1. store'[w][k] = IF w = v THEN <<>> ELSE store[w][k]
      BY <1>1, <1>5 DEF Restart, TypeOK
  <2>2. store'[w][k] = store[w][k]
      BY <1>2, <2>1
  <2> QED  BY <1>2, <1>3, <2>2
<1>6. ASSUME NEW o \in Ops, NEW v \in Validators, HandleWrite(v, o)
      PROVE  r.timestamp <= now' + Skew /\ WrittenBy(k, r.message, r.timestamp)'
  <2> DEFINE ns == call[o].ns
             m == call[o].message
             stamp(t) == Stamped(v, ns, t, m)
  <2>1. ns \in Namespaces /\ m \in Messages /\ call[o].type = "write"
      BY <1>1, <1>6, HandleWriteStore
  <2>2. PICK ts \in Clock :
           \E entries \in WriteOne(store[v][ns], Cap, ns, stamp(ts)) :
              store' = [store EXCEPT ![v][ns] = entries]
      BY <1>1, <1>6, HandleWriteStore
  <2>3. PICK entries \in WriteOne(store[v][ns], Cap, ns, stamp(ts)) :
           store' = [store EXCEPT ![v][ns] = entries]
      BY <2>2
  <2>4. stamp(ts) \in Records /\ MsgId(ns, m) \in MsgIds
      BY <1>1, <2>1, ClockFacts, SignedRecordType, MsgIdType
  <2>5. entries \in Insert(store[v][ns], Cap, MsgId(ns, m), stamp(ts))
      BY DEF WriteOne, Stamped
  <2>6. store[v][ns] \in Seq(Entries) /\ UniqueKeys(store[v][ns]) /\ Len(store[v][ns]) <= Cap
    <3>1. store[v][ns] \in Seq(Entries)
        BY <1>1, <2>1 DEF TypeOK
    <3>2. SoundEntries(v, ns, store[v][ns])
        BY <1>1, <2>1, StoreSoundEntries
    <3> HIDE DEF ns
    <3> QED  BY <3>1, <3>2 DEF SoundEntries, UniqueKeys
  <2>7. stamp(ts).message = m /\ stamp(ts).timestamp = ts
      BY DEF Stamped
  <2>8. WrittenBy(ns, m, ts) /\ ts <= now + Skew
      BY <2>1, ClockAfterStart DEF WrittenBy
  <2>9. CASE w = v /\ k = ns
    <3> HIDE DEF stamp, ns, m
    <3>1. store'[w][k] = entries
        BY <1>1, <2>1, <2>3, <2>9 DEF TypeOK
    <3>2. \/ entries[i] = [id |-> MsgId(ns, m), record |-> stamp(ts)]
          \/ \E j \in DOMAIN store[v][ns] : entries[i] = store[v][ns][j]
        BY <1>2, <2>4, <2>5, <2>6, <3>1, InsertEntries
    <3>3. CASE r = stamp(ts)
      <4>1. r \in Records /\ r.timestamp <= now + Skew /\ WrittenBy(k, r.message, r.timestamp)
          BY <2>4, <2>7, <2>8, <2>9, <3>3
      <4> QED  BY <1>1, <4>1, StampKept
    <3>4. CASE \E j \in DOMAIN store[w][k] : r = store[w][k][j].record
        BY <1>3, <3>4
    <3> QED  BY <1>2, <2>9, <3>1, <3>2, <3>3, <3>4
  <2>10. CASE ~(w = v /\ k = ns)
    <3> HIDE DEF stamp, ns, m
    <3>1. store'[w][k] = store[w][k]
        BY <1>1, <2>1, <2>3, <2>10 DEF TypeOK
    <3> QED  BY <1>2, <1>3, <3>1
  <2> QED  BY <2>9, <2>10
<1> QED  BY <1>4, <1>5, <1>6, StoreSteps

-----------------------------------------------------------------------------
(* The answers that wait.                                                  *)

(* Answers that stay, are taken or are dropped leave the rest sound.       *)
LEMMA RepliesKept ==
    ASSUME CertificateInv, TypeOK', Monotone, NEW p \in Ops,
           \A v \in Validators \ Faulty :
              \/ replies'[p][v] = replies[p][v]
              \/ replies'[p][v] = NoReply
              \/ /\ replies'[p][v].type = "record"
                 /\ SoundRecord(p, v, replies'[p][v].record)
                 /\ call[p] # Idle
              \/ /\ replies'[p][v].type = "unavailable"
                 /\ SoundAbsence(p, v, replies'[p][v].unavailable)
                 /\ call[p] # Idle
    PROVE  RepliesSound(p)'
<1>1. TypeOK /\ RepliesSound(p) /\ RepliesWait(p)
    BY DEF CertificateInv, Inv, CallInv, CertInv
<1>2. SUFFICES ASSUME NEW v \in Validators \ Faulty, NEW reply,
                      reply = replies'[p][v], reply # NoReply
               PROVE  \/ /\ reply.type = "record"
                         /\ SoundRecord(p, v, reply.record)'
                      \/ /\ reply.type = "unavailable"
                         /\ SoundAbsence(p, v, reply.unavailable)'
    BY DEF RepliesSound, SoundRecord, SoundAbsence, FromWrite, WrittenBy
<1>3. reply \in Replies
    BY <1>2 DEF TypeOK
<1>4. /\ reply.type = "record" => reply.record \in Records
      /\ reply.type = "unavailable" => reply.unavailable \in Unavailables
    BY <1>3 DEF Replies, NoReply, Garbage
<1>5. \/ /\ reply.type = "record"
         /\ SoundRecord(p, v, reply.record)
         /\ call[p] # Idle
      \/ /\ reply.type = "unavailable"
         /\ SoundAbsence(p, v, reply.unavailable)
         /\ call[p] # Idle
  <2>1. CASE reply = replies[p][v]
    <3>1. call[p] # Idle
        BY <1>1, <1>2, <2>1 DEF RepliesWait, Running
    <3> QED  BY <1>1, <1>2, <2>1, <3>1 DEF RepliesSound
  <2>2. CASE reply # replies[p][v]
      BY <1>2, <2>2
  <2> QED  BY <2>1, <2>2
<1> QED  BY <1>1, <1>4, <1>5, SoundKept

(* A call whose variables a step leaves alone keeps its part of the        *)
(* invariant, if its answers are sound.                                    *)
LEMMA ClientUntouched ==
    ASSUME CertificateInv, TypeOK', Monotone, NEW p \in Ops,
           UNCHANGED <<call[p], pending[p], available[p], unavailable[p], message[p],
                       result[p], startedAt[p], endedAt[p]>>,
           RepliesSound(p)'
    PROVE  CertInv(p)'
<1>1. TypeOK /\ CertInv(p) /\ CallInv(p)
    BY DEF CertificateInv, Inv
<1>2. now \in Nat /\ now' \in Nat /\ now <= now' /\ startedAt[p] \in Nat
      /\ endedAt[p] \in Nat /\ available[p] \in Tallies /\ unavailable[p] \in Tallies
    BY <1>1 DEF TypeOK, Monotone
<1>3. startedAt'[p] <= now'
  <2>1. \A x, y, z \in Nat : x <= y /\ y <= z => x <= z
      OBVIOUS
  <2> QED  BY <1>1, <1>2, <2>1 DEF CertInv
<1>4. WriteVotes(p)' /\ ResultIs(p)'
    BY <1>1 DEF CertInv, WriteVotes, ResultIs
<1>5. PICK a, u, msg, s, t :
         /\ a = available[p] /\ u = unavailable[p] /\ msg = message[p]
         /\ s = Until(p) /\ t = Until(p)'
    OBVIOUS
<1>6. s \in Nat /\ t \in Nat /\ s <= t
    BY <1>2, <1>5 DEF Until
<1>7. RecordVotes(p, a, msg, t)' /\ AbsenceVotes(p, u, t)'
  <2>1. CASE call[p] # Idle
    <3>1. RecordVotes(p, a, msg, s) /\ AbsenceVotes(p, u, s)
        BY <1>1, <1>5 DEF CertInv
    <3> QED  BY <1>1, <1>2, <1>5, <1>6, <2>1, <3>1, VotesKept
  <2>2. CASE call[p] = Idle
    <3>1. a = EmptyTally /\ u = EmptyTally
        BY <1>1, <1>5, <2>2 DEF CallInv, IdleClean
    <3>2. a.sigs = {} /\ \A v \in Validators : a.timestamps[v] = 0
        BY <3>1 DEF EmptyTally
    <3> QED  BY <3>1, <3>2 DEF RecordVotes, AbsenceVotes, ZeroElsewhere
  <2> QED  BY <2>1, <2>2
<1>8. RecordVotes(p, available[p], message[p], Until(p))'
    BY <1>5, <1>7 DEF RecordVotes, FromWrite, WrittenBy
<1>9. AbsenceVotes(p, unavailable[p], Until(p))'
    BY <1>5, <1>7 DEF AbsenceVotes
<1> QED  BY <1>3, <1>4, <1>8, <1>9 DEF CertInv

(* A step of a validator or of time that fills the future of correct       *)
(* validators only with sound answers.                                     *)
LEMMA ValidatorStepCert ==
    ASSUME CertificateInv, TypeOK', Monotone, UNCHANGED client,
           UNCHANGED <<startedAt, endedAt>>,
           \A p \in Ops, v \in Validators \ Faulty :
              \/ replies'[p][v] = replies[p][v]
              \/ /\ replies'[p][v].type = "record"
                 /\ SoundRecord(p, v, replies'[p][v].record)
                 /\ call[p] # Idle
              \/ /\ replies'[p][v].type = "unavailable"
                 /\ SoundAbsence(p, v, replies'[p][v].unavailable)
                 /\ call[p] # Idle
    PROVE  \A p \in Ops : CertInv(p)'
<1> SUFFICES ASSUME NEW p \in Ops PROVE CertInv(p)'
    OBVIOUS
<1>1. RepliesSound(p)'
    BY RepliesKept
<1>2. UNCHANGED <<call[p], pending[p], available[p], unavailable[p], message[p],
                  result[p], startedAt[p], endedAt[p]>>
    BY DEF client
<1> QED  BY <1>1, <1>2, ClientUntouched

(* Validator::write answers with the record it has just stamped.           *)
LEMMA HandleWriteCert ==
    ASSUME CertificateInv, TypeOK', Monotone,
           NEW o \in Ops, NEW v \in Validators, HandleWrite(v, o)
    PROVE  \A p \in Ops : CertInv(p)'
<1> DEFINE r(ts) == Stamped(v, call[o].ns, ts, call[o].message)
<1>1. TypeOK
    BY DEF CertificateInv, Inv
<1>2. call[o].type = "write" /\ call[o] # Idle
    BY <1>1, HandleWriteStore DEF Idle
<1>3. PICK ts \in Clock : Respond(o, v, RecordReply(r(ts)))
    BY <1>1, HandleWriteStore
<1>4. SoundRecord(o, v, r(ts))
  <2>1. startedAt[o] - Skew <= ts /\ ts <= now + Skew
      BY ClockAfterStart
  <2> QED  BY <1>2, <2>1 DEF SoundRecord, FromWrite, Matches, Verify, Stamped
<1>5. RecordReply(r(ts)).type = "record" /\ RecordReply(r(ts)).record = r(ts)
    BY DEF RecordReply
<1> HIDE DEF r
<1>6. \A p \in Ops, w \in Validators \ Faulty :
         \/ replies'[p][w] = replies[p][w]
         \/ p = o /\ w = v /\ replies'[p][w] = RecordReply(r(ts))
    BY <1>1, <1>3, RespondEffect
<1>7. UNCHANGED client /\ UNCHANGED <<startedAt, endedAt>>
    BY DEF HandleWrite
<1> QED  BY <1>2, <1>4, <1>5, <1>6, <1>7, ValidatorStepCert

(* Validator::read_message answers with what was written, or with an       *)
(* absence it signs now.                                                   *)
LEMMA HandleReadMessageCert ==
    ASSUME CertificateInv, TypeOK', Monotone,
           NEW o \in Ops, NEW v \in Validators, HandleReadMessage(v, o)
    PROVE  \A p \in Ops : CertInv(p)'
<1> DEFINE ns == call[o].ns
           id == call[o].id
           held == store[v][ns]
<1>1. TypeOK /\ StoreSound /\ StoreWritten
    BY DEF CertificateInv, Inv
<1>2. call[o] \in Calls /\ call[o].type = "read" /\ call[o] # Idle
    BY <1>1 DEF HandleReadMessage, TypeOK, Idle
<1>3. ns \in Namespaces /\ id \in MsgIds
    BY <1>2 DEF Calls
<1>4. held \in Seq(Entries) /\ SoundEntries(v, ns, held)
    BY <1>1, <1>3, StoreSoundEntries DEF TypeOK
<1>5. PICK reply \in MessageReplies(v, held, id, now) : Respond(o, v, reply)
    BY DEF HandleReadMessage
<1>6. \/ reply.type = "record" /\ SoundRecord(o, v, reply.record)
      \/ reply.type = "unavailable" /\ SoundAbsence(o, v, reply.unavailable)
  <2>1. CASE id \in KeysOf(held)
    <3> DEFINE r == RecordOf(held, id)
    <3>1. reply = RecordReply(r)
        BY <2>1 DEF MessageReplies
    <3>2. /\ \E i \in DOMAIN held : r = held[i].record
          /\ MsgId(ns, r.message) = id
          /\ Verify(r.signature, v, RecordDigest(ns, r.timestamp, r.message))
        BY <1>4, <2>1, RecordOfSound
    <3>3. r.timestamp <= now + Skew /\ WrittenBy(ns, r.message, r.timestamp)
        BY <1>1, <1>3, <3>2 DEF StoreWritten
    <3> HIDE DEF r
    <3>4. SoundRecord(o, v, r)
        BY <1>2, <3>2, <3>3 DEF SoundRecord, FromWrite, Matches
    <3> QED  BY <3>1, <3>4 DEF RecordReply
  <2>2. CASE id \notin KeysOf(held)
    <3>1. PICK ts \in ClockAt(now) : reply = UnavailableReply(StampedAbsence(v, id, ts))
        BY <2>2, Zenon DEF MessageReplies
    <3>2. startedAt[o] - Skew <= ts /\ ts <= now + Skew
        BY <3>1, ClockAfterStart DEF Clock
    <3>3. SoundAbsence(o, v, StampedAbsence(v, id, ts))
        BY <1>2, <3>2 DEF SoundAbsence, StampedAbsence, Verify
    <3> QED  BY <3>1, <3>3 DEF UnavailableReply
  <2> QED  BY <2>1, <2>2
<1>7. \A p \in Ops, w \in Validators \ Faulty :
         \/ replies'[p][w] = replies[p][w]
         \/ p = o /\ w = v /\ replies'[p][w] = reply
    BY <1>1, <1>5, RespondEffect
<1>8. UNCHANGED client /\ UNCHANGED <<startedAt, endedAt>>
    BY DEF HandleReadMessage, history
<1> HIDE DEF ns, id, held
<1> QED  BY <1>2, <1>6, <1>7, <1>8, ValidatorStepCert

(* A faulty validator fills only its own future.                           *)
LEMMA FaultyReplyCert ==
    ASSUME CertificateInv, TypeOK', Monotone,
           NEW o \in Ops, NEW v \in Validators, FaultyReply(v, o)
    PROVE  \A p \in Ops : CertInv(p)'
<1>1. PICK reply : Respond(o, v, reply)
    BY DEF FaultyReply
<1>2. v \in Faulty /\ UNCHANGED client /\ UNCHANGED <<startedAt, endedAt>>
    BY DEF FaultyReply, history
<1>3. \A p \in Ops, w \in Validators \ Faulty : replies'[p][w] = replies[p][w]
    BY <1>1, <1>2, RespondEffect DEF CertificateInv, Inv
<1> QED  BY <1>2, <1>3, ValidatorStepCert

(* A call begins with nothing counted and nothing waiting.                 *)
LEMMA BeginCert ==
    ASSUME CertificateInv, TypeOK', Monotone, NEW o \in Ops, call[o] = Idle,
           NEW c \in Calls, NEW msg, Begin(o, c, msg)
    PROVE  \A p \in Ops : CertInv(p)'
<1> SUFFICES ASSUME NEW p \in Ops PROVE CertInv(p)'
    OBVIOUS
<1>1. TypeOK /\ CallInv(p)
    BY DEF CertificateInv, Inv
<1>2. UNCHANGED <<now, replies, available, unavailable, result, endedAt>>
    BY DEF Begin
<1>3. RepliesSound(p)'
    BY <1>2, RepliesKept
<1>4. CASE p # o
  <2>1. UNCHANGED <<call[p], pending[p], message[p], startedAt[p]>>
      BY <1>1, <1>4 DEF Begin, TypeOK
  <2> QED  BY <1>2, <1>3, <2>1, ClientUntouched
<1>5. CASE p = o
  <2>1. startedAt'[p] = now /\ pending'[p] = Validators /\ now \in Nat
      BY <1>1, <1>5 DEF Begin, TypeOK
  <2>2. available'[p] = EmptyTally /\ unavailable'[p] = EmptyTally /\ result'[p] = NoResult
      BY <1>1, <1>2, <1>5 DEF CallInv, IdleClean
  <2>3. /\ EmptyTally.sigs = {}
        /\ \A v \in Validators : EmptyTally.timestamps[v] = 0
      BY DEF EmptyTally
  <2>4. RecordVotes(p, available[p], message[p], Until(p))'
      BY <2>2, <2>3 DEF RecordVotes, ZeroElsewhere
  <2>5. AbsenceVotes(p, unavailable[p], Until(p))'
      BY <2>2, <2>3 DEF AbsenceVotes, ZeroElsewhere
  <2>6. WriteVotes(p)' /\ ResultIs(p)'
      BY <2>1, <2>2 DEF WriteVotes, ResultIs
  <2> QED  BY <1>2, <1>3, <2>1, <2>4, <2>5, <2>6 DEF CertInv
<1> QED  BY <1>4, <1>5


-----------------------------------------------------------------------------
(* Taking an answer.                                                       *)

(* A record that passes the checks joins the votes, and its message is the *)
(* one all of them are for.                                                *)
LEMMA AddRecordVote ==
    ASSUME NEW o \in Ops, call[o] \in Calls, NEW a \in Tallies,
           NEW msg \in Messages \cup {NoMessage}, NEW t, RecordVotes(o, a, msg, t),
           NEW v \in Validators, v \notin Voters(a),
           NEW r \in Records, Matches(call[o], r),
           Verify(r.signature, v, RecordDigest(call[o].ns, r.timestamp, r.message)),
           v \notin Faulty => /\ FromWrite(o, r.message, r.timestamp)
                              /\ r.timestamp <= t + Skew
    PROVE  RecordVotes(o, AddVote(a, v, r.timestamp, r.signature), r.message, t)
<1> DEFINE after == AddVote(a, v, r.timestamp, r.signature)
<1>1. MsgId(call[o].ns, r.message) = CallId(call[o])
    BY MatchesCallId
<1>2. a.sigs # {} => msg = r.message
    BY MatchesCallId DEF RecordVotes
<1>3. /\ r.timestamp \in Nat /\ r.signature \in Signatures /\ r.signature.key = v
      /\ r.signature = Sign(v, RecordDigest(call[o].ns, r.timestamp, r.message))
    BY DEF Records, Verify, Sign
<1>4. /\ after.sigs = a.sigs \cup {r.signature}
      /\ after.timestamps[v] = r.timestamp
      /\ \A w \in Validators \ {v} : after.timestamps[w] = a.timestamps[w]
      /\ \A s \in a.sigs : s.key \in Validators \ {v}
      /\ ZeroElsewhere(after)
    BY <1>3, AddVoteEntries DEF RecordVotes
<1> HIDE DEF after
<1>5. ASSUME NEW s \in after.sigs
      PROVE  /\ s = Sign(s.key, RecordDigest(call[o].ns, after.timestamps[s.key], r.message))
             /\ s.key \notin Faulty =>
                   /\ FromWrite(o, r.message, after.timestamps[s.key])
                   /\ after.timestamps[s.key] <= t + Skew
  <2>1. CASE s = r.signature
      BY <1>3, <1>4, <2>1
  <2>2. CASE s \in a.sigs
    <3>1. msg = r.message /\ after.timestamps[s.key] = a.timestamps[s.key]
        BY <1>2, <1>4, <2>2
    <3>2. /\ s = Sign(s.key, RecordDigest(call[o].ns, a.timestamps[s.key], msg))
          /\ s.key \notin Faulty =>
                /\ FromWrite(o, msg, a.timestamps[s.key])
                /\ a.timestamps[s.key] <= t + Skew
        BY <2>2 DEF RecordVotes
    <3> QED  BY <3>1, <3>2
  <2> QED  BY <1>4, <2>1, <2>2
<1>6. RecordVotes(o, after, r.message, t)
    BY <1>1, <1>4, <1>5 DEF RecordVotes
<1> QED  BY <1>6 DEF after

(* An absence that a correct validator signed for the requested id, or a   *)
(* faulty one for any, joins the votes.                                    *)
LEMMA AddAbsenceVote ==
    ASSUME NEW o \in Ops, NEW u \in Tallies, NEW t, AbsenceVotes(o, u, t),
           NEW v \in Validators, v \notin Voters(u),
           NEW q \in Unavailables,
           Verify(q.signature, v, UnavailableDigest(q.msg_id, q.timestamp)),
           v \notin Faulty => SoundAbsence(o, v, q) /\ q.timestamp <= t + Skew
    PROVE  AbsenceVotes(o, AddVote(u, v, q.timestamp, q.signature), t)
<1> DEFINE after == AddVote(u, v, q.timestamp, q.signature)
<1>1. /\ q.timestamp \in Nat /\ q.signature \in Signatures /\ q.signature.key = v
      /\ q.signature = Sign(v, UnavailableDigest(q.msg_id, q.timestamp))
    BY DEF Unavailables, Verify, Sign
<1>2. /\ after.sigs = u.sigs \cup {q.signature}
      /\ after.timestamps[v] = q.timestamp
      /\ \A w \in Validators \ {v} : after.timestamps[w] = u.timestamps[w]
      /\ \A s \in u.sigs : s.key \in Validators \ {v}
      /\ ZeroElsewhere(after)
    BY <1>1, AddVoteEntries DEF AbsenceVotes
<1> HIDE DEF after
<1>3. ASSUME NEW s \in after.sigs, s.key \notin Faulty
      PROVE  /\ s = Sign(s.key, UnavailableDigest(call[o].id, after.timestamps[s.key]))
             /\ startedAt[o] - Skew <= after.timestamps[s.key]
             /\ after.timestamps[s.key] <= t + Skew
  <2>1. CASE s = q.signature
      BY <1>1, <1>2, <1>3, <2>1 DEF SoundAbsence
  <2>2. CASE s \in u.sigs
      BY <1>2, <1>3, <2>2 DEF AbsenceVotes
  <2> QED  BY <1>2, <2>1, <2>2
<1>4. AbsenceVotes(o, after, t)
    BY <1>2, <1>3 DEF AbsenceVotes
<1> QED  BY <1>4 DEF after

(* What one iteration of a response loop does to the tallies.              *)
LEMMA TakeReplyVotes ==
    ASSUME CertificateInv, NEW o \in Ops, NEW v \in Validators, Running(o),
           v \in pending[o], Reply(o, v) # NoReply
    PROVE  /\ RecordVotes(o, NewAvailable(o, v), NewMessage(o, v), now)
           /\ AbsenceVotes(o, NewUnavailable(o, v), now)
           /\ Voters(available[o]) \subseteq Voters(NewAvailable(o, v))
           /\ call[o].type = "write" /\ v \notin Faulty => v \in Voters(NewAvailable(o, v))
<1>1. TypeOK /\ CallInv(o) /\ CertInv(o)
    BY DEF CertificateInv, Inv
<1>2. /\ call[o] \in Calls /\ available[o] \in Tallies /\ unavailable[o] \in Tallies
      /\ message[o] \in Messages \cup {NoMessage} /\ Reply(o, v) \in Replies
    BY <1>1 DEF TypeOK, Running, Reply
<1>3. v \notin Voters(available[o]) /\ v \notin Voters(unavailable[o])
    BY <1>1 DEF CallInv, Counted
<1>4. /\ RecordVotes(o, available[o], message[o], now)
      /\ AbsenceVotes(o, unavailable[o], now)
    BY <1>1 DEF CertInv, Until, Running
<1>5. v \notin Faulty => \/ /\ Reply(o, v).type = "record"
                            /\ SoundRecord(o, v, Reply(o, v).record)
                         \/ /\ Reply(o, v).type = "unavailable"
                            /\ SoundAbsence(o, v, Reply(o, v).unavailable)
    BY <1>1 DEF CertInv, RepliesSound, Reply
<1>6. CASE Yes(o, v)
  <2> DEFINE r == Reply(o, v).record
  <2>1. /\ Reply(o, v).type = "record" /\ Matches(call[o], r)
        /\ Verify(r.signature, v, RecordDigest(call[o].ns, r.timestamp, r.message))
      BY <1>6 DEF Yes, CountsAvailable
  <2>2. r \in Records
      BY <1>2, <2>1, CountedType
  <2>3. v \notin Faulty => /\ FromWrite(o, r.message, r.timestamp)
                           /\ r.timestamp <= now + Skew
      BY <1>5, <2>1 DEF SoundRecord
  <2>4. NewAvailable(o, v) = AddVote(available[o], v, r.timestamp, r.signature)
      BY <1>6 DEF NewAvailable, TallyRecord, Yes
  <2>5. NewMessage(o, v) = r.message
      BY <2>1 DEF NewMessage, TakenMessage
  <2>6. NewUnavailable(o, v) = unavailable[o]
      BY <2>1 DEF NewUnavailable, TallyAbsence, CountsUnavailable
  <2>7. r.timestamp \in Nat /\ r.signature \in Signatures /\ r.signature.key = v
      BY <2>1, <2>2 DEF Records, Verify, Sign
  <2> HIDE DEF r
  <2>8. RecordVotes(o, NewAvailable(o, v), NewMessage(o, v), now)
      BY <1>2, <1>3, <1>4, <2>1, <2>2, <2>3, <2>4, <2>5, AddRecordVote
  <2>9. /\ NewAvailable(o, v).sigs = available[o].sigs \cup {r.signature}
        /\ v \in Voters(NewAvailable(o, v))
      BY <1>2, <1>3, <2>4, <2>7, AddVoteEntries
  <2> QED  BY <1>4, <2>6, <2>8, <2>9 DEF Voters
<1>7. CASE ~Yes(o, v)
  <2>1. NewAvailable(o, v) = available[o]
      BY <1>7 DEF NewAvailable, TallyRecord, Yes
  <2>2. \/ NewMessage(o, v) = message[o]
        \/ available[o].sigs = {}
    <3>1. CASE Reply(o, v).type = "record" /\ Matches(call[o], Reply(o, v).record)
      <4>1. Reply(o, v).record \in Records
          BY <1>2, <3>1, CountedType
      <4>2. NewMessage(o, v) = Reply(o, v).record.message
          BY <3>1 DEF NewMessage, TakenMessage
      <4> QED  BY <1>2, <1>4, <3>1, <4>1, <4>2, MatchesCallId DEF RecordVotes
    <3>2. CASE ~(Reply(o, v).type = "record" /\ Matches(call[o], Reply(o, v).record))
        BY <3>2 DEF NewMessage, TakenMessage
    <3> QED  BY <3>1, <3>2
  <2>3. RecordVotes(o, NewAvailable(o, v), NewMessage(o, v), now)
      BY <1>4, <2>1, <2>2 DEF RecordVotes
  <2>4. ~(call[o].type = "write" /\ v \notin Faulty)
    <3> SUFFICES ASSUME call[o].type = "write", v \notin Faulty PROVE FALSE
        OBVIOUS
    <3>1. Reply(o, v).type = "record" /\ SoundRecord(o, v, Reply(o, v).record)
        BY <1>5 DEF SoundAbsence
    <3> QED  BY <1>7, <3>1 DEF Yes, CountsAvailable, SoundRecord
  <2>5. AbsenceVotes(o, NewUnavailable(o, v), now)
    <3>1. CASE No(o, v)
      <4> DEFINE q == Reply(o, v).unavailable
      <4>1. /\ Reply(o, v).type = "unavailable"
            /\ Verify(q.signature, v, UnavailableDigest(q.msg_id, q.timestamp))
          BY <3>1 DEF No, CountsUnavailable
      <4>2. q \in Unavailables
          BY <1>2, <4>1 DEF Replies, NoReply, Garbage
      <4>3. v \notin Faulty => SoundAbsence(o, v, q) /\ q.timestamp <= now + Skew
          BY <1>5, <4>1 DEF SoundAbsence
      <4>4. NewUnavailable(o, v) = AddVote(unavailable[o], v, q.timestamp, q.signature)
          BY <3>1 DEF NewUnavailable, TallyAbsence, No
      <4> HIDE DEF q
      <4> QED  BY <1>2, <1>3, <1>4, <4>1, <4>2, <4>3, <4>4, AddAbsenceVote
    <3>2. CASE ~No(o, v)
        BY <1>4, <3>2 DEF NewUnavailable, TallyAbsence, No
    <3> QED  BY <3>1, <3>2
  <2> QED  BY <2>1, <2>3, <2>4, <2>5
<1> QED  BY <1>6, <1>7

(* A step of call o that leaves the others alone keeps their part of the   *)
(* invariant.                                                              *)
LEMMA OtherCallsCert ==
    ASSUME CertificateInv, TypeOK', Monotone, NEW o \in Ops,
           UNCHANGED <<call, startedAt>>,
           \A p \in Ops \ {o} :
              UNCHANGED <<pending[p], replies[p], available[p], unavailable[p],
                          message[p], result[p], endedAt[p]>>
    PROVE  \A p \in Ops \ {o} : CertInv(p)'
<1> SUFFICES ASSUME NEW p \in Ops \ {o} PROVE CertInv(p)'
    OBVIOUS
<1>1. RepliesSound(p)'
    BY RepliesKept
<1> QED  BY <1>1, ClientUntouched

(* A step of the running call o that ends with the tallies a and u, and    *)
(* returns what they conclude to if it returns.                            *)
LEMMA CallStepCert ==
    ASSUME CertificateInv, TypeOK', Monotone, NEW o \in Ops, Running(o),
           NEW a \in Tallies, NEW u \in Tallies, NEW msg,
           RecordVotes(o, a, msg, now), AbsenceVotes(o, u, now),
           UNCHANGED <<now, call, startedAt>>,
           available'[o] = a, unavailable'[o] = u, message'[o] = msg,
           WriteVotes(o)',
           \A v \in Validators : replies'[o][v] \in {replies[o][v], NoReply},
           \/ result'[o] = NoResult
           \/ result'[o] = Concluded(call[o], a, u, msg) /\ endedAt'[o] = now
    PROVE  CertInv(o)'
<1>1. TypeOK /\ CertInv(o) /\ call[o] # Idle
    BY DEF CertificateInv, Inv, Running
<1>2. RepliesSound(o)'
    BY RepliesKept
<1>3. PICK t \in Nat : t = now
    BY <1>1 DEF TypeOK
<1>4. Until(o)' = t
    BY <1>3 DEF Until
<1>5. RecordVotes(o, a, msg, t)' /\ AbsenceVotes(o, u, t)'
    BY <1>1, <1>3, VotesKept
<1>6. RecordVotes(o, available[o], message[o], Until(o))'
    BY <1>4, <1>5 DEF RecordVotes, FromWrite, WrittenBy
<1>7. AbsenceVotes(o, unavailable[o], Until(o))'
    BY <1>4, <1>5 DEF AbsenceVotes
<1>8. ResultIs(o)'
    BY DEF ResultIs
<1>9. (startedAt[o] <= now)'
    BY <1>1 DEF CertInv
<1> QED  BY <1>2, <1>6, <1>7, <1>8, <1>9 DEF CertInv

(* The effect of a return on the result and the answers of each call.      *)
LEMMA ReturnCalls ==
    ASSUME TypeOK, NEW o \in Ops, NEW a, NEW u, NEW msg, Return(o, a, u, msg)
    PROVE  /\ result'[o] = Concluded(call[o], a, u, msg) /\ endedAt'[o] = now
           /\ \A v \in Validators : replies'[o][v] = NoReply
           /\ \A p \in Ops \ {o} : UNCHANGED <<replies[p], result[p], endedAt[p]>>
BY DEF Return, TypeOK

(* One iteration of a response loop preserves the invariant.               *)
LEMMA TakeReplyCert ==
    ASSUME CertificateInv, TypeOK', Monotone,
           NEW o \in Ops, NEW v \in Validators, TakeReply(o, v)
    PROVE  \A p \in Ops : CertInv(p)'
<1> DEFINE GoesOn == /\ replies' = [replies EXCEPT ![o][v] = NoReply]
                     /\ UNCHANGED <<result, endedAt>>
<1>1. TypeOK /\ CertInv(o)
    BY DEF CertificateInv, Inv
<1>2. PICK a, u, msg :
         a = NewAvailable(o, v) /\ u = NewUnavailable(o, v) /\ msg = NewMessage(o, v)
    OBVIOUS
<1>3. /\ Running(o) /\ v \in pending[o] /\ Reply(o, v) # NoReply
      /\ available' = [available EXCEPT ![o] = a]
      /\ unavailable' = [unavailable EXCEPT ![o] = u]
      /\ message' = [message EXCEPT ![o] = msg]
      /\ Return(o, a, u, msg) \/ GoesOn
      /\ pending' = [pending EXCEPT ![o] = @ \ {v}]
      /\ UNCHANGED <<now, call, startedAt>>
    BY <1>2, TakeReplyUnfolded, Zenon
<1>4. a \in Tallies /\ u \in Tallies
    BY <1>1, <1>2, <1>3, TakeReplyTypes
<1>5. /\ RecordVotes(o, a, msg, now) /\ AbsenceVotes(o, u, now)
      /\ Voters(available[o]) \subseteq Voters(a)
      /\ call[o].type = "write" /\ v \notin Faulty => v \in Voters(a)
    BY <1>2, <1>3, TakeReplyVotes
<1>6. /\ available'[o] = a /\ unavailable'[o] = u /\ message'[o] = msg
      /\ pending'[o] = pending[o] \ {v}
      /\ \A p \in Ops \ {o} :
            UNCHANGED <<pending[p], available[p], unavailable[p], message[p]>>
    BY <1>1, <1>3 DEF TypeOK
<1>7. WriteVotes(o)'
    BY <1>1, <1>3, <1>5, <1>6 DEF CertInv, WriteVotes
<1>8. /\ \A w \in Validators : replies'[o][w] \in {replies[o][w], NoReply}
      /\ \/ result'[o] = NoResult
         \/ result'[o] = Concluded(call[o], a, u, msg) /\ endedAt'[o] = now
      /\ \A p \in Ops \ {o} : UNCHANGED <<replies[p], result[p], endedAt[p]>>
  <2>1. CASE Return(o, a, u, msg)
      BY <1>1, <2>1, ReturnCalls
  <2>2. CASE GoesOn
      BY <1>1, <1>3, <2>2 DEF TypeOK, Running
  <2> QED  BY <1>3, <2>1, <2>2
<1>9. CertInv(o)'
    BY <1>3, <1>4, <1>5, <1>6, <1>7, <1>8, CallStepCert
<1>10. \A p \in Ops \ {o} : CertInv(p)'
    BY <1>3, <1>6, <1>8, OtherCallsCert
<1> QED  BY <1>9, <1>10

(* So does its end without a new vote.                                     *)
LEMMA GiveUpOrRunOutCert ==
    ASSUME CertificateInv, TypeOK', Monotone, NEW o \in Ops, Running(o),
           Return(o, available[o], unavailable[o], message[o]),
           UNCHANGED <<now, call, pending, available, unavailable, message, startedAt>>
    PROVE  \A p \in Ops : CertInv(p)'
<1>1. TypeOK /\ CertInv(o)
    BY DEF CertificateInv, Inv
<1>2. PICK a, u, msg : a = available[o] /\ u = unavailable[o] /\ msg = message[o]
    OBVIOUS
<1>3. /\ result'[o] = Concluded(call[o], a, u, msg) /\ endedAt'[o] = now
      /\ \A v \in Validators : replies'[o][v] = NoReply
      /\ \A p \in Ops \ {o} : UNCHANGED <<replies[p], result[p], endedAt[p]>>
    BY <1>1, <1>2, ReturnCalls
<1>4. a \in Tallies /\ u \in Tallies
    BY <1>1, <1>2 DEF TypeOK
<1>5. RecordVotes(o, a, msg, now) /\ AbsenceVotes(o, u, now)
    BY <1>1, <1>2 DEF CertInv, Until, Running
<1>6. WriteVotes(o)'
    BY <1>1 DEF CertInv, WriteVotes
<1>7. CertInv(o)'
    BY <1>2, <1>3, <1>4, <1>5, <1>6, CallStepCert
<1>8. \A p \in Ops \ {o} : CertInv(p)'
    BY <1>3, OtherCallsCert
<1> QED  BY <1>7, <1>8

-----------------------------------------------------------------------------
(* Every step preserves the invariant: one case per action.                *)
LEMMA NextCertificateInv ==
    ASSUME CertificateInv, [Next]_vars
    PROVE  CertificateInv'
<1>1. Inv' /\ TypeOK' /\ StoreSound' /\ StoreWritten' /\ Monotone
    BY NextInv, NextStoreSound, NextStoreWritten, NextMonotone DEF CertificateInv, Inv
<1>2. ASSUME UNCHANGED client, UNCHANGED <<replies, startedAt, endedAt>>
      PROVE  \A p \in Ops : CertInv(p)'
    BY <1>1, <1>2, ValidatorStepCert
<1>3. \A p \in Ops : CertInv(p)'
  <2>1. CASE Tick
      BY <1>2, <2>1 DEF Tick, history
  <2>2. CASE \E o \in Ops, ns \in Namespaces, m \in Messages : Write(o, ns, m)
    <3>1. \A ns \in Namespaces, m \in Messages :
             [type |-> "write", ns |-> ns, message |-> m] \in Calls
        BY DEF Calls
    <3> QED  BY <1>1, <2>2, <3>1, BeginCert DEF Write
  <2>3. CASE \E o \in Ops, ns \in Namespaces, id \in MsgIds : ReadMessage(o, ns, id)
    <3>1. \A ns \in Namespaces, id \in MsgIds :
             [type |-> "read", ns |-> ns, id |-> id] \in Calls
        BY DEF Calls
    <3> QED  BY <1>1, <2>3, <3>1, BeginCert DEF ReadMessage
  <2>4. CASE \E o \in Ops, v \in Validators : HandleWrite(v, o)
      BY <1>1, <2>4, HandleWriteCert
  <2>5. CASE \E o \in Ops, v \in Validators : HandleReadMessage(v, o)
      BY <1>1, <2>5, HandleReadMessageCert
  <2>6. CASE \E o \in Ops, v \in Validators : FaultyReply(v, o)
      BY <1>1, <2>6, FaultyReplyCert
  <2>7. CASE \E v \in Validators : Restart(v)
      BY <1>2, <2>7 DEF Restart
  <2>8. CASE \E o \in Ops, v \in Validators : TakeReply(o, v)
      BY <1>1, <2>8, TakeReplyCert
  <2>9. CASE \E o \in Ops, v \in Validators : GiveUp(o, v)
      BY <1>1, <2>9, GiveUpOrRunOutCert DEF GiveUp
  <2>10. CASE \E o \in Ops : RunOut(o)
      BY <1>1, <2>10, GiveUpOrRunOutCert DEF RunOut
  <2>11. CASE UNCHANGED vars
      BY <1>2, <2>11 DEF vars, client
  <2> QED  BY <2>1, <2>2, <2>3, <2>4, <2>5, <2>6, <2>7, <2>8, <2>9, <2>10, <2>11
           DEF Next
<1> QED  BY <1>1, <1>3 DEF CertificateInv

(* The inductive invariant holds throughout.                               *)
LEMMA CertificateInvariant == Spec => []CertificateInv
<1>1. ASSUME Init PROVE CertificateInv
  <2>1. Inv
      BY <1>1, InitInv
  <2>2. \A v \in Validators, ns \in Namespaces : store[v][ns] = <<>>
      BY <1>1 DEF Init
  <2>3. StoreSound /\ StoreWritten
      BY <2>2, EmptySound, StoreSoundEntries DEF StoreWritten
  <2>4. ASSUME NEW o \in Ops PROVE CertInv(o)
    <3>1. /\ available[o] = EmptyTally /\ unavailable[o] = EmptyTally
          /\ result[o] = NoResult /\ call[o] = Idle /\ startedAt[o] = 0
          /\ \A v \in Validators : replies[o][v] = NoReply
        BY <1>1 DEF Init
    <3>2. 0 <= now
        BY <1>1, ClockAssumption DEF Init
    <3>3. EmptyTally.sigs = {} /\ \A v \in Validators : EmptyTally.timestamps[v] = 0
        BY DEF EmptyTally
    <3>4. /\ RecordVotes(o, available[o], message[o], Until(o))
          /\ AbsenceVotes(o, unavailable[o], Until(o))
        BY <3>1, <3>3 DEF RecordVotes, AbsenceVotes, ZeroElsewhere
    <3>5. WriteVotes(o) /\ ResultIs(o) /\ RepliesSound(o)
        BY <3>1 DEF WriteVotes, ResultIs, RepliesSound, Idle
    <3> QED  BY <3>1, <3>2, <3>4, <3>5 DEF CertInv
  <2> QED  BY <2>1, <2>3, <2>4 DEF CertificateInv
<1>2. CertificateInv /\ [Next]_vars => CertificateInv'
    BY NextCertificateInv
<1> QED  BY <1>1, <1>2, PTL DEF Spec

-----------------------------------------------------------------------------
(* What the invariant says of results.                                     *)

(* A certificate and the tally it was made from.                           *)
LEMMA CertificateOfTally ==
    ASSUME CertificateInv, NEW o \in Ops
    PROVE  /\ result[o].type = "available" =>
                /\ result[o].timestamps = Sorted(N, available[o].timestamps)
                /\ result[o].message = message[o]
                /\ result[o].sigs = available[o].sigs /\ available[o].sigs # {}
                /\ HasReachedQuorum(N, Cardinality(Voters(available[o])))
           /\ result[o].type = "unavailable" =>
                /\ result[o].timestamps = Sorted(N, unavailable[o].timestamps)
                /\ result[o].msg_id = call[o].id /\ call[o].type = "read"
                /\ result[o].sigs = unavailable[o].sigs /\ N # 0
                /\ HasReachedQuorum(N, Cardinality(Voters(unavailable[o])))
           /\ result[o].type \in {"available", "unavailable"} =>
                result[o] # NoResult /\ call[o] \in Calls
           /\ available[o] \in Tallies /\ unavailable[o] \in Tallies
<1>1. TypeOK /\ CallInv(o) /\ CertInv(o)
    BY DEF CertificateInv, Inv
<1>2. /\ available[o].votes = Cardinality(Voters(available[o]))
      /\ unavailable[o].votes = Cardinality(Voters(unavailable[o]))
      /\ result[o].type = "unavailable" => N # 0
      /\ available[o] \in Tallies /\ unavailable[o] \in Tallies
    BY <1>1 DEF CallInv, Counted, TypeOK, ResultBacked
<1>3. result[o].type \in {"available", "unavailable"} =>
         /\ result[o] # NoResult /\ call[o] \in Calls
         /\ result[o] = Concluded(call[o], available[o], unavailable[o], message[o])
    BY <1>1 DEF NoResult, CallInv, IdleClean, TypeOK, CertInv, ResultIs
<1> QED  BY <1>2, <1>3 DEF Concluded, Panic, NoQuorum

(* "Quorum passed" never panics.                                           *)
LEMMA InvNoPanic == CertificateInv => NoPanic
<1> SUFFICES ASSUME CertificateInv, N > 0, NEW o \in Ops, result[o] = Panic
             PROVE  FALSE
    BY DEF NoPanic
<1>1. TypeOK /\ CallInv(o) /\ CertInv(o)
    BY DEF CertificateInv, Inv
<1>2. Panic = Concluded(call[o], available[o], unavailable[o], message[o])
    BY <1>1 DEF CertInv, ResultIs, Panic, NoResult
<1>3. HasReachedQuorum(N, available[o].votes) /\ available[o].sigs = {}
    BY <1>2 DEF Concluded, Panic, NoQuorum
<1>4. available[o].votes = 0
  <2>1. Voters(available[o]) = {}
      BY <1>3 DEF Voters
  <2> QED  BY <1>1, <2>1, FS_EmptySet DEF CallInv, Counted
<1> QED  BY <1>3, <1>4, NAssumption, QuorumNotEmpty

(* Sorting moves timestamps and keeps how often each occurs.               *)
LEMMA SortedPlaces ==
    ASSUME NEW ts \in [Validators -> Nat], NEW t \in Nat
    PROVE  Cardinality(PlacesOf(Sorted(N, ts), t)) = Cardinality(PlacesOf(ts, t))
BY NAssumption, SortedSameElements DEF Validators, PlacesOf

(* A validator's timestamp is somewhere in the sorted array.               *)
LEMMA SortedHas ==
    ASSUME NEW ts \in [Validators -> Nat], NEW v \in Validators
    PROVE  \E w \in Validators : Sorted(N, ts)[w] = ts[v]
<1>1. PICK t \in Nat : t = ts[v]
    OBVIOUS
<1> DEFINE Old == PlacesOf(ts, t)
           Now == PlacesOf(Sorted(N, ts), t)
<1>2. Cardinality(Now) = Cardinality(Old)
    BY SortedPlaces
<1>3. v \in Old /\ Old \in SUBSET Indexes(N)
    BY <1>1 DEF Validators, PlacesOf
<1>4. SUFFICES Now # {}
    BY <1>1 DEF PlacesOf
<1> HIDE DEF Old, Now
<1>5. IsFiniteSet(Old)
    BY <1>3, IndexSubset, NAssumption
<1>6. Cardinality(Old) # 0
    BY <1>3, <1>5, FS_EmptySet
<1> QED  BY <1>2, <1>6, FS_EmptySet

(* Signatures of different validators that voted with the time t are no    *)
(* more than the places of t in the sorted array.                          *)
LEMMA SignaturesHavePlaces ==
    ASSUME NEW tally \in Tallies, NEW t \in Nat, NEW S \in SUBSET tally.sigs,
           \A s \in S : tally.timestamps[s.key] = t,
           \A s, q \in S : s.key = q.key => s = q
    PROVE  Cardinality(S) <= Cardinality(PlacesOf(Sorted(N, tally.timestamps), t))
<1>1. PICK ts \in [Validators -> Nat] : ts = tally.timestamps
    BY DEF Tallies
<1> DEFINE T == PlacesOf(ts, t)
           f == [s \in S |-> s.key]
<1>2. T \in SUBSET Indexes(N)
    BY DEF PlacesOf, Validators
<1>3. IsFiniteSet(T)
    BY <1>2, IndexSubset, NAssumption
<1>4. \A s \in S : s.key \in T
    BY <1>1 DEF PlacesOf, Tallies, Signatures
<1>5. f \in Injection(S, T)
    BY <1>4 DEF Injection, IsInjective
<1>6. Cardinality(S) <= Cardinality(T)
  <2> HIDE DEF T, f
  <2> QED  BY <1>3, <1>5, FS_Injection
<1> QED  BY <1>1, <1>6, SortedPlaces

(* The digest of a record shows its timestamp.                             *)
LEMMA DigestShowsTime ==
    ASSUME NEW ns \in Seq(Nat), NEW m \in Seq(Nat), NEW t \in Nat, NEW u \in Nat,
           RecordDigest(ns, t, m) = RecordDigest(ns, u, m)
    PROVE  t = u
<1> DEFINE At(x) == (ns \o <<x>> \o m)[Len(ns) + 1]
<1>1. ASSUME NEW x \in Nat PROVE At(x) = x
  <2>1. <<x>> \in Seq(Nat) /\ Len(<<x>>) = 1 /\ <<x>>[1] = x /\ Len(ns) \in Nat /\ Len(m) \in Nat
      OBVIOUS
  <2>2. PICK s \in Seq(Nat) : s = ns \o <<x>>
      BY <2>1, ConcatProperties
  <2>3. Len(s) = Len(ns) + 1 /\ s[Len(ns) + 1] = x
      BY <2>1, <2>2, ConcatProperties
  <2>4. (s \o m)[Len(ns) + 1] = s[Len(ns) + 1]
      BY <2>1, <2>3, ConcatProperties
  <2> QED  BY <2>2, <2>3, <2>4
<1>2. At(t) = At(u)
    BY DEF RecordDigest
<1> QED  BY <1>1, <1>2

(* The same for the signatures and the array of a tally of records: each   *)
(* is over one of the sorted timestamps, which are as many as they.        *)
LEMMA RecordsOverTimes ==
    ASSUME NEW tally \in Tallies, NEW ns \in Seq(Nat), NEW m \in Seq(Nat),
           \A s \in tally.sigs :
              s = Sign(s.key, RecordDigest(ns, tally.timestamps[s.key], m)),
           NEW ts, ts = Sorted(N, tally.timestamps)
    PROVE  /\ \A s \in tally.sigs : \E v \in Validators : s.digest = RecordDigest(ns, ts[v], m)
           /\ \A v \in Validators :
                 Cardinality(Over(tally.sigs, RecordDigest(ns, ts[v], m)))
                    <= Cardinality(PlacesOf(ts, ts[v]))
<1>1. /\ tally.timestamps \in [Validators -> Nat]
      /\ \A s \in tally.sigs : s.key \in Validators
    BY DEF Tallies, Signatures
<1>2. ts \in [Validators -> Nat]
    BY <1>1, NAssumption, SortedType DEF Validators
<1>3. ASSUME NEW s \in tally.sigs
      PROVE  \E v \in Validators : s.digest = RecordDigest(ns, ts[v], m)
  <2>1. PICK v \in Validators : ts[v] = tally.timestamps[s.key]
      BY <1>1, SortedHas
  <2>2. s.digest = RecordDigest(ns, tally.timestamps[s.key], m)
      BY DEF Sign
  <2> QED  BY <2>1, <2>2
<1>4. ASSUME NEW v \in Validators
      PROVE  Cardinality(Over(tally.sigs, RecordDigest(ns, ts[v], m)))
                <= Cardinality(PlacesOf(ts, ts[v]))
  <2> DEFINE S == Over(tally.sigs, RecordDigest(ns, ts[v], m))
  <2>1. S \in SUBSET tally.sigs /\ ts[v] \in Nat
      BY <1>2 DEF Over
  <2>2. ASSUME NEW s \in S PROVE tally.timestamps[s.key] = ts[v]
    <3>1. RecordDigest(ns, tally.timestamps[s.key], m) = RecordDigest(ns, ts[v], m)
        BY DEF Over, Sign
    <3>2. PICK t \in Nat : t = tally.timestamps[s.key]
        BY <1>1 DEF Over
    <3> QED  BY <2>1, <3>1, <3>2, DigestShowsTime
  <2>3. \A s, q \in S : s.key = q.key => s = q
      BY DEF Over, Sign
  <2> HIDE DEF S
  <2>4. Cardinality(S) <= Cardinality(PlacesOf(Sorted(N, tally.timestamps), ts[v]))
      BY <2>1, <2>2, <2>3, SignaturesHavePlaces
  <2> QED  BY <2>4 DEF S
<1> QED  BY <1>3, <1>4

(* And for a tally of absences, as far as correct validators signed.       *)
SignedAbsences(Correct, id, tally) ==
    /\ Correct \subseteq tally.sigs
    /\ \A s \in Correct :
          s = Sign(s.key, UnavailableDigest(id, tally.timestamps[s.key]))
OverAbsences(Correct, id, ts) ==
    /\ \A s \in Correct : \E v \in Validators : s.digest = UnavailableDigest(id, ts[v])
    /\ \A v \in Validators :
          Cardinality(Over(Correct, UnavailableDigest(id, ts[v])))
             <= Cardinality(PlacesOf(ts, ts[v]))

(* The signatures of absences are over the sorted timestamps, which are as *)
(* many as they.                                                           *)
LEMMA AbsencesOverTimes ==
    ASSUME NEW tally \in Tallies, NEW id, NEW Correct,
           SignedAbsences(Correct, id, tally)
    PROVE  OverAbsences(Correct, id, Sorted(N, tally.timestamps))
<1>0. PICK ts : ts = Sorted(N, tally.timestamps)
    OBVIOUS
<1>a. /\ Correct \subseteq tally.sigs
      /\ \A s \in Correct :
            s = Sign(s.key, UnavailableDigest(id, tally.timestamps[s.key]))
    BY DEF SignedAbsences
<1>1. /\ tally.timestamps \in [Validators -> Nat]
      /\ \A s \in tally.sigs : s.key \in Validators
    BY DEF Tallies, Signatures
<1>2. ts \in [Validators -> Nat]
    BY <1>0, <1>1, NAssumption, SortedType DEF Validators
<1>3. ASSUME NEW s \in Correct
      PROVE  \E v \in Validators : s.digest = UnavailableDigest(id, ts[v])
  <2>1. PICK v \in Validators : ts[v] = tally.timestamps[s.key]
      BY <1>0, <1>1, <1>a, SortedHas
  <2>2. s.digest = UnavailableDigest(id, tally.timestamps[s.key])
      BY <1>a DEF Sign
  <2> QED  BY <2>1, <2>2
<1>4. ASSUME NEW v \in Validators
      PROVE  Cardinality(Over(Correct, UnavailableDigest(id, ts[v])))
                <= Cardinality(PlacesOf(ts, ts[v]))
  <2> DEFINE S == Over(Correct, UnavailableDigest(id, ts[v]))
  <2>1. S \in SUBSET tally.sigs /\ ts[v] \in Nat
      BY <1>2, <1>a DEF Over
  <2>2. ASSUME NEW s \in S PROVE tally.timestamps[s.key] = ts[v]
    <3>1. UnavailableDigest(id, tally.timestamps[s.key]) = UnavailableDigest(id, ts[v])
        BY <1>a DEF Over, Sign
    <3> QED  BY <3>1 DEF UnavailableDigest
  <2>3. \A s, q \in S : s.key = q.key => s = q
      BY <1>a DEF Over, Sign
  <2> HIDE DEF S
  <2>4. Cardinality(S) <= Cardinality(PlacesOf(Sorted(N, tally.timestamps), ts[v]))
      BY <2>1, <2>2, <2>3, SignaturesHavePlaces
  <2> QED  BY <1>0, <2>4 DEF S
<1> QED  BY <1>0, <1>3, <1>4 DEF OverAbsences

(* The invariant makes certificates verify.                                *)
LEMMA InvCertificateVerifies == CertificateInv => CertificateVerifies
<1> SUFFICES ASSUME CertificateInv, NEW o \in Ops
             PROVE  LET c == call[o]
                        r == result[o]
                        digest(v) == RecordDigest(c.ns, r.timestamps[v], r.message)
                        absence(v) == UnavailableDigest(r.msg_id, r.timestamps[v])
                        correct == {s \in r.sigs : s.key \notin Faulty}
                    IN  /\ r.type = "available" =>
                             /\ HasReachedQuorum(N, Cardinality(Voters(r)))
                             /\ MsgId(c.ns, r.message) = CallId(c)
                             /\ \A s \in r.sigs : \E v \in Validators : s.digest = digest(v)
                             /\ \A v \in Validators :
                                  Cardinality(Over(r.sigs, digest(v)))
                                     <= Cardinality(PlacesOf(r.timestamps, r.timestamps[v]))
                        /\ r.type = "unavailable" =>
                             /\ HasReachedQuorum(N, Cardinality(Voters(r)))
                             /\ r.msg_id = CallId(c)
                             /\ \A s \in correct : \E v \in Validators : s.digest = absence(v)
                             /\ \A v \in Validators :
                                  Cardinality(Over(correct, absence(v)))
                                     <= Cardinality(PlacesOf(r.timestamps, r.timestamps[v]))
    BY DEF CertificateVerifies
<1>1. CertInv(o) /\ TypeOK
    BY DEF CertificateInv, Inv
<1>2. CASE result[o].type = "available"
  <2>1. /\ result[o].sigs = available[o].sigs /\ result[o].message = message[o]
        /\ result[o].timestamps = Sorted(N, available[o].timestamps)
        /\ available[o] \in Tallies /\ call[o] \in Calls
        /\ HasReachedQuorum(N, Cardinality(Voters(result[o])))
      BY <1>2, CertificateOfTally DEF Voters
  <2>2. /\ MsgId(call[o].ns, message[o]) = CallId(call[o])
        /\ \A s \in available[o].sigs :
              s = Sign(s.key, RecordDigest(call[o].ns,
                            available[o].timestamps[s.key], message[o]))
      BY <1>1, <1>2, CertificateOfTally DEF CertInv, RecordVotes
  <2>3. call[o].ns \in Seq(Nat) /\ message[o] \in Seq(Nat)
    <3>1. NoMessage \in Seq(Nat)
        BY DEF NoMessage
    <3>2. message[o] \in Messages \cup {NoMessage} /\ call[o].ns \in Namespaces
        BY <1>1, <2>1 DEF TypeOK, Calls
    <3> QED  BY <3>1, <3>2, BytesAssumption
  <2>4. PICK ts : ts = Sorted(N, available[o].timestamps)
      OBVIOUS
  <2>5. /\ \A s \in available[o].sigs : \E v \in Validators :
              s.digest = RecordDigest(call[o].ns, ts[v], message[o])
        /\ \A v \in Validators :
              Cardinality(Over(available[o].sigs, RecordDigest(call[o].ns, ts[v], message[o])))
                 <= Cardinality(PlacesOf(ts, ts[v]))
      BY <2>1, <2>2, <2>3, <2>4, RecordsOverTimes
  <2> QED  BY <1>2, <2>1, <2>2, <2>4, <2>5
<1>3. CASE result[o].type = "unavailable"
  <2>1. PICK correct : correct = {s \in unavailable[o].sigs : s.key \notin Faulty}
      OBVIOUS
  <2>2. /\ result[o].sigs = unavailable[o].sigs /\ result[o].msg_id = call[o].id
        /\ result[o].timestamps = Sorted(N, unavailable[o].timestamps)
        /\ unavailable[o] \in Tallies /\ call[o].type = "read"
        /\ HasReachedQuorum(N, Cardinality(Voters(result[o])))
      BY <1>3, CertificateOfTally DEF Voters
  <2>3. \A s \in correct :
           s = Sign(s.key, UnavailableDigest(call[o].id, unavailable[o].timestamps[s.key]))
      BY <1>1, <2>1 DEF CertInv, AbsenceVotes
  <2>4. PICK ts : ts = Sorted(N, unavailable[o].timestamps)
      OBVIOUS
  <2>5. /\ \A s \in correct : \E v \in Validators :
              s.digest = UnavailableDigest(call[o].id, ts[v])
        /\ \A v \in Validators :
              Cardinality(Over(correct, UnavailableDigest(call[o].id, ts[v])))
                 <= Cardinality(PlacesOf(ts, ts[v]))
    <3>1. PICK tally \in Tallies : tally = unavailable[o]
        BY <2>2
    <3>2. PICK id : id = call[o].id
        OBVIOUS
    <3>3. SignedAbsences(correct, id, tally)
        BY <2>1, <2>3, <3>1, <3>2 DEF SignedAbsences
    <3>4. OverAbsences(correct, id, ts)
        BY <2>4, <3>1, <3>3, AbsencesOverTimes
    <3> QED  BY <3>2, <3>4 DEF OverAbsences
  <2> QED  BY <1>3, <2>1, <2>2, <2>4, <2>5 DEF CallId
<1> QED  BY <1>2, <1>3

(* A quorum among the voters that the faulty validators are not has a      *)
(* correct member.                                                         *)
LEMMA CorrectVoter ==
    ASSUME NEW tally \in Tallies, HasReachedQuorum(N, Cardinality(Voters(tally))),
           ~HasReachedQuorum(N, Cardinality(Faulty))
    PROVE  \E s \in tally.sigs : s.key \notin Faulty
<1> SUFFICES ASSUME \A s \in tally.sigs : s.key \in Faulty PROVE FALSE
    OBVIOUS
<1>1. Voters(tally) \subseteq Faulty
    BY DEF Voters
<1>2. /\ IsFiniteSet(Faulty) /\ Cardinality(Faulty) \in 0 .. N
      /\ Cardinality(Voters(tally)) \in 0 .. N
    BY NAssumption, FaultyAssumption, IndexSubset, VotersType DEF Validators
<1>3. Cardinality(Voters(tally)) <= Cardinality(Faulty)
    BY <1>1, <1>2, FS_Subset
<1> QED  BY <1>2, <1>3, NAssumption, QuorumMonotone

(* What a write call wrote is what its certificate certifies.              *)
LEMMA WriteCertifiesItself ==
    ASSUME CertificateInv, NEW o \in Ops, call[o].type = "write",
           result[o].type = "available"
    PROVE  call[o].message = result[o].message
<1>1. TypeOK /\ CertInv(o)
    BY DEF CertificateInv, Inv
<1>2. /\ call[o] \in Calls /\ call[o].ns \in Namespaces /\ call[o].message \in Messages
      /\ message[o] \in Messages \cup {NoMessage}
    BY <1>1, CertificateOfTally DEF TypeOK, Calls
<1>3. MsgId(call[o].ns, message[o]) = MsgId(call[o].ns, call[o].message)
    BY <1>1, CertificateOfTally DEF CertInv, RecordVotes, CallId
<1>4. NoMessage \in Seq(Nat)
    BY DEF NoMessage
<1>5. call[o].ns \in Seq(Nat) /\ call[o].message \in Seq(Nat) /\ message[o] \in Seq(Nat)
    BY <1>2, <1>4, BytesAssumption
<1>6. message[o] = call[o].message
    BY <1>3, <1>5, MsgIdInjective
<1> QED  BY <1>6, CertificateOfTally

(* The vote of a correct validator goes back to a write.                   *)
LEMMA InvAvailableOnlyIfWritten == CertificateInv => AvailableOnlyIfWritten
<1> SUFFICES ASSUME CertificateInv, NEW o \in Ops, result[o].type = "available",
                    ~HasReachedQuorum(N, Cardinality(Faulty))
             PROVE  \E w \in Ops : /\ call[w].type = "write"
                                   /\ call[w].ns = call[o].ns
                                   /\ call[w].message = result[o].message
    BY DEF AvailableOnlyIfWritten
<1>1. CertInv(o)
    BY DEF CertificateInv
<1>2. PICK s \in available[o].sigs : s.key \notin Faulty
    BY CertificateOfTally, CorrectVoter
<1>3. FromWrite(o, message[o], available[o].timestamps[s.key])
    BY <1>1, <1>2 DEF CertInv, RecordVotes
<1>4. CASE call[o].type = "write"
    BY <1>4, WriteCertifiesItself
<1>5. CASE call[o].type # "write"
  <2>1. WrittenBy(call[o].ns, message[o], available[o].timestamps[s.key])
      BY <1>3, <1>5 DEF FromWrite
  <2> QED  BY <2>1, CertificateOfTally DEF WrittenBy
<1> QED  BY <1>4, <1>5

(* A write that heard every validator has the votes of the correct ones.   *)
LEMMA InvWriteDenied == CertificateInv => WriteDeniedOnlyByFaults
<1> SUFFICES ASSUME CertificateInv, NEW o \in Ops, call[o].type = "write",
                    result[o] = NoQuorum, pending[o] = {},
                    HasReachedQuorum(N, N - Cardinality(Faulty))
             PROVE  FALSE
    BY DEF WriteDeniedOnlyByFaults
<1>1. TypeOK /\ CallInv(o) /\ CertInv(o) /\ available[o] \in Tallies
    BY DEF CertificateInv, Inv, TypeOK
<1>2. NoQuorum = Concluded(call[o], available[o], unavailable[o], message[o])
    BY <1>1 DEF CertInv, ResultIs, NoQuorum, NoResult
<1>3. ~HasReachedQuorum(N, available[o].votes)
    BY <1>2 DEF Concluded, NoQuorum, Panic
<1>4. /\ available[o].votes = Cardinality(Voters(available[o]))
      /\ available[o].votes \in 0 .. N /\ IsFiniteSet(Voters(available[o]))
    BY <1>1, VotersType DEF CallInv, Counted
<1>5. Validators \ Faulty \subseteq Voters(available[o])
    BY <1>1 DEF CertInv, WriteVotes
<1>6. /\ IsFiniteSet(Validators) /\ Cardinality(Validators) = N
      /\ IsFiniteSet(Faulty) /\ Cardinality(Faulty) \in 0 .. N
    BY NAssumption, FaultyAssumption, IndexesCardinality, IndexSubset DEF Validators
<1>7. Cardinality(Validators \ Faulty) = N - Cardinality(Faulty)
  <2>1. Cardinality(Validators \ Faulty)
           = Cardinality(Validators) - Cardinality(Validators \cap Faulty)
      BY <1>6, FS_Difference
  <2>2. Validators \cap Faulty = Faulty
      BY FaultyAssumption
  <2> QED  BY <1>6, <2>1, <2>2
<1>8. N - Cardinality(Faulty) <= available[o].votes
    BY <1>4, <1>5, <1>7, FS_Subset
<1>9. N - Cardinality(Faulty) \in 0 .. N
    BY <1>6, NAssumption
<1> QED  BY <1>3, <1>4, <1>8, <1>9, NAssumption, QuorumMonotone

(* The certified timestamp of a tally is between two of its votes.         *)
LEMMA CertifiedBetweenVotes ==
    ASSUME N \notin {0, 4}, NEW tally \in Tallies, ZeroElsewhere(tally),
           HasReachedQuorum(N, Cardinality(Voters(tally))), NEW hi \in Nat,
           \A s \in tally.sigs : tally.timestamps[s.key] <= hi
    PROVE  LET t == CertifiedTimestamp(N, Sorted(N, tally.timestamps))
           IN  /\ t \in Nat /\ t <= hi
               /\ \E s \in tally.sigs : tally.timestamps[s.key] <= t
<1> DEFINE ts == tally.timestamps
           V == Voters(tally)
           S == {ts[v] : v \in V}
<1>1. N \in Nat \ {0, 4} /\ ts \in [Indexes(N) -> Nat] /\ V \in SUBSET Indexes(N)
    BY NAssumption, VotersType DEF Tallies, Validators
<1>2. V # {}
  <2>1. CASE V = {}
    <3>1. Cardinality(V) = 0
        BY <2>1, FS_EmptySet
    <3> QED  BY <1>1, <3>1, QuorumNotEmpty
  <2> QED  BY <2>1
<1>3. \A v \in V : \E s \in tally.sigs : v = s.key
    BY DEF Voters
<1>4. \A v \in Indexes(N) \ V : ts[v] = 0
    BY DEF ZeroElsewhere, Validators
<1>5. \A v \in V : ts[v] <= hi
    BY <1>3
<1> HIDE DEF V
<1>6. S # {} /\ S \in SUBSET Nat
    BY <1>1, <1>2
<1>7. PICK lo \in S : \A y \in S : lo <= y
    BY <1>6, LeastNat
<1>8. lo \in Nat /\ \A v \in V : lo <= ts[v]
    BY <1>6, <1>7
<1>9. /\ CertifiedTimestamp(N, ts) \in Nat
      /\ lo <= CertifiedTimestamp(N, ts)
      /\ CertifiedTimestamp(N, ts) <= hi
  <2>1. HasReachedQuorum(N, Cardinality(V))
      BY DEF V
  <2> HIDE DEF ts, S
  <2> QED  BY <1>1, <1>4, <1>5, <1>8, <2>1, CertifiedTimestampWithinVotes
<1>10. CertifiedTimestamp(N, Sorted(N, ts)) = CertifiedTimestamp(N, ts)
    BY <1>1, CertifiedTimestampOfSorted
<1>11. \E s \in tally.sigs : ts[s.key] = lo
    BY <1>3, <1>7
<1> QED  BY <1>9, <1>10, <1>11

(* So it is in the window of its call.                                     *)
LEMMA InvCertifiedTime == CertificateInv => CertifiedTimeInWindow
<1> SUFFICES ASSUME CertificateInv, NEW o \in Ops,
                    result[o].type \in {"available", "unavailable"}, Faulty = {}, N # 4
             PROVE  LET t == CertifiedTimestamp(N, result[o].timestamps)
                    IN  /\ t <= endedAt[o] + Skew
                        /\ \E w \in Ops :
                              /\ startedAt[w] - Skew <= t
                              /\ \/ w = o
                                 \/ /\ call[o].type = "read"
                                    /\ result[o].type = "available"
                                    /\ call[w].type = "write"
                                    /\ call[w].ns = call[o].ns
                                    /\ call[w].message = result[o].message
    BY DEF CertifiedTimeInWindow
<1> DEFINE t == CertifiedTimestamp(N, result[o].timestamps)
<1>1. TypeOK /\ CertInv(o) /\ call[o] \in Calls /\ Until(o) = endedAt[o]
    BY CertificateOfTally DEF CertificateInv, Inv, Until
<1>2. endedAt[o] + Skew \in Nat /\ startedAt \in [Ops -> Nat]
    BY <1>1, ClockAssumption DEF TypeOK
<1>3. \A x, y, z \in Int : x <= y /\ y <= z => x <= z
    OBVIOUS
<1>4. CASE result[o].type = "available"
  <2> DEFINE a == available[o]
  <2>1. /\ a \in Tallies /\ ZeroElsewhere(a) /\ a.sigs # {}
        /\ HasReachedQuorum(N, Cardinality(Voters(a)))
        /\ result[o].timestamps = Sorted(N, a.timestamps)
        /\ result[o].message = message[o]
      BY <1>1, <1>4, CertificateOfTally DEF CertInv, RecordVotes
  <2>2. N # 0
    <3>1. Voters(a) # {}
        BY <2>1 DEF Voters
    <3>2. Voters(a) \subseteq Indexes(N)
        BY <2>1, VotersType DEF Validators
    <3> QED  BY <3>1, <3>2 DEF Indexes
  <2>3. \A s \in a.sigs : /\ a.timestamps[s.key] \in Nat
                          /\ FromWrite(o, message[o], a.timestamps[s.key])
                          /\ a.timestamps[s.key] <= endedAt[o] + Skew
      BY <1>1, <2>1 DEF CertInv, RecordVotes, Tallies, Signatures
  <2> HIDE DEF a
  <2>4. /\ t \in Nat /\ t <= endedAt[o] + Skew
        /\ \E s \in a.sigs : a.timestamps[s.key] <= t
      BY <1>2, <2>1, <2>2, <2>3, CertifiedBetweenVotes
  <2>5. PICK s \in a.sigs : a.timestamps[s.key] <= t
      BY <2>4
  <2>6. PICK ts \in Nat : ts = a.timestamps[s.key]
      BY <2>3
  <2>7. ts <= t /\ FromWrite(o, message[o], ts)
      BY <2>3, <2>5, <2>6
  <2> HIDE DEF t
  <2>8. CASE call[o].type = "write"
    <3>1. startedAt[o] - Skew <= ts
        BY <2>7, <2>8 DEF FromWrite
    <3>2. startedAt[o] - Skew <= t
        BY <1>2, <2>4, <2>7, <3>1, ClockAssumption
    <3> QED  BY <2>4, <3>2 DEF t
  <2>9. CASE call[o].type # "write"
    <3>1. PICK w \in Ops : /\ call[w].type = "write"
                           /\ call[w].ns = call[o].ns
                           /\ call[w].message = message[o]
                           /\ startedAt[w] - Skew <= ts
        BY <2>7, <2>9 DEF FromWrite, WrittenBy
    <3>2. startedAt[w] - Skew <= t
        BY <1>2, <2>4, <2>7, <3>1, ClockAssumption
    <3>3. call[o].type = "read"
        BY <1>1, <2>9, CallIdType
    <3> QED  BY <1>4, <2>1, <2>4, <3>1, <3>2, <3>3 DEF t
  <2> QED  BY <2>8, <2>9
<1>5. CASE result[o].type = "unavailable"
  <2> DEFINE u == unavailable[o]
  <2>1. /\ u \in Tallies /\ ZeroElsewhere(u) /\ N # 0
        /\ HasReachedQuorum(N, Cardinality(Voters(u)))
        /\ result[o].timestamps = Sorted(N, u.timestamps)
      BY <1>1, <1>5, CertificateOfTally DEF CertInv, AbsenceVotes
  <2>2. \A s \in u.sigs : /\ u.timestamps[s.key] \in Nat
                          /\ startedAt[o] - Skew <= u.timestamps[s.key]
                          /\ u.timestamps[s.key] <= endedAt[o] + Skew
      BY <1>1, <2>1 DEF CertInv, AbsenceVotes, Tallies, Signatures
  <2> HIDE DEF u
  <2>3. /\ t \in Nat /\ t <= endedAt[o] + Skew
        /\ \E s \in u.sigs : u.timestamps[s.key] <= t
      BY <1>2, <2>1, <2>2, CertifiedBetweenVotes
  <2> HIDE DEF t
  <2>4. startedAt[o] - Skew <= t
      BY <1>2, <2>2, <2>3, ClockAssumption
  <2> QED  BY <2>3, <2>4 DEF t
<1> QED  BY <1>4, <1>5

-----------------------------------------------------------------------------
(* No client that knows a validator panics on "Quorum passed".             *)
THEOREM ClientsNeverPanic == Spec => []NoPanic
BY CertificateInvariant, InvNoPanic, PTL

(* Every certificate that write and read_message return can be verified: a *)
(* quorum of distinct validators signed what it says.                      *)
THEOREM CertificatesVerify == Spec => []CertificateVerifies
BY CertificateInvariant, InvCertificateVerifies, PTL

(* Faulty validators that are no quorum cannot get a message certified     *)
(* that no client wrote.                                                   *)
THEOREM CertifiedMessagesWereWritten == Spec => []AvailableOnlyIfWritten
BY CertificateInvariant, InvAvailableOnlyIfWritten, PTL

(* A write that hears every validator is certified if the correct ones are *)
(* a quorum.                                                               *)
THEOREM WritesDeniedOnlyByFaults == Spec => []WriteDeniedOnlyByFaults
BY CertificateInvariant, InvWriteDenied, PTL

(* With correct validators, whose clocks are off by at most Skew, the      *)
(* certified timestamp lies in the window of the call, for every number of *)
(* validators but four.                                                    *)
THEOREM CertifiedTimesInWindow == Spec => []CertifiedTimeInWindow
BY CertificateInvariant, InvCertifiedTime, PTL

-----------------------------------------------------------------------------
(* Dato implements Availability.  The promise is for correct validators    *)
(* that neither restart nor evict, and for quorums that intersect.         *)
Lossless ==
    /\ N \notin {0, 4}
    /\ Faulty = {}
    /\ MaxRestarts = 0
    /\ IsFiniteSet(Messages) /\ Cardinality(Messages) <= Cap

(* A validator that has answered a call with a record holds its message.   *)
VotersHold(o) ==
    \A v \in Validators :
        replies[o][v].type = "record" \/ v \in Voters(available[o])
            => Holds(v, call[o].ns, CallId(call[o]))

AvailabilityInv == CertificateInv /\ \A o \in Ops : VotersHold(o)

(* What Validator::write does to the keys that are held.                   *)
LEMMA HandleWriteKeys ==
    ASSUME Lossless, CertificateInv, NEW o \in Ops, NEW v \in Validators,
           HandleWrite(v, o)
    PROVE  /\ call[o].ns \in Namespaces /\ CallId(call[o]) \in MsgIds
           /\ \A w \in Validators, k \in Namespaces :
                 KeysOf(store'[w][k]) =
                    IF w = v /\ k = call[o].ns
                    THEN KeysOf(store[w][k]) \cup {CallId(call[o])}
                    ELSE KeysOf(store[w][k])
<1> DEFINE ns == call[o].ns
           m == call[o].message
<1>1. TypeOK /\ StoreSound
    BY DEF CertificateInv, Inv
<1>2. ns \in Namespaces /\ m \in Messages /\ call[o].type = "write" /\ call[o] \in Calls
    BY <1>1, HandleWriteStore
<1>3. PICK ts \in Clock :
         \E entries \in WriteOne(store[v][ns], Cap, ns, Stamped(v, ns, ts, m)) :
            store' = [store EXCEPT ![v][ns] = entries]
    BY <1>1, HandleWriteStore
<1>4. PICK entries \in WriteOne(store[v][ns], Cap, ns, Stamped(v, ns, ts, m)) :
         store' = [store EXCEPT ![v][ns] = entries]
    BY <1>3
<1>5. ts \in Nat
    BY <1>1, ClockFacts
<1>6. store[v][ns] \in Seq(Entries) /\ SoundEntries(v, ns, store[v][ns])
    BY <1>1, <1>2, StoreSoundEntries DEF TypeOK
<1>7. CallId(call[o]) = MsgId(ns, m) /\ CallId(call[o]) \in MsgIds
    BY <1>2, CallIdType DEF CallId
<1> HIDE DEF ns, m
<1>8. KeysOf(entries) = KeysOf(store[v][ns]) \cup {MsgId(ns, m)}
    BY <1>2, <1>5, <1>6, WriteOneKeys DEF Lossless
<1>9. \A w \in Validators, k \in Namespaces :
         store'[w][k] = IF w = v /\ k = ns THEN entries ELSE store[w][k]
    BY <1>1, <1>2, <1>4 DEF TypeOK
<1>10. \A w \in Validators, k \in Namespaces :
          KeysOf(store'[w][k]) =
             IF w = v /\ k = ns
             THEN KeysOf(store[w][k]) \cup {CallId(call[o])}
             ELSE KeysOf(store[w][k])
    BY <1>7, <1>8, <1>9
<1> QED  BY <1>2, <1>7, <1>10 DEF ns

(* No step loses a key.                                                    *)
LEMMA KeysGrow ==
    ASSUME Lossless, CertificateInv, [Next]_vars,
           NEW w \in Validators, NEW k \in Namespaces
    PROVE  KeysOf(store[w][k]) \subseteq KeysOf(store'[w][k])
<1>1. CASE UNCHANGED <<store, restarts>>
    BY <1>1
<1>2. ~ \E v \in Validators : Restart(v)
    BY DEF Restart, CertificateInv, Inv, TypeOK, Lossless
<1>3. ASSUME NEW o \in Ops, NEW v \in Validators, HandleWrite(v, o)
      PROVE  KeysOf(store[w][k]) \subseteq KeysOf(store'[w][k])
    BY <1>3, HandleWriteKeys
<1> QED  BY <1>1, <1>2, <1>3, StoreSteps

(* Answers and votes that are old, or of a validator that holds the        *)
(* message now.                                                            *)
LEMMA HoldKept ==
    ASSUME Lossless, AvailabilityInv, [Next]_vars, NEW p \in Ops, call'[p] = call[p],
           \A v \in Validators :
              replies'[p][v].type = "record" \/ v \in Voters(available'[p]) =>
                 \/ replies[p][v].type = "record"
                 \/ v \in Voters(available[p])
                 \/ CallId(call[p]) \in KeysOf(store'[v][call[p].ns])
    PROVE  VotersHold(p)'
<1>1. TypeOK /\ CallInv(p) /\ VotersHold(p)
    BY DEF AvailabilityInv, CertificateInv, Inv
<1>2. CASE call[p] = Idle
  <2>1. available[p] = EmptyTally /\ \A v \in Validators : replies[p][v] = NoReply
      BY <1>1, <1>2 DEF CallInv, IdleClean, RepliesWait, Running
  <2>2. \A v \in Validators : replies[p][v].type # "record" /\ v \notin Voters(available[p])
      BY <2>1, EmptyTallyCounted DEF NoReply
  <2> QED  BY <2>2 DEF VotersHold, Holds
<1>3. CASE call[p] # Idle
  <2>1. call[p].ns \in Namespaces
      BY <1>1, <1>3, CallIdType DEF TypeOK
  <2>2. \A v \in Validators : KeysOf(store[v][call[p].ns]) \subseteq KeysOf(store'[v][call[p].ns])
      BY <2>1, KeysGrow DEF AvailabilityInv
  <2> QED  BY <1>1, <2>2 DEF VotersHold, Holds
<1> QED  BY <1>2, <1>3

(* Every step keeps voters holding.                                        *)
LEMMA NextVotersHold ==
    ASSUME Lossless, AvailabilityInv, [Next]_vars, NEW p \in Ops
    PROVE  VotersHold(p)'
<1>1. TypeOK /\ CertificateInv /\ Inv /\ CallInv(p)
    BY DEF AvailabilityInv, CertificateInv, Inv
<1>2. CASE UNCHANGED <<call, replies, available>>
    BY <1>2, HoldKept
<1>3. ASSUME NEW o \in Ops, NEW c, NEW msg, call[o] = Idle, Begin(o, c, msg)
      PROVE  VotersHold(p)'
  <2>1. replies' = replies /\ available' = available
      BY <1>3 DEF Begin
  <2>2. CASE p # o
    <3>1. call'[p] = call[p]
        BY <1>1, <1>3, <2>2 DEF Begin, TypeOK
    <3> QED  BY <2>1, <3>1, HoldKept
  <2>3. CASE p = o
    <3>1. available[p] = EmptyTally /\ \A v \in Validators : replies[p][v] = NoReply
        BY <1>1, <1>3, <2>3 DEF CallInv, IdleClean, RepliesWait, Running
    <3>2. \A v \in Validators :
             replies[p][v].type # "record" /\ v \notin Voters(available[p])
        BY <3>1, EmptyTallyCounted DEF NoReply
    <3> QED  BY <2>1, <3>2 DEF VotersHold
  <2> QED  BY <2>2, <2>3
<1>4. ASSUME NEW o \in Ops, NEW v \in Validators, NEW reply, Respond(o, v, reply),
             UNCHANGED client,
             reply.type = "record" => CallId(call[o]) \in KeysOf(store'[v][call[o].ns])
      PROVE  VotersHold(p)'
  <2>1. \A w \in Validators :
           \/ replies'[p][w] = replies[p][w]
           \/ p = o /\ w = v /\ replies'[p][w] = reply
      BY <1>1, <1>4, RespondEffect
  <2>2. UNCHANGED <<call, available>>
      BY <1>4 DEF client
  <2> QED  BY <1>4, <2>1, <2>2, HoldKept
<1>5. ASSUME NEW o \in Ops, NEW v \in Validators, HandleWrite(v, o)
      PROVE  VotersHold(p)'
  <2>1. CallId(call[o]) \in KeysOf(store'[v][call[o].ns])
      BY ZenonT(30), <1>1, <1>5, HandleWriteKeys
  <2>2. PICK reply : Respond(o, v, reply)
      BY <1>5 DEF HandleWrite
  <2>3. UNCHANGED client
      BY <1>5 DEF HandleWrite
  <2> QED  BY <1>4, <2>1, <2>2, <2>3
<1>6. ASSUME NEW o \in Ops, NEW v \in Validators, HandleReadMessage(v, o)
      PROVE  VotersHold(p)'
  <2>1. PICK reply \in MessageReplies(v, store[v][call[o].ns], call[o].id, now) :
           Respond(o, v, reply)
      BY <1>6 DEF HandleReadMessage
  <2>2. CallId(call[o]) = call[o].id
      BY <1>6 DEF HandleReadMessage, CallId
  <2>3. reply.type = "record" => call[o].id \in KeysOf(store[v][call[o].ns])
    <3> SUFFICES ASSUME call[o].id \notin KeysOf(store[v][call[o].ns])
                 PROVE  reply.type # "record"
        OBVIOUS
    <3>1. PICK ts \in ClockAt(now) :
             reply = UnavailableReply(StampedAbsence(v, call[o].id, ts))
        BY <2>1, Zenon DEF MessageReplies
    <3> QED  BY <3>1 DEF UnavailableReply
  <2>4. UNCHANGED client /\ UNCHANGED store
      BY <1>6 DEF HandleReadMessage
  <2> QED  BY <1>4, <2>1, <2>2, <2>3, <2>4
<1>7. ASSUME NEW o \in Ops, NEW v \in Validators, TakeReply(o, v)
      PROVE  VotersHold(p)'
  <2>1. /\ available' = [available EXCEPT ![o] = NewAvailable(o, v)]
        /\ UNCHANGED call /\ Running(o) /\ v \in pending[o]
      BY <1>7, TakeReplyUnfolded
  <2>2. \A w \in Validators : replies'[p][w] \in {replies[p][w], NoReply}
    <3>1. CASE Return(o, NewAvailable(o, v), NewUnavailable(o, v), NewMessage(o, v))
        BY <1>1, <3>1, ReturnCalls
    <3>2. CASE replies' = [replies EXCEPT ![o][v] = NoReply]
        BY <1>1, <3>2 DEF TypeOK
    <3> QED  BY <1>7, <3>1, <3>2, TakeReplyUnfolded
  <2>3. CASE p # o
    <3>1. available'[p] = available[p]
        BY <1>1, <2>1, <2>3 DEF TypeOK
    <3> QED  BY <2>1, <2>2, <3>1, HoldKept DEF NoReply
  <2>4. CASE p = o
    <3>1. available'[p] = NewAvailable(o, v)
        BY <1>1, <2>1, <2>4 DEF TypeOK
    <3>2. Voters(NewAvailable(o, v)) \subseteq Voters(available[o]) \cup {v}
        BY <1>1, <2>1, TakeReplyTallies
    <3>3. \/ NewAvailable(o, v) = available[o]
          \/ replies[o][v].type = "record"
        BY DEF NewAvailable, TallyRecord, CountsAvailable, Reply
    <3> QED  BY <2>1, <2>2, <2>4, <3>1, <3>2, <3>3, HoldKept DEF NoReply
  <2> QED  BY <2>3, <2>4
<1>8. ASSUME NEW o \in Ops, Return(o, available[o], unavailable[o], message[o]),
             UNCHANGED <<call, available>>
      PROVE  VotersHold(p)'
  <2>1. \A w \in Validators : replies'[p][w] \in {replies[p][w], NoReply}
      BY <1>1, <1>8, ReturnCalls
  <2> QED  BY <1>8, <2>1, HoldKept DEF NoReply
<1>9. CASE Tick
    BY <1>2, <1>9 DEF Tick, client
<1>10. CASE \E o \in Ops, ns \in Namespaces, m \in Messages : Write(o, ns, m)
    BY <1>3, <1>10 DEF Write
<1>11. CASE \E o \in Ops, ns \in Namespaces, id \in MsgIds : ReadMessage(o, ns, id)
    BY <1>3, <1>11 DEF ReadMessage
<1>12. CASE \E o \in Ops, v \in Validators : FaultyReply(v, o)
    BY <1>12 DEF FaultyReply, Lossless
<1>13. CASE \E v \in Validators : Restart(v)
    BY <1>2, <1>13 DEF Restart, client
<1>14. CASE \E o \in Ops, v \in Validators : GiveUp(o, v)
    BY <1>8, <1>14 DEF GiveUp
<1>15. CASE \E o \in Ops : RunOut(o)
    BY <1>8, <1>15 DEF RunOut
<1>16. CASE UNCHANGED vars
    BY <1>2, <1>16 DEF vars
<1> QED  BY <1>5, <1>6, <1>7, <1>9, <1>10, <1>11, <1>12, <1>13, <1>14, <1>15, <1>16
         DEF Next

(* The ends of calls that Availability allows.                             *)
EndSound ==
    \A o \in Ops : result[o] # NoResult =>
        /\ result[o].type \in {"available", "unavailable", "noQuorum"}
        /\ result[o].type = "available" => Key(o) \in Recorded
        /\ result[o].type = "unavailable" => call[o].type = "read" /\ ~MustFind(o)

(* The validators that hold a key are finitely many.                       *)
LEMMA HoldersOfType ==
    ASSUME NEW k
    PROVE  /\ HoldersOf(k) \in SUBSET Validators
           /\ IsFiniteSet(HoldersOf(k)) /\ Cardinality(HoldersOf(k)) \in 0 .. N
<1>1. HoldersOf(k) \in SUBSET Validators
    BY DEF HoldersOf
<1> QED  BY <1>1, NAssumption, IndexSubset DEF Validators

(* Calls end as they may.                                                  *)
LEMMA EndsSound ==
    ASSUME Lossless, AvailabilityInv
    PROVE  EndSound
<1> SUFFICES ASSUME NEW o \in Ops, result[o] # NoResult
             PROVE  /\ result[o].type \in {"available", "unavailable", "noQuorum"}
                    /\ result[o].type = "available" => Key(o) \in Recorded
                    /\ result[o].type = "unavailable" =>
                          call[o].type = "read" /\ ~MustFind(o)
    BY DEF EndSound
<1>1. /\ CertificateInv /\ Inv /\ TypeOK /\ CallInv(o) /\ VotersHold(o)
      /\ NoPanic /\ NoConflict
    BY InvNoPanic, InvNoConflict DEF AvailabilityInv, CertificateInv, Inv
<1>2. result[o].type \in {"available", "unavailable", "noQuorum"}
  <2>1. result[o] \in Results /\ result[o] # Panic
      BY <1>1, NAssumption DEF TypeOK, NoPanic, Lossless
  <2> QED  BY <2>1 DEF Results, NoQuorum
<1>3. ASSUME result[o].type = "available"
      PROVE  Key(o) \in Recorded
  <2>1. /\ call[o] \in Calls /\ available[o] \in Tallies
        /\ HasReachedQuorum(N, Cardinality(Voters(available[o])))
      BY <1>1, <1>3, CertificateOfTally
  <2>2. Key(o) = <<call[o].ns, CallId(call[o])>> /\ Key(o) \in Namespaces \X MsgIds
      BY <2>1, CallIdType DEF Key, Calls, Idle
  <2>3. Voters(available[o]) \subseteq HoldersOf(Key(o))
      BY <1>1, <2>1, <2>2, VotersType DEF VotersHold, HoldersOf
  <2>4. Cardinality(Voters(available[o])) <= Cardinality(HoldersOf(Key(o)))
      BY <2>3, HoldersOfType, FS_Subset
  <2>5. HasReachedQuorum(N, Cardinality(HoldersOf(Key(o))))
      BY <2>1, <2>4, NAssumption, HoldersOfType, VotersType, QuorumMonotone
  <2> QED  BY <2>2, <2>5 DEF Recorded
<1>4. ASSUME result[o].type = "unavailable"
      PROVE  call[o].type = "read" /\ ~MustFind(o)
  <2>1. call[o].type = "read"
      BY <1>1, <1>4, CertificateOfTally
  <2>2. ~HasReachedQuorum(N, Cardinality(holders[o]))
      BY <1>1, <1>4 DEF NoConflict, Lossless
  <2> QED  BY <2>1, <2>2 DEF MustFind
<1> QED  BY <1>2, <1>3, <1>4

(* A step that leaves the keys, the calls and their results alone is not   *)
(* one of Availability.                                                    *)
LEMMA AbstractStutter ==
    ASSUME UNCHANGED <<store, call, result, holders>>
    PROVE  UNCHANGED A!vars
BY DEF A!vars, Recorded, HoldersOf, Holds, Status, Running, Key, MustFind

(* A call that begins is one that begins in Availability.                  *)
LEMMA AbstractBegin ==
    ASSUME Lossless, AvailabilityInv, NEW o \in Ops, call[o] = Idle,
           NEW c \in Calls, NEW msg, Begin(o, c, msg)
    PROVE  A!Next
<1> DEFINE kind == IF c.type = "write" THEN "writing" ELSE "reading"
           k == <<c.ns, CallId(c)>>
<1>1. TypeOK /\ CallInv(o)
    BY DEF AvailabilityInv, CertificateInv, Inv
<1>2. /\ call' = [call EXCEPT ![o] = c]
      /\ holders' = [holders EXCEPT ![o] =
                        {v \in Validators \ Faulty : Holds(v, c.ns, CallId(c))}]
      /\ UNCHANGED <<store, result>>
    BY DEF Begin
<1>3. c # Idle /\ c.type \in {"write", "read"} /\ k \in Namespaces \X MsgIds
    BY CallIdType DEF Calls, Idle
<1>4. result[o] = NoResult
    BY <1>1 DEF CallInv, IdleClean
<1>5. /\ call'[o] = c /\ holders'[o] = HoldersOf(k)
      /\ \A p \in Ops \ {o} : call'[p] = call[p] /\ holders'[p] = holders[p]
  <2>1. {v \in Validators \ Faulty : Holds(v, c.ns, CallId(c))} = HoldersOf(k)
      BY DEF HoldersOf, Lossless
  <2> QED  BY <1>1, <1>2, <2>1 DEF TypeOK
<1>6. Recorded' = Recorded
    BY <1>2 DEF Recorded, HoldersOf, Holds
<1>7. /\ Status(o) = "idle" /\ Status(o)' = kind
      /\ Key(o)' = k /\ MustFind(o)' = (k \in Recorded)
  <2>1. Status(o) = "idle"
      BY DEF Status, Running
  <2>2. Status(o)' = kind
      BY <1>2, <1>3, <1>4, <1>5 DEF Status, Running
  <2>3. Key(o)' = k
      BY <1>3, <1>5 DEF Key
  <2>4. MustFind(o)' = (k \in Recorded)
      BY <1>3, <1>5 DEF MustFind, Recorded
  <2> QED  BY <2>1, <2>2, <2>3, <2>4
<1>8. \A p \in Ops \ {o} : UNCHANGED <<Status(p), Key(p), MustFind(p)>>
    BY <1>2, <1>5 DEF Status, Running, Key, MustFind
<1>9. A!Begin(o, kind, k)
  <2> HIDE DEF kind, k
  <2> QED  BY <1>6, <1>7, <1>8 DEF A!Begin
<1>10. kind \in {"writing", "reading"}
    OBVIOUS
<1> HIDE DEF kind, k
<1> QED  BY <1>3, <1>9, <1>10 DEF A!Next

(* A write by a validator records a key or nothing.                        *)
LEMMA AbstractRecord ==
    ASSUME Lossless, AvailabilityInv, NEW o \in Ops, NEW v \in Validators,
           HandleWrite(v, o)
    PROVE  A!Next \/ UNCHANGED A!vars
<1> PICK k : k = <<call[o].ns, CallId(call[o])>>
    OBVIOUS
<1>1. TypeOK /\ CertificateInv /\ \A p \in Ops : CallInv(p)
    BY DEF AvailabilityInv, CertificateInv, Inv
<1>2. /\ k \in Namespaces \X MsgIds
      /\ \A w \in Validators, n \in Namespaces :
            KeysOf(store'[w][n]) = IF w = v /\ n = k[1]
                                   THEN KeysOf(store[w][n]) \cup {k[2]}
                                   ELSE KeysOf(store[w][n])
    BY <1>1, HandleWriteKeys
<1>3. UNCHANGED <<call, result>> /\ holders' = Retained(store')
    BY DEF HandleWrite, client
<1>4. holders' = holders
  <2>1. ASSUME NEW p \in Ops PROVE Retained(store')[p] = holders[p]
    <3>1. CASE ~Running(p)
        BY <3>1 DEF Retained
    <3>2. CASE Running(p)
      <4>1. call[p] \in Calls
          BY <1>1, <3>2 DEF TypeOK, Running
      <4>2. call[p].ns \in Namespaces /\ holders[p] \subseteq Validators
          BY <1>1, <4>1, CallIdType DEF TypeOK
      <4>3. \A w \in holders[p] : CallId(call[p]) \in KeysOf(store[w][call[p].ns])
          BY <1>1, <3>2 DEF CallInv, HoldersHold, Holds
      <4>4. \A w \in holders[p] : CallId(call[p]) \in KeysOf(store'[w][call[p].ns])
          BY <1>2, <4>2, <4>3
      <4> QED  BY <3>2, <4>4 DEF Retained
    <3> QED  BY <3>1, <3>2
  <2>2. holders \in [Ops -> SUBSET Validators] /\ Retained(store') \in [Ops -> SUBSET Validators]
      BY <1>1, RetainedType DEF TypeOK
  <2> QED  BY <1>3, <2>1, <2>2
<1>5. \A j \in (Namespaces \X MsgIds) \ {k} : HoldersOf(j)' = HoldersOf(j)
  <2> SUFFICES ASSUME NEW j \in (Namespaces \X MsgIds) \ {k}, NEW w \in Validators
               PROVE  j[2] \in KeysOf(store'[w][j[1]]) <=> j[2] \in KeysOf(store[w][j[1]])
      BY DEF HoldersOf, Holds
  <2>1. j[1] # k[1] \/ j[2] # k[2]
      BY <1>2
  <2> QED  BY ZenonT(30), <1>2, <2>1
<1>6. k \in Recorded => k \in Recorded'
  <2> SUFFICES ASSUME k \in Recorded PROVE k \in Recorded'
      OBVIOUS
  <2>1. PICK S, T : S = HoldersOf(k) /\ T = HoldersOf(k)'
      OBVIOUS
  <2>2. S \subseteq T
      BY <1>2, <2>1 DEF HoldersOf, Holds
  <2>3. S \in SUBSET Indexes(N) /\ T \in SUBSET Indexes(N)
      BY <2>1 DEF HoldersOf, Validators
  <2>4. /\ IsFiniteSet(T) /\ Cardinality(S) \in 0 .. N /\ Cardinality(T) \in 0 .. N
        /\ Cardinality(S) <= Cardinality(T)
      BY <2>2, <2>3, NAssumption, IndexSubset, FS_Subset
  <2>5. HasReachedQuorum(N, Cardinality(S))
      BY <2>1 DEF Recorded
  <2>6. HasReachedQuorum(N, Cardinality(T))
      BY <2>4, <2>5, NAssumption, QuorumMonotone
  <2> QED  BY <1>2, <2>1, <2>6 DEF Recorded
<1>7. Recorded' = Recorded \/ Recorded' = Recorded \cup {k}
  <2>1. \A j \in (Namespaces \X MsgIds) \ {k} : j \in Recorded' <=> j \in Recorded
      BY <1>5 DEF Recorded
  <2>2. Recorded \subseteq Namespaces \X MsgIds /\ Recorded' \subseteq Namespaces \X MsgIds
      BY DEF Recorded
  <2> QED  BY <1>6, <2>1, <2>2
<1>8. /\ [p \in Ops |-> Status(p)]' = [p \in Ops |-> Status(p)]
      /\ [p \in Ops |-> Key(p)]' = [p \in Ops |-> Key(p)]
      /\ [p \in Ops |-> MustFind(p)]' = [p \in Ops |-> MustFind(p)]
    BY <1>3, <1>4 DEF Status, Running, Key, MustFind
<1>9. CASE Recorded' = Recorded
    BY <1>8, <1>9 DEF A!vars
<1>10. CASE Recorded' = Recorded \cup {k}
  <2>1. A!Record(k)
      BY <1>8, <1>10 DEF A!Record
  <2> QED  BY <1>2, <2>1 DEF A!Next
<1> QED  BY <1>7, <1>9, <1>10

(* A call that returns ends as Availability allows.                        *)
LEMMA AbstractEnd ==
    ASSUME AvailabilityInv, EndSound', NEW o \in Ops, Running(o),
           NEW a, NEW u, NEW msg, Return(o, a, u, msg),
           UNCHANGED <<store, call, holders>>
    PROVE  A!Next
<1> DEFINE outcome == result'[o].type
<1>1. TypeOK
    BY DEF AvailabilityInv, CertificateInv, Inv
<1>2. /\ result'[o] = Concluded(call[o], a, u, msg)
      /\ \A p \in Ops \ {o} : result'[p] = result[p]
    BY <1>1, ReturnCalls
<1>3. result'[o] # NoResult
    BY <1>2 DEF Concluded, NoResult, Panic, NoQuorum
<1>4. Recorded' = Recorded /\ \A p \in Ops : UNCHANGED <<Key(p), MustFind(p)>>
    BY DEF Recorded, HoldersOf, Holds, Key, MustFind
<1>5. /\ outcome \in {"available", "unavailable", "noQuorum"}
      /\ outcome = "available" => Key(o) \in Recorded
      /\ outcome = "unavailable" => call[o].type = "read" /\ ~MustFind(o)
    BY <1>3, <1>4 DEF EndSound
<1>6. /\ Status(o) = IF call[o].type = "write" THEN "writing" ELSE "reading"
      /\ Status(o)' = outcome
  <2>1. call[o] # Idle
      BY DEF Running
  <2> QED  BY <1>3, <2>1 DEF Status, Running
<1>7. \A p \in Ops \ {o} : Status(p)' = Status(p)
    BY <1>2 DEF Status, Running
<1> HIDE DEF outcome
<1>8. outcome = "unavailable" => Status(o) = "reading"
    BY <1>5, <1>6
<1>9. A!End(o, outcome)
  <2>1. A!Running(o)
      BY <1>6 DEF A!Running
  <2> QED  BY <1>4, <1>5, <1>6, <1>7, <1>8, <2>1 DEF A!End
<1> QED  BY <1>5, <1>9 DEF A!Next

(* Every step is a step of Availability or none: one case per action.      *)
LEMMA AbstractStep ==
    ASSUME Lossless, AvailabilityInv, EndSound', [Next]_vars
    PROVE  A!Next \/ UNCHANGED A!vars
<1>1. CASE Tick
    BY <1>1, AbstractStutter DEF Tick, client, history
<1>2. CASE \E o \in Ops, ns \in Namespaces, m \in Messages : Write(o, ns, m)
  <2>1. \A ns \in Namespaces, m \in Messages :
           [type |-> "write", ns |-> ns, message |-> m] \in Calls
      BY DEF Calls
  <2> QED  BY <1>2, <2>1, AbstractBegin DEF Write
<1>3. CASE \E o \in Ops, ns \in Namespaces, id \in MsgIds : ReadMessage(o, ns, id)
  <2>1. \A ns \in Namespaces, id \in MsgIds :
           [type |-> "read", ns |-> ns, id |-> id] \in Calls
      BY DEF Calls
  <2> QED  BY <1>3, <2>1, AbstractBegin DEF ReadMessage
<1>4. CASE \E o \in Ops, v \in Validators : HandleWrite(v, o)
    BY <1>4, AbstractRecord
<1>5. CASE \E o \in Ops, v \in Validators : HandleReadMessage(v, o)
    BY <1>5, AbstractStutter DEF HandleReadMessage, client, history
<1>6. CASE \E o \in Ops, v \in Validators : FaultyReply(v, o)
    BY <1>6 DEF FaultyReply, Lossless
<1>7. CASE \E v \in Validators : Restart(v)
    BY <1>7 DEF Restart, AvailabilityInv, CertificateInv, Inv, TypeOK, Lossless
<1>8. ASSUME NEW o \in Ops, NEW v \in Validators, TakeReply(o, v)
      PROVE  A!Next \/ UNCHANGED A!vars
  <2>1. Running(o) /\ UNCHANGED <<store, call, holders>>
      BY <1>8, TakeReplyUnfolded
  <2>2. CASE Return(o, NewAvailable(o, v), NewUnavailable(o, v), NewMessage(o, v))
      BY <2>1, <2>2, AbstractEnd
  <2>3. CASE UNCHANGED result
      BY <2>1, <2>3, AbstractStutter
  <2> QED  BY <1>8, <2>2, <2>3, TakeReplyUnfolded
<1>9. CASE \E o \in Ops, v \in Validators : GiveUp(o, v)
    BY <1>9, AbstractEnd DEF GiveUp
<1>10. CASE \E o \in Ops : RunOut(o)
    BY <1>10, AbstractEnd DEF RunOut
<1>11. CASE UNCHANGED vars
    BY <1>11, AbstractStutter DEF vars
<1> QED  BY <1>1, <1>2, <1>3, <1>4, <1>5, <1>6, <1>7, <1>8, <1>9, <1>10, <1>11 DEF Next

(* Correct validators that drop nothing implement Availability, whatever   *)
(* their number (but four), the calls and the messages, and whatever the   *)
(* order, delay and loss of answers: a write's Ok and a read's Available   *)
(* only for recorded messages, Unavailable only for a message that was not *)
(* recorded when read_message was called.                                  *)
THEOREM DatoImplementsAvailability ==
    ASSUME Lossless
    PROVE  Spec => ImplementsAvailability
<1>1. ASSUME Init PROVE A!Init /\ \A o \in Ops : VotersHold(o)
  <2>1. \A o \in Ops : /\ call[o] = Idle /\ available[o] = EmptyTally
                       /\ \A v \in Validators : replies[o][v] = NoReply
      BY <1>1 DEF Init
  <2>2. Recorded = {}
    <3>1. ASSUME NEW k \in Namespaces \X MsgIds PROVE HoldersOf(k) = {}
        BY <1>1, <3>1 DEF Init, HoldersOf, Holds, KeysOf
    <3>2. ~HasReachedQuorum(N, Cardinality({}))
        BY NAssumption, FS_EmptySet, QuorumNotEmpty DEF Lossless
    <3> QED  BY <3>1, <3>2 DEF Recorded
  <2>3. \A o \in Ops : Status(o) = "idle" /\ Key(o) = <<>> /\ MustFind(o) = FALSE
      BY <2>1 DEF Status, Running, Key, MustFind
  <2>4. A!Init
      BY <2>2, <2>3 DEF A!Init, A!NoKey
  <2>5. \A o \in Ops : VotersHold(o)
      BY <2>1, EmptyTallyCounted DEF VotersHold, NoReply
  <2> QED  BY <2>4, <2>5
<1>2. CertificateInv /\ (\A o \in Ops : VotersHold(o)) /\ [Next]_vars
         => (\A o \in Ops : VotersHold(o))'
    BY NextVotersHold DEF AvailabilityInv
<1>3. Spec => [](CertificateInv /\ \A o \in Ops : VotersHold(o))
    BY <1>1, <1>2, CertificateInvariant, PTL DEF Spec
<1>4. CertificateInv /\ (\A o \in Ops : VotersHold(o)) => EndSound
    BY EndsSound DEF AvailabilityInv
<1>5. CertificateInv /\ (\A o \in Ops : VotersHold(o)) /\ EndSound' /\ [Next]_vars
         => [A!Next]_(A!vars)
    BY AbstractStep DEF AvailabilityInv
<1>6. Spec => A!Init /\ [][A!Next]_(A!vars)
    BY <1>1, <1>3, <1>4, <1>5, PTL DEF Spec
<1> QED  BY <1>6 DEF ImplementsAvailability, A!Spec
=============================================================================
