--------------------------- MODULE Protocol_proofs ---------------------------
(***************************************************************************)
(* Facts about what clients and validators exchange and about the store,   *)
(* that hold in every state machine built from Protocol.                   *)
(***************************************************************************)
EXTENDS Protocol, QuorumCert_proofs, SequenceTheorems

-----------------------------------------------------------------------------
(* Data.                                                                   *)

(* Message ids are sequences of bytes.                                     *)
LEMMA MsgIdType ==
    /\ MsgIds \subseteq Seq(Nat)
    /\ \A ns \in Namespaces, m \in Messages : MsgId(ns, m) \in MsgIds
<1>1. \A ns \in Namespaces, m \in Messages : MsgId(ns, m) \in Seq(Nat)
    BY BytesAssumption DEF MsgId
<1>2. /\ \A id \in MsgIds : \E ns \in Namespaces, m \in Messages : id = MsgId(ns, m)
      /\ \A ns \in Namespaces, m \in Messages : MsgId(ns, m) \in MsgIds
    BY SMT DEF MsgIds
<1> QED  BY <1>1, <1>2

(* What validators sign is a digest.                                       *)
LEMMA DigestType ==
    /\ \A ns \in Namespaces, ts \in Nat, m \in Messages :
          RecordDigest(ns, ts, m) \in Digests
    /\ \A id \in MsgIds, ts \in Nat : UnavailableDigest(id, ts) \in Digests
    /\ [bytes |-> <<>>] \in Digests
<1>1. ASSUME NEW ns \in Namespaces, NEW ts \in Nat, NEW m \in Messages
      PROVE  ns \o <<ts>> \o m \in Seq(Nat)
    BY BytesAssumption
<1>2. <<>> \in Seq(Nat)
    OBVIOUS
<1> QED  BY <1>1, <1>2, MsgIdType DEF RecordDigest, UnavailableDigest, Digests

(* What a validator makes of a digest with sign_with_prefix is a signature *)
(* of its own.                                                             *)
LEMMA SignType ==
    ASSUME NEW v \in Validators, NEW d \in Digests
    PROVE  Sign(v, d) \in Signatures
BY DEF Sign, Signatures

(* The id of a call is a message id.                                       *)
LEMMA CallIdType ==
    ASSUME NEW c \in Calls
    PROVE  CallId(c) \in MsgIds /\ c.ns \in Namespaces /\ c.type \in {"write", "read"}
BY MsgIdType DEF CallId, Calls

(* A record makes an answer.                                               *)
LEMMA RecordReplyType ==
    ASSUME NEW r \in Records
    PROVE  RecordReply(r) \in Replies
BY DEF RecordReply, Replies

(* An absence makes an answer.                                             *)
LEMMA UnavailableReplyType ==
    ASSUME NEW u \in Unavailables
    PROVE  UnavailableReply(u) \in Replies
BY DEF UnavailableReply, Replies

(* A validator signs records and absences of the right types.              *)
LEMMA SignedRecordType ==
    ASSUME NEW v \in Validators, NEW ns \in Namespaces, NEW m \in Messages,
           NEW ts \in Nat
    PROVE  Stamped(v, ns, ts, m) \in Records
BY DigestType, SignType DEF Records, Stamped

(* UnavailableMessage::create_signed yields an absence.                    *)
LEMMA SignedAbsenceType ==
    ASSUME NEW v \in Validators, NEW id \in MsgIds, NEW ts \in Nat
    PROVE  StampedAbsence(v, id, ts) \in Unavailables
BY DigestType, SignType DEF Unavailables, StampedAbsence

(* A faulty validator's answers are answers.                               *)
LEMMA FaultyRepliesType ==
    ASSUME NEW v \in Validators, NEW c \in Calls
    PROVE  FaultyReplies(v, c) \subseteq Replies
<1>1. Times \subseteq Nat
    BY ClockAssumption DEF Times
<1>2. c.ns \in Namespaces
    BY CallIdType
<1>3. Forged(v) \in Signatures
    BY DigestType, SignType DEF Forged
<1>4. \A m \in Messages :
         RecordReply([message |-> m, timestamp |-> 0, signature |-> Forged(v)]) \in Replies
    BY <1>1, <1>3, RecordReplyType DEF Records
<1>5. \A m \in Messages, ts \in Times :
         RecordReply(Stamped(v, c.ns, ts, m)) \in Replies
    BY <1>1, <1>2, RecordReplyType, SignedRecordType
<1>6. \A id \in MsgIds :
         UnavailableReply([msg_id |-> id, timestamp |-> 0,
                           signature |-> Forged(v)]) \in Replies
    BY <1>1, <1>3, UnavailableReplyType DEF Unavailables
<1>7. \A id \in MsgIds, ts \in Times :
         UnavailableReply(StampedAbsence(v, id, ts)) \in Replies
    BY <1>1, UnavailableReplyType, SignedAbsenceType
<1>8. Garbage \in Replies
    BY DEF Replies
<1> DEFINE ForgedRecord(m) == RecordReply([message |-> m, timestamp |-> 0,
                                           signature |-> Forged(v)])
           OwnRecord(m, ts) == RecordReply(Stamped(v, c.ns, ts, m))
           ForgedAbsence(id) == UnavailableReply([msg_id |-> id, timestamp |-> 0,
                                                  signature |-> Forged(v)])
           OwnAbsence(id, ts) == UnavailableReply(StampedAbsence(v, id, ts))
<1>9. FaultyReplies(v, c) =
         {Garbage} \cup {ForgedRecord(m) : m \in Messages}
         \cup {OwnRecord(m, ts) : m \in Messages, ts \in Times}
         \cup {ForgedAbsence(id) : id \in MsgIds}
         \cup {OwnAbsence(id, ts) : id \in MsgIds, ts \in Times}
    BY DEF FaultyReplies
<1>10. /\ \A m \in Messages : ForgedRecord(m) \in Replies
       /\ \A m \in Messages, ts \in Times : OwnRecord(m, ts) \in Replies
       /\ \A id \in MsgIds : ForgedAbsence(id) \in Replies
       /\ \A id \in MsgIds, ts \in Times : OwnAbsence(id, ts) \in Replies
    BY <1>4, <1>5, <1>6, <1>7, Zenon
<1> HIDE DEF ForgedRecord, OwnRecord, ForgedAbsence, OwnAbsence
<1>11. ASSUME NEW reply \in FaultyReplies(v, c)
       PROVE  reply \in Replies
    BY <1>8, <1>9, <1>10
<1> QED  BY <1>11, Zenon

-----------------------------------------------------------------------------
(* The store.                                                              *)

(* Inserting a record keeps a namespace a sequence of entries.             *)
LEMMA InsertType ==
    ASSUME NEW entries \in Seq(Entries), NEW id \in MsgIds, NEW record \in Records,
           NEW after \in Insert(entries, Cap, id, record)
    PROVE  after \in Seq(Entries)
<1> DEFINE entry == [id |-> id, record |-> record]
           replaced == [i \in DOMAIN entries |->
                           IF entries[i].id = id THEN entry ELSE entries[i]]
<1>1. entry \in Entries
    BY DEF Entries
<1>2. CASE id \in KeysOf(entries)
  <2>1. PICK i \in DOMAIN entries : entries[i].id = id
      BY <1>2 DEF KeysOf
  <2>2. Place(entries, id) \in DOMAIN entries
      BY <2>1 DEF Place
  <2>3. replaced \in Seq(Entries)
    <3> HIDE DEF entry
    <3> QED  BY <1>1
  <2>4. Without(entries, id) \in Seq(Entries)
    <3>1. \A j \in 1 .. Len(entries) - 1 :
             entries[IF j < Place(entries, id) THEN j ELSE j + 1] \in Entries
        BY <2>2
    <3>2. Len(entries) - 1 \in Nat
        BY <2>1
    <3> QED  BY <3>1, <3>2 DEF Without
  <2>5. Append(Without(entries, id), entry) \in Seq(Entries)
      BY <1>1, <2>4
  <2> QED  BY <1>2, <2>3, <2>5 DEF Insert
<1>3. CASE id \notin KeysOf(entries)
  <2>1. EvictFor(entries, Cap) \in Seq(Entries)
      BY CapAssumption DEF EvictFor
  <2> QED  BY <1>1, <1>3, <2>1 DEF Insert
<1> QED  BY <1>2, <1>3

(* Where a key is, for a key that is there.                                *)
LEMMA PlaceOf ==
    ASSUME NEW entries \in Seq(Entries), NEW id \in KeysOf(entries)
    PROVE  /\ Place(entries, id) \in DOMAIN entries
           /\ entries[Place(entries, id)].id = id
<1>1. \E i \in DOMAIN entries : entries[i].id = id
    BY DEF KeysOf
<1> QED  BY <1>1 DEF Place

UniqueKeys(entries) ==
    \A i, j \in DOMAIN entries : entries[i].id = entries[j].id => i = j

(* What is left without a key: the other entries, in their order.          *)
LEMMA WithoutEntries ==
    ASSUME NEW entries \in Seq(Entries), UniqueKeys(entries),
           NEW id \in KeysOf(entries)
    PROVE  LET rest == Without(entries, id)
           IN  /\ rest \in Seq(Entries)
               /\ Len(rest) = Len(entries) - 1
               /\ UniqueKeys(rest)
               /\ \A i \in DOMAIN rest : \E j \in DOMAIN entries :
                     rest[i] = entries[j] /\ entries[j].id # id
               /\ \A j \in DOMAIN entries :
                     entries[j].id # id => \E i \in DOMAIN rest : rest[i] = entries[j]
<1> DEFINE p == Place(entries, id)
           rest == Without(entries, id)
           From(i) == IF i < p THEN i ELSE i + 1
<1>1. p \in 1 .. Len(entries) /\ entries[p].id = id /\ Len(entries) \in Nat
    BY PlaceOf
<1>2. rest = [i \in 1 .. Len(entries) - 1 |-> entries[From(i)]]
    BY DEF Without
<1> HIDE DEF p, rest
<1>3. \A i \in 1 .. Len(entries) - 1 : From(i) \in DOMAIN entries /\ From(i) # p
    BY <1>1
<1>4. \A i, j \in 1 .. Len(entries) - 1 : From(i) = From(j) => i = j
    BY <1>1
<1>5. \A j \in DOMAIN entries : j # p => \E i \in 1 .. Len(entries) - 1 : From(i) = j
  <2> SUFFICES ASSUME NEW j \in DOMAIN entries, j # p
               PROVE  \E i \in 1 .. Len(entries) - 1 : From(i) = j
      OBVIOUS
  <2>1. CASE j < p
      BY <1>1, <2>1
  <2>2. CASE j > p
    <3>1. j - 1 \in 1 .. Len(entries) - 1 /\ From(j - 1) = j
        BY <1>1, <2>2
    <3> QED  BY <3>1
  <2> QED  BY <1>1, <2>1, <2>2
<1> HIDE DEF From
<1>6. \A j \in DOMAIN entries : entries[j].id = id <=> j = p
    BY <1>1 DEF UniqueKeys
<1>7. rest \in Seq(Entries) /\ Len(rest) = Len(entries) - 1
      /\ DOMAIN rest = 1 .. Len(entries) - 1
  <2>1. \A i \in 1 .. Len(entries) - 1 : entries[From(i)] \in Entries
      BY <1>3
  <2>2. Len(entries) - 1 \in Nat
      BY <1>1
  <2> QED  BY <1>2, <2>1, <2>2
<1>8. UniqueKeys(rest)
    BY <1>2, <1>3, <1>4, <1>7 DEF UniqueKeys
<1>9. \A i \in DOMAIN rest : \E j \in DOMAIN entries :
         rest[i] = entries[j] /\ entries[j].id # id
    BY <1>2, <1>3, <1>6, <1>7
<1>10. \A j \in DOMAIN entries :
          entries[j].id # id => \E i \in DOMAIN rest : rest[i] = entries[j]
    BY <1>2, <1>5, <1>6, <1>7
<1> QED  BY <1>7, <1>8, <1>9, <1>10 DEF rest

(* FIFOMap::insert on a map within its capacity: the map stays within it   *)
(* and keyed once, holds the new entry, keeps of the others what it held,  *)
(* and loses one only if it is full and the key new: the oldest.           *)
LEMMA InsertEntries ==
    ASSUME NEW entries \in Seq(Entries), UniqueKeys(entries), Len(entries) <= Cap,
           NEW id \in MsgIds, NEW record \in Records,
           NEW after \in Insert(entries, Cap, id, record)
    PROVE  LET entry == [id |-> id, record |-> record]
           IN  /\ after \in Seq(Entries)
               /\ UniqueKeys(after)
               /\ Len(after) <= Cap
               /\ \E i \in DOMAIN after : after[i] = entry
               /\ \A i \in DOMAIN after :
                     \/ after[i] = entry
                     \/ \E j \in DOMAIN entries : after[i] = entries[j] /\ entries[j].id # id
               /\ \A j \in DOMAIN entries :
                     \/ entries[j].id = id
                     \/ \E i \in DOMAIN after : after[i] = entries[j]
                     \/ j = 1 /\ Len(entries) = Cap /\ id \notin KeysOf(entries)
<1> DEFINE entry == [id |-> id, record |-> record]
           replaced == [i \in DOMAIN entries |->
                           IF entries[i].id = id THEN entry ELSE entries[i]]
           rest == Without(entries, id)
           left == EvictFor(entries, Cap)
<1>1. entry \in Entries /\ entry.id = id /\ after \in Seq(Entries)
    BY InsertType DEF Entries
<1>2. Cap \in Nat /\ Cap > 0
    BY CapAssumption
<1> HIDE DEF entry
<1>3. CASE id \in KeysOf(entries) /\ after = replaced
  <2>1. Len(replaced) = Len(entries) /\ DOMAIN replaced = DOMAIN entries
        /\ \A i \in DOMAIN entries : replaced[i].id = entries[i].id
      BY <1>1
  <2>2. UniqueKeys(replaced)
      BY <2>1 DEF UniqueKeys
  <2>3. \E i \in DOMAIN replaced : replaced[i] = entry
      BY <1>3 DEF KeysOf
  <2> QED  BY <1>1, <1>3, <2>1, <2>2, <2>3 DEF entry
<1>4. CASE id \in KeysOf(entries) /\ after = Append(rest, entry)
  <2>1. /\ rest \in Seq(Entries)
        /\ Len(rest) = Len(entries) - 1
        /\ UniqueKeys(rest)
        /\ \A i \in DOMAIN rest : \E j \in DOMAIN entries :
              rest[i] = entries[j] /\ entries[j].id # id
        /\ \A j \in DOMAIN entries :
              entries[j].id # id => \E i \in DOMAIN rest : rest[i] = entries[j]
      BY <1>4, WithoutEntries
  <2> HIDE DEF rest
  <2>2. /\ Len(after) = Len(entries) /\ DOMAIN after = 1 .. Len(rest) + 1
        /\ \A i \in DOMAIN rest : i \in DOMAIN after /\ after[i] = rest[i]
        /\ after[Len(rest) + 1] = entry
        /\ \A i \in DOMAIN after : i \in DOMAIN rest \/ i = Len(rest) + 1
      BY <1>1, <1>4, <2>1
  <2>3. Len(rest) + 1 \in DOMAIN after
      BY <2>1, <2>2
  <2>4. UniqueKeys(after)
    <3> SUFFICES ASSUME NEW i \in DOMAIN after, NEW j \in DOMAIN after,
                        after[i].id = after[j].id
                 PROVE  i = j
        BY DEF UniqueKeys
    <3>1. \A k \in DOMAIN rest : after[k].id # id
        BY <2>1, <2>2
    <3>2. CASE i \in DOMAIN rest /\ j \in DOMAIN rest
        BY <2>1, <2>2, <3>2 DEF UniqueKeys
    <3> QED  BY <1>1, <2>2, <3>1, <3>2
  <2>5. \A i \in DOMAIN after :
           after[i] = entry \/ \E j \in DOMAIN entries :
                                  after[i] = entries[j] /\ entries[j].id # id
      BY <2>1, <2>2
  <2>6. \A j \in DOMAIN entries :
           entries[j].id = id \/ \E i \in DOMAIN after : after[i] = entries[j]
      BY <2>1, <2>2
  <2> QED  BY <1>1, <2>2, <2>3, <2>4, <2>5, <2>6 DEF entry
<1>5. CASE id \notin KeysOf(entries) /\ after = Append(left, entry)
  <2> DEFINE skip == IF Len(entries) < Cap THEN 0 ELSE 1
  <2>1. /\ left \in Seq(Entries)
        /\ Len(left) = Len(entries) - skip
        /\ \A i \in 1 .. Len(left) : left[i] = entries[i + skip]
        /\ Len(entries) \in Nat /\ skip \in {0, 1} /\ Len(left) \in Nat
        /\ Len(left) < Cap
        /\ skip = 1 => Len(entries) = Cap
      BY <1>2 DEF EvictFor
  <2>2. \A j \in DOMAIN entries : entries[j].id # id
      BY <1>5 DEF KeysOf
  <2> HIDE DEF left, skip
  <2>3. /\ Len(after) = Len(left) + 1 /\ DOMAIN after = 1 .. Len(left) + 1
        /\ \A i \in 1 .. Len(left) : after[i] = entries[i + skip] /\ i + skip \in DOMAIN entries
        /\ after[Len(left) + 1] = entry
      BY <1>1, <1>5, <2>1
  <2>4. UniqueKeys(after)
    <3> SUFFICES ASSUME NEW i \in DOMAIN after, NEW j \in DOMAIN after,
                        after[i].id = after[j].id
                 PROVE  i = j
        BY DEF UniqueKeys
    <3>1. \A k \in 1 .. Len(left) : after[k].id # id
        BY <2>2, <2>3
    <3>2. CASE i \in 1 .. Len(left) /\ j \in 1 .. Len(left)
      <4>1. i + skip = j + skip
          BY <2>3, <3>2 DEF UniqueKeys
      <4> QED  BY <2>1, <3>2, <4>1
    <3>3. CASE i = Len(left) + 1 /\ j \in 1 .. Len(left)
        BY <1>1, <2>3, <3>1, <3>3
    <3>4. CASE j = Len(left) + 1 /\ i \in 1 .. Len(left)
        BY <1>1, <2>3, <3>1, <3>4
    <3> QED  BY <2>1, <2>3, <3>2, <3>3, <3>4
  <2>5. \A i \in DOMAIN after :
           after[i] = entry \/ \E j \in DOMAIN entries :
                                  after[i] = entries[j] /\ entries[j].id # id
    <3> SUFFICES ASSUME NEW i \in DOMAIN after
                 PROVE  after[i] = entry \/ \E j \in DOMAIN entries :
                                  after[i] = entries[j] /\ entries[j].id # id
        OBVIOUS
    <3>1. CASE i \in 1 .. Len(left)
        BY <2>2, <2>3, <3>1
    <3> QED  BY <2>1, <2>3, <3>1
  <2>6. \A j \in DOMAIN entries :
           \/ \E i \in DOMAIN after : after[i] = entries[j]
           \/ j = 1 /\ Len(entries) = Cap /\ id \notin KeysOf(entries)
    <3> SUFFICES ASSUME NEW j \in DOMAIN entries, j # 1 \/ Len(entries) # Cap
                 PROVE  \E i \in DOMAIN after : after[i] = entries[j]
        BY <1>5
    <3>1. j - skip \in 1 .. Len(left) /\ (j - skip) + skip = j
        BY <2>1
    <3>2. j - skip \in DOMAIN after
        BY <2>3, <3>1, <2>1
    <3> QED  BY <2>3, <3>1, <3>2
  <2>7. Len(left) + 1 \in DOMAIN after /\ Len(after) <= Cap
      BY <1>2, <2>1, <2>3
  <2> QED  BY <1>1, <2>3, <2>4, <2>5, <2>6, <2>7 DEF entry
<1>6. \/ id \in KeysOf(entries) /\ after = replaced
      \/ id \in KeysOf(entries) /\ after = Append(rest, entry)
      \/ id \notin KeysOf(entries) /\ after = Append(left, entry)
    BY DEF Insert, entry
<1> QED  BY <1>3, <1>4, <1>5, <1>6

(* A held message has a record.                                            *)
LEMMA RecordOfType ==
    ASSUME NEW entries \in Seq(Entries), NEW id \in KeysOf(entries)
    PROVE  RecordOf(entries, id) \in Records
<1>1. PICK i \in DOMAIN entries : entries[i].id = id
    BY DEF KeysOf
<1>2. Place(entries, id) \in DOMAIN entries
    BY <1>1 DEF Place
<1>3. entries[Place(entries, id)] \in Entries
    BY <1>2
<1> QED  BY <1>3 DEF RecordOf, Entries

(* The entries of validator v in namespace ns are within the capacity, one *)
(* per message, each keyed by its message and signed by v.                 *)
SoundEntries(v, ns, entries) ==
    /\ Len(entries) <= Cap
    /\ \A i, j \in DOMAIN entries : entries[i].id = entries[j].id => i = j
    /\ \A i \in DOMAIN entries :
          LET r == entries[i].record
          IN  /\ entries[i].id = MsgId(ns, r.message)
              /\ Verify(r.signature, v, RecordDigest(ns, r.timestamp, r.message))

(* Validator::write keeps them so: it files what it stamps under the       *)
(* digest of the message.                                                  *)
LEMMA WriteOneSound ==
    ASSUME NEW v \in Validators, NEW ns \in Namespaces, NEW m \in Messages,
           NEW ts \in Nat, NEW entries \in Seq(Entries), SoundEntries(v, ns, entries),
           NEW after \in WriteOne(entries, Cap, ns, Stamped(v, ns, ts, m))
    PROVE  SoundEntries(v, ns, after)
<1> DEFINE record == Stamped(v, ns, ts, m)
           id == MsgId(ns, m)
           entry == [id |-> id, record |-> record]
<1>1. record \in Records /\ id \in MsgIds
    BY SignedRecordType, MsgIdType
<1>2. after \in Insert(entries, Cap, id, record)
    BY DEF WriteOne, Stamped
<1>3. UniqueKeys(entries) /\ Len(entries) <= Cap
    BY DEF SoundEntries, UniqueKeys
<1>4. /\ entry.id = MsgId(ns, entry.record.message)
      /\ Verify(entry.record.signature, v,
                RecordDigest(ns, entry.record.timestamp, entry.record.message))
    BY DEF Stamped, Verify
<1> HIDE DEF record, id
<1>5. /\ UniqueKeys(after)
      /\ Len(after) <= Cap
      /\ \A i \in DOMAIN after :
            after[i] = entry \/ \E j \in DOMAIN entries : after[i] = entries[j]
    BY <1>1, <1>2, <1>3, InsertEntries
<1> HIDE DEF entry
<1>6. \A i \in DOMAIN after :
         LET r == after[i].record
         IN  /\ after[i].id = MsgId(ns, r.message)
             /\ Verify(r.signature, v, RecordDigest(ns, r.timestamp, r.message))
    BY <1>4, <1>5 DEF SoundEntries
<1> QED  BY <1>5, <1>6 DEF SoundEntries, UniqueKeys

(* A fresh namespace has sound entries.                                    *)
LEMMA EmptySound ==
    ASSUME NEW v, NEW ns
    PROVE  SoundEntries(v, ns, <<>>)
BY CapAssumption DEF SoundEntries

(* The record stored under a digest is of the message with that digest.    *)
LEMMA RecordOfSound ==
    ASSUME NEW v, NEW ns, NEW entries \in Seq(Entries), SoundEntries(v, ns, entries),
           NEW id \in KeysOf(entries)
    PROVE  LET r == RecordOf(entries, id)
           IN  /\ \E i \in DOMAIN entries : r = entries[i].record
               /\ MsgId(ns, r.message) = id
               /\ Verify(r.signature, v, RecordDigest(ns, r.timestamp, r.message))
BY PlaceOf DEF RecordOf, SoundEntries

(* Within a namespace a digest is of one message.                          *)
LEMMA MsgIdInjective ==
    ASSUME NEW ns \in Seq(Nat), NEW m \in Seq(Nat), NEW k \in Seq(Nat),
           MsgId(ns, m) = MsgId(ns, k)
    PROVE  m = k
BY ConcatSimplifications DEF MsgId

(* A namespace with room for all messages is full only when it holds them  *)
(* all.                                                                    *)
LEMMA RoomForMessages ==
    ASSUME IsFiniteSet(Messages), Cardinality(Messages) <= Cap,
           NEW v, NEW ns \in Namespaces, NEW m \in Messages,
           NEW entries \in Seq(Entries), SoundEntries(v, ns, entries),
           MsgId(ns, m) \notin KeysOf(entries)
    PROVE  Len(entries) < Cap
<1> DEFINE S == 1 .. Len(entries)
           T == Messages \ {m}
           f == [i \in S |-> entries[i].record.message]
<1>1. Len(entries) \in Nat /\ Cap \in Nat /\ Cardinality(Messages) \in Nat
    BY CapAssumption, FS_CardinalityType
<1>2. SUFFICES ASSUME Len(entries) >= Cap PROVE FALSE
    BY <1>1
<1>3. IsFiniteSet(S) /\ Cardinality(S) = Len(entries)
  <2>1. ASSUME NEW n \in Nat
        PROVE  IsFiniteSet(1 .. n) /\ Cardinality(1 .. n) = n
    <3>1. /\ IsFiniteSet(1 .. n)
          /\ Cardinality(1 .. n) = IF 1 > n THEN 0 ELSE n - 1 + 1
        BY FS_Interval
    <3> QED  BY <3>1
  <2> QED  BY <1>1, <2>1
<1>4. IsFiniteSet(T) /\ Cardinality(T) = Cardinality(Messages) - 1
    BY FS_RemoveElement
<1>5. \A i \in S : entries[i] \in Entries /\ entries[i].id = MsgId(ns, f[i])
    BY DEF SoundEntries
<1>6. f \in [S -> T]
  <2> SUFFICES ASSUME NEW i \in S PROVE entries[i].record.message \in T
      OBVIOUS
  <2>1. entries[i].record.message \in Messages
      BY <1>5 DEF Entries, Records
  <2>2. entries[i].record.message # m
      BY <1>5 DEF KeysOf
  <2> QED  BY <2>1, <2>2
<1>7. \A x, y \in S : f[x] = f[y] => x = y
    BY <1>5 DEF SoundEntries
<1> HIDE DEF S, T, f
<1> QED  BY <1>1, <1>2, <1>3, <1>4, <1>6, <1>7, FS_PigeonHole

(* There Validator::write only ever adds a key.                            *)
LEMMA WriteOneKeys ==
    ASSUME IsFiniteSet(Messages), Cardinality(Messages) <= Cap,
           NEW v \in Validators, NEW ns \in Namespaces, NEW m \in Messages,
           NEW ts \in Nat, NEW entries \in Seq(Entries), SoundEntries(v, ns, entries),
           NEW after \in WriteOne(entries, Cap, ns, Stamped(v, ns, ts, m))
    PROVE  KeysOf(after) = KeysOf(entries) \cup {MsgId(ns, m)}
<1> DEFINE record == Stamped(v, ns, ts, m)
           id == MsgId(ns, m)
           entry == [id |-> id, record |-> record]
<1>1. record \in Records /\ id \in MsgIds
    BY SignedRecordType, MsgIdType
<1>2. after \in Insert(entries, Cap, id, record)
    BY DEF WriteOne, Stamped
<1>3. UniqueKeys(entries) /\ Len(entries) <= Cap
    BY DEF SoundEntries, UniqueKeys
<1>4. id \in KeysOf(entries) \/ Len(entries) # Cap
    BY RoomForMessages, CapAssumption
<1>5. entry.id = id
    OBVIOUS
<1> HIDE DEF record, id
<1>6. /\ \E i \in DOMAIN after : after[i] = entry
      /\ \A i \in DOMAIN after :
            after[i] = entry \/ \E j \in DOMAIN entries : after[i] = entries[j]
      /\ \A j \in DOMAIN entries :
            entries[j].id = id \/ \E i \in DOMAIN after : after[i] = entries[j]
    BY <1>1, <1>2, <1>3, <1>4, InsertEntries
<1> HIDE DEF entry
<1>7. id \in KeysOf(after)
    BY <1>5, <1>6 DEF KeysOf
<1>8. KeysOf(after) \subseteq KeysOf(entries) \cup {id}
    BY <1>5, <1>6 DEF KeysOf
<1>9. KeysOf(entries) \subseteq KeysOf(after)
    BY <1>5, <1>6, <1>7 DEF KeysOf
<1> QED  BY <1>7, <1>8, <1>9 DEF id

(* Validator::read_message answers with a record or an absence, and with   *)
(* an absence only if it does not hold the message.                        *)
LEMMA MessageRepliesType ==
    ASSUME NEW v \in Validators, NEW entries \in Seq(Entries), NEW id \in MsgIds,
           NEW t, NEW reply \in MessageReplies(v, entries, id, t)
    PROVE  /\ reply \in Replies
           /\ reply.type = "unavailable" => id \notin KeysOf(entries)
<1>1. CASE id \in KeysOf(entries)
  <2>1. reply = RecordReply(RecordOf(entries, id))
      BY <1>1 DEF MessageReplies
  <2>2. RecordReply(RecordOf(entries, id)) \in Replies
      BY <1>1, RecordOfType, RecordReplyType
  <2>3. RecordReply(RecordOf(entries, id)).type = "record"
      BY DEF RecordReply
  <2> QED  BY <2>1, <2>2, <2>3
<1>2. CASE id \notin KeysOf(entries)
  <2>1. PICK ts \in ClockAt(t) : reply = UnavailableReply(StampedAbsence(v, id, ts))
      BY <1>2, Zenon DEF MessageReplies
  <2>2. ts \in Nat
      BY ClockAssumption DEF ClockAt, Times
  <2>3. StampedAbsence(v, id, ts) \in Unavailables
      BY <2>2, SignedAbsenceType
  <2> QED  BY <1>2, <2>1, <2>3, UnavailableReplyType
<1> QED  BY <1>1, <1>2

-----------------------------------------------------------------------------
(* The client's loop.                                                      *)

(* One more vote leaves a tally a tally.                                   *)
LEMMA AddVoteType ==
    ASSUME NEW tally \in Tallies, NEW v \in Validators, NEW ts \in Nat,
           NEW sig \in Signatures
    PROVE  AddVote(tally, v, ts, sig) \in Tallies
BY DEF AddVote, Tallies

(* The tally a call starts with is one.                                    *)
LEMMA EmptyTallyType == EmptyTally \in Tallies
BY DEF EmptyTally, Tallies

(* Only answers with a record, or with an absence, are counted.            *)
LEMMA CountedType ==
    ASSUME NEW reply \in Replies, NEW c, NEW v
    PROVE  /\ reply.type = "record" => reply.record \in Records
           /\ CountsAvailable(c, v, reply) =>
                 /\ reply.record.timestamp \in Nat
                 /\ reply.record.signature \in Signatures
           /\ CountsUnavailable(c, v, reply) =>
                 /\ reply.unavailable.timestamp \in Nat
                 /\ reply.unavailable.signature \in Signatures
<1>1. reply.type = "record" => reply.record \in Records
    BY DEF Replies, NoReply, Garbage
<1>2. reply.type = "unavailable" => reply.unavailable \in Unavailables
    BY DEF Replies, NoReply, Garbage
<1> QED  BY <1>1, <1>2 DEF CountsAvailable, CountsUnavailable, Records, Unavailables

(* A call returns a result.                                                *)
LEMMA ConcludedType ==
    ASSUME NEW c \in Calls, NEW a \in Tallies, NEW u \in Tallies,
           NEW msg \in Messages \cup {NoMessage}
    PROVE  Concluded(c, a, u, msg) \in Results
<1>1. /\ Sorted(N, a.timestamps) \in [Validators -> Nat]
      /\ Sorted(N, u.timestamps) \in [Validators -> Nat]
    BY NAssumption, SortedType DEF Tallies, Validators
<1>2. a.sigs \in SUBSET Signatures /\ u.sigs \in SUBSET Signatures
    BY DEF Tallies
<1>3. c.type = "read" => c.id \in MsgIds
    BY DEF Calls
<1> QED  BY <1>1, <1>2, <1>3 DEF Concluded, Results

(* The tally a call starts with counts its signatures.                     *)
LEMMA EmptyTallyCounted ==
    /\ Voters(EmptyTally) = {}
    /\ EmptyTally.votes = Cardinality(Voters(EmptyTally))
<1>1. Voters(EmptyTally) = {}
    BY DEF Voters, EmptyTally
<1> QED  BY <1>1, FS_EmptySet DEF EmptyTally

(* The voters of a tally are finitely many validators.                     *)
LEMMA VotersType ==
    ASSUME NEW tally \in Tallies
    PROVE  /\ Voters(tally) \in SUBSET Validators
           /\ IsFiniteSet(Voters(tally))
           /\ Cardinality(Voters(tally)) \in 0 .. N
<1>1. Voters(tally) \in SUBSET Validators
    BY DEF Voters, Tallies, Signatures
<1> QED  BY <1>1, NAssumption, IndexSubset DEF Validators

(* A vote signed by a validator that has not voted yet adds one voter.     *)
LEMMA AddVoteCounts ==
    ASSUME NEW tally \in Tallies, tally.votes = Cardinality(Voters(tally)),
           NEW v \in Validators, v \notin Voters(tally),
           NEW ts \in Nat, NEW sig \in Signatures, sig.key = v
    PROVE  LET after == AddVote(tally, v, ts, sig)
           IN  /\ Voters(after) = Voters(tally) \cup {v}
               /\ after.votes = Cardinality(Voters(after))
<1> DEFINE after == AddVote(tally, v, ts, sig)
<1>1. after.sigs = tally.sigs \cup {sig} /\ after.votes = tally.votes + 1
    BY DEF AddVote
<1>2. Voters(after) = Voters(tally) \cup {v}
    BY <1>1 DEF Voters
<1>3. Cardinality(Voters(tally) \cup {v}) = Cardinality(Voters(tally)) + 1
    BY VotersType, FS_AddElement
<1> QED  BY <1>1, <1>2, <1>3

(* An absence is certified only with a quorum of absences, and not without *)
(* validators.                                                             *)
LEMMA ConcludedUnavailable ==
    ASSUME NEW c, NEW a \in Tallies, a.votes = Cardinality(Voters(a)),
           NEW u, NEW msg, Concluded(c, a, u, msg).type = "unavailable"
    PROVE  N # 0 /\ HasReachedQuorum(N, u.votes)
<1>1. ~HasReachedQuorum(N, a.votes) /\ HasReachedQuorum(N, u.votes)
    BY DEF Concluded, Panic, NoQuorum
<1>2. N = 0 => a.votes = 0
    BY VotersType
<1> QED  BY <1>1, <1>2 DEF HasReachedQuorum

(* A counted answer is signed by the validator that gave it.               *)
LEMMA CountedKey ==
    ASSUME NEW c, NEW v, NEW reply
    PROVE  /\ CountsAvailable(c, v, reply) => reply.record.signature.key = v
           /\ CountsUnavailable(c, v, reply) =>
                 reply.unavailable.signature.key = v /\ reply.type = "unavailable"
BY DEF CountsAvailable, CountsUnavailable, Verify, Sign

(* The places of validators that did not vote are zero.                    *)
ZeroElsewhere(tally) ==
    \A v \in Validators \ Voters(tally) : tally.timestamps[v] = 0

(* A matching record has the digest the call is about, and at most one     *)
(* message has it.                                                         *)
LEMMA MatchesCallId ==
    ASSUME NEW c \in Calls, NEW r \in Records, Matches(c, r)
    PROVE  /\ MsgId(c.ns, r.message) = CallId(c)
           /\ \A msg \in Messages \cup {NoMessage} :
                 MsgId(c.ns, msg) = CallId(c) => msg = r.message
<1>1. MsgId(c.ns, r.message) = CallId(c)
    BY DEF Matches, CallId
<1>2. c.ns \in Seq(Nat) /\ r.message \in Seq(Nat)
    BY CallIdType, BytesAssumption DEF Records
<1>3. ASSUME NEW msg \in Messages \cup {NoMessage}, MsgId(c.ns, msg) = CallId(c)
      PROVE  msg = r.message
  <2>1. NoMessage \in Seq(Nat)
      BY DEF NoMessage
  <2>2. msg \in Seq(Nat)
      BY <2>1, BytesAssumption
  <2> QED  BY <1>1, <1>2, <1>3, <2>2, MsgIdInjective
<1> QED  BY <1>1, <1>3

(* The timestamps and signatures after one more vote.                      *)
LEMMA AddVoteEntries ==
    ASSUME NEW tally \in Tallies, NEW v \in Validators, v \notin Voters(tally),
           NEW ts \in Nat, NEW sig \in Signatures, sig.key = v
    PROVE  LET after == AddVote(tally, v, ts, sig)
           IN  /\ after.sigs = tally.sigs \cup {sig}
               /\ after.timestamps[v] = ts
               /\ \A w \in Validators \ {v} : after.timestamps[w] = tally.timestamps[w]
               /\ \A s \in tally.sigs : s.key \in Validators \ {v}
               /\ v \in Voters(after)
               /\ ZeroElsewhere(tally) => ZeroElsewhere(after)
<1> DEFINE after == AddVote(tally, v, ts, sig)
<1>1. after.sigs = tally.sigs \cup {sig}
    BY DEF AddVote
<1>2. after.timestamps = [tally.timestamps EXCEPT ![v] = ts]
    BY DEF AddVote
<1>3. tally.timestamps \in [Validators -> Nat]
    BY DEF Tallies
<1> HIDE DEF after
<1>4. /\ after.timestamps[v] = ts
      /\ \A w \in Validators \ {v} : after.timestamps[w] = tally.timestamps[w]
    BY <1>2, <1>3
<1>5. \A s \in tally.sigs : s.key \in Validators \ {v}
    BY DEF Voters, Tallies, Signatures
<1>6. Voters(after) = Voters(tally) \cup {v}
    BY <1>1 DEF Voters
<1>7. ZeroElsewhere(tally) => ZeroElsewhere(after)
    BY <1>4, <1>6 DEF ZeroElsewhere
<1> QED  BY <1>1, <1>4, <1>5, <1>6, <1>7 DEF after
=============================================================================
