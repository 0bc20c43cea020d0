------------------------- MODULE Subscription_proofs -------------------------
(***************************************************************************)
(* What a subscription delivers is sound, and what it loses is lost at a   *)
(* limit, for any number of validators and writes and any capacities.      *)
(***************************************************************************)
EXTENDS Subscription, Protocol_proofs

-----------------------------------------------------------------------------
(* The inductive invariant.                                                *)
Certs == [timestamps : Seq(Nat), sigs : Seq(Signatures), message : Messages]
MapEntries == [id : MsgIds, record : Seq(Records)]

Typed ==
    /\ TypeOK
    /\ queue \in [Validators -> Seq(Namespaces \X Records)]
    /\ emit \in Certs \cup {Nothing}
    /\ sent \in Seq(Certs)

(* A validator that has handled the subscribe request, and has not         *)
(* restarted since, has the namespace; the client takes ports from such    *)
(* validators, and connects to no stale one.                               *)
Asked ==
    /\ phase = "idle" => reqs = {} /\ ports = {} /\ connected = {}
    /\ phase # "idle" =>
          \A v \in Validators : v \notin reqs /\ v \notin stale => Subscribed \in active[v]
    /\ ports \cap reqs = {}
    /\ connected \cap (reqs \cup stale) = {}

(* A record signed under a namespace with the topic of the subscription.   *)
OnTopic(r) ==
    \E ns \in Namespaces :
        /\ Topic(ns) = Topic(Subscribed)
        /\ r.signature = Sign(r.signature.key, RecordDigest(ns, r.timestamp, r.message))

(* records_by_id has the records of a message under its digest.            *)
MapSound(b) ==
    /\ b \in Seq(MapEntries) /\ Len(b) <= MapCap
    /\ UniqueKeys(b)
    /\ \A e \in DOMAIN b : \A k \in DOMAIN b[e].record :
          /\ OnTopic(b[e].record[k])
          /\ MsgId(Subscribed, b[e].record[k].message) = b[e].id

Genuine ==
    /\ \A v \in Validators : \A k \in DOMAIN queue[v] :
          queue[v][k][2].signature =
             Sign(v, RecordDigest(queue[v][k][1], queue[v][k][2].timestamp,
                                  queue[v][k][2].message))
    /\ \A v \in Validators : \A k \in DOMAIN wire[v] :
          wire[v][k].signature.key = v /\ OnTopic(wire[v][k])
    /\ \A k \in DOMAIN channel : OnTopic(channel[k])
    /\ MapSound(byId)

(* Where the elements of P are in a sequence.                              *)
Hits(q, P) == {k \in DOMAIN q : q[k] \in P}
AtMostOne(S) == \A a, b \in S : a = b

(* The records of a message that the map has.                              *)
KeptIn(b, id) == IF id \in KeysOf(b) THEN RecordOf(b, id) ELSE <<>>
Kept(m) == KeptIn(byId, MsgId(Subscribed, m))

(* Where a record of m by v is on its way.                                 *)
QueuedOf(m) == {q \in Namespaces \X Records :
                   Topic(q[1]) = Topic(Subscribed) /\ q[2].message = m}
RecordsOf(v, m) == {r \in Records : r.signature.key = v /\ r.message = m}
InQueue(v, m) == Hits(queue[v], QueuedOf(m))
OnWire(v, m) == Hits(wire[v], RecordsOf(v, m))
InChannel(v, m) == Hits(channel, RecordsOf(v, m))
InMap(v, m) == Hits(Kept(m), RecordsOf(v, m))

Nowhere(q, w, c, b) == q = {} /\ w = {} /\ c = {} /\ b = {}
AtOnePlace(q, w, c, b) ==
    /\ AtMostOne(q) /\ AtMostOne(w) /\ AtMostOne(c) /\ AtMostOne(b)
    /\ q # {} => w = {} /\ c = {} /\ b = {}
    /\ w # {} => c = {} /\ b = {}
    /\ c # {} => b = {}

(* A message that its validator never queued is nowhere on its way; one    *)
(* that it queued once is at one place.                                    *)
Once ==
    \A v \in Validators, m \in Messages :
        LET stamp == <<v, Topic(Subscribed), m>>
        IN  /\ stamp \notin stamped =>
                  Nowhere(InQueue(v, m), OnWire(v, m), InChannel(v, m), InMap(v, m))
            /\ stamp \notin repeated =>
                  AtOnePlace(InQueue(v, m), OnWire(v, m), InChannel(v, m), InMap(v, m))

(* What StreamSound says of one certified record, if rp are the stamps     *)
(* that validators repeated.                                               *)
CertSoundIn(c, rp) ==
    /\ HasReachedQuorum(N, Len(c.sigs))
    /\ \A k \in DOMAIN c.sigs :
          /\ \E ns \in Namespaces :
                /\ Topic(ns) = Topic(Subscribed)
                /\ c.sigs[k] = Sign(c.sigs[k].key,
                                   RecordDigest(ns, c.timestamps[k], c.message))
          /\ \A j \in DOMAIN c.sigs :
                c.sigs[j].key = c.sigs[k].key /\ j # k
                  => <<c.sigs[k].key, Topic(Subscribed), c.message>> \in rp
CertSound(c) == CertSoundIn(c, repeated)

(* The signatures are those of the first records.                          *)
SignsFirst(sigs, records) ==
    /\ Len(sigs) <= Len(records)
    /\ \A k \in 1 .. Len(sigs) : sigs[k] = records[k].signature

(* The map still has, and in the same order, the records of what was sent, *)
(* and of what is being sent it has exactly the records.                   *)
Growing ==
    certifying =>
        /\ emit # Nothing =>
              /\ Len(emit.sigs) = Len(Kept(emit.message))
              /\ SignsFirst(emit.sigs, Kept(emit.message))
        /\ \A i \in DOMAIN sent :
              MsgId(Subscribed, sent[i].message) \notin evicted =>
                 /\ SignsFirst(sent[i].sigs, Kept(sent[i].message))
                 /\ emit # Nothing /\ emit.message = sent[i].message =>
                       Len(sent[i].sigs) < Len(emit.sigs)

Streamed ==
    /\ emit # Nothing => certifying /\ CertSound(emit)
    /\ \A i \in DOMAIN sent : CertSound(sent[i])
    /\ Growing
    /\ RepeatsGrow

SubscriptionInv == Typed /\ Asked /\ Genuine /\ Once /\ Streamed

-----------------------------------------------------------------------------
(* Queues: what appending, taking the first and cutting do to the places   *)
(* of a set of elements.                                                   *)
LEMMA AppendHits ==
    ASSUME NEW S, NEW q \in Seq(S), NEW x \in S, NEW P
    PROVE  /\ x \notin P => Hits(Append(q, x), P) = Hits(q, P)
           /\ x \in P /\ Hits(q, P) = {} => AtMostOne(Hits(Append(q, x), P))
           /\ x \in P => Hits(Append(q, x), P) # {}
           /\ Hits(q, P) \subseteq Hits(Append(q, x), P)
<1>1. PICK r : r = Append(q, x)
    OBVIOUS
<1>2. /\ r \in Seq(S) /\ Len(r) = Len(q) + 1 /\ r[Len(q) + 1] = x
      /\ \A i \in 1 .. Len(q) : r[i] = q[i]
    BY <1>1, AppendProperties
<1>3. DOMAIN q = 1 .. Len(q) /\ Len(q) \in Nat /\ DOMAIN r = 1 .. Len(q) + 1
    BY <1>2, LenProperties
<1>4. \A i \in DOMAIN r : i \in DOMAIN q \/ i = Len(q) + 1
    BY <1>3
<1>5. \A i \in DOMAIN q : i \in DOMAIN r /\ r[i] = q[i]
    BY <1>2, <1>3
<1>6. Len(q) + 1 \in DOMAIN r /\ Len(q) + 1 \notin DOMAIN q
    BY <1>3
<1>7. x \notin P => Hits(r, P) = Hits(q, P)
    BY <1>2, <1>4, <1>5 DEF Hits
<1>8. x \in P /\ Hits(q, P) = {} => AtMostOne(Hits(r, P))
    BY <1>4, <1>5 DEF Hits, AtMostOne
<1>9. x \in P => Hits(r, P) # {}
    BY <1>2, <1>6 DEF Hits
<1>10. Hits(q, P) \subseteq Hits(r, P)
    BY <1>5 DEF Hits
<1> QED  BY <1>1, <1>7, <1>8, <1>9, <1>10

(* Taking the first.                                                       *)
LEMMA TailHits ==
    ASSUME NEW S, NEW q \in Seq(S), q # <<>>, NEW P
    PROVE  /\ Hits(q, P) = {} => Hits(Tail(q), P) = {} /\ Head(q) \notin P
           /\ AtMostOne(Hits(q, P)) =>
                 /\ AtMostOne(Hits(Tail(q), P))
                 /\ Head(q) \in P => Hits(Tail(q), P) = {}
           /\ Hits(q, P) # {} => Head(q) \in P \/ Hits(Tail(q), P) # {}
<1>1. PICK r : r = Tail(q)
    OBVIOUS
<1>2. /\ r \in Seq(S) /\ Len(r) = Len(q) - 1 /\ Len(q) \in Nat \ {0}
      /\ \A i \in 1 .. Len(r) : r[i] = q[i + 1]
      /\ Head(q) = q[1]
    BY <1>1, HeadTailProperties, LenProperties
<1>3. DOMAIN q = 1 .. Len(q) /\ DOMAIN r = 1 .. Len(q) - 1
    BY <1>2, LenProperties
<1>4. \A i \in DOMAIN r : i \in Nat /\ i + 1 \in DOMAIN q /\ i + 1 # 1 /\ r[i] = q[i + 1]
    BY <1>2, <1>3
<1>5. 1 \in DOMAIN q
    BY <1>2, <1>3
<1>6. \A i \in DOMAIN q : i = 1 \/ (i - 1 \in DOMAIN r /\ r[i - 1] = q[i])
    BY <1>2, <1>3
<1>7. Hits(q, P) = {} => Hits(r, P) = {} /\ Head(q) \notin P
    BY <1>2, <1>4, <1>5 DEF Hits
<1>8. AtMostOne(Hits(q, P)) => AtMostOne(Hits(r, P))
    BY <1>4 DEF Hits, AtMostOne
<1>9. AtMostOne(Hits(q, P)) /\ Head(q) \in P => Hits(r, P) = {}
    BY <1>2, <1>4, <1>5 DEF Hits, AtMostOne
<1>10. Hits(q, P) # {} => Head(q) \in P \/ Hits(r, P) # {}
    BY <1>2, <1>6 DEF Hits
<1> QED  BY <1>1, <1>7, <1>8, <1>9, <1>10

(* Losing the end.                                                         *)
LEMMA CutHits ==
    ASSUME NEW S, NEW q \in Seq(S), NEW n \in 0 .. Len(q)
    PROVE  /\ SubSeq(q, 1, n) \in Seq(S)
           /\ \A i \in DOMAIN SubSeq(q, 1, n) : i \in DOMAIN q /\ SubSeq(q, 1, n)[i] = q[i]
           /\ \A P : Hits(SubSeq(q, 1, n), P) \subseteq Hits(q, P)
<1>1. PICK r : r = SubSeq(q, 1, n)
    OBVIOUS
<1>2. DOMAIN q = 1 .. Len(q) /\ Len(q) \in Nat /\ n \in Nat
    BY LenProperties
<1>3. \A i \in 1 .. n : q[i] \in S
    BY <1>2, ElementOfSeq
<1>4. /\ r \in Seq(S)
      /\ Len(r) = IF 1 <= n THEN n - 1 + 1 ELSE 0
      /\ \A i \in 1 .. n - 1 + 1 : r[i] = q[1 + i - 1]
    BY <1>1, <1>2, <1>3, SubSeqProperties
<1>5. Len(r) = n
    BY <1>2, <1>4
<1>6. DOMAIN r = 1 .. n
    BY <1>4, <1>5, LenProperties
<1>7. \A i \in DOMAIN r : i \in DOMAIN q /\ r[i] = q[i]
    BY <1>2, <1>4, <1>6
<1>8. \A P : Hits(r, P) \subseteq Hits(q, P)
    BY <1>7 DEF Hits
<1> QED  BY <1>1, <1>4, <1>7, <1>8

(* Places of records that are lost: none where there was none, and at most *)
(* one where there was at most one.                                        *)
Shrinks(a, a1) ==
    /\ a = {} => a1 = {}
    /\ AtMostOne(a) => AtMostOne(a1)

(* A subset shrinks.                                                       *)
LEMMA SubsetShrinks ==
    ASSUME NEW a, NEW a1, a1 \subseteq a
    PROVE  Shrinks(a, a1)
BY DEF Shrinks, AtMostOne

(* The rest of a sequence shrinks.                                         *)
LEMMA TailShrinks ==
    ASSUME NEW S, NEW q \in Seq(S), q # <<>>, NEW P
    PROVE  Shrinks(Hits(q, P), Hits(Tail(q), P))
BY TailHits DEF Shrinks

(* What Once says of one stamp and the places of its records.              *)
OnceAt(stamp, st, rp, q, w, c, b) ==
    /\ stamp \notin st => Nowhere(q, w, c, b)
    /\ stamp \notin rp => AtOnePlace(q, w, c, b)

(* Losing records keeps the others at one place.                           *)
LEMMA FewerPlaces ==
    ASSUME NEW s, NEW st, NEW rp, NEW q, NEW w, NEW c, NEW b,
           NEW q1, NEW w1, NEW c1, NEW b1,
           OnceAt(s, st, rp, q, w, c, b),
           Shrinks(q, q1), Shrinks(w, w1), Shrinks(c, c1), Shrinks(b, b1)
    PROVE  OnceAt(s, st, rp, q1, w1, c1, b1)
<1>1. Nowhere(q, w, c, b) => Nowhere(q1, w1, c1, b1)
    BY DEF Nowhere, Shrinks
<1>2. AtOnePlace(q, w, c, b) => AtOnePlace(q1, w1, c1, b1)
    BY DEF AtOnePlace, Shrinks
<1> QED  BY <1>1, <1>2 DEF OnceAt

-----------------------------------------------------------------------------
(* records_by_id                                                           *)

(* An empty sequence and its places.                                       *)
LEMMA NoHits ==
    ASSUME NEW P
    PROVE  Hits(<<>>, P) = {}
BY DEF Hits

(* Where the entry of a message is.                                        *)
LEMMA MapPlace ==
    ASSUME NEW b \in Seq(MapEntries), NEW id \in KeysOf(b)
    PROVE  /\ Place(b, id) \in DOMAIN b
           /\ b[Place(b, id)] \in MapEntries
           /\ b[Place(b, id)].id = id
           /\ RecordOf(b, id) = b[Place(b, id)].record
<1>1. \E i \in DOMAIN b : b[i].id = id
    BY DEF KeysOf
<1>2. Place(b, id) \in DOMAIN b /\ b[Place(b, id)].id = id
    BY <1>1 DEF Place
<1> QED  BY <1>2, ElementOfSeq, LenProperties DEF RecordOf

(* The records that are kept of a message are those of its one entry.      *)
LEMMA KeptEntry ==
    ASSUME NEW b, MapSound(b), NEW e \in DOMAIN b
    PROVE  /\ b[e].id \in KeysOf(b)
           /\ KeptIn(b, b[e].id) = b[e].record
<1>1. b \in Seq(MapEntries) /\ UniqueKeys(b)
    BY DEF MapSound
<1>2. b[e].id \in KeysOf(b)
    BY DEF KeysOf
<1>3. Place(b, b[e].id) = e
    BY <1>1, <1>2, MapPlace DEF UniqueKeys
<1> QED  BY <1>2, <1>3 DEF KeptIn, RecordOf

(* The type of what is kept.                                               *)
LEMMA KeptType ==
    ASSUME NEW b, MapSound(b), NEW id
    PROVE  /\ KeptIn(b, id) \in Seq(Records)
           /\ \A k \in DOMAIN KeptIn(b, id) :
                 /\ OnTopic(KeptIn(b, id)[k])
                 /\ MsgId(Subscribed, KeptIn(b, id)[k].message) = id
<1>1. CASE id \in KeysOf(b)
  <2>1. b \in Seq(MapEntries)
      BY DEF MapSound
  <2>2. PICK e \in DOMAIN b : /\ b[e] \in MapEntries /\ b[e].id = id
                              /\ KeptIn(b, id) = b[e].record
      BY <1>1, <2>1, MapPlace DEF KeptIn
  <2> QED  BY <2>2 DEF MapSound, MapEntries
<1>2. CASE id \notin KeysOf(b)
    BY <1>2 DEF KeptIn
<1> QED  BY <1>1, <1>2

(* The map after a record of the message with this id has arrived.         *)
MapAfter(b, id, records) ==
    IF id \in KeysOf(b)
    THEN [b EXCEPT ![Place(b, id)].record = records]
    ELSE Append(EvictFor(b, MapCap), [id |-> id, record |-> records])

(* Its entries: the one of the message, and others that were there.        *)
LEMMA MapAfterEntries ==
    ASSUME NEW b, MapSound(b), NEW id \in MsgIds, NEW records \in Seq(Records),
           NEW entry, entry = [id |-> id, record |-> records],
           NEW c, c = MapAfter(b, id, records)
    PROVE  /\ c \in Seq(MapEntries) /\ Len(c) <= MapCap /\ UniqueKeys(c)
           /\ \E e \in DOMAIN c : c[e] = entry
           /\ \A e \in DOMAIN c :
                 \/ c[e] = entry
                 \/ c[e].id # id /\ \E f \in DOMAIN b : c[e] = b[f]
<1>1. b \in Seq(MapEntries) /\ Len(b) <= MapCap /\ UniqueKeys(b) /\ entry \in MapEntries
    BY DEF MapSound, MapEntries
<1>2. DOMAIN b = 1 .. Len(b) /\ Len(b) \in Nat
    BY <1>1, LenProperties
<1>3. MapCap \in Nat \ {0}
    BY CapacityAssumption
<1>4. CASE id \in KeysOf(b)
  <2>1. PICK p \in DOMAIN b : p = Place(b, id) /\ b[p].id = id /\ b[p] \in MapEntries
      BY <1>1, <1>4, MapPlace
  <2>2. c = [b EXCEPT ![p].record = records]
      BY <1>4, <2>1 DEF MapAfter
  <2>3. c = [b EXCEPT ![p] = entry]
    <3>1. [b[p] EXCEPT !.record = records] = entry
        BY <2>1 DEF MapEntries
    <3> QED  BY <2>2, <3>1
  <2>4. /\ c \in Seq(MapEntries) /\ Len(c) = Len(b)
        /\ \A j \in 1 .. Len(b) : c[j] = IF j = p THEN entry ELSE b[j]
      BY <1>1, <1>2, <2>1, <2>3, ExceptSeq
  <2>5. DOMAIN c = DOMAIN b /\ \A j \in DOMAIN b : c[j] = IF j = p THEN entry ELSE b[j]
      BY <1>2, <2>4, LenProperties
  <2>6. \A j \in DOMAIN b : c[j].id = b[j].id
      BY <2>1, <2>5
  <2>7. UniqueKeys(c)
      BY <1>1, <2>5, <2>6 DEF UniqueKeys
  <2>8. \A e \in DOMAIN c : c[e] = entry \/ (c[e].id # id /\ c[e] = b[e])
      BY <1>1, <2>1, <2>5 DEF UniqueKeys
  <2> QED  BY <1>1, <2>1, <2>4, <2>5, <2>7, <2>8
<1>5. CASE id \notin KeysOf(b)
  <2>1. PICK r : r = EvictFor(b, MapCap)
      OBVIOUS
  <2>2. /\ r \in Seq(MapEntries) /\ Len(r) < MapCap
        /\ \E n \in {0, 1} : \A i \in DOMAIN r :
              i \in Int /\ i + n \in DOMAIN b /\ r[i] = b[i + n]
    <3>1. CASE Len(b) < MapCap
      <4>1. r = b
          BY <2>1, <3>1 DEF EvictFor
      <4>2. \A i \in DOMAIN r : i \in Int /\ i + 0 \in DOMAIN b /\ r[i] = b[i + 0]
          BY <1>2, <4>1
      <4> QED  BY <1>1, <3>1, <4>1, <4>2
    <3>2. CASE ~(Len(b) < MapCap)
      <4>1. r = Tail(b) /\ b # <<>>
          BY <1>1, <1>2, <1>3, <2>1, <3>2, EmptySeq DEF EvictFor
      <4>2. /\ r \in Seq(MapEntries) /\ Len(r) = Len(b) - 1
            /\ \A i \in 1 .. Len(r) : r[i] = b[i + 1]
          BY <1>1, <4>1, HeadTailProperties
      <4>3. DOMAIN r = 1 .. Len(b) - 1
          BY <4>2, LenProperties
      <4>4. \A i \in DOMAIN r : i \in Int /\ i + 1 \in DOMAIN b /\ r[i] = b[i + 1]
          BY <1>2, <4>2, <4>3
      <4>5. Len(r) < MapCap
          BY <1>1, <1>2, <1>3, <4>2
      <4> QED  BY <4>2, <4>4, <4>5
    <3> QED  BY <3>1, <3>2
  <2>3. PICK n \in {0, 1} : \A i \in DOMAIN r :
           i \in Int /\ i + n \in DOMAIN b /\ r[i] = b[i + n]
      BY <2>2
  <2>4. \A f \in DOMAIN b : b[f].id # id
      BY <1>5 DEF KeysOf
  <2>5. c = Append(r, entry)
      BY <1>5, <2>1 DEF MapAfter
  <2>6. /\ c \in Seq(MapEntries) /\ Len(c) = Len(r) + 1 /\ c[Len(r) + 1] = entry
        /\ \A i \in 1 .. Len(r) : c[i] = r[i]
      BY <1>1, <2>2, <2>5, AppendProperties
  <2>7. /\ DOMAIN r = 1 .. Len(r) /\ Len(r) \in Nat /\ DOMAIN c = 1 .. Len(r) + 1
      BY <2>2, <2>6, LenProperties
  <2>8. \A e \in DOMAIN c : (e \in DOMAIN r /\ c[e] = r[e]) \/ e = Len(r) + 1
      BY <2>6, <2>7
  <2>9. Len(c) <= MapCap
      BY <1>3, <2>2, <2>6, <2>7
  <2>10. UniqueKeys(c)
    <3> SUFFICES ASSUME NEW i \in DOMAIN c, NEW j \in DOMAIN c, c[i].id = c[j].id
                 PROVE  i = j
        BY DEF UniqueKeys
    <3>1. CASE i = Len(r) + 1
        BY <2>3, <2>4, <2>6, <2>8, <3>1
    <3>2. CASE j = Len(r) + 1
        BY <2>3, <2>4, <2>6, <2>8, <3>2
    <3>3. CASE i # Len(r) + 1 /\ j # Len(r) + 1
      <4>1. i \in DOMAIN r /\ j \in DOMAIN r /\ c[i] = r[i] /\ c[j] = r[j]
          BY <2>8, <3>3
      <4>2. /\ i \in Int /\ i + n \in DOMAIN b /\ r[i] = b[i + n]
            /\ j \in Int /\ j + n \in DOMAIN b /\ r[j] = b[j + n]
          BY <2>3, <4>1
      <4>3. i + n = j + n
          BY <1>1, <4>1, <4>2 DEF UniqueKeys
      <4> QED  BY <4>2, <4>3
    <3> QED  BY <3>1, <3>2, <3>3
  <2>11. \A e \in DOMAIN c :
            c[e] = entry \/ (c[e].id # id /\ \E f \in DOMAIN b : c[e] = b[f])
      BY <2>3, <2>4, <2>6, <2>8
  <2>12. Len(r) + 1 \in DOMAIN c
      BY <2>7
  <2> QED  BY <2>6, <2>9, <2>10, <2>11, <2>12
<1> QED  BY <1>4, <1>5

(* The message then has these records, and other messages keep theirs or   *)
(* are evicted.                                                            *)
LEMMA MapAfterKept ==
    ASSUME NEW b, MapSound(b), NEW id \in MsgIds, NEW records \in Seq(Records),
           \A k \in DOMAIN records :
              OnTopic(records[k]) /\ MsgId(Subscribed, records[k].message) = id,
           NEW c, c = MapAfter(b, id, records)
    PROVE  /\ MapSound(c)
           /\ KeptIn(c, id) = records
           /\ \A x : x # id =>
                 \/ KeptIn(c, x) = KeptIn(b, x)
                 \/ KeptIn(c, x) = <<>> /\ x \in KeysOf(b) \ KeysOf(c)
<1>1. PICK entry : entry = [id |-> id, record |-> records]
    OBVIOUS
<1>2. entry.id = id /\ entry.record = records
    BY <1>1
<1>3. /\ c \in Seq(MapEntries) /\ Len(c) <= MapCap /\ UniqueKeys(c)
      /\ \E e \in DOMAIN c : c[e] = entry
      /\ \A e \in DOMAIN c :
            \/ c[e] = entry
            \/ c[e].id # id /\ \E f \in DOMAIN b : c[e] = b[f]
    BY <1>1, MapAfterEntries
<1>4. MapSound(c)
  <2> SUFFICES ASSUME NEW e \in DOMAIN c, NEW k \in DOMAIN c[e].record
               PROVE  /\ OnTopic(c[e].record[k])
                      /\ MsgId(Subscribed, c[e].record[k].message) = c[e].id
      BY <1>3 DEF MapSound
  <2>1. CASE c[e] = entry
      BY <1>2, <2>1
  <2>2. CASE c[e] # entry
    <3>1. PICK f \in DOMAIN b : c[e] = b[f]
        BY <1>3, <2>2
    <3> QED  BY <3>1 DEF MapSound
  <2> QED  BY <2>1, <2>2
<1>5. KeptIn(c, id) = records
    BY <1>2, <1>3, <1>4, KeptEntry
<1>6. ASSUME NEW x, x # id
      PROVE  \/ KeptIn(c, x) = KeptIn(b, x)
             \/ KeptIn(c, x) = <<>> /\ x \in KeysOf(b) \ KeysOf(c)
  <2>1. CASE x \in KeysOf(c)
    <3>1. PICK e \in DOMAIN c : c[e].id = x
        BY <2>1 DEF KeysOf
    <3>2. PICK f \in DOMAIN b : c[e] = b[f]
        BY <1>2, <1>3, <1>6, <3>1
    <3>3. KeptIn(c, x) = c[e].record
        BY <1>4, <3>1, KeptEntry
    <3>4. KeptIn(b, x) = b[f].record
        BY <3>1, <3>2, KeptEntry
    <3> QED  BY <3>2, <3>3, <3>4
  <2>2. CASE x \notin KeysOf(c)
      BY <2>2 DEF KeptIn
  <2> QED  BY <2>1, <2>2
<1> QED  BY <1>4, <1>5, <1>6

(* What is evicted is the oldest entry of a full map, for a new message.   *)
LEMMA MapAfterEvicts ==
    ASSUME NEW b, MapSound(b), NEW id, NEW records, NEW c, c = MapAfter(b, id, records),
           NEW x \in KeysOf(b) \ KeysOf(c)
    PROVE  id \notin KeysOf(b) /\ Len(b) = MapCap /\ b[1].id = x
<1>1. /\ b \in Seq(MapEntries) /\ Len(b) <= MapCap /\ MapCap \in Nat /\ Len(b) \in Nat
      /\ DOMAIN b = 1 .. Len(b)
    BY CapacityAssumption, LenProperties DEF MapSound
<1>2. PICK e \in DOMAIN b : b[e].id = x
    BY DEF KeysOf
<1>3. CASE id \in KeysOf(b)
  <2>1. c = [b EXCEPT ![Place(b, id)].record = records]
      BY <1>3 DEF MapAfter
  <2>2. DOMAIN c = DOMAIN b /\ c[e].id = b[e].id
    <3>1. b[e] \in MapEntries
        BY <1>1, <1>2, ElementOfSeq
    <3> QED  BY <2>1, <3>1 DEF MapEntries
  <2> QED  BY <1>2, <2>2 DEF KeysOf
<1>4. CASE id \notin KeysOf(b)
  <2>1. PICK entry : entry = [id |-> id, record |-> records]
      OBVIOUS
  <2>2. c = Append(EvictFor(b, MapCap), entry)
      BY <1>4, <2>1 DEF MapAfter
  <2>3. \A r : c = Append(r, entry) /\ (\E S : r \in Seq(S))
               => \A i \in DOMAIN r : i \in DOMAIN c /\ c[i] = r[i]
      OBVIOUS
  <2>4. Len(b) = MapCap
    <3>1. ASSUME Len(b) < MapCap PROVE FALSE
      <4>1. c = Append(b, entry)
          BY <2>2, <3>1 DEF EvictFor
      <4>2. e \in DOMAIN c /\ c[e] = b[e]
          BY <1>1, <1>2, <2>3, <4>1
      <4> QED  BY <1>2, <4>2 DEF KeysOf
    <3>2. PICK n \in Nat : n = Len(b)
        BY <1>1
    <3>3. \A k \in Nat : n <= k /\ ~(n < k) => n = k
        OBVIOUS
    <3> QED  BY <1>1, <3>1, <3>2, <3>3
  <2>5. CASE e = 1
      BY <1>2, <1>4, <2>4, <2>5
  <2>6. CASE e # 1
    <3>1. PICK r : r = Tail(b)
        OBVIOUS
    <3>2. c = Append(r, entry)
        BY <1>1, <2>2, <2>4, <3>1 DEF EvictFor
    <3>3. b # <<>>
        BY <1>1, <1>2, EmptySeq
    <3>4. /\ r \in Seq(MapEntries) /\ Len(r) = Len(b) - 1
          /\ \A i \in 1 .. Len(r) : r[i] = b[i + 1]
        BY <1>1, <3>1, <3>3, HeadTailProperties
    <3>5. e - 1 \in DOMAIN r /\ r[e - 1] = b[e]
      <4>1. DOMAIN r = 1 .. Len(b) - 1
          BY <3>4, LenProperties
      <4> QED  BY <1>1, <1>2, <2>6, <3>4, <4>1
    <3>6. e - 1 \in DOMAIN c /\ c[e - 1] = b[e]
        BY <2>3, <3>2, <3>4, <3>5
    <3> QED  BY <1>2, <3>6 DEF KeysOf
  <2> QED  BY <2>5, <2>6
<1> QED  BY <1>3, <1>4

(* The id of a record's message, and what the map has of it with the       *)
(* record.                                                                 *)
IdOf(r) == MsgId(Subscribed, r.message)
Joined(b, r) == Append(KeptIn(b, IdOf(r)), r)

(* They are of one message.                                                *)
LEMMA JoinedSound ==
    ASSUME NEW b, MapSound(b), NEW r \in Records, OnTopic(r)
    PROVE  /\ IdOf(r) \in MsgIds
           /\ Joined(b, r) \in Seq(Records)
           /\ Joined(b, r) # <<>>
           /\ \A k \in DOMAIN Joined(b, r) :
                 /\ OnTopic(Joined(b, r)[k])
                 /\ MsgId(Subscribed, Joined(b, r)[k].message) = IdOf(r)
                 /\ Joined(b, r)[k].message = r.message
<1>1. r.message \in Messages /\ IdOf(r) \in MsgIds
    BY MsgIdType, SubscribedAssumption DEF Records, IdOf
<1>2. PICK id : id = IdOf(r)
    OBVIOUS
<1>3. PICK old : old = KeptIn(b, id)
    OBVIOUS
<1>4. PICK records : records = Append(old, r)
    OBVIOUS
<1>5. records = Joined(b, r)
    BY <1>2, <1>3, <1>4 DEF Joined
<1>6. /\ old \in Seq(Records)
      /\ \A k \in DOMAIN old : OnTopic(old[k]) /\ MsgId(Subscribed, old[k].message) = id
    BY <1>3, KeptType
<1>7. /\ records \in Seq(Records) /\ Len(records) = Len(old) + 1 /\ records # <<>>
      /\ records[Len(old) + 1] = r
      /\ \A i \in 1 .. Len(old) : records[i] = old[i]
    BY <1>4, <1>6, AppendProperties
<1>8. /\ DOMAIN old = 1 .. Len(old) /\ Len(old) \in Nat
      /\ DOMAIN records = 1 .. Len(old) + 1
    BY <1>6, <1>7, LenProperties
<1>9. \A k \in DOMAIN records : (k \in DOMAIN old /\ records[k] = old[k]) \/ records[k] = r
    BY <1>7, <1>8
<1>10. \A k \in DOMAIN records :
          OnTopic(records[k]) /\ MsgId(Subscribed, records[k].message) = id
    BY <1>2, <1>6, <1>9 DEF IdOf
<1>11. ASSUME NEW k \in DOMAIN records PROVE records[k].message = r.message
  <2>1. records[k] \in Records
      BY <1>7, ElementOfSeq, LenProperties
  <2>2. records[k].message \in Seq(Nat) /\ r.message \in Seq(Nat) /\ Subscribed \in Seq(Nat)
      BY <1>1, <2>1, BytesAssumption, SubscribedAssumption DEF Records
  <2>3. MsgId(Subscribed, records[k].message) = MsgId(Subscribed, r.message)
      BY <1>2, <1>10 DEF IdOf
  <2> QED  BY <2>2, <2>3, MsgIdInjective
<1> QED  BY <1>1, <1>2, <1>5, <1>7, <1>10, <1>11

-----------------------------------------------------------------------------
(* Aggregate in these terms.                                               *)
LEMMA AggregateEffect ==
    ASSUME Typed, Genuine, Aggregate
    PROVE  \E r \in Records :
              /\ channel # <<>> /\ r = Head(channel) /\ OnTopic(r)
              /\ emit = Nothing /\ certifying
              /\ channel' = Tail(channel)
              /\ MapSound(byId')
              /\ KeptIn(byId', IdOf(r)) = Joined(byId, r)
              /\ \A x : x # IdOf(r) =>
                    \/ KeptIn(byId', x) = KeptIn(byId, x)
                    \/ KeptIn(byId', x) = <<>> /\ x \in KeysOf(byId) \ KeysOf(byId')
              /\ emit' = IF Certifies(Joined(byId, r))
                         THEN FromRecordsUnchecked(Joined(byId, r)) ELSE Nothing
<1>1. /\ channel \in Seq(Records) /\ channel # <<>> /\ emit = Nothing /\ certifying
      /\ channel' = Tail(channel)
    BY DEF Typed, TypeOK, Aggregate
<1>2. PICK r : r = Head(channel)
    OBVIOUS
<1>3. r \in Records /\ r = channel[1] /\ 1 \in DOMAIN channel
    BY <1>1, <1>2, HeadTailProperties, LenProperties, EmptySeq
<1>4. OnTopic(r) /\ MapSound(byId)
    BY <1>3 DEF Genuine
<1>5. PICK b : b = byId
    OBVIOUS
<1>6. PICK records : records = Joined(b, r)
    OBVIOUS
<1>7. PICK id : id = IdOf(r)
    OBVIOUS
<1>8. /\ id \in MsgIds /\ records \in Seq(Records)
      /\ \A k \in DOMAIN records :
            OnTopic(records[k]) /\ MsgId(Subscribed, records[k].message) = id
    BY <1>3, <1>4, <1>5, <1>6, <1>7, JoinedSound
<1>9. Collected(id, r) = records
    BY <1>5, <1>6, <1>7 DEF Collected, KeptIn, Joined
<1>10. /\ byId' = MapAfter(byId, id, records)
       /\ emit' = IF Certifies(records) THEN FromRecordsUnchecked(records) ELSE Nothing
    BY <1>2, <1>7, <1>9 DEF Aggregate, MapAfter, IdOf
<1>11. PICK c : c = byId'
    OBVIOUS
<1>12. MapSound(b) /\ c = MapAfter(b, id, records)
    BY <1>4, <1>5, <1>10, <1>11
<1>13. /\ MapSound(c)
       /\ KeptIn(c, id) = records
       /\ \A x : x # id =>
             \/ KeptIn(c, x) = KeptIn(b, x)
             \/ KeptIn(c, x) = <<>> /\ x \in KeysOf(b) \ KeysOf(c)
    BY <1>8, <1>12, MapAfterKept
<1> QED  BY <1>1, <1>2, <1>3, <1>4, <1>5, <1>6, <1>7, <1>10, <1>11, <1>13, Zenon

(* CertifiedRecord::from_records_unchecked yields a certified record with  *)
(* the signatures of the records, in their order.                          *)
LEMMA FromRecords ==
    ASSUME NEW records \in Seq(Records), records # <<>>
    PROVE  LET c == FromRecordsUnchecked(records)
           IN  /\ c \in Certs /\ c # Nothing
               /\ Len(c.sigs) = Len(records)
               /\ DOMAIN c.sigs = DOMAIN records
               /\ \A k \in DOMAIN records : /\ c.sigs[k] = records[k].signature
                                            /\ c.timestamps[k] = records[k].timestamp
               /\ c.message = records[1].message
<1> DEFINE c == FromRecordsUnchecked(records)
           ss == [k \in DOMAIN records |-> records[k].signature]
           ts == [k \in DOMAIN records |-> records[k].timestamp]
<1>1. DOMAIN records = 1 .. Len(records) /\ Len(records) \in Nat \ {0}
    BY LenProperties, EmptySeq
<1>2. \A k \in DOMAIN records : records[k] \in Records
    BY <1>1, ElementOfSeq
<1>3. ss \in [1 .. Len(records) -> Signatures] /\ ts \in [1 .. Len(records) -> Nat]
    BY <1>1, <1>2 DEF Records
<1>4. ss \in Seq(Signatures) /\ ts \in Seq(Nat) /\ Len(ss) = Len(records)
  <2>1. \A S : \A q \in [1 .. Len(records) -> S] : q \in Seq(S) /\ Len(q) = Len(records)
      BY <1>1, IsASeq, LenProperties
  <2> QED  BY <1>3, <2>1
<1>5. records[1].message \in Messages
    BY <1>1, <1>2 DEF Records
<1>6. c = [timestamps |-> ts, sigs |-> ss, message |-> records[1].message]
    BY DEF FromRecordsUnchecked
<1>7. /\ DOMAIN ss = DOMAIN records
      /\ \A k \in DOMAIN records : ss[k] = records[k].signature /\ ts[k] = records[k].timestamp
    OBVIOUS
<1> HIDE DEF c, ss, ts
<1>8. c \in Certs
    BY <1>4, <1>5, <1>6 DEF Certs
<1>9. c # Nothing
  <2>1. DOMAIN c = {"timestamps", "sigs", "message"}
      BY <1>6
  <2>2. DOMAIN Nothing = {}
      BY DEF Nothing
  <2> QED  BY <2>1, <2>2
<1>10. /\ c.sigs = ss /\ c.timestamps = ts /\ c.message = records[1].message
    BY <1>6
<1>11. /\ Len(c.sigs) = Len(records)
       /\ DOMAIN c.sigs = DOMAIN records
       /\ \A k \in DOMAIN records : /\ c.sigs[k] = records[k].signature
                                    /\ c.timestamps[k] = records[k].timestamp
    BY <1>4, <1>7, <1>10
<1> QED  BY <1>8, <1>9, <1>10, <1>11 DEF c

-----------------------------------------------------------------------------
(* Types.                                                                  *)

(* What is left of a sequence without its first element.                   *)
LEMMA TailType ==
    ASSUME NEW S, NEW q \in Seq(S), q # <<>>
    PROVE  /\ Tail(q) \in Seq(S)
           /\ Head(q) \in S /\ Head(q) = q[1] /\ 1 \in DOMAIN q
           /\ Len(q) \in Nat \ {0} /\ Len(Tail(q)) = Len(q) - 1
           /\ \A i \in DOMAIN Tail(q) : i + 1 \in DOMAIN q /\ Tail(q)[i] = q[i + 1]
<1>1. PICK r : r = Tail(q)
    OBVIOUS
<1>2. /\ r \in Seq(S) /\ Len(r) = Len(q) - 1 /\ Len(q) \in Nat \ {0}
      /\ \A i \in 1 .. Len(r) : r[i] = q[i + 1]
      /\ Head(q) \in S
    BY <1>1, HeadTailProperties, LenProperties
<1>3. DOMAIN q = 1 .. Len(q) /\ DOMAIN r = 1 .. Len(q) - 1
    BY <1>2, LenProperties
<1>4. \A i \in DOMAIN r : i + 1 \in DOMAIN q /\ r[i] = q[i + 1]
    BY <1>2, <1>3
<1>5. 1 \in DOMAIN q /\ Head(q) = q[1]
    BY <1>2, <1>3
<1> QED  BY <1>1, <1>2, <1>4, <1>5

(* One more element.                                                       *)
LEMMA AppendType ==
    ASSUME NEW S, NEW q \in Seq(S), NEW x \in S
    PROVE  /\ Append(q, x) \in Seq(S)
           /\ Len(q) \in Nat /\ Len(Append(q, x)) = Len(q) + 1
           /\ Len(q) + 1 \in DOMAIN Append(q, x) /\ Append(q, x)[Len(q) + 1] = x
           /\ \A i \in DOMAIN q : i \in DOMAIN Append(q, x) /\ Append(q, x)[i] = q[i]
           /\ \A i \in DOMAIN Append(q, x) :
                 \/ i \in DOMAIN q /\ Append(q, x)[i] = q[i]
                 \/ i = Len(q) + 1 /\ i \notin DOMAIN q /\ Append(q, x)[i] = x
<1>1. PICK r : r = Append(q, x)
    OBVIOUS
<1>2. /\ r \in Seq(S) /\ Len(r) = Len(q) + 1 /\ r[Len(q) + 1] = x
      /\ \A i \in 1 .. Len(q) : r[i] = q[i]
    BY <1>1, AppendProperties
<1>3. DOMAIN q = 1 .. Len(q) /\ Len(q) \in Nat /\ DOMAIN r = 1 .. Len(q) + 1
    BY <1>2, LenProperties
<1>4. \A i \in DOMAIN r : \/ i \in DOMAIN q /\ r[i] = q[i]
                          \/ i = Len(q) + 1 /\ i \notin DOMAIN q /\ r[i] = x
    BY <1>2, <1>3
<1>5. /\ Len(q) + 1 \in DOMAIN r
      /\ \A i \in DOMAIN q : i \in DOMAIN r /\ r[i] = q[i]
    BY <1>2, <1>3
<1> QED  BY <1>1, <1>2, <1>3, <1>4, <1>5

(* Every step keeps the types.                                             *)
LEMMA NextTyped ==
    ASSUME Typed, Genuine, [Next]_vars
    PROVE  Typed'
<1>0. {QueueCap, ChannelCap, MapCap, OutCap} \subseteq Nat \ {0} /\ MaxHandled \in Nat
      /\ MaxRestarts \in Nat
    BY CapacityAssumption, MaxHandledAssumption, RestartAssumption
<1>t. Times \subseteq Nat
    BY ClockAssumption DEF Times
<1> USE DEF Typed, TypeOK
<1>1. ASSUME NEW v \in Validators, NEW ns \in Namespaces, NEW m \in Messages,
             PollWrite(v, ns, m)
      PROVE  Typed'
  <2>1. handled' \in 0 .. MaxHandled
      BY <1>0, <1>1 DEF PollWrite
  <2>2. /\ queue' \in [Validators -> Seq(Namespaces \X Records)]
        /\ \A w \in Validators : Len(queue'[w]) <= QueueCap
    <3>1. CASE ns \in active[v] /\ Len(queue[v]) < QueueCap
      <4>1. PICK ts \in Times :
               queue' = [queue EXCEPT ![v] = Append(@, <<ns, Stamped(v, ns, ts, m)>>)]
          BY <1>1, <3>1 DEF PollWrite
      <4>2. <<ns, Stamped(v, ns, ts, m)>> \in Namespaces \X Records
          BY <1>t, SignedRecordType
      <4>3. PICK q : q = Append(queue[v], <<ns, Stamped(v, ns, ts, m)>>)
          OBVIOUS
      <4>4. q \in Seq(Namespaces \X Records) /\ Len(q) = Len(queue[v]) + 1 /\ Len(queue[v]) \in Nat
          BY <4>2, <4>3, AppendType
      <4>5. Len(q) <= QueueCap
          BY <1>0, <3>1, <4>4
      <4>6. queue' = [queue EXCEPT ![v] = q]
          BY <4>1, <4>3
      <4> QED  BY <4>4, <4>5, <4>6
    <3>2. CASE ~(ns \in active[v] /\ Len(queue[v]) < QueueCap)
        BY <1>1, <3>2 DEF PollWrite
    <3> QED  BY <3>1, <3>2
  <2> QED  BY <1>1, <2>1, <2>2 DEF PollWrite, asking, stream
<1>2. ASSUME NEW v \in Validators, PollSubscribe(v)
      PROVE  Typed'
  <2>1. active' \in [Validators -> SUBSET Namespaces] /\ reqs' \subseteq reqs
      BY <1>2, SubscribedAssumption DEF PollSubscribe
  <2> QED  BY <1>2, <2>1 DEF PollSubscribe, stream
<1>3. ASSUME NEW v \in Validators, PollPublish(v)
      PROVE  Typed'
  <2>1. PICK q : q = Tail(queue[v])
      OBVIOUS
  <2>2. /\ q \in Seq(Namespaces \X Records) /\ Len(q) <= QueueCap
        /\ Head(queue[v]) \in Namespaces \X Records
      BY <1>0, <1>3, <2>1, TailType DEF PollPublish
  <2>3. queue' = [queue EXCEPT ![v] = q]
      BY <1>3, <2>1 DEF PollPublish
  <2>4. wire' \in [Validators -> Seq(Records)]
    <3>1. Append(wire[v], Head(queue[v])[2]) \in Seq(Records)
        BY <2>2, AppendType
    <3>2. wire' = wire \/ wire' = [wire EXCEPT ![v] = Append(wire[v], Head(queue[v])[2])]
        BY <1>3 DEF PollPublish
    <3> QED  BY <3>1, <3>2
  <2>5. /\ queue' \in [Validators -> Seq(Namespaces \X Records)]
        /\ \A w \in Validators : Len(queue'[w]) <= QueueCap
      BY <2>2, <2>3
  <2>6. UNCHANGED <<active, restarts, handled, phase, asking, ports, stale, connected, stream>>
      BY <1>3 DEF PollPublish
  <2> QED  BY <2>4, <2>5, <2>6 DEF asking, stream
<1>4. ASSUME NEW v \in Validators, PublishFails(v)
      PROVE  Typed'
  <2>1. PICK q : q = Tail(queue[v])
      OBVIOUS
  <2>2. q \in Seq(Namespaces \X Records) /\ Len(q) <= QueueCap
      BY <1>0, <1>4, <2>1, TailType DEF PublishFails
  <2>3. queue' = [queue EXCEPT ![v] = q]
      BY <1>4, <2>1 DEF PublishFails
  <2> QED  BY <1>4, <2>2, <2>3 DEF PublishFails, asking, stream
<1>5. ASSUME NEW v \in Validators, PollPending(v)
      PROVE  Typed'
  <2>1. <<>> \in Seq(Namespaces \X Records) /\ Len(<<>>) <= QueueCap
      BY <1>0
  <2>2. queue' = [queue EXCEPT ![v] = <<>>]
      BY <1>5 DEF PollPending
  <2> QED  BY <1>5, <2>1, <2>2 DEF PollPending, asking, stream
<1>6. ASSUME NEW v \in Validators, Restart(v)
      PROVE  Typed'
  <2>1. <<>> \in Seq(Namespaces \X Records) /\ Len(<<>>) <= QueueCap
      BY <1>0
  <2>2. queue' = [queue EXCEPT ![v] = <<>>]
      BY <1>6 DEF Restart
  <2>3. /\ queue' \in [Validators -> Seq(Namespaces \X Records)]
        /\ \A w \in Validators : Len(queue'[w]) <= QueueCap
      BY <2>1, <2>2
  <2>4. restarts' \in 0 .. MaxRestarts
      BY <1>0, <1>6 DEF Restart
  <2>5. active' \in [Validators -> SUBSET Namespaces]
      BY <1>6 DEF Restart
  <2>6. wire' \in [Validators -> Seq(Records)]
    <3>1. PICK k \in 0 .. Len(wire[v]) : wire' = [wire EXCEPT ![v] = SubSeq(@, 1, k)]
        BY <1>6 DEF Restart
    <3>2. SubSeq(wire[v], 1, k) \in Seq(Records)
        BY CutHits
    <3> QED  BY <3>1, <3>2
  <2>7. stale' \subseteq Validators /\ connected' \subseteq connected
      BY <1>6 DEF Restart
  <2> QED  BY <1>6, <2>3, <2>4, <2>5, <2>6, <2>7 DEF Restart, asking, stream
<1>7. CASE Subscribe
    BY <1>7 DEF Subscribe, publishers, stream, Phases
<1>8. ASSUME NEW v \in Validators, TakePort(v)
      PROVE  Typed'
    BY <1>8 DEF TakePort, publishers, stream
<1>9. CASE AskingEnds
    BY <1>9 DEF AskingEnds, publishers, stream, Phases
<1>10. ASSUME NEW v \in Validators, Connect(v)
       PROVE  Typed'
    BY <1>10 DEF Connect, publishers, asking, stream
<1>11. wire' = [v \in Validators |-> <<>>] => wire' \in [Validators -> Seq(Records)]
    OBVIOUS
<1>12. CASE ConnectFails
    BY <1>11, <1>12 DEF ConnectFails, TaskReturns, publishers, asking, stream, Phases
<1>13. CASE ConnectEnds
    BY <1>13 DEF ConnectEnds, publishers, asking, stream, Phases
<1>14. ASSUME NEW v \in Validators, Receive(v)
       PROVE  Typed'
  <2>1. CASE certifying
    <3>1. PICK q : q = Tail(wire[v])
        OBVIOUS
    <3>2. q \in Seq(Records) /\ Head(wire[v]) \in Records
        BY <1>14, <3>1, TailType DEF Receive
    <3>3. wire' = [wire EXCEPT ![v] = q] /\ phase' = phase /\ connected' = connected
        BY <1>14, <2>1, <3>1 DEF Receive
    <3>4. channel' \in Seq(Records) /\ Len(channel') <= ChannelCap
      <4>1. CASE Len(channel) < ChannelCap
        <5>1. channel' = Append(channel, Head(wire[v]))
            BY <1>14, <2>1, <4>1 DEF Receive
        <5>2. channel' \in Seq(Records) /\ Len(channel') = Len(channel) + 1 /\ Len(channel) \in Nat
            BY <3>2, <5>1, AppendType
        <5> QED  BY <1>0, <4>1, <5>2
      <4>2. CASE ~(Len(channel) < ChannelCap)
          BY <1>14, <2>1, <4>2 DEF Receive
      <4> QED  BY <4>1, <4>2
    <3> QED  BY <1>14, <3>2, <3>3, <3>4 DEF Receive, publishers, asking
  <2>2. CASE ~certifying
    <3>1. phase' = "stopped" /\ connected' = {} /\ wire' = [w \in Validators |-> <<>>]
          /\ channel' = channel
        BY <1>14, <2>2 DEF Receive, TaskReturns
    <3> QED  BY <1>11, <1>14, <3>1 DEF Receive, publishers, asking, Phases
  <2> QED  BY <2>1, <2>2
<1>15. CASE Aggregate
  <2>1. PICK r \in Records :
           /\ OnTopic(r)
           /\ MapSound(byId')
           /\ emit' = IF Certifies(Joined(byId, r))
                      THEN FromRecordsUnchecked(Joined(byId, r)) ELSE Nothing
      BY <1>15, AggregateEffect
  <2>2. byId' \in Seq([id : MsgIds, record : Seq(Records)]) /\ Len(byId') <= MapCap
      BY <2>1 DEF MapSound, MapEntries
  <2>3. emit' \in Certs \cup {Nothing}
    <3>1. MapSound(byId)
        BY DEF Genuine
    <3>2. Joined(byId, r) \in Seq(Records) /\ Joined(byId, r) # <<>>
        BY <2>1, <3>1, JoinedSound
    <3>3. FromRecordsUnchecked(Joined(byId, r)) \in Certs
        BY <3>2, FromRecords
    <3> QED  BY <2>1, <3>3
  <2>4. channel' \in Seq(Records) /\ Len(channel') <= ChannelCap
      BY <1>0, <1>15, TailType DEF Aggregate
  <2> QED  BY <1>15, <2>2, <2>3, <2>4 DEF Aggregate, publishers, asking
<1>16. CASE Send
  <2>1. out' \in 0 .. OutCap
      BY <1>0, <1>16 DEF Send
  <2>2. sent' \in Seq(Certs)
    <3>1. emit \in Certs
        BY <1>16 DEF Send
    <3> QED  BY <1>16, <3>1, AppendType DEF Send
  <2> QED  BY <1>16, <2>1, <2>2 DEF Send, publishers, asking
<1>17. CASE CertifyingEnds
  <2>1. /\ <<>> \in Seq(Records) /\ Len(<<>>) <= ChannelCap /\ Len(<<>>) <= MapCap
        /\ <<>> \in Seq([id : MsgIds, record : Seq(Records)])
      BY <1>0
  <2> QED  BY <1>17, <2>1 DEF CertifyingEnds, publishers, asking
<1>18. CASE ConsumerTakes
    BY <1>0, <1>18 DEF ConsumerTakes, publishers, asking
<1>19. CASE ConsumerCloses
  <2>1. out' = 0 /\ open' = FALSE
      BY <1>19 DEF ConsumerCloses
  <2>2. out' \in 0 .. OutCap
      BY <1>0, <2>1
  <2>3. open' \in BOOLEAN
      BY <2>1
  <2> QED  BY <1>19, <2>2, <2>3 DEF ConsumerCloses, publishers, asking
<1>20. CASE UNCHANGED vars
    BY <1>20 DEF vars
<1>21. ASSUME NEW v \in Validators, NEW ns \in Namespaces, PollOtherSubscribe(v, ns)
       PROVE  Typed'
  <2>1. active' \in [Validators -> SUBSET Namespaces]
      BY <1>21 DEF PollOtherSubscribe
  <2>2. handled' \in 0 .. MaxHandled
      BY <1>0, <1>21 DEF PollOtherSubscribe
  <2> QED  BY <1>21, <2>1, <2>2 DEF PollOtherSubscribe, asking, stream
<1> QED  BY <1>1, <1>2, <1>3, <1>4, <1>5, <1>6, <1>7, <1>8, <1>9, <1>10, <1>12, <1>13,
            <1>14, <1>15, <1>16, <1>17, <1>18, <1>19, <1>20, <1>21
         DEF Next, Poll, TaskStep

-----------------------------------------------------------------------------
(* Whom the client is connected to.                                        *)
LEMMA NextAsked ==
    ASSUME Typed, Asked, [Next]_vars
    PROVE  Asked'
<1>a. active \in [Validators -> SUBSET Namespaces]
    BY DEF Typed, TypeOK
<1> USE DEF Asked
<1>1. ASSUME NEW v \in Validators, PollSubscribe(v)
      PROVE  Asked'
  <2>1. \A w \in Validators : /\ active'[w] = IF w = v THEN active[w] \cup {Subscribed} ELSE active[w]
                              /\ w \notin reqs' => w = v \/ w \notin reqs
      BY <1>1, <1>a DEF PollSubscribe
  <2>2. /\ v \in reqs /\ reqs' = reqs \ {v}
        /\ UNCHANGED <<phase, ports, stale, connected>>
      BY <1>1 DEF PollSubscribe
  <2> QED  BY <2>1, <2>2
<1>2. ASSUME NEW v \in Validators, Restart(v)
      PROVE  Asked'
  <2>1. \A w \in Validators : w # v => active'[w] = active[w]
      BY <1>2, <1>a DEF Restart
  <2>2. /\ phase # "idle" /\ connected' = connected \ {v}
        /\ stale' = IF v \in reqs THEN stale ELSE stale \cup {v}
        /\ UNCHANGED <<phase, ports, reqs>>
      BY <1>2 DEF Restart, asking
  <2> QED  BY <2>1, <2>2
<1>3. CASE Subscribe
    BY <1>3 DEF Subscribe, publishers
<1>4. ASSUME NEW v \in Validators, TakePort(v)
      PROVE  Asked'
    BY <1>4 DEF TakePort, publishers
<1>5. CASE AskingEnds
    BY <1>5 DEF AskingEnds, publishers
<1>6. ASSUME NEW v \in Validators, Connect(v)
      PROVE  Asked'
    BY <1>6 DEF Connect, publishers, asking
<1>7. CASE ConnectFails
    BY <1>7 DEF ConnectFails, TaskReturns, publishers, asking
<1>8. CASE ConnectEnds
    BY <1>8 DEF ConnectEnds, publishers, asking
<1>9. ASSUME NEW v \in Validators, Receive(v)
      PROVE  Asked'
  <2>1. CASE certifying
      BY <1>9, <2>1 DEF Receive, publishers, asking
  <2>2. CASE ~certifying
      BY <1>9, <2>2 DEF Receive, TaskReturns, publishers, asking
  <2> QED  BY <2>1, <2>2
<1>10. CASE UNCHANGED <<active, phase, reqs, ports, stale, connected>>
    BY <1>10
<1>11. ASSUME NEW v \in Validators, Poll(v)
       PROVE  Asked'
    BY <1>10, <1>11 DEF Poll, PollPublish, PublishFails, PollPending, asking
<1>12. ASSUME NEW v \in Validators, NEW ns \in Namespaces, NEW m \in Messages,
              PollWrite(v, ns, m)
       PROVE  Asked'
    BY <1>10, <1>12 DEF PollWrite, asking
<1>13. CASE Aggregate \/ Send \/ CertifyingEnds \/ ConsumerTakes \/ ConsumerCloses
    BY <1>10, <1>13 DEF Aggregate, Send, CertifyingEnds, ConsumerTakes, ConsumerCloses,
                        publishers, asking
<1>14. CASE UNCHANGED vars
    BY <1>10, <1>14 DEF vars
<1>15. ASSUME NEW v \in Validators, NEW ns \in Namespaces, PollOtherSubscribe(v, ns)
       PROVE  Asked'
  <2>1. \A w \in Validators : active[w] \subseteq active'[w]
      BY <1>15, <1>a DEF PollOtherSubscribe
  <2>2. UNCHANGED <<phase, reqs, ports, stale, connected>>
      BY <1>15 DEF PollOtherSubscribe, asking
  <2> QED  BY <2>1, <2>2
<1> QED  BY <1>1, <1>2, <1>3, <1>4, <1>5, <1>6, <1>7, <1>8, <1>9, <1>11, <1>12, <1>13,
            <1>14, <1>15
         DEF Next, TaskStep

-----------------------------------------------------------------------------
(* The steps that move records, in terms of what they leave behind.  The   *)
(* others leave all buffers alone.                                         *)
buffers == <<queue, wire, channel, byId, stamped, repeated>>

(* Subscriptions and the consumer do not touch the buffers.                *)
LEMMA BuffersUnchanged ==
    ASSUME \/ \E v \in Validators : PollSubscribe(v) \/ TakePort(v) \/ Connect(v)
           \/ \E v \in Validators, ns \in Namespaces : PollOtherSubscribe(v, ns)
           \/ Subscribe \/ AskingEnds \/ ConnectEnds
           \/ Send \/ ConsumerTakes \/ ConsumerCloses
           \/ UNCHANGED vars
    PROVE  UNCHANGED buffers
BY DEF PollSubscribe, PollOtherSubscribe, TakePort, Connect, Subscribe, AskingEnds, ConnectEnds, Send,
       ConsumerTakes, ConsumerCloses, vars, publishers, asking, stream, buffers

(* A record is queued by its validator, on the topic of its namespace.     *)
LEMMA QueuedOnTopic ==
    ASSUME NEW v \in Validators, NEW ns \in Namespaces, NEW r,
           r.signature = Sign(v, RecordDigest(ns, r.timestamp, r.message)),
           Topic(ns) = Topic(Subscribed)
    PROVE  OnTopic(r) /\ r.signature.key = v
<1>1. r.signature.key = v
    BY DEF Sign
<1> QED  BY <1>1 DEF OnTopic

(* The first record of a queue, and the others.                            *)
LEMMA HeadOfQueue ==
    ASSUME Typed, Genuine, NEW v \in Validators, queue[v] # <<>>
    PROVE  /\ Head(queue[v]) \in Namespaces \X Records
           /\ Head(queue[v])[2].signature =
                 Sign(v, RecordDigest(Head(queue[v])[1], Head(queue[v])[2].timestamp,
                                      Head(queue[v])[2].message))
           /\ Tail(queue[v]) \in Seq(Namespaces \X Records)
           /\ \A k \in DOMAIN Tail(queue[v]) :
                 Tail(queue[v])[k][2].signature =
                    Sign(v, RecordDigest(Tail(queue[v])[k][1],
                                         Tail(queue[v])[k][2].timestamp,
                                         Tail(queue[v])[k][2].message))
<1>1. queue[v] \in Seq(Namespaces \X Records)
    BY DEF Typed
<1>2. /\ Tail(queue[v]) \in Seq(Namespaces \X Records)
      /\ Head(queue[v]) \in Namespaces \X Records
      /\ Head(queue[v]) = queue[v][1] /\ 1 \in DOMAIN queue[v]
      /\ \A i \in DOMAIN Tail(queue[v]) :
            i + 1 \in DOMAIN queue[v] /\ Tail(queue[v])[i] = queue[v][i + 1]
    BY <1>1, TailType
<1>3. \A k \in DOMAIN queue[v] :
         queue[v][k][2].signature =
            Sign(v, RecordDigest(queue[v][k][1], queue[v][k][2].timestamp,
                                 queue[v][k][2].message))
    BY DEF Genuine
<1> QED  BY <1>2, <1>3

(* Every record on its way is what it seems.                               *)
LEMMA NextGenuine ==
    ASSUME Typed, Genuine, [Next]_vars
    PROVE  Genuine'
<1>a. /\ queue \in [Validators -> Seq(Namespaces \X Records)]
      /\ wire \in [Validators -> Seq(Records)]
      /\ channel \in Seq(Records)
    BY DEF Typed, TypeOK
<1>t. Times \subseteq Nat
    BY ClockAssumption DEF Times
<1> DEFINE QueueGenuine(v, q) ==
              \A k \in DOMAIN q :
                 q[k][2].signature =
                    Sign(v, RecordDigest(q[k][1], q[k][2].timestamp, q[k][2].message))
           WireGenuine(v, q) ==
              \A k \in DOMAIN q : q[k].signature.key = v /\ OnTopic(q[k])
           ChannelGenuine(q) == \A k \in DOMAIN q : OnTopic(q[k])
<1>b. /\ \A v \in Validators : QueueGenuine(v, queue[v]) /\ WireGenuine(v, wire[v])
      /\ ChannelGenuine(channel)
      /\ MapSound(byId)
    BY DEF Genuine
<1>c. SUFFICES /\ \A v \in Validators : QueueGenuine(v, queue'[v]) /\ WireGenuine(v, wire'[v])
               /\ ChannelGenuine(channel')
               /\ MapSound(byId')
    BY DEF Genuine
<1>d. /\ \A v \in Validators : QueueGenuine(v, <<>>) /\ WireGenuine(v, <<>>)
      /\ ChannelGenuine(<<>>)
    OBVIOUS
<1>e. MapSound(<<>>)
    BY CapacityAssumption DEF MapSound, UniqueKeys
<1>1. ASSUME NEW v \in Validators, NEW ns \in Namespaces, NEW m \in Messages,
             PollWrite(v, ns, m)
      PROVE  \A w \in Validators : QueueGenuine(w, queue'[w])
  <2>1. CASE ns \in active[v] /\ Len(queue[v]) < QueueCap
    <3>1. PICK ts \in Times :
             queue' = [queue EXCEPT ![v] = Append(@, <<ns, Stamped(v, ns, ts, m)>>)]
        BY <1>1, <2>1 DEF PollWrite
    <3>2. PICK x : x = <<ns, Stamped(v, ns, ts, m)>>
        OBVIOUS
    <3>3. /\ x \in Namespaces \X Records
          /\ x[2].signature = Sign(v, RecordDigest(x[1], x[2].timestamp, x[2].message))
        BY <1>t, <3>2, SignedRecordType DEF Stamped
    <3>4. PICK q : q = Append(queue[v], x)
        OBVIOUS
    <3>5. \A i \in DOMAIN q : (i \in DOMAIN queue[v] /\ q[i] = queue[v][i]) \/ q[i] = x
        BY <1>a, <3>3, <3>4, AppendType
    <3>6. QueueGenuine(v, q)
        BY <1>b, <3>3, <3>5
    <3>7. \A w \in Validators : queue'[w] = IF w = v THEN q ELSE queue[w]
        BY <1>a, <3>1, <3>2, <3>4
    <3> HIDE DEF QueueGenuine
    <3> QED  BY <1>b, <3>6, <3>7
  <2>2. CASE ~(ns \in active[v] /\ Len(queue[v]) < QueueCap)
      BY <1>1, <1>b, <2>2 DEF PollWrite
  <2> QED  BY <2>1, <2>2
<1>2. ASSUME NEW v \in Validators, PollPublish(v)
      PROVE  \A w \in Validators : QueueGenuine(w, queue'[w]) /\ WireGenuine(w, wire'[w])
  <2>0. queue[v] # <<>>
      BY <1>2 DEF PollPublish
  <2>1. PICK x : x = Head(queue[v])
      OBVIOUS
  <2>2. PICK q : q = Tail(queue[v])
      OBVIOUS
  <2>3. /\ x \in Namespaces \X Records /\ QueueGenuine(v, q)
        /\ x[2].signature = Sign(v, RecordDigest(x[1], x[2].timestamp, x[2].message))
      BY <2>0, <2>1, <2>2, HeadOfQueue
  <2>4. \A w \in Validators : queue'[w] = IF w = v THEN q ELSE queue[w]
      BY <1>2, <1>a, <2>2 DEF PollPublish
  <2>5. \A w \in Validators : WireGenuine(w, wire'[w])
    <3>1. CASE wire' = wire
        BY <1>b, <3>1
    <3>2. CASE Topic(x[1]) = Topic(Subscribed) /\ wire' = [wire EXCEPT ![v] = Append(wire[v], x[2])]
      <4>1. OnTopic(x[2]) /\ x[2].signature.key = v /\ x[2] \in Records
          BY <2>3, <3>2, QueuedOnTopic
      <4>2. PICK r : r = Append(wire[v], x[2])
          OBVIOUS
      <4>3. \A i \in DOMAIN r : (i \in DOMAIN wire[v] /\ r[i] = wire[v][i]) \/ r[i] = x[2]
          BY <1>a, <4>1, <4>2, AppendType
      <4>4. WireGenuine(v, r)
          BY <1>b, <4>1, <4>3
      <4>5. \A w \in Validators : wire'[w] = IF w = v THEN r ELSE wire[w]
          BY <1>a, <3>2, <4>2
      <4> HIDE DEF WireGenuine
      <4> QED  BY <1>b, <4>4, <4>5
    <3> QED  BY <1>2, <2>1, <3>1, <3>2 DEF PollPublish
  <2> HIDE DEF QueueGenuine
  <2> QED  BY <1>b, <2>3, <2>4, <2>5
<1>3. ASSUME NEW v \in Validators, PublishFails(v)
      PROVE  \A w \in Validators : QueueGenuine(w, queue'[w])
  <2>0. queue[v] # <<>>
      BY <1>3 DEF PublishFails
  <2>1. PICK q : q = Tail(queue[v])
      OBVIOUS
  <2>2. QueueGenuine(v, q)
      BY <2>0, <2>1, HeadOfQueue
  <2>3. \A w \in Validators : queue'[w] = IF w = v THEN q ELSE queue[w]
      BY <1>3, <1>a, <2>1 DEF PublishFails
  <2> HIDE DEF QueueGenuine
  <2> QED  BY <1>b, <2>2, <2>3
<1>4. ASSUME NEW v \in Validators, PollPending(v)
      PROVE  \A w \in Validators : QueueGenuine(w, queue'[w])
  <2>1. \A w \in Validators : queue'[w] = IF w = v THEN <<>> ELSE queue[w]
      BY <1>4, <1>a DEF PollPending
  <2> HIDE DEF QueueGenuine
  <2> QED  BY <1>b, <1>d, <2>1
<1>5. ASSUME NEW v \in Validators, Restart(v)
      PROVE  \A w \in Validators : QueueGenuine(w, queue'[w]) /\ WireGenuine(w, wire'[w])
  <2>1. \A w \in Validators : queue'[w] = IF w = v THEN <<>> ELSE queue[w]
      BY <1>5, <1>a DEF Restart
  <2>2. PICK k \in 0 .. Len(wire[v]) : wire' = [wire EXCEPT ![v] = SubSeq(@, 1, k)]
      BY <1>5 DEF Restart
  <2>3. PICK r : r = SubSeq(wire[v], 1, k)
      OBVIOUS
  <2>4. \A i \in DOMAIN r : i \in DOMAIN wire[v] /\ r[i] = wire[v][i]
      BY <1>a, <2>3, CutHits
  <2>5. WireGenuine(v, r)
      BY <1>b, <2>4
  <2>6. \A w \in Validators : wire'[w] = IF w = v THEN r ELSE wire[w]
      BY <1>a, <2>2, <2>3
  <2> HIDE DEF QueueGenuine, WireGenuine
  <2> QED  BY <1>b, <1>d, <2>1, <2>5, <2>6
<1>6. ASSUME wire' = [v \in Validators |-> <<>>]
      PROVE  \A w \in Validators : WireGenuine(w, wire'[w])
  <2> HIDE DEF WireGenuine
  <2> QED  BY <1>6, <1>d
<1>7. ASSUME NEW v \in Validators, Receive(v), certifying
      PROVE  /\ \A w \in Validators : WireGenuine(w, wire'[w])
             /\ ChannelGenuine(channel')
  <2>0. wire[v] # <<>>
      BY <1>7 DEF Receive
  <2>1. PICK x : x = Head(wire[v])
      OBVIOUS
  <2>2. PICK q : q = Tail(wire[v])
      OBVIOUS
  <2>3. /\ x \in Records /\ x = wire[v][1] /\ 1 \in DOMAIN wire[v]
        /\ \A i \in DOMAIN q : i + 1 \in DOMAIN wire[v] /\ q[i] = wire[v][i + 1]
      BY <1>a, <2>0, <2>1, <2>2, TailType
  <2>4. OnTopic(x) /\ WireGenuine(v, q)
      BY <1>b, <2>3
  <2>5. \A w \in Validators : wire'[w] = IF w = v THEN q ELSE wire[w]
      BY <1>7, <1>a, <2>2 DEF Receive
  <2>6. ChannelGenuine(channel')
    <3>1. CASE channel' = channel
        BY <1>b, <3>1
    <3>2. CASE channel' = Append(channel, x)
      <4>1. \A i \in DOMAIN channel' :
               (i \in DOMAIN channel /\ channel'[i] = channel[i]) \/ channel'[i] = x
          BY <1>a, <2>3, <3>2, AppendType
      <4> QED  BY <1>b, <2>4, <4>1
    <3> QED  BY <1>7, <2>1, <3>1, <3>2 DEF Receive
  <2> HIDE DEF WireGenuine
  <2> QED  BY <1>b, <2>4, <2>5, <2>6
<1>8. CASE Aggregate
  <2>1. channel # <<>> /\ channel' = Tail(channel) /\ MapSound(byId')
      BY <1>8, AggregateEffect
  <2>2. \A i \in DOMAIN channel' : i + 1 \in DOMAIN channel /\ channel'[i] = channel[i + 1]
      BY <1>a, <2>1, TailType
  <2>3. ChannelGenuine(channel')
      BY <1>b, <2>2
  <2>4. UNCHANGED <<queue, wire>>
      BY <1>8 DEF Aggregate, publishers
  <2> HIDE DEF QueueGenuine, WireGenuine, ChannelGenuine
  <2> QED  BY <1>b, <2>1, <2>3, <2>4
<1> HIDE DEF QueueGenuine, WireGenuine, ChannelGenuine
<1>9. CASE UNCHANGED buffers
    BY <1>b, <1>9 DEF buffers
<1>10. ASSUME NEW v \in Validators, Poll(v)
       PROVE  /\ \A w \in Validators : QueueGenuine(w, queue'[w]) /\ WireGenuine(w, wire'[w])
              /\ ChannelGenuine(channel')
              /\ MapSound(byId')
  <2>1. CASE PollPublish(v)
      BY <1>2, <1>b, <2>1 DEF PollPublish, stream
  <2>2. CASE PublishFails(v)
      BY <1>3, <1>b, <2>2 DEF PublishFails, stream
  <2>3. CASE PollPending(v)
      BY <1>4, <1>b, <2>3 DEF PollPending, stream
  <2> QED  BY <1>10, <2>1, <2>2, <2>3 DEF Poll
<1>11. ASSUME NEW v \in Validators, NEW ns \in Namespaces, NEW m \in Messages,
              PollWrite(v, ns, m)
       PROVE  /\ \A w \in Validators : QueueGenuine(w, queue'[w]) /\ WireGenuine(w, wire'[w])
              /\ ChannelGenuine(channel')
              /\ MapSound(byId')
    BY <1>1, <1>11, <1>b DEF PollWrite, stream
<1>12. ASSUME NEW v \in Validators, Restart(v)
       PROVE  /\ \A w \in Validators : QueueGenuine(w, queue'[w]) /\ WireGenuine(w, wire'[w])
              /\ ChannelGenuine(channel')
              /\ MapSound(byId')
    BY <1>5, <1>12, <1>b DEF Restart, stream
<1>13. CASE ConnectFails
    BY <1>6, <1>13, <1>b DEF ConnectFails, TaskReturns, publishers, stream
<1>14. ASSUME NEW v \in Validators, Receive(v)
       PROVE  /\ \A w \in Validators : QueueGenuine(w, queue'[w]) /\ WireGenuine(w, wire'[w])
              /\ ChannelGenuine(channel')
              /\ MapSound(byId')
  <2>1. UNCHANGED <<queue, byId>>
      BY <1>14 DEF Receive, publishers
  <2>2. CASE certifying
      BY <1>7, <1>14, <1>b, <2>1, <2>2
  <2>3. CASE ~certifying
      BY <1>6, <1>14, <1>b, <2>1, <2>3 DEF Receive, TaskReturns
  <2> QED  BY <2>2, <2>3
<1>15. CASE CertifyingEnds
    BY <1>15, <1>b, <1>d, <1>e DEF CertifyingEnds, publishers
<1> QED  BY <1>8, <1>9, <1>10, <1>11, <1>12, <1>13, <1>14, <1>15, BuffersUnchanged
         DEF Next, TaskStep

-----------------------------------------------------------------------------
(* A message that its validator queued once stays at one place.            *)
LEMMA NextOnce ==
    ASSUME Typed, Genuine, Once, [Next]_vars
    PROVE  Once'
<1>a. /\ queue \in [Validators -> Seq(Namespaces \X Records)]
      /\ wire \in [Validators -> Seq(Records)]
      /\ channel \in Seq(Records)
      /\ MapSound(byId)
    BY DEF Typed, TypeOK, Genuine
<1>t. Times \subseteq Nat
    BY ClockAssumption DEF Times
<1>s. SUFFICES ASSUME NEW u \in Validators, NEW n \in Messages
               PROVE  OnceAt(<<u, Topic(Subscribed), n>>, stamped', repeated',
                             Hits(queue'[u], QueuedOf(n)),
                             Hits(wire'[u], RecordsOf(u, n)),
                             Hits(channel', RecordsOf(u, n)),
                             Hits(KeptIn(byId', MsgId(Subscribed, n)), RecordsOf(u, n)))
    BY DEF Once, OnceAt, InQueue, OnWire, InChannel, InMap, Kept
<1>1. PICK s : s = <<u, Topic(Subscribed), n>>
    OBVIOUS
<1>2. PICK P : P = QueuedOf(n)
    OBVIOUS
<1>3. PICK R : R = RecordsOf(u, n)
    OBVIOUS
<1>4. PICK id : id = MsgId(Subscribed, n)
    OBVIOUS
<1> DEFINE Q == Hits(queue[u], P)
           W == Hits(wire[u], R)
           C == Hits(channel, R)
           B == Hits(KeptIn(byId, id), R)
           Q1 == Hits(queue'[u], P)
           W1 == Hits(wire'[u], R)
           C1 == Hits(channel', R)
           B1 == Hits(KeptIn(byId', id), R)
<1>b. OnceAt(s, stamped, repeated, Q, W, C, B)
    BY <1>1, <1>2, <1>3, <1>4 DEF Once, OnceAt, InQueue, OnWire, InChannel, InMap, Kept
<1>c. SUFFICES OnceAt(s, stamped', repeated', Q1, W1, C1, B1)
    BY <1>1, <1>2, <1>3, <1>4
<1>d. \A S : Shrinks(S, S) /\ Shrinks(S, {})
    BY SubsetShrinks
<1>e. \A S : Hits(<<>>, S) = {}
    BY NoHits
<1>f. ASSUME UNCHANGED <<stamped, repeated>>,
             Shrinks(Q, Q1), Shrinks(W, W1), Shrinks(C, C1), Shrinks(B, B1)
      PROVE  OnceAt(s, stamped', repeated', Q1, W1, C1, B1)
  <2>1. stamped' = stamped /\ repeated' = repeated
      BY <1>f
  <2> HIDE DEF Q, W, C, B, Q1, W1, C1, B1
  <2> QED  BY <1>b, <1>f, <2>1, FewerPlaces
<1>p. \A x \in Namespaces \X Records :
         x \in P <=> Topic(x[1]) = Topic(Subscribed) /\ x[2].message = n
    BY <1>2 DEF QueuedOf
<1>r. \A x \in Records : x \in R <=> x.signature.key = u /\ x.message = n
    BY <1>3 DEF RecordsOf
<1>5. ASSUME NEW v \in Validators, NEW ns \in Namespaces, NEW m \in Messages,
             PollWrite(v, ns, m)
      PROVE  OnceAt(s, stamped', repeated', Q1, W1, C1, B1)
  <2>0. UNCHANGED <<wire, channel, byId>>
      BY <1>5 DEF PollWrite, stream
  <2>1. CASE ns \in active[v] /\ Len(queue[v]) < QueueCap
    <3>1. PICK ts \in Times :
             queue' = [queue EXCEPT ![v] = Append(@, <<ns, Stamped(v, ns, ts, m)>>)]
        BY <1>5, <2>1 DEF PollWrite
    <3>2. PICK x : x = <<ns, Stamped(v, ns, ts, m)>>
        OBVIOUS
    <3>3. x \in Namespaces \X Records /\ x[1] = ns /\ x[2].message = m
        BY <1>t, <3>2, SignedRecordType DEF Stamped
    <3>4. PICK y : y = <<v, Topic(ns), m>>
        OBVIOUS
    <3>5. /\ stamped' = stamped \cup {y}
          /\ repeated' = IF y \in stamped THEN repeated \cup {y} ELSE repeated
        BY <1>5, <2>1, <3>4 DEF PollWrite
    <3>6. y = s <=> v = u /\ x \in P
        BY <1>1, <1>p, <3>3, <3>4
    <3>7. queue'[u] = IF v = u THEN Append(queue[u], x) ELSE queue[u]
        BY <1>a, <3>1, <3>2
    <3>8. CASE y = s
      <4>1. s \in stamped'
          BY <3>5, <3>8
      <4>2. CASE s \in stamped
        <5>1. s \in repeated'
            BY <3>5, <3>8, <4>2
        <5> QED  BY <4>1, <5>1 DEF OnceAt
      <4>3. CASE s \notin stamped
        <5>1. Nowhere(Q, W, C, B)
            BY <1>b, <4>3 DEF OnceAt
        <5>2. Q = {} /\ W1 = {} /\ C1 = {} /\ B1 = {}
            BY <2>0, <5>1 DEF Nowhere
        <5>3. AtMostOne(Q1)
            BY <1>a, <3>3, <3>6, <3>7, <3>8, <5>2, AppendHits
        <5>4. AtMostOne({})
            BY DEF AtMostOne
        <5> HIDE DEF Q, W, C, B, Q1, W1, C1, B1
        <5>5. AtOnePlace(Q1, W1, C1, B1)
            BY <5>2, <5>3, <5>4 DEF AtOnePlace
        <5> QED  BY <4>1, <5>5 DEF OnceAt
      <4> QED  BY <4>2, <4>3
    <3>9. CASE y # s
      <4>1. s \in stamped' <=> s \in stamped
          BY <3>5, <3>9
      <4>2. s \in repeated' <=> s \in repeated
          BY <3>5, <3>9
      <4>3. Q1 = Q
        <5>1. CASE v = u
          <6>1. x \notin P /\ queue'[u] = Append(queue[u], x)
              BY <3>6, <3>7, <3>9, <5>1
          <6>2. queue[u] \in Seq(Namespaces \X Records)
              BY <1>a
          <6>3. Hits(Append(queue[u], x), P) = Hits(queue[u], P)
              BY <3>3, <6>1, <6>2, AppendHits
          <6> QED  BY <6>1, <6>3
        <5>2. CASE v # u
            BY <3>7, <5>2
        <5> QED  BY <5>1, <5>2
      <4>4. W1 = W /\ C1 = C /\ B1 = B
          BY <2>0
      <4> HIDE DEF Q, W, C, B, Q1, W1, C1, B1
      <4> QED  BY <1>b, <4>1, <4>2, <4>3, <4>4 DEF OnceAt
    <3> QED  BY <3>8, <3>9
  <2>2. CASE ~(ns \in active[v] /\ Len(queue[v]) < QueueCap)
      BY <1>5, <1>b, <2>0, <2>2 DEF PollWrite
  <2> QED  BY <2>1, <2>2
<1>6. ASSUME NEW v \in Validators, PollPublish(v)
      PROVE  OnceAt(s, stamped', repeated', Q1, W1, C1, B1)
  <2>0. UNCHANGED <<channel, byId, stamped, repeated>> /\ queue[v] # <<>>
      BY <1>6 DEF PollPublish, stream
  <2>1. PICK x : x = Head(queue[v])
      OBVIOUS
  <2>2. /\ x \in Namespaces \X Records
        /\ x[2].signature = Sign(v, RecordDigest(x[1], x[2].timestamp, x[2].message))
      BY <2>0, <2>1, HeadOfQueue
  <2>3. x[2] \in Records /\ x[2].signature.key = v
      BY <2>2 DEF Sign
  <2>4. queue'[u] = IF v = u THEN Tail(queue[u]) ELSE queue[u]
      BY <1>a, <1>6 DEF PollPublish
  <2>5. Shrinks(Q, Q1)
      BY <1>a, <1>d, <2>0, <2>4, TailShrinks
  <2>6. C1 = C /\ B1 = B
      BY <2>0
  <2>7. CASE W1 = W
      BY <1>d, <1>f, <2>0, <2>5, <2>6, <2>7
  <2>8. CASE W1 # W
    <3>1. wire' # wire
        BY <2>8
    <3>2. /\ Topic(x[1]) = Topic(Subscribed)
          /\ wire' = [wire EXCEPT ![v] = Append(@, x[2])]
        BY <1>6, <2>1, <3>1 DEF PollPublish
    <3>3. wire'[u] = IF v = u THEN Append(wire[u], x[2]) ELSE wire[u]
        BY <1>a, <3>2
    <3>4. v = u /\ wire'[u] = Append(wire[u], x[2])
        BY <2>8, <3>3
    <3>5. x[2] \in R
        BY <1>a, <2>3, <2>8, <3>4, AppendHits
    <3>6. x \in P
        BY <1>p, <1>r, <2>2, <2>3, <3>2, <3>5
    <3>7. /\ Q # {}
          /\ AtMostOne(Q) => Q1 = {}
        BY <1>a, <2>0, <2>1, <2>4, <3>4, <3>6, TailHits
    <3>8. W = {} => AtMostOne(W1)
        BY <1>a, <2>3, <3>4, <3>5, AppendHits
    <3>9. AtMostOne({})
        BY DEF AtMostOne
    <3> HIDE DEF Q, W, C, B, Q1, W1, C1, B1
    <3>10. s \in stamped
        BY <1>b, <3>7 DEF OnceAt, Nowhere
    <3>11. AtOnePlace(Q, W, C, B) => AtOnePlace(Q1, W1, C1, B1)
        BY <2>6, <3>7, <3>8, <3>9 DEF AtOnePlace
    <3> QED  BY <1>b, <2>0, <3>10, <3>11 DEF OnceAt
  <2> QED  BY <2>7, <2>8
<1>7. ASSUME NEW v \in Validators, PublishFails(v)
      PROVE  OnceAt(s, stamped', repeated', Q1, W1, C1, B1)
  <2>0. UNCHANGED <<wire, channel, byId, stamped, repeated>> /\ queue[v] # <<>>
      BY <1>7 DEF PublishFails, stream
  <2>1. queue'[u] = IF v = u THEN Tail(queue[u]) ELSE queue[u]
      BY <1>a, <1>7 DEF PublishFails
  <2>2. Shrinks(Q, Q1)
      BY <1>a, <1>d, <2>0, <2>1, TailShrinks
  <2>3. W1 = W /\ C1 = C /\ B1 = B
      BY <2>0
  <2> QED  BY <1>d, <1>f, <2>0, <2>2, <2>3
<1>8. ASSUME NEW v \in Validators, PollPending(v)
      PROVE  OnceAt(s, stamped', repeated', Q1, W1, C1, B1)
  <2>0. UNCHANGED <<wire, channel, byId, stamped, repeated>>
      BY <1>8 DEF PollPending, stream
  <2>1. queue'[u] = IF v = u THEN <<>> ELSE queue[u]
      BY <1>a, <1>8 DEF PollPending
  <2>2. Shrinks(Q, Q1)
      BY <1>d, <1>e, <2>1
  <2>3. W1 = W /\ C1 = C /\ B1 = B
      BY <2>0
  <2> QED  BY <1>d, <1>f, <2>0, <2>2, <2>3
<1>9. ASSUME NEW v \in Validators, Restart(v)
      PROVE  OnceAt(s, stamped', repeated', Q1, W1, C1, B1)
  <2>0. UNCHANGED <<channel, byId, stamped, repeated>>
      BY <1>9 DEF Restart, stream
  <2>1. queue'[u] = IF v = u THEN <<>> ELSE queue[u]
      BY <1>a, <1>9 DEF Restart
  <2>2. Shrinks(Q, Q1)
      BY <1>d, <1>e, <2>1
  <2>3. PICK k \in 0 .. Len(wire[v]) : wire' = [wire EXCEPT ![v] = SubSeq(@, 1, k)]
      BY <1>9 DEF Restart
  <2>4. wire'[u] = IF v = u THEN SubSeq(wire[u], 1, k) ELSE wire[u]
      BY <1>a, <2>3
  <2>5. W1 \subseteq W
      BY <1>a, <2>4, CutHits
  <2>6. Shrinks(W, W1)
      BY <2>5, SubsetShrinks
  <2>7. C1 = C /\ B1 = B
      BY <2>0
  <2> QED  BY <1>d, <1>f, <2>0, <2>2, <2>6, <2>7
<1>10. ASSUME wire' = [v \in Validators |-> <<>>],
              UNCHANGED <<queue, channel, byId, stamped, repeated>>
       PROVE  OnceAt(s, stamped', repeated', Q1, W1, C1, B1)
  <2>1. W1 = {}
      BY <1>10, <1>e
  <2>2. Q1 = Q /\ C1 = C /\ B1 = B
      BY <1>10
  <2> QED  BY <1>d, <1>f, <1>10, <2>1, <2>2
<1>11. ASSUME NEW v \in Validators, Receive(v)
       PROVE  OnceAt(s, stamped', repeated', Q1, W1, C1, B1)
  <2>0. UNCHANGED <<queue, byId, stamped, repeated>> /\ wire[v] # <<>>
      BY <1>11 DEF Receive, publishers
  <2>1. CASE ~certifying
      BY <1>10, <1>11, <2>0, <2>1 DEF Receive, TaskReturns
  <2>2. CASE certifying
    <3>1. PICK x : x = Head(wire[v])
        OBVIOUS
    <3>2. x \in Records /\ x = wire[v][1] /\ 1 \in DOMAIN wire[v]
        BY <1>a, <2>0, <3>1, TailType
    <3>3. x.signature.key = v
        BY <3>2 DEF Genuine
    <3>4. wire'[u] = IF v = u THEN Tail(wire[u]) ELSE wire[u]
        BY <1>a, <1>11, <2>2 DEF Receive
    <3>5. channel' = channel \/ channel' = Append(channel, x)
        BY <1>11, <2>2, <3>1 DEF Receive
    <3>6. Shrinks(W, W1)
        BY <1>a, <1>d, <2>0, <3>4, TailShrinks
    <3>7. Q1 = Q /\ B1 = B
        BY <2>0
    <3>8. CASE C1 = C
        BY <1>d, <1>f, <2>0, <3>6, <3>7, <3>8
    <3>9. CASE C1 # C
      <4>1. channel' = Append(channel, x)
          BY <3>5, <3>9
      <4>2. x \in R
          BY <1>a, <3>2, <3>9, <4>1, AppendHits
      <4>3. v = u
          BY <1>r, <3>2, <3>3, <4>2
      <4>4. /\ W # {}
            /\ AtMostOne(W) => W1 = {}
          BY <1>a, <2>0, <3>1, <3>4, <4>2, <4>3, TailHits
      <4>5. C = {} => AtMostOne(C1)
          BY <1>a, <3>2, <4>1, <4>2, AppendHits
      <4>6. AtMostOne({})
          BY DEF AtMostOne
      <4> HIDE DEF Q, W, C, B, Q1, W1, C1, B1
      <4>7. s \in stamped
          BY <1>b, <4>4 DEF OnceAt, Nowhere
      <4>8. AtOnePlace(Q, W, C, B) => AtOnePlace(Q1, W1, C1, B1)
          BY <3>7, <4>4, <4>5, <4>6 DEF AtOnePlace
      <4> QED  BY <1>b, <2>0, <4>7, <4>8 DEF OnceAt
    <3> QED  BY <3>8, <3>9
  <2> QED  BY <2>1, <2>2
<1>12. CASE Aggregate
  <2>0. UNCHANGED <<queue, wire, stamped, repeated>>
      BY <1>12 DEF Aggregate, publishers
  <2>1. PICK r \in Records :
           /\ channel # <<>> /\ r = Head(channel)
           /\ channel' = Tail(channel)
           /\ KeptIn(byId', IdOf(r)) = Joined(byId, r)
           /\ \A x : x # IdOf(r) =>
                 \/ KeptIn(byId', x) = KeptIn(byId, x)
                 \/ KeptIn(byId', x) = <<>> /\ x \in KeysOf(byId) \ KeysOf(byId')
      BY <1>12, AggregateEffect
  <2>2. Shrinks(C, C1)
      BY <1>a, <2>1, TailShrinks
  <2>3. Q1 = Q /\ W1 = W
      BY <2>0
  <2>4. KeptIn(byId, id) \in Seq(Records)
      BY <1>a, KeptType
  <2>5. CASE Shrinks(B, B1)
      BY <1>d, <1>f, <2>0, <2>2, <2>3, <2>5
  <2>6. CASE ~Shrinks(B, B1)
    <3>1. id = IdOf(r)
      <4>1. B1 # B /\ B1 # {}
          BY <1>d, <2>6
      <4> QED  BY <1>e, <2>1, <4>1
    <3>2. KeptIn(byId', id) = Append(KeptIn(byId, id), r)
        BY <2>1, <3>1 DEF Joined
    <3>3. r \in R
      <4>1. B1 # B
          BY <1>d, <2>6
      <4> QED  BY <2>1, <2>4, <3>2, <4>1, AppendHits
    <3>4. /\ C # {}
          /\ AtMostOne(C) => C1 = {}
        BY <1>a, <2>1, <3>3, TailHits
    <3>5. B = {} => AtMostOne(B1)
        BY <2>1, <2>4, <3>2, <3>3, AppendHits
    <3>6. AtMostOne({})
        BY DEF AtMostOne
    <3> HIDE DEF Q, W, C, B, Q1, W1, C1, B1
    <3>7. s \in stamped
        BY <1>b, <3>4 DEF OnceAt, Nowhere
    <3>8. AtOnePlace(Q, W, C, B) => AtOnePlace(Q1, W1, C1, B1)
        BY <2>3, <3>4, <3>5, <3>6 DEF AtOnePlace
    <3> QED  BY <1>b, <2>0, <3>7, <3>8 DEF OnceAt
  <2> QED  BY <2>5, <2>6
<1>13. CASE CertifyingEnds
  <2>1. /\ channel' = <<>> /\ byId' = <<>>
        /\ UNCHANGED <<queue, wire, stamped, repeated>>
      BY <1>13 DEF CertifyingEnds, publishers
  <2>2. KeptIn(<<>>, id) = <<>>
      BY DEF KeptIn, KeysOf
  <2>3. C1 = {} /\ B1 = {}
      BY <1>e, <2>1, <2>2
  <2>4. Q1 = Q /\ W1 = W
      BY <2>1
  <2> QED  BY <1>d, <1>f, <2>1, <2>3, <2>4
<1>14. CASE UNCHANGED buffers
    BY <1>14, <1>b DEF buffers
<1>15. CASE ConnectFails
    BY <1>10, <1>15 DEF ConnectFails, TaskReturns, publishers, stream
<1> HIDE DEF Q, W, C, B, Q1, W1, C1, B1
<1> QED  BY <1>5, <1>6, <1>7, <1>8, <1>9, <1>11, <1>12, <1>13, <1>14, <1>15,
            BuffersUnchanged
         DEF Next, Poll, TaskStep

-----------------------------------------------------------------------------
(* What is certified and sent.                                             *)

(* A sound certified record stays sound when more is repeated.             *)
LEMMA CertSoundGrows ==
    ASSUME NEW c, NEW rp, NEW rp1, rp \subseteq rp1, CertSoundIn(c, rp)
    PROVE  CertSoundIn(c, rp1)
BY DEF CertSoundIn

(* Records of one message make a sound certified record if there are       *)
(* enough and no validator that did not repeat itself has two of them.     *)
LEMMA CertifiedSound ==
    ASSUME NEW b, MapSound(b), NEW r \in Records, OnTopic(r), NEW rp,
           Certifies(Joined(b, r)),
           \A v \in Validators : <<v, Topic(Subscribed), r.message>> \notin rp =>
              AtMostOne(Hits(Joined(b, r), RecordsOf(v, r.message)))
    PROVE  CertSoundIn(FromRecordsUnchecked(Joined(b, r)), rp)
<1>1. PICK records : records = Joined(b, r)
    OBVIOUS
<1>2. /\ records \in Seq(Records) /\ records # <<>>
      /\ \A k \in DOMAIN records : OnTopic(records[k]) /\ records[k].message = r.message
    BY <1>1, JoinedSound
<1>3. \A k \in DOMAIN records : records[k] \in Records
    BY <1>2, ElementOfSeq, LenProperties
<1>4. PICK c : c = FromRecordsUnchecked(records)
    OBVIOUS
<1>5. /\ Len(c.sigs) = Len(records)
      /\ DOMAIN c.sigs = DOMAIN records
      /\ \A k \in DOMAIN records : /\ c.sigs[k] = records[k].signature
                                   /\ c.timestamps[k] = records[k].timestamp
      /\ c.message = records[1].message
    BY <1>2, <1>4, FromRecords
<1>6. c.message = r.message
  <2>1. 1 \in DOMAIN records
      BY <1>2, TailType
  <2> QED  BY <1>2, <1>5, <2>1
<1>7. HasReachedQuorum(N, Len(c.sigs))
    BY <1>1, <1>5 DEF Certifies
<1>8. ASSUME NEW k \in DOMAIN c.sigs
      PROVE  \E ns \in Namespaces :
                /\ Topic(ns) = Topic(Subscribed)
                /\ c.sigs[k] = Sign(c.sigs[k].key,
                                    RecordDigest(ns, c.timestamps[k], c.message))
    BY <1>2, <1>5, <1>6, <1>8 DEF OnTopic
<1>9. ASSUME NEW k \in DOMAIN c.sigs, NEW j \in DOMAIN c.sigs,
             c.sigs[j].key = c.sigs[k].key, j # k
      PROVE  <<c.sigs[k].key, Topic(Subscribed), c.message>> \in rp
  <2>1. PICK v : v = c.sigs[k].key
      OBVIOUS
  <2>2. /\ records[k] \in Records /\ records[k].message = r.message
        /\ records[k].signature.key = v
        /\ records[j] \in Records /\ records[j].message = r.message
        /\ records[j].signature.key = v
      BY <1>2, <1>3, <1>5, <1>9, <2>1
  <2>3. v \in Validators
      BY <2>2 DEF Records, Signatures
  <2>4. {k, j} \subseteq Hits(records, RecordsOf(v, r.message))
      BY <1>5, <2>2 DEF Hits, RecordsOf
  <2>5. ~AtMostOne(Hits(records, RecordsOf(v, r.message)))
      BY <1>9, <2>4 DEF AtMostOne
  <2> QED  BY <1>1, <1>6, <2>1, <2>3, <2>5
<1> QED  BY <1>1, <1>4, <1>7, <1>8, <1>9 DEF CertSoundIn

(* Two beginnings of one sequence, the shorter of which begins the other.  *)
LEMMA PrefixEqual ==
    ASSUME NEW p \in Seq(Signatures), NEW q \in Seq(Signatures), NEW K,
           Len(p) < Len(q), SignsFirst(p, K), SignsFirst(q, K)
    PROVE  SubSeq(q, 1, Len(p)) = p
<1>1. PICK r : r = SubSeq(q, 1, Len(p))
    OBVIOUS
<1>2. /\ Len(p) \in Nat /\ Len(q) \in Nat /\ DOMAIN q = 1 .. Len(q)
      /\ Len(p) \in 0 .. Len(q)
    BY LenProperties
<1>3. \A i \in 1 .. Len(p) : q[i] \in Signatures /\ q[i] = p[i]
    BY <1>2, ElementOfSeq DEF SignsFirst
<1>4. /\ r \in Seq(Signatures)
      /\ Len(r) = IF 1 <= Len(p) THEN Len(p) - 1 + 1 ELSE 0
      /\ \A i \in 1 .. Len(p) - 1 + 1 : r[i] = q[1 + i - 1]
    BY <1>1, <1>2, <1>3, SubSeqProperties
<1>5. Len(r) = Len(p)
    BY <1>2, <1>4
<1>6. \A i \in 1 .. Len(r) : r[i] = p[i]
    BY <1>2, <1>3, <1>4, <1>5
<1> QED  BY <1>1, <1>4, <1>5, <1>6, SeqEqual

(* Every step keeps what was sent sound, and growing.                      *)
LEMMA NextStreamed ==
    ASSUME Typed, Genuine, Once', Streamed, [Next]_vars
    PROVE  Streamed'
<1>a. MapSound(byId) /\ sent \in Seq(Certs)
    BY DEF Typed, Genuine
<1>b. /\ emit # Nothing => certifying /\ CertSoundIn(emit, repeated)
      /\ \A i \in DOMAIN sent : CertSoundIn(sent[i], repeated)
      /\ Growing /\ RepeatsGrow
    BY DEF Streamed, CertSound
<1>c. SUFFICES /\ emit' # Nothing => certifying' /\ CertSoundIn(emit', repeated')
               /\ \A i \in DOMAIN sent' : CertSoundIn(sent'[i], repeated')
               /\ Growing' /\ RepeatsGrow'
    BY DEF Streamed, CertSound
<1>d. \A i \in DOMAIN sent : sent[i] \in Certs
    BY <1>a, ElementOfSeq, LenProperties
<1>1. CASE UNCHANGED <<emit, certifying, sent, byId, evicted>> /\ repeated \subseteq repeated'
  <2>1. Growing' /\ RepeatsGrow'
      BY <1>1, <1>b DEF Growing, RepeatsGrow, Kept
  <2> QED  BY <1>1, <1>b, <2>1, CertSoundGrows
<1>2. CASE Aggregate
  <2>0. UNCHANGED <<certifying, sent, repeated>>
        /\ evicted' = evicted \cup (KeysOf(byId) \ KeysOf(byId'))
      BY <1>2 DEF Aggregate, publishers
  <2>1. PICK r \in Records :
           /\ OnTopic(r) /\ certifying
           /\ KeptIn(byId', IdOf(r)) = Joined(byId, r)
           /\ \A x : x # IdOf(r) =>
                 \/ KeptIn(byId', x) = KeptIn(byId, x)
                 \/ KeptIn(byId', x) = <<>> /\ x \in KeysOf(byId) \ KeysOf(byId')
           /\ emit' = IF Certifies(Joined(byId, r))
                      THEN FromRecordsUnchecked(Joined(byId, r)) ELSE Nothing
      BY <1>2, AggregateEffect
  <2>2. PICK J : J = Joined(byId, r)
      OBVIOUS
  <2>3. /\ J \in Seq(Records) /\ J # <<>>
        /\ \A k \in DOMAIN J : J[k].message = r.message
      BY <1>a, <2>1, <2>2, JoinedSound
  <2>4. emit' # Nothing => Certifies(J) /\ emit' = FromRecordsUnchecked(J)
      BY <2>1, <2>2
  <2>5. emit' # Nothing => CertSoundIn(emit', repeated')
    <3> SUFFICES ASSUME Certifies(J)
                 PROVE  CertSoundIn(FromRecordsUnchecked(J), repeated)
        BY <2>0, <2>4
    <3>1. ASSUME NEW v \in Validators, <<v, Topic(Subscribed), r.message>> \notin repeated
          PROVE  AtMostOne(Hits(J, RecordsOf(v, r.message)))
      <4>1. r.message \in Messages
          BY DEF Records
      <4>2. AtMostOne(Hits(KeptIn(byId', MsgId(Subscribed, r.message)),
                           RecordsOf(v, r.message)))
          BY <2>0, <3>1, <4>1 DEF Once, AtOnePlace, InMap, Kept
      <4> QED  BY <2>1, <2>2, <4>2 DEF IdOf
    <3> QED  BY <1>a, <2>1, <2>2, <3>1, CertifiedSound
  <2>6. emit' # Nothing => /\ emit'.message = r.message
                           /\ Len(emit'.sigs) = Len(J)
                           /\ SignsFirst(emit'.sigs, J)
    <3> SUFFICES ASSUME NEW c, c = FromRecordsUnchecked(J)
                 PROVE  /\ c.message = r.message
                        /\ Len(c.sigs) = Len(J)
                        /\ SignsFirst(c.sigs, J)
        BY <2>4
    <3>1. /\ Len(c.sigs) = Len(J)
          /\ \A k \in DOMAIN J : c.sigs[k] = J[k].signature
          /\ c.message = J[1].message
        BY <2>3, FromRecords
    <3>2. DOMAIN J = 1 .. Len(J) /\ Len(J) \in Nat
        BY <2>3, LenProperties
    <3>3. 1 \in DOMAIN J
        BY <2>3, TailType
    <3> QED  BY <2>3, <3>1, <3>2, <3>3 DEF SignsFirst
  <2>7. ASSUME NEW i \in DOMAIN sent', MsgId(Subscribed, sent'[i].message) \notin evicted'
        PROVE  /\ SignsFirst(sent'[i].sigs, KeptIn(byId', MsgId(Subscribed, sent'[i].message)))
               /\ emit' # Nothing /\ emit'.message = sent'[i].message =>
                     Len(sent'[i].sigs) < Len(emit'.sigs)
    <3>1. PICK c : c = sent[i]
        OBVIOUS
    <3>2. PICK id : id = MsgId(Subscribed, c.message)
        OBVIOUS
    <3>3. /\ c = sent'[i] /\ i \in DOMAIN sent /\ id \notin evicted
          /\ id \notin KeysOf(byId) \ KeysOf(byId')
        BY <2>0, <2>7, <3>1, <3>2
    <3>4. PICK K : K = KeptIn(byId, id)
        OBVIOUS
    <3>5. SignsFirst(c.sigs, K)
        BY <1>b, <2>1, <3>1, <3>2, <3>3, <3>4 DEF Growing, Kept
    <3>6. /\ K \in Seq(Records) /\ c \in Certs
          /\ Len(K) \in Nat /\ DOMAIN K = 1 .. Len(K)
      <4>1. K \in Seq(Records)
          BY <1>a, <3>4, KeptType
      <4> QED  BY <1>d, <3>1, <3>3, <4>1, LenProperties
    <3>7. CASE id = IdOf(r)
      <4>1. J = Append(K, r) /\ KeptIn(byId', id) = J
          BY <2>1, <2>2, <3>4, <3>7 DEF Joined
      <4>2. Len(J) = Len(K) + 1 /\ \A k \in DOMAIN K : J[k] = K[k]
          BY <3>6, <4>1, AppendType
      <4>3. Len(c.sigs) \in Nat
          BY <3>6, LenProperties DEF Certs
      <4>4. SignsFirst(c.sigs, J) /\ Len(c.sigs) < Len(J)
          BY <3>5, <3>6, <4>2, <4>3 DEF SignsFirst
      <4> QED  BY <2>6, <3>2, <3>3, <4>1, <4>4
    <3>8. CASE id # IdOf(r)
      <4>1. KeptIn(byId', id) = K
          BY <2>1, <3>3, <3>4, <3>8
      <4>2. c.message # r.message
          BY <3>2, <3>8 DEF IdOf
      <4> QED  BY <2>6, <3>2, <3>3, <3>5, <4>1, <4>2
    <3> QED  BY <3>7, <3>8
  <2>8. Growing'
    <3>1. emit' # Nothing =>
             /\ Len(emit'.sigs) = Len(KeptIn(byId', MsgId(Subscribed, emit'.message)))
             /\ SignsFirst(emit'.sigs, KeptIn(byId', MsgId(Subscribed, emit'.message)))
        BY <2>1, <2>2, <2>6 DEF IdOf
    <3> QED  BY <2>7, <3>1 DEF Growing, Kept
  <2>9. RepeatsGrow'
      BY <1>b, <2>0 DEF RepeatsGrow
  <2> QED  BY <1>b, <2>0, <2>1, <2>5, <2>8, <2>9
<1>3. CASE Send
  <2>0. /\ certifying /\ emit # Nothing /\ sent' = Append(sent, emit) /\ emit' = Nothing
        /\ UNCHANGED <<certifying, byId, evicted, repeated>>
      BY <1>3 DEF Send, publishers
  <2>1. emit \in Certs
      BY <2>0 DEF Typed
  <2>2. PICK n : n = Len(sent) + 1
      OBVIOUS
  <2>3. /\ Len(sent) \in Nat /\ DOMAIN sent = 1 .. Len(sent)
        /\ sent' \in Seq(Certs)
        /\ \A i \in DOMAIN sent' : \/ i \in DOMAIN sent /\ sent'[i] = sent[i]
                                   \/ i = n /\ sent'[i] = emit
      BY <1>a, <2>0, <2>1, <2>2, AppendType, LenProperties
  <2>4. \A i \in DOMAIN sent' : CertSoundIn(sent'[i], repeated')
      BY <1>b, <2>0, <2>3
  <2>5. /\ SignsFirst(emit.sigs, Kept(emit.message))
        /\ \A i \in DOMAIN sent : MsgId(Subscribed, sent[i].message) \notin evicted =>
              /\ SignsFirst(sent[i].sigs, Kept(sent[i].message))
              /\ emit.message = sent[i].message => Len(sent[i].sigs) < Len(emit.sigs)
      BY <1>b, <2>0 DEF Growing
  <2>6. Growing'
    <3>1. \A i \in DOMAIN sent' : MsgId(Subscribed, sent'[i].message) \notin evicted =>
             SignsFirst(sent'[i].sigs, KeptIn(byId, MsgId(Subscribed, sent'[i].message)))
        BY <2>3, <2>5 DEF Kept
    <3> QED  BY <2>0, <3>1 DEF Growing, Kept
  <2>7. ASSUME NEW i \in DOMAIN sent', NEW j \in DOMAIN sent', i < j,
               sent'[i].message = sent'[j].message,
               MsgId(Subscribed, sent'[i].message) \notin evicted'
        PROVE  /\ Len(sent'[i].sigs) < Len(sent'[j].sigs)
               /\ sent'[i].sigs = SubSeq(sent'[j].sigs, 1, Len(sent'[i].sigs))
    <3>1. CASE j \in DOMAIN sent /\ sent'[j] = sent[j]
      <4>1. i \in DOMAIN sent /\ sent'[i] = sent[i]
          BY <2>2, <2>3, <2>7, <3>1
      <4> QED  BY <1>b, <2>0, <2>7, <3>1, <4>1 DEF RepeatsGrow
    <3>2. CASE j = n /\ sent'[j] = emit
      <4>1. i \in DOMAIN sent /\ sent'[i] = sent[i]
          BY <2>2, <2>3, <2>7, <3>2
      <4>2. PICK c : c = sent[i]
          OBVIOUS
      <4>3. PICK K : K = Kept(emit.message)
          OBVIOUS
      <4>4. /\ SignsFirst(emit.sigs, K) /\ SignsFirst(c.sigs, K)
            /\ Len(c.sigs) < Len(emit.sigs)
          BY <2>0, <2>5, <2>7, <3>2, <4>1, <4>2, <4>3
      <4>5. c.sigs \in Seq(Signatures) /\ emit.sigs \in Seq(Signatures)
          BY <1>d, <2>1, <4>1, <4>2 DEF Certs
      <4>6. PICK q : q = SubSeq(emit.sigs, 1, Len(c.sigs))
          OBVIOUS
      <4>7. q = c.sigs
          BY <4>4, <4>5, <4>6, PrefixEqual
      <4> QED  BY <3>2, <4>1, <4>2, <4>4, <4>6, <4>7
    <3> QED  BY <2>3, <3>1, <3>2
  <2>8. RepeatsGrow'
      BY <2>7 DEF RepeatsGrow
  <2> QED  BY <2>0, <2>4, <2>6, <2>8
<1>4. CASE CertifyingEnds
  <2>1. /\ certifying' = FALSE /\ emit' = Nothing
        /\ UNCHANGED <<sent, evicted, repeated>>
      BY <1>4 DEF CertifyingEnds, publishers
  <2>2. Growing'
      BY <2>1 DEF Growing
  <2>3. RepeatsGrow'
      BY <1>b, <2>1 DEF RepeatsGrow
  <2> QED  BY <1>b, <2>1, <2>2, <2>3
<1>5. ASSUME NEW v \in Validators, NEW ns \in Namespaces, NEW m \in Messages,
             PollWrite(v, ns, m)
      PROVE  /\ UNCHANGED <<emit, certifying, sent, byId, evicted>>
             /\ repeated \subseteq repeated'
    BY <1>5 DEF PollWrite, stream
<1>6. ASSUME NEW v \in Validators,
             \/ PollSubscribe(v) \/ Poll(v) \/ Restart(v)
             \/ TakePort(v) \/ Connect(v) \/ Receive(v)
      PROVE  /\ UNCHANGED <<emit, certifying, sent, byId, evicted>>
             /\ repeated \subseteq repeated'
    BY <1>6 DEF PollSubscribe, Poll, PollPublish, PublishFails, PollPending, Restart,
                TakePort, Connect, Receive, stream, publishers
<1>7. CASE \/ Subscribe \/ AskingEnds \/ ConnectFails \/ ConnectEnds
           \/ ConsumerTakes \/ ConsumerCloses \/ UNCHANGED vars
  <2>1. UNCHANGED <<emit, certifying, sent, byId, evicted>> /\ repeated \subseteq repeated'
      BY <1>7 DEF Subscribe, AskingEnds, ConnectFails, ConnectEnds, ConsumerTakes,
                  ConsumerCloses, vars, stream, publishers
  <2> QED  BY <1>1, <2>1
<1>8. ASSUME NEW v \in Validators, NEW ns \in Namespaces, PollOtherSubscribe(v, ns)
      PROVE  /\ UNCHANGED <<emit, certifying, sent, byId, evicted>>
             /\ repeated \subseteq repeated'
    BY <1>8 DEF PollOtherSubscribe, stream
<1> QED  BY <1>1, <1>2, <1>3, <1>4, <1>5, <1>6, <1>7, <1>8 DEF Next, TaskStep

-----------------------------------------------------------------------------
(* The invariant holds before the first step.                              *)
LEMMA InitSubscription ==
    ASSUME Init
    PROVE  SubscriptionInv
<1>0. {QueueCap, ChannelCap, MapCap, OutCap} \subseteq Nat \ {0} /\ MaxHandled \in Nat
      /\ MaxRestarts \in Nat
    BY CapacityAssumption, MaxHandledAssumption, RestartAssumption
<1>1. Typed
  <2>1. \A S : <<>> \in Seq(S) /\ Len(<<>>) = 0
      OBVIOUS
  <2>2. /\ queue \in [Validators -> Seq(Namespaces \X Records)]
        /\ \A v \in Validators : Len(queue[v]) <= QueueCap
        /\ wire \in [Validators -> Seq(Records)]
      BY <1>0, <2>1 DEF Init
  <2>3. restarts \in 0 .. MaxRestarts /\ handled \in 0 .. MaxHandled /\ out \in 0 .. OutCap
      BY <1>0 DEF Init
  <2>4. /\ channel \in Seq(Records) /\ Len(channel) <= ChannelCap
        /\ byId \in Seq([id : MsgIds, record : Seq(Records)]) /\ Len(byId) <= MapCap
        /\ sent \in Seq(Certs)
      BY <1>0, <2>1 DEF Init
  <2>5. certifying \in BOOLEAN /\ open \in BOOLEAN
      BY DEF Init
  <2>6. /\ active \in [Validators -> SUBSET Namespaces] /\ phase \in Phases
        /\ reqs \cup pending \cup ports \cup stale \cup connected \subseteq Validators
        /\ emit \in Certs \cup {Nothing}
      BY DEF Init, Phases
  <2> QED  BY <2>2, <2>3, <2>4, <2>5, <2>6 DEF Typed, TypeOK
<1>2. Asked
    BY DEF Init, Asked
<1>3. Genuine
  <2>1. MapSound(<<>>)
      BY <1>0 DEF MapSound, UniqueKeys
  <2> QED  BY <2>1 DEF Init, Genuine
<1>4. Once
  <2>1. ASSUME NEW v \in Validators, NEW m \in Messages
        PROVE  /\ InQueue(v, m) = {} /\ OnWire(v, m) = {}
               /\ InChannel(v, m) = {} /\ InMap(v, m) = {}
    <3>1. queue[v] = <<>> /\ wire[v] = <<>> /\ channel = <<>> /\ byId = <<>>
        BY DEF Init
    <3>2. Kept(m) = <<>>
        BY <3>1 DEF Kept, KeptIn, KeysOf
    <3> QED  BY <3>1, <3>2, NoHits DEF InQueue, OnWire, InChannel, InMap
  <2>2. Nowhere({}, {}, {}, {}) /\ AtOnePlace({}, {}, {}, {})
      BY DEF Nowhere, AtOnePlace, AtMostOne
  <2> QED  BY <2>1, <2>2 DEF Once
<1>5. Streamed
    BY DEF Init, Streamed, Growing, RepeatsGrow
<1> QED  BY <1>1, <1>2, <1>3, <1>4, <1>5 DEF SubscriptionInv

(* Every step keeps it.                                                    *)
LEMMA NextSubscription ==
    ASSUME SubscriptionInv, [Next]_vars
    PROVE  SubscriptionInv'
<1>1. Typed /\ Asked /\ Genuine /\ Once /\ Streamed
    BY DEF SubscriptionInv
<1>2. Typed'
    BY <1>1, NextTyped
<1>3. Asked'
    BY <1>1, NextAsked
<1>4. Genuine'
    BY <1>1, NextGenuine
<1>5. Once'
    BY <1>1, NextOnce
<1>6. Streamed'
    BY <1>1, <1>5, NextStreamed
<1> QED  BY <1>2, <1>3, <1>4, <1>5, <1>6 DEF SubscriptionInv

(* Publishers, client tasks and stream keep the invariant.                 *)
LEMMA SubscriptionInvariant == Spec => []SubscriptionInv
BY InitSubscription, NextSubscription, PTL DEF Spec

(* Every variable keeps its type and no queue, channel or map grows past   *)
(* its capacity, whatever validators publish and the consumer does.        *)
THEOREM SubscriptionTypes == Spec => []TypeOK
<1>1. SubscriptionInv => TypeOK
    BY DEF SubscriptionInv, Typed
<1> QED  BY <1>1, SubscriptionInvariant, PTL

(* Whenever the client is connected to a validator's publisher, the        *)
(* validator has the subscription: no interleaving of requests, answers,   *)
(* connections and restarts leaves the two apart.                          *)
THEOREM ConnectedPublishersAreActive == Spec => []ConnectedIsActive
<1>1. SubscriptionInv => ConnectedIsActive
  <2>1. ASSUME Asked, TypeOK, NEW v \in connected PROVE Subscribed \in active[v]
      BY <2>1 DEF Asked, TypeOK
  <2> QED  BY <2>1 DEF SubscriptionInv, Typed, ConnectedIsActive
<1> QED  BY <1>1, SubscriptionInvariant, PTL

(* What subscribe_certified sends has a quorum of genuine signatures, two  *)
(* by one validator only if that validator queued the message twice.       *)
THEOREM StreamIsSound == Spec => []StreamSound
<1>1. SubscriptionInv => StreamSound
    BY DEF SubscriptionInv, Streamed, StreamSound, CertSound, CertSoundIn
<1> QED  BY <1>1, SubscriptionInvariant, PTL

(* What it sends again of a message has more signatures, and begins with   *)
(* those it had, unless records_by_id evicted the message.                 *)
THEOREM StreamRepeatsGrow == Spec => []RepeatsGrow
<1>1. SubscriptionInv => RepeatsGrow
    BY DEF SubscriptionInv, Streamed
<1> QED  BY <1>1, SubscriptionInvariant, PTL

-----------------------------------------------------------------------------
(* What is lost.                                                           *)

(* A record of m by v that is still to be published, is on the wire, in    *)
(* the channel, in the map.                                                *)
Queued(q, m) == \E k \in DOMAIN q : q[k][1] = Subscribed /\ q[k][2].message = m
HoldsBy(q, v, m) == \E k \in DOMAIN q : q[k].message = m /\ q[k].signature.key = v
MapHolds(b, v, m) == \E e \in DOMAIN b : HoldsBy(b[e].record, v, m)

(* Carried in these terms.                                                 *)
LEMMA CarriedParts ==
    ASSUME NEW m, NEW v \in Validators
    PROVE  v \in Carried(m) <=> \/ v \in connected /\ Queued(queue[v], m)
                                \/ HoldsMessage(wire[v], m)
                                \/ HoldsBy(channel, v, m)
                                \/ MapHolds(byId, v, m)
BY DEF Carried, Queued, HoldsBy, MapHolds

(* What a longer sequence has.                                             *)
LEMMA AppendHolds ==
    ASSUME NEW q \in Seq(Records), NEW x \in Records, NEW m,
           HoldsMessage(q, m) \/ x.message = m
    PROVE  HoldsMessage(Append(q, x), m)
<1>1. PICK r : r = Append(q, x)
    OBVIOUS
<1>2. /\ \E k \in DOMAIN r : r[k] = x
      /\ \A i \in DOMAIN q : i \in DOMAIN r /\ r[i] = q[i]
    BY <1>1, AppendType
<1> QED  BY <1>1, <1>2 DEF HoldsMessage

(* The same, of one validator.                                             *)
LEMMA AppendHoldsBy ==
    ASSUME NEW q \in Seq(Records), NEW x \in Records, NEW v, NEW m,
           HoldsBy(q, v, m) \/ (x.message = m /\ x.signature.key = v)
    PROVE  HoldsBy(Append(q, x), v, m)
<1>1. PICK r : r = Append(q, x)
    OBVIOUS
<1>2. /\ \E k \in DOMAIN r : r[k] = x
      /\ \A i \in DOMAIN q : i \in DOMAIN r /\ r[i] = q[i]
    BY <1>1, AppendType
<1> QED  BY <1>1, <1>2 DEF HoldsBy

(* What the first and the others of a sequence have.                       *)
LEMMA TailElements ==
    ASSUME NEW S, NEW q \in Seq(S), q # <<>>, NEW k \in DOMAIN q
    PROVE  q[k] = Head(q) \/ \E i \in DOMAIN Tail(q) : Tail(q)[i] = q[k]
<1>1. PICK r : r = Tail(q)
    OBVIOUS
<1>2. /\ Len(r) = Len(q) - 1 /\ Len(q) \in Nat \ {0} /\ r \in Seq(S)
      /\ \A i \in 1 .. Len(r) : r[i] = q[i + 1]
      /\ Head(q) = q[1]
    BY <1>1, HeadTailProperties, LenProperties
<1>3. DOMAIN q = 1 .. Len(q) /\ DOMAIN r = 1 .. Len(q) - 1
    BY <1>2, LenProperties
<1>4. CASE k = 1
    BY <1>2, <1>4
<1>5. CASE k # 1
  <2>1. k - 1 \in DOMAIN r /\ r[k - 1] = q[k]
      BY <1>2, <1>3, <1>5
  <2> QED  BY <1>1, <2>1
<1> QED  BY <1>4, <1>5

(* The map has a record of m exactly if it has it under the digest of m.   *)
LEMMA MapHoldsKept ==
    ASSUME NEW b, MapSound(b), NEW v, NEW m
    PROVE  MapHolds(b, v, m) <=> HoldsBy(KeptIn(b, MsgId(Subscribed, m)), v, m)
<1>1. ASSUME MapHolds(b, v, m) PROVE HoldsBy(KeptIn(b, MsgId(Subscribed, m)), v, m)
  <2>1. PICK e \in DOMAIN b : HoldsBy(b[e].record, v, m)
      BY <1>1 DEF MapHolds
  <2>2. b[e].id = MsgId(Subscribed, m)
      BY <2>1 DEF HoldsBy, MapSound
  <2> QED  BY <2>1, <2>2, KeptEntry
<1>2. ASSUME HoldsBy(KeptIn(b, MsgId(Subscribed, m)), v, m) PROVE MapHolds(b, v, m)
  <2>1. MsgId(Subscribed, m) \in KeysOf(b)
      BY <1>2 DEF HoldsBy, KeptIn
  <2>2. b \in Seq(MapEntries)
      BY DEF MapSound
  <2>3. PICK e \in DOMAIN b : KeptIn(b, MsgId(Subscribed, m)) = b[e].record
      BY <2>1, <2>2, MapPlace DEF KeptIn
  <2> QED  BY <1>2, <2>3 DEF MapHolds
<1> QED  BY <1>1, <1>2

(* The steps that may lose a record of m that validator v has signed.      *)
LostAt(m, v) ==
    \/ PollPending(v)
    \/ PublishFails(v) /\ Head(queue[v])[2].message = m
    \/ Restart(v)
    \/ /\ Receive(v)
       /\ Len(channel) = ChannelCap /\ Head(wire[v]).message = m
    \/ /\ Aggregate
       /\ Len(byId) = MapCap /\ byId[1].id = MsgId(Subscribed, m)
       /\ MsgId(Subscribed, Head(channel).message) \notin KeysOf(byId)
    \/ ConnectFails
    \/ ~certifying /\ \E w \in Validators : Receive(w)
    \/ CertifyingEnds

(* Whatever a step loses, it loses at one of the limits.                   *)
LEMMA NextLosesAtLimits ==
    ASSUME SubscriptionInv, Next, NEW m \in Messages, NEW v \in Carried(m) \ Carried(m)'
    PROVE  LostAt(m, v)
<1>a. /\ queue \in [Validators -> Seq(Namespaces \X Records)]
      /\ wire \in [Validators -> Seq(Records)]
      /\ channel \in Seq(Records) /\ Len(channel) <= ChannelCap
      /\ restarts \in Nat
      /\ MapSound(byId) /\ Typed /\ Genuine
    BY RestartAssumption DEF SubscriptionInv, Typed, TypeOK, Genuine
<1>v. v \in Validators
    BY DEF Carried
<1>b. \/ v \in connected /\ Queued(queue[v], m)
      \/ HoldsMessage(wire[v], m)
      \/ HoldsBy(channel, v, m)
      \/ MapHolds(byId, v, m)
    BY <1>v, CarriedParts
<1>c. /\ ~(v \in connected' /\ Queued(queue'[v], m))
      /\ ~HoldsMessage(wire'[v], m)
      /\ ~HoldsBy(channel', v, m)
      /\ ~MapHolds(byId', v, m)
  <2>1. v \notin Carried(m)'
      OBVIOUS
  <2> QED  BY <1>v, <2>1 DEF Carried, Queued, HoldsBy, MapHolds
<1>1. ASSUME UNCHANGED <<wire, channel, byId>>, connected \subseteq connected',
             Queued(queue[v], m) => Queued(queue'[v], m)
      PROVE  FALSE
    BY <1>1, <1>b, <1>c
<1>2. ASSUME NEW w \in Validators, NEW ns \in Namespaces, NEW n \in Messages,
             PollWrite(w, ns, n)
      PROVE  FALSE
  <2>1. UNCHANGED <<wire, channel, byId, connected>>
      BY <1>2 DEF PollWrite, stream
  <2>2. Queued(queue[v], m) => Queued(queue'[v], m)
    <3>1. CASE queue' = queue
        BY <3>1
    <3>2. CASE queue' # queue
      <4>1. PICK ts \in Times :
               queue' = [queue EXCEPT ![w] = Append(@, <<ns, Stamped(w, ns, ts, n)>>)]
          BY <1>2, <3>2 DEF PollWrite
      <4>2. PICK x : x = <<ns, Stamped(w, ns, ts, n)>>
          OBVIOUS
      <4>3. x \in Namespaces \X Records
          BY <4>2, SignedRecordType, ClockAssumption DEF Times
      <4>4. queue'[v] = queue[v] \/ queue'[v] = Append(queue[v], x)
          BY <1>a, <1>v, <4>1, <4>2
      <4>5. queue[v] \in Seq(Namespaces \X Records)
          BY <1>a, <1>v
      <4>6. \A i \in DOMAIN queue[v] : i \in DOMAIN queue'[v] /\ queue'[v][i] = queue[v][i]
          BY <4>3, <4>4, <4>5, AppendType
      <4> QED  BY <4>6 DEF Queued
    <3> QED  BY <3>1, <3>2
  <2> QED  BY <1>1, <2>1, <2>2
<1>3. ASSUME NEW w \in Validators, PollPublish(w)
      PROVE  FALSE
  <2>0. UNCHANGED <<channel, byId, connected>> /\ queue[w] # <<>>
      BY <1>3 DEF PollPublish, stream
  <2>1. PICK x : x = Head(queue[w])
      OBVIOUS
  <2>2. x \in Namespaces \X Records /\ x[2] \in Records
      BY <1>a, <2>0, <2>1, HeadOfQueue
  <2>3. /\ queue'[v] = IF v = w THEN Tail(queue[v]) ELSE queue[v]
        /\ wire' = IF w \in connected /\ Topic(x[1]) = Topic(Subscribed)
                   THEN [wire EXCEPT ![w] = Append(@, x[2])] ELSE wire
      BY <1>3, <1>a, <1>v, <2>1 DEF PollPublish
  <2>4. wire'[v] = wire[v] \/ wire'[v] = Append(wire[v], x[2])
      BY <1>a, <1>v, <2>3
  <2>5. HoldsMessage(wire[v], m) => HoldsMessage(wire'[v], m)
      BY <1>a, <1>v, <2>2, <2>4, AppendHolds
  <2>6. v \in connected /\ Queued(queue[v], m) /\ v = w
      BY <1>b, <1>c, <2>0, <2>3, <2>5
  <2>7. PICK k \in DOMAIN queue[v] :
           queue[v][k][1] = Subscribed /\ queue[v][k][2].message = m
      BY <2>6 DEF Queued
  <2>8. queue[v] \in Seq(Namespaces \X Records)
      BY <1>a, <1>v
  <2>9. CASE queue[v][k] = x
    <3>1. wire'[v] = Append(wire[v], x[2])
        BY <1>a, <1>v, <2>3, <2>6, <2>7, <2>9
    <3> QED  BY <1>a, <1>c, <1>v, <2>2, <2>7, <2>9, <3>1, AppendHolds
  <2>10. CASE queue[v][k] # x
    <3>1. PICK i \in DOMAIN Tail(queue[v]) : Tail(queue[v])[i] = queue[v][k]
        BY <2>0, <2>1, <2>6, <2>8, <2>10, TailElements
    <3>2. Queued(queue'[v], m)
        BY <2>3, <2>6, <2>7, <3>1 DEF Queued
    <3> QED  BY <1>c, <2>0, <2>6, <3>2
  <2> QED  BY <2>9, <2>10
<1>4. ASSUME NEW w \in Validators, PublishFails(w)
      PROVE  w = v /\ Head(queue[v])[2].message = m
  <2>1. /\ UNCHANGED <<wire, channel, byId, connected>> /\ queue[w] # <<>>
        /\ queue'[v] = IF v = w THEN Tail(queue[v]) ELSE queue[v]
      BY <1>4, <1>a, <1>v DEF PublishFails, stream
  <2>2. w = v
      BY <1>1, <2>1
  <2>3. SUFFICES ASSUME Head(queue[v])[2].message # m PROVE FALSE
      BY <2>2
  <2>4. Queued(queue[v], m)
      BY <1>b, <1>c, <2>1
  <2>5. PICK k \in DOMAIN queue[v] :
           queue[v][k][1] = Subscribed /\ queue[v][k][2].message = m
      BY <2>4 DEF Queued
  <2>6. queue[v] \in Seq(Namespaces \X Records) /\ queue[v][k] # Head(queue[v])
      BY <1>a, <1>v, <2>3, <2>5
  <2>7. PICK i \in DOMAIN Tail(queue[v]) : Tail(queue[v])[i] = queue[v][k]
      BY <2>1, <2>2, <2>6, TailElements
  <2>8. Queued(queue'[v], m)
      BY <2>1, <2>2, <2>5, <2>7 DEF Queued
  <2> QED  BY <1>1, <2>1, <2>8
<1>5. ASSUME NEW w \in Validators, PollPending(w), w # v
      PROVE  FALSE
  <2>1. UNCHANGED <<wire, channel, byId, connected>> /\ queue'[v] = queue[v]
      BY <1>5, <1>a, <1>v DEF PollPending, stream
  <2> QED  BY <1>1, <2>1
<1>6. ASSUME NEW w \in Validators, Restart(w), w # v
      PROVE  FALSE
  <2>1. /\ UNCHANGED <<channel, byId>> /\ connected' = connected \ {w}
        /\ queue'[v] = queue[v] /\ wire'[v] = wire[v]
      BY <1>6, <1>a, <1>v DEF Restart, stream
  <2> QED  BY <1>6, <1>b, <1>c, <2>1
<1>7. ASSUME NEW w \in Validators, Connect(w)
      PROVE  FALSE
  <2>1. UNCHANGED <<queue, wire, channel, byId>> /\ connected \subseteq connected'
      BY <1>7 DEF Connect, publishers, stream
  <2> QED  BY <1>1, <2>1
<1>8. ASSUME NEW w \in Validators, Receive(w)
      PROVE  \/ ~certifying
             \/ w = v /\ Len(channel) = ChannelCap /\ Head(wire[v]).message = m
  <2> SUFFICES ASSUME certifying
               PROVE  w = v /\ Len(channel) = ChannelCap /\ Head(wire[v]).message = m
      OBVIOUS
  <2>0. /\ UNCHANGED <<queue, byId>> /\ wire[w] # <<>>
        /\ connected' = connected
      BY <1>8 DEF Receive, publishers
  <2>1. PICK x : x = Head(wire[w])
      OBVIOUS
  <2>2. x \in Records /\ x = wire[w][1] /\ 1 \in DOMAIN wire[w]
      BY <1>a, <2>0, <2>1, TailType
  <2>3. x.signature.key = w
      BY <1>a, <2>2 DEF Genuine
  <2>4. /\ channel' = IF Len(channel) < ChannelCap THEN Append(channel, x) ELSE channel
        /\ wire'[v] = IF v = w THEN Tail(wire[v]) ELSE wire[v]
      BY <1>8, <1>a, <1>v, <2>0, <2>1 DEF Receive
  <2>5. HoldsBy(channel, v, m) => HoldsBy(channel', v, m)
      BY <1>a, <2>2, <2>4, AppendHoldsBy
  <2>6. HoldsMessage(wire[v], m) /\ v = w
      BY <1>b, <1>c, <2>0, <2>4, <2>5
  <2>7. x.message = m
    <3> SUFFICES ASSUME x.message # m PROVE FALSE
        OBVIOUS
    <3>1. PICK k \in DOMAIN wire[v] : wire[v][k].message = m
        BY <2>6 DEF HoldsMessage
    <3>2. wire[v] \in Seq(Records) /\ wire[v] # <<>> /\ wire[v][k] # Head(wire[v])
        BY <1>a, <1>v, <2>0, <2>1, <2>6, <3>1
    <3>3. PICK i \in DOMAIN Tail(wire[v]) : Tail(wire[v])[i] = wire[v][k]
        BY <3>2, TailElements
    <3>4. HoldsMessage(wire'[v], m)
        BY <2>4, <2>6, <3>1, <3>3 DEF HoldsMessage
    <3> QED  BY <1>c, <3>4
  <2>8. Len(channel) = ChannelCap
    <3>1. Len(channel) \in Nat /\ ChannelCap \in Nat
        BY <1>a, LenProperties, CapacityAssumption
    <3>2. ~(Len(channel) < ChannelCap)
        BY <1>a, <1>c, <2>2, <2>3, <2>4, <2>6, <2>7, AppendHoldsBy
    <3> QED  BY <1>a, <3>1, <3>2
  <2> QED  BY <2>1, <2>6, <2>7, <2>8
<1>9. ASSUME Aggregate
      PROVE  /\ Len(byId) = MapCap /\ byId[1].id = MsgId(Subscribed, m)
             /\ MsgId(Subscribed, Head(channel).message) \notin KeysOf(byId)
  <2>0. UNCHANGED <<queue, wire, connected>>
      BY <1>9 DEF Aggregate, publishers
  <2>1. PICK r \in Records :
           /\ channel # <<>> /\ r = Head(channel)
           /\ channel' = Tail(channel)
           /\ MapSound(byId')
           /\ KeptIn(byId', IdOf(r)) = Joined(byId, r)
           /\ \A x : x # IdOf(r) =>
                 \/ KeptIn(byId', x) = KeptIn(byId, x)
                 \/ KeptIn(byId', x) = <<>> /\ x \in KeysOf(byId) \ KeysOf(byId')
      BY <1>9, <1>a, AggregateEffect
  <2>2. PICK id : id = MsgId(Subscribed, m)
      OBVIOUS
  <2>3. ~HoldsBy(KeptIn(byId', id), v, m)
      BY <1>c, <2>1, <2>2, MapHoldsKept
  <2>4. KeptIn(byId, id) \in Seq(Records)
      BY <1>a, KeptType
  <2>5. id = IdOf(r) => /\ ~HoldsBy(KeptIn(byId, id), v, m)
                        /\ ~(r.message = m /\ r.signature.key = v)
    <3> SUFFICES ASSUME id = IdOf(r)
                 PROVE  /\ ~HoldsBy(KeptIn(byId, id), v, m)
                        /\ ~(r.message = m /\ r.signature.key = v)
        OBVIOUS
    <3>1. KeptIn(byId', id) = Append(KeptIn(byId, id), r)
        BY <2>1 DEF Joined
    <3> QED  BY <2>3, <2>4, <3>1, AppendHoldsBy
  <2>6. CASE HoldsBy(channel, v, m)
    <3>1. PICK k \in DOMAIN channel : channel[k].message = m /\ channel[k].signature.key = v
        BY <2>6 DEF HoldsBy
    <3>2. channel[k] # r
        BY <2>2, <2>5, <3>1 DEF IdOf
    <3>3. PICK i \in DOMAIN Tail(channel) : Tail(channel)[i] = channel[k]
        BY <1>a, <2>1, <3>2, TailElements
    <3>4. HoldsBy(channel', v, m)
        BY <2>1, <3>1, <3>3 DEF HoldsBy
    <3> QED  BY <1>c, <3>4
  <2>7. CASE MapHolds(byId, v, m)
    <3>1. HoldsBy(KeptIn(byId, id), v, m)
        BY <1>a, <2>2, <2>7, MapHoldsKept
    <3>2. id # IdOf(r) /\ KeptIn(byId', id) # KeptIn(byId, id)
        BY <2>3, <2>5, <3>1
    <3>3. id \in KeysOf(byId) \ KeysOf(byId')
        BY <2>1, <3>2
    <3>4. \E records : byId' = MapAfter(byId, IdOf(r), records)
        BY <1>9, <2>1 DEF Aggregate, MapAfter, IdOf
    <3>5. MapSound(byId)
        BY <1>a
    <3>6. IdOf(r) \notin KeysOf(byId) /\ Len(byId) = MapCap /\ byId[1].id = id
        BY <3>3, <3>4, <3>5, MapAfterEvicts
    <3> QED  BY <2>1, <2>2, <3>6 DEF IdOf
  <2> QED  BY <1>b, <1>c, <2>0, <2>6, <2>7
<1>12. CASE \/ Subscribe \/ AskingEnds \/ ConnectEnds
            \/ Send \/ ConsumerTakes \/ ConsumerCloses
  <2>1. UNCHANGED <<queue, wire, channel, byId, connected>>
      BY <1>12 DEF Subscribe, AskingEnds, ConnectEnds, Send, ConsumerTakes,
                   ConsumerCloses, publishers, stream
  <2> QED  BY <1>1, <2>1
<1>13. ASSUME NEW w \in Validators, PollSubscribe(w) \/ TakePort(w)
       PROVE  FALSE
  <2>1. UNCHANGED <<queue, wire, channel, byId, connected>>
      BY <1>13 DEF PollSubscribe, TakePort, publishers, stream
  <2> QED  BY <1>1, <2>1
<1>14. ASSUME NEW w \in Validators, NEW ns \in Namespaces, PollOtherSubscribe(w, ns)
       PROVE  FALSE
  <2>1. UNCHANGED <<queue, wire, channel, byId, connected>>
      BY <1>14 DEF PollOtherSubscribe, stream
  <2> QED  BY <1>1, <2>1
<1> QED  BY <1>2, <1>3, <1>4, <1>5, <1>6, <1>7, <1>8, <1>9, <1>12, <1>13, <1>14
         DEF Next, Poll, TaskStep, LostAt

(* A record that a connected validator has queued, or that is anywhere     *)
(* between it and the map, is lost by no step but those the code has for   *)
(* it: a poll that ends or fails to publish the record, a restart, a full  *)
(* channel that refuses it, the eviction of its message as the oldest of a *)
(* full map, or the return of a task.                                      *)
THEOREM RecordsLostOnlyAtLimits == Spec => LostOnlyAtLimits
<1>1. SubscriptionInv /\ [Next]_vars =>
         [\A m \in Messages : \A v \in Carried(m) \ Carried(m)' :
             \/ PollPending(v)
             \/ PublishFails(v) /\ Head(queue[v])[2].message = m
             \/ Restart(v)
             \/ /\ Receive(v)
                /\ Len(channel) = ChannelCap /\ Head(wire[v]).message = m
             \/ /\ Aggregate
                /\ Len(byId) = MapCap /\ byId[1].id = MsgId(Subscribed, m)
                /\ MsgId(Subscribed, Head(channel).message) \notin KeysOf(byId)
             \/ ConnectFails
             \/ ~certifying /\ \E w \in Validators : Receive(w)
             \/ CertifyingEnds]_vars
    BY NextLosesAtLimits DEF LostAt
<1> QED  BY <1>1, SubscriptionInvariant, PTL DEF Spec, LostOnlyAtLimits
=============================================================================
