--------------------------- MODULE LogRead_proofs ---------------------------
(***************************************************************************)
(* What read and read_certified return is sound, and complete when no      *)
(* answer is lost, for any number of validators, writes and restarts.      *)
(***************************************************************************)
EXTENDS LogRead, Protocol_proofs

-----------------------------------------------------------------------------
(* The inductive invariant.                                                *)

(* Types, and what the phases say about the rest of the state.             *)
Typed ==
    /\ TypeOK
    /\ phase # "idle" => range \in Ranges
    /\ phase = "asking" => cursor < Len(log)

Phased ==
    /\ phase = "idle" => kept = {} /\ \A v \in Validators : tasks[v] = NoReply
    /\ phase \in {"idle", "reading"} => log = <<>>
    /\ phase = "reading" => \A v \in pending : tasks[v] = NoReply
    /\ phase \in {"idle", "reading", "joining"} => cursor = 0 /\ certified = <<>>
    /\ LogReturned => \A v \in Validators : tasks[v] = NoReply
    /\ phase = "done" /\ range.kind = "read_certified" => cursor = Len(log)
    /\ phase # "asking" => /\ available = EmptyTally /\ unavailable = EmptyTally
                           /\ message = NoMessage

(* Stores of correct validators are sound.                                 *)
StoresSound ==
    \A v \in Validators \ Faulty : \A ns \in Namespaces : SoundEntries(v, ns, store[v][ns])

(* A record of the call's namespace that v signed.                         *)
SignedBy(v, r) ==
    Verify(r.signature, v, RecordDigest(range.ns, r.timestamp, r.message))

(* A sequence without repetition.                                          *)
Distinct(q) == \A i, j \in DOMAIN q : q[i] = q[j] => i = j

(* The answer of a correct validator.                                      *)
SoundAnswer(v, q) ==
    /\ \A i \in DOMAIN q : SignedBy(v, q[i]) /\ InRange(q[i], range.start, range.end)
    /\ Distinct(q)

(* What is in a log that has been joined, but for its order.               *)
SoundLog(q) ==
    \A i \in DOMAIN q :
        LET v == q[i].signature.key
        IN  /\ SignedBy(v, q[i])
            /\ v \notin Faulty => /\ InRange(q[i], range.start, range.end)
                                  /\ \A j \in DOMAIN q : q[j] = q[i] => i = j

SortedLog(q) == \A i, j \in DOMAIN q : i < j => q[i].timestamp <= q[j].timestamp

(* Each log is sound and is joined once.                                   *)
Gathering ==
    /\ \A v \in Validators \ Faulty : tasks[v] # NoReply => SoundAnswer(v, tasks[v].records)
    /\ SoundLog(log)
    /\ \A i \in DOMAIN log : tasks[log[i].signature.key] = NoReply
    /\ LogReturned => SortedLog(log)

Has(q, r) == \E i \in DOMAIN q : q[i] = r

(* A record that was kept is with its validator, in a task or in the log.  *)
Keeping ==
    \A p \in kept :
        /\ p[2] \in RecordsIn(store[p[1]][range.ns])
        /\ InRange(p[2], range.start, range.end)
        /\ ~missed => \/ phase = "reading" /\ p[1] \in pending
                      \/ tasks[p[1]] # NoReply /\ Has(tasks[p[1]].records, p[2])
                      \/ Has(log, p[2])

(* The message that read_certified asks for.                               *)
Asked == log[cursor + 1].message

(* Each answer is counted once, for what it says, and a validator that has *)
(* kept a record of the message says so.                                   *)
Counted(a, u, msg, waiting) ==
    /\ \A s \in a.sigs :
          s = Sign(s.key, RecordDigest(range.ns, a.timestamps[s.key], Asked))
    /\ a.votes = Cardinality(Voters(a))
    /\ u.votes = Cardinality(Voters(u))
    /\ Voters(a) \cap Voters(u) = {}
    /\ Voters(a) \cap waiting = {}
    /\ Voters(u) \cap waiting = {}
    /\ a.sigs # {} => msg = Asked
    /\ ~missed => \A p \in kept : p[2].message = Asked =>
                     p[1] \notin Voters(u) /\ p[1] \in waiting \cup Voters(a)

Counting == phase = "asking" => Counted(available, unavailable, message, pending)

(* The validators that have kept a record of m.                            *)
Keepers(m) == {p[1] : p \in {q \in kept : q[2].message = m}}

(* What read_certified has passed, it has certified if it could.           *)
Certifying ==
    ~missed /\ N # 4 =>
        \A k \in 1 .. cursor :
            LET K == Keepers(log[k].message)
            IN  HasReachedQuorum(N, Cardinality(K)) /\ K # {}
                   => \E i \in DOMAIN certified : certified[i].message = log[k].message

LogReadInv ==
    /\ Typed /\ Phased /\ StoresSound /\ Gathering /\ Keeping
    /\ Counting /\ Certifying /\ CertifiedFollowsLog

-----------------------------------------------------------------------------
(* Counting places.                                                        *)

(* An injection into as many numbers as its domain has elements reaches    *)
(* each of them.                                                           *)
LEMMA RanksReached ==
    ASSUME NEW S, IsFiniteSet(S), NEW f \in [S -> 1 .. Cardinality(S)],
           \A x, y \in S : f[x] = f[y] => x = y
    PROVE  \A p \in 1 .. Cardinality(S) : \E x \in S : f[x] = p
<1>1. PICK n \in Nat : n = Cardinality(S)
    BY FS_CardinalityType
<1>2. IsFiniteSet(1 .. n) /\ Cardinality(1 .. n) = n
    BY FS_Interval
<1>3. f \in Injection(S, 1 .. n)
    BY <1>1 DEF Injection, IsInjective
<1>4. f \in Surjection(S, 1 .. n)
    BY <1>1, <1>2, <1>3, FS_Injection
<1> QED  BY <1>1, <1>4 DEF Surjection

(* A record of a sequence of records.                                      *)
LEMMA RecordAt ==
    ASSUME NEW q \in Seq(Records), NEW i \in DOMAIN q
    PROVE  /\ q[i] \in Records /\ q[i].timestamp \in Nat /\ q[i].message \in Messages
           /\ q[i].signature.key \in Validators /\ i \in Nat
<1>1. i \in 1 .. Len(q) /\ Len(q) \in Nat
    BY LenProperties
<1>2. q[i] \in Records
    BY <1>1, ElementOfSeq
<1> QED  BY <1>1, <1>2 DEF Records, Signatures

(* How many elements of a set of numbers are at most i.                    *)
LEMMA CountUpTo ==
    ASSUME NEW S \in SUBSET Nat, IsFiniteSet(S)
    PROVE  /\ Cardinality(S) \in Nat
           /\ \A i \in S : Cardinality({j \in S : j <= i}) \in 1 .. Cardinality(S)
           /\ \A i, k \in S : i < k =>
                 Cardinality({j \in S : j <= i}) < Cardinality({j \in S : j <= k})
<1> DEFINE Upto(i) == {j \in S : j <= i}
<1>1. Cardinality(S) \in Nat
    BY FS_CardinalityType
<1>2. ASSUME NEW i \in S
      PROVE  /\ IsFiniteSet(Upto(i)) /\ Cardinality(Upto(i)) \in Nat
             /\ Cardinality(Upto(i)) <= Cardinality(S) /\ Cardinality(Upto(i)) # 0
  <2>1. Upto(i) \in SUBSET S /\ i \in Upto(i)
      OBVIOUS
  <2> HIDE DEF Upto
  <2>2. IsFiniteSet(Upto(i)) /\ Cardinality(Upto(i)) <= Cardinality(S)
      BY <2>1, FS_Subset
  <2>3. Cardinality(Upto(i)) # 0
      BY <2>1, <2>2, FS_EmptySet
  <2> QED  BY <2>2, <2>3, FS_CardinalityType
<1>3. ASSUME NEW i \in S, NEW k \in S, i < k
      PROVE  Cardinality(Upto(i)) < Cardinality(Upto(k))
  <2>0. k <= k /\ ~(k <= i) /\ \A j \in S : j <= i => j <= k
    <3>1. i \in Nat /\ k \in Nat /\ \A j \in S : j \in Nat
        OBVIOUS
    <3> QED  BY <1>3, <3>1
  <2>1. Upto(i) \in SUBSET Upto(k) /\ k \in Upto(k) /\ k \notin Upto(i)
      BY <2>0
  <2>2. IsFiniteSet(Upto(k)) /\ Cardinality(Upto(k)) \in Nat /\ Cardinality(Upto(i)) \in Nat
      BY <1>2
  <2> HIDE DEF Upto
  <2>3. /\ Cardinality(Upto(i)) <= Cardinality(Upto(k))
        /\ Cardinality(Upto(k)) = Cardinality(Upto(i)) => Upto(k) = Upto(i)
      BY <2>1, <2>2, FS_Subset
  <2> QED  BY <2>1, <2>2, <2>3
<1> HIDE DEF Upto
<1>4. /\ \A i \in S : Cardinality(Upto(i)) \in 1 .. Cardinality(S)
      /\ \A i, k \in S : i < k => Cardinality(Upto(i)) < Cardinality(Upto(k))
    BY <1>1, <1>2, <1>3
<1> QED  BY <1>1, <1>4 DEF Upto

(* InMemoryStore::read_range yields the records in the range, each once.   *)
LEMMA RangeOfRecords ==
    ASSUME NEW entries \in Seq(Entries), NEW start, NEW end
    PROVE  LET q == RangeOf(entries, start, end)
           IN  /\ q \in Seq(Records)
               /\ \A p \in DOMAIN q : \E i \in DOMAIN entries :
                     q[p] = entries[i].record /\ InRange(q[p], start, end)
               /\ \A i \in DOMAIN entries : InRange(entries[i].record, start, end)
                     => \E p \in DOMAIN q : q[p] = entries[i].record
               /\ \A p, r \in DOMAIN q : p # r =>
                     \E i, j \in DOMAIN entries :
                        i # j /\ q[p] = entries[i].record /\ q[r] = entries[j].record
<1> DEFINE hits == {i \in DOMAIN entries : InRange(entries[i].record, start, end)}
           f == [i \in hits |-> Cardinality({j \in hits : j <= i})]
           Nth(p) == CHOOSE i \in hits : Cardinality({j \in hits : j <= i}) = p
           q == [p \in 1 .. Cardinality(hits) |-> entries[Nth(p)].record]
<1>1. RangeOf(entries, start, end) = q
    BY DEF RangeOf
<1>2. DOMAIN entries = 1 .. Len(entries) /\ Len(entries) \in Nat
    BY LenProperties
<1>3. hits \in SUBSET Nat /\ IsFiniteSet(hits)
  <2>1. hits \in SUBSET (1 .. Len(entries))
      BY <1>2
  <2>2. IsFiniteSet(1 .. Len(entries))
      BY <1>2, FS_Interval
  <2> HIDE DEF hits
  <2>3. IsFiniteSet(hits)
      BY <2>1, <2>2, FS_Subset
  <2>4. hits \in SUBSET Nat
      BY <1>2, <2>1
  <2> QED  BY <2>3, <2>4
<1>4. \A i \in hits : i \in DOMAIN entries /\ InRange(entries[i].record, start, end)
    OBVIOUS
<1>5. \A i \in DOMAIN entries : InRange(entries[i].record, start, end) => i \in hits
    OBVIOUS
<1> HIDE DEF hits
<1>6. PICK n \in Nat : n = Cardinality(hits)
    BY <1>3, FS_CardinalityType
<1>7. f \in [hits -> 1 .. n] /\ \A i, k \in hits : i < k => f[i] < f[k]
    BY <1>3, <1>6, CountUpTo
<1>8. \A i \in hits : f[i] = Cardinality({j \in hits : j <= i})
    OBVIOUS
<1>9. \A i, k \in hits : f[i] = f[k] => i = k
  <2> HIDE DEF f
  <2>1. SUFFICES ASSUME NEW i \in hits, NEW k \in hits, f[i] = f[k] PROVE i = k
      OBVIOUS
  <2>2. i \in Nat /\ k \in Nat /\ f[i] \in Nat
      BY <1>3, <1>7
  <2>3. ~(i < k) /\ ~(k < i)
      BY <1>7, <2>1, <2>2
  <2> QED  BY <2>2, <2>3
<1>10. \A p \in 1 .. n : \E i \in hits : f[i] = p
  <2> HIDE DEF f
  <2>1. f \in [hits -> 1 .. Cardinality(hits)]
      BY <1>6, <1>7
  <2>2. \A p \in 1 .. Cardinality(hits) : \E i \in hits : f[i] = p
      BY <1>3, <1>9, <2>1, RanksReached
  <2> QED  BY <1>6, <2>2
<1> HIDE DEF f
<1>11. ASSUME NEW p \in 1 .. n PROVE Nth(p) \in hits /\ f[Nth(p)] = p
  <2>1. \E i \in hits : Cardinality({j \in hits : j <= i}) = p
      BY <1>8, <1>10
  <2>2. Nth(p) \in hits /\ Cardinality({j \in hits : j <= Nth(p)}) = p
      BY <2>1
  <2> QED  BY <1>8, <2>2
<1> HIDE DEF Nth
<1>12. DOMAIN q = 1 .. n /\ \A p \in 1 .. n : q[p] = entries[Nth(p)].record
    BY <1>6
<1>13. \A p \in 1 .. n : q[p] \in Records
  <2> SUFFICES ASSUME NEW p \in 1 .. n PROVE entries[Nth(p)].record \in Records
      BY <1>12
  <2>1. entries[Nth(p)] \in Entries
      BY <1>4, <1>11
  <2> QED  BY <2>1 DEF Entries
<1>14. q \in Seq(Records)
  <2>1. q \in [1 .. n -> Records]
      BY <1>6, <1>12, <1>13
  <2> HIDE DEF q
  <2> QED  BY <2>1
<1> HIDE DEF q
<1>15. \A p \in DOMAIN q : \E i \in DOMAIN entries :
          q[p] = entries[i].record /\ InRange(q[p], start, end)
    BY <1>4, <1>11, <1>12
<1>16. ASSUME NEW i \in DOMAIN entries, InRange(entries[i].record, start, end)
       PROVE  \E p \in DOMAIN q : q[p] = entries[i].record
  <2>1. i \in hits /\ f[i] \in 1 .. n
      BY <1>5, <1>7, <1>16
  <2>2. Nth(f[i]) = i
      BY <1>9, <1>11, <2>1
  <2> QED  BY <1>12, <2>1, <2>2
<1>17. \A p, r \in DOMAIN q : p # r =>
          \E i, j \in DOMAIN entries :
             i # j /\ q[p] = entries[i].record /\ q[r] = entries[j].record
    BY <1>4, <1>11, <1>12
<1> QED  BY <1>1, <1>14, <1>15, <1>16, <1>17

(* The ranks of a stable sort by timestamp are all different.              *)
LEMMA RankInjective ==
    ASSUME NEW q \in Seq(Records)
    PROVE  /\ \A i \in DOMAIN q : Rank(q, i) \in 1 .. Len(q)
           /\ \A i, k \in DOMAIN q :
                 \/ q[i].timestamp < q[k].timestamp
                 \/ q[i].timestamp = q[k].timestamp /\ i < k
                 => Rank(q, i) < Rank(q, k)
           /\ \A i, k \in DOMAIN q : Rank(q, i) = Rank(q, k) => i = k
<1> DEFINE Before(i) == {j \in DOMAIN q :
                            \/ q[j].timestamp < q[i].timestamp
                            \/ q[j].timestamp = q[i].timestamp /\ j <= i}
<1>1. DOMAIN q = 1 .. Len(q) /\ Len(q) \in Nat
    BY LenProperties
<1>2. IsFiniteSet(DOMAIN q) /\ Cardinality(DOMAIN q) = Len(q)
    BY <1>1, FS_Interval
<1>3. \A i \in DOMAIN q : q[i].timestamp \in Nat /\ i \in Nat
    BY RecordAt
<1>4. ASSUME NEW i \in DOMAIN q
      PROVE  /\ Before(i) \in SUBSET DOMAIN q /\ i \in Before(i)
             /\ IsFiniteSet(Before(i)) /\ Cardinality(Before(i)) \in 1 .. Len(q)
  <2>1. Before(i) \in SUBSET DOMAIN q /\ i \in Before(i)
      BY <1>3
  <2> HIDE DEF Before
  <2>2. IsFiniteSet(Before(i)) /\ Cardinality(Before(i)) <= Len(q)
      BY <1>2, <2>1, FS_Subset
  <2>3. Cardinality(Before(i)) \in Nat /\ Cardinality(Before(i)) # 0
      BY <2>1, <2>2, FS_EmptySet, FS_CardinalityType
  <2> QED  BY <1>1, <2>1, <2>2, <2>3
<1>5. ASSUME NEW i \in DOMAIN q, NEW k \in DOMAIN q,
             \/ q[i].timestamp < q[k].timestamp
             \/ q[i].timestamp = q[k].timestamp /\ i < k
      PROVE  Cardinality(Before(i)) < Cardinality(Before(k))
  <2>1. Before(i) \in SUBSET Before(k) /\ k \notin Before(i)
      BY <1>3, <1>5
  <2> HIDE DEF Before
  <2>2. k \in Before(k) /\ IsFiniteSet(Before(k))
      BY <1>4
  <2>3. Cardinality(Before(i)) \in Nat /\ Cardinality(Before(k)) \in Nat
      BY <1>1, <1>4
  <2>4. /\ Cardinality(Before(i)) <= Cardinality(Before(k))
        /\ Cardinality(Before(k)) = Cardinality(Before(i)) => Before(k) = Before(i)
      BY <2>1, <2>2, FS_Subset
  <2> QED  BY <2>1, <2>2, <2>3, <2>4
<1>6. \A i \in DOMAIN q : Rank(q, i) = Cardinality(Before(i))
    BY DEF Rank
<1> HIDE DEF Before
<1>7. ASSUME NEW i \in DOMAIN q, NEW k \in DOMAIN q, Rank(q, i) = Rank(q, k)
      PROVE  i = k
  <2>1. Cardinality(Before(i)) \in Nat /\ Cardinality(Before(k)) \in Nat
      BY <1>4
  <2>2. ~(Cardinality(Before(i)) < Cardinality(Before(k)))
        /\ ~(Cardinality(Before(k)) < Cardinality(Before(i)))
      BY <1>6, <1>7, <2>1
  <2>3. ~(q[i].timestamp < q[k].timestamp) /\ ~(q[k].timestamp < q[i].timestamp)
        /\ (q[i].timestamp = q[k].timestamp => ~(i < k) /\ ~(k < i))
      BY <1>5, <2>2
  <2> QED  BY <1>3, <2>3
<1>8. /\ \A i \in DOMAIN q : Rank(q, i) \in 1 .. Len(q)
      /\ \A i, k \in DOMAIN q :
            \/ q[i].timestamp < q[k].timestamp
            \/ q[i].timestamp = q[k].timestamp /\ i < k
            => Rank(q, i) < Rank(q, k)
    BY <1>4, <1>5, <1>6
<1> QED  BY <1>7, <1>8

(* records.sort_by_key(|r| r.timestamp): the same records, in the order of *)
(* their times.                                                            *)
LEMMA SortByTimestampSorts ==
    ASSUME NEW q \in Seq(Records)
    PROVE  LET s == SortByTimestamp(q)
           IN  /\ s \in Seq(Records) /\ Len(s) = Len(q)
               /\ \A i, j \in DOMAIN s : i < j => s[i].timestamp <= s[j].timestamp
               /\ \A i \in DOMAIN q : \E p \in DOMAIN s : s[p] = q[i]
               /\ \E f \in [DOMAIN s -> DOMAIN q] :
                     /\ \A p \in DOMAIN s : s[p] = q[f[p]]
                     /\ \A p, r \in DOMAIN s : f[p] = f[r] => p = r
<1> DEFINE At(p) == CHOOSE i \in DOMAIN q : Rank(q, i) = p
           s == [p \in DOMAIN q |-> q[At(p)]]
           f == [p \in DOMAIN q |-> At(p)]
           rank == [i \in DOMAIN q |-> Rank(q, i)]
<1>1. SortByTimestamp(q) = s
    BY DEF SortByTimestamp
<1>2. DOMAIN q = 1 .. Len(q) /\ Len(q) \in Nat
    BY LenProperties
<1>3. IsFiniteSet(DOMAIN q) /\ Cardinality(DOMAIN q) = Len(q)
    BY <1>2, FS_Interval
<1>4. rank \in [DOMAIN q -> 1 .. Len(q)] /\ \A i, k \in DOMAIN q : rank[i] = rank[k] => i = k
    BY RankInjective
<1>5. \A i \in DOMAIN q : rank[i] = Rank(q, i)
    OBVIOUS
<1> HIDE DEF rank
<1>6. \A p \in 1 .. Len(q) : \E i \in DOMAIN q : rank[i] = p
  <2>1. rank \in [DOMAIN q -> 1 .. Cardinality(DOMAIN q)]
      BY <1>3, <1>4
  <2>2. \A p \in 1 .. Cardinality(DOMAIN q) : \E i \in DOMAIN q : rank[i] = p
      BY <1>3, <1>4, <2>1, RanksReached
  <2> QED  BY <1>3, <2>2
<1>7. ASSUME NEW p \in DOMAIN q PROVE At(p) \in DOMAIN q /\ Rank(q, At(p)) = p
  <2>1. \E i \in DOMAIN q : Rank(q, i) = p
      BY <1>2, <1>5, <1>6
  <2> QED  BY <2>1
<1> HIDE DEF At
<1>8. \A i \in DOMAIN q : q[i] \in Records /\ q[i].timestamp \in Nat /\ i \in Nat
    BY RecordAt
<1>9. DOMAIN s = DOMAIN q /\ \A p \in DOMAIN q : s[p] = q[At(p)]
    OBVIOUS
<1>10. s \in Seq(Records) /\ Len(s) = Len(q)
  <2>1. s \in [1 .. Len(q) -> Records]
      BY <1>2, <1>7, <1>8
  <2> QED  BY <1>2, <2>1
<1> HIDE DEF s
<1>11. ASSUME NEW i \in DOMAIN s, NEW j \in DOMAIN s, i < j
       PROVE  s[i].timestamp <= s[j].timestamp
  <2>1. /\ At(i) \in DOMAIN q /\ At(j) \in DOMAIN q
        /\ Rank(q, At(i)) = i /\ Rank(q, At(j)) = j
      BY <1>7, <1>9
  <2>2. q[At(i)].timestamp \in Nat /\ q[At(j)].timestamp \in Nat
      BY <1>8, <2>1
  <2>3. i \in Nat /\ j \in Nat
      BY <1>8, <1>9
  <2>4. ~(q[At(j)].timestamp < q[At(i)].timestamp)
    <3>1. q[At(j)].timestamp < q[At(i)].timestamp => Rank(q, At(j)) < Rank(q, At(i))
        BY <2>1, RankInjective
    <3> QED  BY <1>11, <2>1, <2>3, <3>1
  <2> QED  BY <1>9, <2>2, <2>4
<1>12. ASSUME NEW i \in DOMAIN q PROVE \E p \in DOMAIN s : s[p] = q[i]
  <2>1. Rank(q, i) \in DOMAIN q
      BY <1>2, RankInjective
  <2>2. At(Rank(q, i)) = i
      BY <1>7, <2>1, RankInjective
  <2> QED  BY <1>9, <2>1, <2>2
<1>13. /\ f \in [DOMAIN s -> DOMAIN q]
       /\ \A p \in DOMAIN s : s[p] = q[f[p]]
       /\ \A p, r \in DOMAIN s : f[p] = f[r] => p = r
  <2>1. f \in [DOMAIN s -> DOMAIN q] /\ \A p \in DOMAIN s : f[p] = At(p)
      BY <1>7, <1>9
  <2> HIDE DEF f
  <2> QED  BY <1>7, <1>9, <2>1
<1> HIDE DEF f
<1> QED  BY <1>1, <1>10, <1>11, <1>12, <1>13

-----------------------------------------------------------------------------
(* Types.                                                                  *)
Answers == [type : {"log"}, records : Seq(Records)]

(* A log makes an answer.                                                  *)
LEMMA LogReplyType ==
    ASSUME NEW q \in Seq(Records)
    PROVE  /\ LogReply(q) \in Answers /\ LogReply(q).records = q
           /\ LogReply(q) # NoReply /\ LogReply(q) # Garbage
<1>1. LogReply(q) \in Answers /\ LogReply(q).records = q /\ LogReply(q).type = "log"
    BY DEF LogReply, Answers
<1>2. NoReply.type = "none" /\ Garbage.type = "garbage"
    BY DEF NoReply, Garbage
<1> QED  BY <1>1, <1>2

(* The answers of a faulty validator parse as logs or not at all.          *)
LEMMA FaultyLogsType ==
    ASSUME NEW v \in Validators, NEW ns \in Namespaces, NEW reply \in FaultyLogs(v, ns)
    PROVE  reply = Garbage \/ reply \in Answers
<1>1. FaultyRecords(v, ns) \subseteq Records
  <2>1. Times \subseteq Nat
      BY ClockAssumption DEF Times
  <2>2. ASSUME NEW m \in Messages
        PROVE  [message |-> m, timestamp |-> 0, signature |-> Forged(v)] \in Records
      BY DigestType, SignType DEF Records, Forged
  <2>3. ASSUME NEW m \in Messages, NEW ts \in Times
        PROVE  Stamped(v, ns, ts, m) \in Records
      BY <2>1, SignedRecordType
  <2> QED  BY <2>2, <2>3 DEF FaultyRecords
<1>2. CASE reply = Garbage
    BY <1>2
<1>3. CASE reply # Garbage
  <2>1. PICK n \in 0 .. MaxFaultyLog :
           \E records \in [1 .. n -> FaultyRecords(v, ns)] : reply = LogReply(records)
      BY <1>3 DEF FaultyLogs
  <2>2. n \in Nat
      BY MaxFaultyLogAssumption
  <2>3. PICK records \in [1 .. n -> FaultyRecords(v, ns)] : reply = LogReply(records)
      BY <2>1
  <2>4. records \in [1 .. n -> Records]
      BY <1>1, <2>3
  <2>5. records \in Seq(Records)
      BY <2>2, <2>4
  <2> QED  BY <2>3, <2>5, LogReplyType
<1> QED  BY <1>2, <1>3

(* What an answer makes of tallies and message has their types.            *)
LEMMA TalliedType ==
    ASSUME NEW c \in Calls, NEW v \in Validators, NEW reply \in Replies,
           NEW a \in Tallies, NEW msg \in Messages \cup {NoMessage}
    PROVE  /\ TallyRecord(c, v, reply, a) \in Tallies
           /\ TallyAbsence(c, v, reply, a) \in Tallies
           /\ TakenMessage(c, reply, msg) \in Messages \cup {NoMessage}
<1>1. TallyRecord(c, v, reply, a) \in Tallies
    BY CountedType, AddVoteType DEF TallyRecord
<1>2. TallyAbsence(c, v, reply, a) \in Tallies
    BY CountedType, AddVoteType DEF TallyAbsence
<1>3. TakenMessage(c, reply, msg) \in Messages \cup {NoMessage}
    BY CountedType DEF TakenMessage, Records
<1> QED  BY <1>1, <1>2, <1>3

(* read_certified calls read_message for a message of the log.             *)
LEMMA MessageCallType ==
    ASSUME Typed, phase = "asking"
    PROVE  /\ MessageCall \in Calls
           /\ cursor + 1 \in DOMAIN log /\ cursor \in Nat
           /\ MessageCall.ns = range.ns /\ MessageCall.type = "read"
           /\ MessageCall.id = MsgId(range.ns, Asked)
           /\ Asked \in Messages /\ range \in Ranges /\ range.ns \in Namespaces
<1>1. /\ log \in Seq(Records) /\ cursor \in 0 .. Len(log) /\ cursor < Len(log)
      /\ range \in Ranges
    BY DEF Typed, TypeOK
<1>2. /\ Len(log) \in Nat /\ DOMAIN log = 1 .. Len(log) /\ cursor \in Nat
      /\ cursor + 1 \in DOMAIN log
    BY <1>1, LenProperties
<1>3. Asked \in Messages
    BY <1>1, <1>2, RecordAt DEF Asked
<1>4. range.ns \in Namespaces
    BY <1>1 DEF Ranges
<1>5. MsgId(range.ns, Asked) \in MsgIds
    BY <1>3, <1>4, MsgIdType
<1>6. MessageCall = [type |-> "read", ns |-> range.ns, id |-> MsgId(range.ns, Asked)]
    BY DEF MessageCall, Asked
<1> QED  BY <1>1, <1>2, <1>3, <1>4, <1>5, <1>6 DEF Calls

(* What the end of a read_message leaves.                                  *)
LEMMA PushCertifiedTyped ==
    ASSUME Typed, phase = "asking", NEW a \in Tallies, NEW u \in Tallies,
           NEW msg \in Messages \cup {NoMessage}, PushCertified(a, u, msg)
    PROVE  /\ certified' \in Seq(Results)
           /\ cursor' \in 0 .. Len(log) /\ cursor' = cursor + 1
           /\ phase' = "certifying"
           /\ available' = EmptyTally /\ unavailable' = EmptyTally /\ message' = NoMessage
<1>1. MessageCall \in Calls /\ cursor + 1 \in DOMAIN log /\ cursor \in Nat
    BY MessageCallType
<1>2. PICK r : r = Concluded(MessageCall, a, u, msg)
    OBVIOUS
<1>3. r \in Results
    BY <1>1, <1>2, ConcludedType
<1>4. certified \in Seq(Results) /\ log \in Seq(Records)
    BY DEF Typed, TypeOK
<1>5. certified' = certified \/ certified' = Append(certified, r)
    BY <1>2 DEF PushCertified
<1>6. certified' \in Seq(Results)
    BY <1>3, <1>4, <1>5
<1>7. cursor' = cursor + 1
    BY DEF PushCertified
<1>8. cursor' \in 0 .. Len(log)
    BY <1>1, <1>4, <1>7, LenProperties
<1> QED  BY <1>6, <1>7, <1>8 DEF PushCertified

(* An iteration of the loop of read_message, on whatever answer.           *)
LEMMA TakeReplyTyped ==
    ASSUME Typed, phase = "asking", NEW v \in pending, NEW reply \in Replies,
           TakeReply(v, reply)
    PROVE  Typed'
<1>1. /\ MessageCall \in Calls /\ v \in Validators
      /\ available \in Tallies /\ unavailable \in Tallies
      /\ message \in Messages \cup {NoMessage}
    BY MessageCallType DEF Typed, TypeOK
<1>2. PICK a \in Tallies : a = TallyRecord(MessageCall, v, reply, available)
    BY <1>1, TalliedType
<1>3. PICK u \in Tallies : u = TallyAbsence(MessageCall, v, reply, unavailable)
    BY <1>1, TalliedType
<1>4. PICK msg \in Messages \cup {NoMessage} : msg = TakenMessage(MessageCall, reply, message)
    BY <1>1, TalliedType
<1>5. \/ PushCertified(a, u, msg)
      \/ /\ available' = a /\ unavailable' = u /\ message' = msg
         /\ UNCHANGED <<certified, cursor, phase>>
    BY <1>2, <1>3, <1>4 DEF TakeReply
<1>6. /\ pending' = pending \ {v}
      /\ UNCHANGED <<store, restarts, writes, range, tasks, log, kept, missed>>
    BY DEF TakeReply, validators
<1>7. CASE PushCertified(a, u, msg)
  <2>1. /\ certified' \in Seq(Results)
        /\ cursor' \in 0 .. Len(log)
        /\ phase' = "certifying"
        /\ available' = EmptyTally /\ unavailable' = EmptyTally /\ message' = NoMessage
      BY <1>7, PushCertifiedTyped
  <2> QED  BY <1>6, <2>1, EmptyTallyType DEF Typed, TypeOK, Phases
<1>8. CASE /\ available' = a /\ unavailable' = u /\ message' = msg
           /\ UNCHANGED <<certified, cursor, phase>>
    BY <1>6, <1>8 DEF Typed, TypeOK
<1> QED  BY <1>5, <1>7, <1>8

(* The answer of a validator to read_message.                              *)
LEMMA ReplyTaken ==
    ASSUME Typed, NEW v \in Validators, HandleReadMessage(v) \/ FaultyReply(v)
    PROVE  /\ phase = "asking" /\ v \in pending
           /\ \E reply \in Replies :
                 /\ TakeReply(v, reply)
                 /\ v \notin Faulty =>
                       \E ts \in Times :
                          reply \in MessageReplies(v, store[v][range.ns], MessageCall.id, ts)
<1>1. phase = "asking" /\ v \in pending
    BY DEF HandleReadMessage, FaultyReply
<1>2. MessageCall \in Calls /\ range.ns \in Namespaces
    BY <1>1, MessageCallType
<1>3. store[v][range.ns] \in Seq(Entries) /\ MessageCall.id \in MsgIds
    BY <1>1, <1>2, MessageCallType DEF Typed, TypeOK, Calls
<1>4. CASE HandleReadMessage(v)
  <2>1. PICK ts \in Times :
           \E reply \in MessageReplies(v, store[v][range.ns], MessageCall.id, ts) :
              TakeReply(v, reply)
      BY <1>4 DEF HandleReadMessage
  <2>2. PICK reply \in MessageReplies(v, store[v][range.ns], MessageCall.id, ts) :
           TakeReply(v, reply)
      BY <2>1
  <2>3. reply \in Replies
      BY <1>3, MessageRepliesType
  <2> QED  BY <1>1, <2>2, <2>3
<1>5. CASE FaultyReply(v)
  <2>1. PICK reply \in FaultyReplies(v, MessageCall) : TakeReply(v, reply)
      BY <1>5 DEF FaultyReply
  <2>2. reply \in Replies
      BY <1>2, FaultyRepliesType
  <2> QED  BY <1>1, <1>5, <2>1, <2>2 DEF FaultyReply
<1> QED  BY <1>4, <1>5

(* A write, and what it does to the store.                                 *)
LEMMA HandleWriteStore ==
    ASSUME Typed, NEW v \in Validators, NEW ns \in Namespaces, NEW m \in Messages,
           HandleWrite(v, ns, m)
    PROVE  \E ts \in Nat :
              \E entries \in WriteOne(store[v][ns], Cap, ns, Stamped(v, ns, ts, m)) :
                 entries \in Seq(Entries) /\ store' = [store EXCEPT ![v][ns] = entries]
<1>1. PICK ts \in Times :
         \E entries \in WriteOne(store[v][ns], Cap, ns, Stamped(v, ns, ts, m)) :
            store' = [store EXCEPT ![v][ns] = entries]
    BY DEF HandleWrite
<1>2. ts \in Nat
    BY ClockAssumption DEF Times
<1>3. PICK entries \in WriteOne(store[v][ns], Cap, ns, Stamped(v, ns, ts, m)) :
         store' = [store EXCEPT ![v][ns] = entries]
    BY <1>1
<1>4. PICK r \in Records : r = Stamped(v, ns, ts, m)
    BY <1>2, SignedRecordType
<1>5. r.message = m /\ MsgId(ns, m) \in MsgIds
    BY <1>4, MsgIdType DEF Stamped
<1>6. entries \in Insert(store[v][ns], Cap, MsgId(ns, m), r)
    BY <1>3, <1>4, <1>5 DEF WriteOne
<1>7. store[v][ns] \in Seq(Entries)
    BY DEF Typed, TypeOK
<1>8. entries \in Seq(Entries)
    BY <1>5, <1>6, <1>7, InsertType
<1> QED  BY <1>2, <1>3, <1>8

(* Writes and restarts leave the call alone; what is kept can only shrink. *)
LEMMA AroundStep ==
    ASSUME Typed, NEW v \in Validators,
           \/ \E ns \in Namespaces, m \in Messages : HandleWrite(v, ns, m)
           \/ Restart(v)
    PROVE  /\ store' \in [Validators -> [Namespaces -> Seq(Entries)]]
           /\ restarts' \in 0 .. MaxRestarts /\ writes' \in 0 .. MaxWrites
           /\ phase # "done" /\ v \notin Faulty
           /\ kept' = StillKept(store') /\ kept' \in SUBSET kept
           /\ UNCHANGED <<range, phase, pending, tasks, log, cursor, available,
                          unavailable, message, certified, missed>>
<1>1. /\ phase # "done" /\ v \notin Faulty /\ kept' = StillKept(store')
      /\ UNCHANGED <<range, phase, pending, tasks, log, cursor, available,
                     unavailable, message, certified, missed>>
    BY DEF HandleWrite, Restart, Around, reading
<1>2. kept' \in SUBSET kept
    BY <1>1 DEF StillKept
<1>3. CASE \E ns \in Namespaces, m \in Messages : HandleWrite(v, ns, m)
  <2>1. PICK ns \in Namespaces, m \in Messages : HandleWrite(v, ns, m)
      BY <1>3
  <2>2. PICK entries \in Seq(Entries) : store' = [store EXCEPT ![v][ns] = entries]
      BY <2>1, HandleWriteStore
  <2>3. store' \in [Validators -> [Namespaces -> Seq(Entries)]]
      BY <2>2 DEF Typed, TypeOK
  <2>4. restarts' \in 0 .. MaxRestarts /\ writes' \in 0 .. MaxWrites
      BY <2>1, MaxWritesAssumption DEF HandleWrite, Typed, TypeOK
  <2> QED  BY <1>1, <1>2, <2>3, <2>4
<1>4. CASE Restart(v)
  <2>1. store' \in [Validators -> [Namespaces -> Seq(Entries)]]
    <3>1. store' = [store EXCEPT ![v] = [ns \in Namespaces |-> <<>>]]
        BY <1>4 DEF Restart
    <3>2. [ns \in Namespaces |-> <<>>] \in [Namespaces -> Seq(Entries)]
        OBVIOUS
    <3> QED  BY <3>1, <3>2 DEF Typed, TypeOK
  <2>2. restarts' \in 0 .. MaxRestarts /\ writes' \in 0 .. MaxWrites
      BY <1>4, RestartAssumption DEF Restart, Typed, TypeOK
  <2> QED  BY <1>1, <1>2, <2>1, <2>2
<1> QED  BY <1>3, <1>4

(* The answers that the response loop of read takes.                       *)
LEMMA LogTaken ==
    ASSUME Typed, NEW v \in Validators, HandleReadRange(v) \/ FaultyLog(v)
    PROVE  /\ phase = "reading" /\ v \in pending
           /\ \E reply \in {Garbage} \cup Answers :
                 /\ TakeLog(v, reply)
                 /\ v \notin Faulty =>
                       reply = LogReply(RangeOf(store[v][range.ns], range.start, range.end))
<1>1. phase = "reading" /\ v \in pending /\ (HandleReadRange(v) <=> v \notin Faulty)
    BY DEF HandleReadRange, FaultyLog
<1>2. range.ns \in Namespaces /\ store[v][range.ns] \in Seq(Entries)
    BY <1>1 DEF Typed, TypeOK, Ranges
<1>3. CASE HandleReadRange(v)
  <2>1. PICK q : q = RangeOf(store[v][range.ns], range.start, range.end)
      OBVIOUS
  <2>2. q \in Seq(Records)
      BY <1>2, <2>1, RangeOfRecords
  <2>3. LogReply(q) \in Answers /\ TakeLog(v, LogReply(q))
      BY <1>3, <2>1, <2>2, LogReplyType DEF HandleReadRange
  <2> QED  BY <1>1, <2>1, <2>3
<1>4. CASE FaultyLog(v)
  <2>1. PICK reply \in FaultyLogs(v, range.ns) : TakeLog(v, reply)
      BY <1>4 DEF FaultyLog
  <2>2. reply = Garbage \/ reply \in Answers
      BY <1>2, FaultyLogsType
  <2> QED  BY <1>1, <1>4, <2>1, <2>2 DEF FaultyLog
<1> QED  BY <1>3, <1>4

(* The log of a task is a log.                                             *)
LEMMA TaskType ==
    ASSUME Typed, NEW v \in Validators, tasks[v] # NoReply
    PROVE  tasks[v] \in Answers /\ tasks[v].records \in Seq(Records)
<1>1. tasks[v] \in {NoReply} \cup Answers
    BY DEF Typed, TypeOK, Answers
<1> QED  BY <1>1 DEF Answers

(* Every step keeps the types.                                             *)
LEMMA NextTyped ==
    ASSUME Typed, [Next]_vars
    PROVE  Typed'
<1>t. TypeOK
    BY DEF Typed
<1>1. ASSUME NEW v \in Validators,
             \/ \E ns \in Namespaces, m \in Messages : HandleWrite(v, ns, m)
             \/ Restart(v)
      PROVE  Typed'
  <2>1. /\ store' \in [Validators -> [Namespaces -> Seq(Entries)]]
        /\ restarts' \in 0 .. MaxRestarts /\ writes' \in 0 .. MaxWrites
        /\ kept' \in SUBSET kept
        /\ UNCHANGED <<range, phase, pending, tasks, log, cursor, available,
                       unavailable, message, certified, missed>>
      BY <1>1, AroundStep
  <2> QED  BY <2>1 DEF Typed, TypeOK
<1>2. ASSUME NEW kind \in {"read", "read_certified"}, NEW ns \in Namespaces,
             NEW span \in Spans, Read(kind, ns, span[1], span[2])
      PROVE  Typed'
  <2>1. span[1] \in Times /\ span[2] \in Times
      BY SpansAssumption
  <2>2. range' \in Ranges
      BY <1>2, <2>1 DEF Read, Ranges
  <2>3. kept' \subseteq (Validators \ Faulty) \X Records
    <3>1. ASSUME NEW v \in Validators, NEW r \in RecordsIn(store[v][ns])
          PROVE  r \in Records
      <4>1. store[v][ns] \in Seq(Entries)
          BY <1>t DEF TypeOK
      <4>2. PICK i \in DOMAIN store[v][ns] : r = store[v][ns][i].record
          BY <3>1 DEF RecordsIn
      <4>3. store[v][ns][i] \in Entries
          BY <4>1, <4>2
      <4> QED  BY <4>2, <4>3 DEF Entries
    <3>2. kept' = UNION {{v} \X {r \in RecordsIn(store[v][ns]) :
                                    InRange(r, span[1], span[2])} :
                            v \in Validators \ Faulty}
        BY <1>2 DEF Read
    <3> QED  BY <3>1, <3>2
  <2>4. /\ phase' = "reading" /\ pending' = Validators
        /\ UNCHANGED <<store, restarts, writes, tasks, log, cursor, available,
                       unavailable, message, certified, missed>>
      BY <1>2 DEF Read, validators, reading
  <2> QED  BY <1>t, <2>2, <2>3, <2>4 DEF Typed, TypeOK, Phases
<1>3. ASSUME NEW v \in Validators, HandleReadRange(v) \/ FaultyLog(v)
      PROVE  Typed'
  <2>1. PICK reply \in {Garbage} \cup Answers : TakeLog(v, reply)
      BY <1>3, LogTaken
  <2>2. tasks' \in [Validators -> {NoReply} \cup Answers]
    <3>1. tasks \in [Validators -> {NoReply} \cup Answers]
        BY <1>t DEF TypeOK, Answers
    <3>2. \/ tasks' = tasks
          \/ reply \in Answers /\ tasks' = [tasks EXCEPT ![v] = reply]
        BY <2>1 DEF TakeLog
    <3> QED  BY <3>1, <3>2
  <2>3. /\ pending' = pending \ {v}
        /\ UNCHANGED <<store, restarts, writes, range, phase, log, cursor, available,
                       unavailable, message, certified, kept, missed>>
      BY <2>1 DEF TakeLog, validators, reading
  <2> QED  BY <2>2, <2>3 DEF Typed, TypeOK, Answers
<1>4. ASSUME NEW v \in Validators, HandleReadMessage(v) \/ FaultyReply(v)
      PROVE  Typed'
  <2>1. phase = "asking" /\ v \in pending
      BY <1>4, ReplyTaken
  <2>2. PICK reply \in Replies : TakeReply(v, reply)
      BY <1>4, ReplyTaken
  <2> QED  BY <2>1, <2>2, TakeReplyTyped
<1>5. ASSUME NEW v \in Validators, GiveUpLog(v)
      PROVE  Typed'
    BY <1>5 DEF Typed, TypeOK, GiveUpLog, validators, reading, Phases
<1>6. CASE LogsRunOut
    BY <1>6 DEF Typed, TypeOK, LogsRunOut, validators, reading, Phases
<1>7. ASSUME NEW v \in Validators, JoinNext(v)
      PROVE  Typed'
  <2>1. tasks[v].records \in Seq(Records) /\ log \in Seq(Records)
      BY <1>7, TaskType DEF JoinNext, Typed, TypeOK
  <2>2. PICK q \in Seq(Records) : q = tasks[v].records
      BY <2>1
  <2>3. log' \in Seq(Records) /\ Len(log') = Len(log) + Len(q)
      BY <1>7, <2>1, <2>2 DEF JoinNext
  <2>4. cursor \in 0 .. Len(log')
      BY <2>1, <2>2, <2>3, LenProperties DEF Typed, TypeOK
  <2>5. tasks' \in [Validators -> {NoReply} \cup Answers]
      BY <1>7 DEF JoinNext, Typed, TypeOK, Answers
  <2>6. /\ phase = "joining"
        /\ UNCHANGED <<store, restarts, writes, range, phase, pending, cursor, available,
                       unavailable, message, certified, kept, missed>>
      BY <1>7 DEF JoinNext, validators, reading
  <2> QED  BY <2>3, <2>4, <2>5, <2>6 DEF Typed, TypeOK, Answers
<1>8. ASSUME FinishRead, phase = "joining", missed' \in BOOLEAN
      PROVE  Typed'
  <2>1. log \in Seq(Records)
      BY DEF Typed, TypeOK
  <2>2. log' \in Seq(Records) /\ Len(log') = Len(log)
      BY <1>8, <2>1, SortByTimestampSorts DEF FinishRead
  <2>3. /\ phase' \in {"done", "certifying"}
        /\ tasks' = [v \in Validators |-> NoReply]
        /\ UNCHANGED <<store, restarts, writes, range, pending, cursor, available,
                       unavailable, message, certified, kept>>
      BY <1>8 DEF FinishRead, validators, reading
  <2> QED  BY <1>8, <2>2, <2>3 DEF Typed, TypeOK, Phases
<1>9. ASSUME NEW v \in Validators, JoinRejects(v)
      PROVE  Typed'
    BY <1>8, <1>9 DEF JoinRejects
<1>10. CASE JoinEnds
    BY <1>8, <1>10 DEF JoinEnds, Typed, TypeOK
<1>11. CASE Certify
    BY <1>11 DEF Typed, TypeOK, Certify, validators, reading, Phases
<1>12. ASSUME NEW v \in Validators, GiveUp(v)
       PROVE  Typed'
  <2>1. /\ phase = "asking" /\ available \in Tallies /\ unavailable \in Tallies
        /\ message \in Messages \cup {NoMessage}
        /\ PushCertified(available, unavailable, message)
      BY <1>12 DEF GiveUp, Typed, TypeOK
  <2>2. /\ certified' \in Seq(Results) /\ cursor' \in 0 .. Len(log)
        /\ phase' = "certifying"
        /\ available' = EmptyTally /\ unavailable' = EmptyTally /\ message' = NoMessage
      BY <2>1, PushCertifiedTyped
  <2> QED  BY <1>12, <2>2, EmptyTallyType DEF Typed, TypeOK, Phases, GiveUp, validators
<1>13. CASE RunOut
  <2>1. /\ phase = "asking" /\ available \in Tallies /\ unavailable \in Tallies
        /\ message \in Messages \cup {NoMessage}
        /\ PushCertified(available, unavailable, message)
      BY <1>13 DEF RunOut, Typed, TypeOK
  <2>2. /\ certified' \in Seq(Results) /\ cursor' \in 0 .. Len(log)
        /\ phase' = "certifying"
        /\ available' = EmptyTally /\ unavailable' = EmptyTally /\ message' = NoMessage
      BY <2>1, PushCertifiedTyped
  <2> QED  BY <1>13, <2>2, EmptyTallyType DEF Typed, TypeOK, Phases, RunOut, validators
<1>14. CASE CertifyEnds
    BY <1>14 DEF Typed, TypeOK, CertifyEnds, validators, reading, Phases
<1>15. CASE UNCHANGED vars
    BY <1>15 DEF Typed, TypeOK, vars
<1> QED
    BY <1>1, <1>2, <1>3, <1>4, <1>5, <1>6, <1>7, <1>9, <1>10, <1>11, <1>12, <1>13,
       <1>14, <1>15 DEF Next, CallStep

-----------------------------------------------------------------------------
(* What the steps of the call change, by what they have in common.         *)

(* The response loop of read takes an answer.                              *)
LEMMA LogStep ==
    ASSUME Typed, NEW v \in Validators, HandleReadRange(v) \/ FaultyLog(v)
    PROVE  /\ phase = "reading" /\ v \in pending /\ pending' = pending \ {v}
           /\ tasks' \in [Validators -> {NoReply} \cup Answers]
           /\ \A w \in Validators \ {v} : tasks'[w] = tasks[w]
           /\ v \notin Faulty => tasks'[v] =
                 LogReply(RangeOf(store[v][range.ns], range.start, range.end))
           /\ UNCHANGED <<store, range, phase, log, cursor, available, unavailable, message,
                          certified, kept, missed>>
<1>1. phase = "reading" /\ v \in pending
    BY LogTaken
<1>2. PICK reply \in {Garbage} \cup Answers :
         /\ TakeLog(v, reply)
         /\ v \notin Faulty =>
               reply = LogReply(RangeOf(store[v][range.ns], range.start, range.end))
    BY LogTaken
<1>3. tasks \in [Validators -> {NoReply} \cup Answers]
    BY DEF Typed, TypeOK, Answers
<1>4. /\ \/ reply = Garbage /\ tasks' = tasks
         \/ reply \in Answers /\ tasks' = [tasks EXCEPT ![v] = reply]
      /\ pending' = pending \ {v}
      /\ UNCHANGED <<store, range, phase, log, cursor, available, unavailable, message,
                     certified, kept, missed>>
    BY <1>2 DEF TakeLog, validators, reading
<1>5. v \notin Faulty => reply # Garbage
    BY <1>2 DEF LogReply, Garbage
<1> QED  BY <1>1, <1>2, <1>3, <1>4, <1>5

(* The response loop of read ends.                                         *)
LEMMA ReadingEnds ==
    ASSUME (\E v \in Validators : GiveUpLog(v)) \/ LogsRunOut
    PROVE  /\ phase = "reading" /\ phase' = "joining"
           /\ missed' = TRUE \/ (missed' = missed /\ pending = {})
           /\ UNCHANGED <<store, range, pending, tasks, log, cursor, available, unavailable,
                          message, certified, kept>>
BY DEF GiveUpLog, LogsRunOut, validators, reading

(* A log is joined.                                                        *)
LEMMA LogJoined ==
    ASSUME Typed, NEW v \in Validators, JoinNext(v)
    PROVE  /\ phase = "joining" /\ tasks[v] \in Answers /\ tasks[v] # NoReply
           /\ tasks[v].records \in Seq(Records)
           /\ LogVerifies(v, range.ns, tasks[v].records)
           /\ log' = log \o tasks[v].records
           /\ tasks' = [tasks EXCEPT ![v] = NoReply]
           /\ UNCHANGED <<store, range, phase, pending, cursor, available, unavailable,
                          message, certified, kept, missed>>
BY TaskType DEF JoinNext, validators, reading

(* read returns.                                                           *)
LEMMA JoiningEnds ==
    ASSUME (\E v \in Validators : JoinRejects(v)) \/ JoinEnds
    PROVE  /\ phase = "joining"
           /\ phase' = IF range.kind = "read" THEN "done" ELSE "certifying"
           /\ log' = SortByTimestamp(log)
           /\ tasks' = [v \in Validators |-> NoReply]
           /\ missed' = TRUE \/ (missed' = missed /\ \A v \in Validators : tasks[v] = NoReply)
           /\ UNCHANGED <<store, range, pending, cursor, available, unavailable, message,
                          certified, kept>>
BY DEF JoinRejects, JoinEnds, FinishRead, validators, reading

(* A step of the loop of read_message.                                     *)
AskingStep ==
    \/ \E v \in Validators : HandleReadMessage(v) \/ FaultyReply(v) \/ GiveUp(v)
    \/ RunOut

(* It leaves the read alone, and goes on or ends in a result.              *)
LEMMA AskingEnds ==
    ASSUME AskingStep
    PROVE  /\ phase = "asking"
           /\ \/ /\ phase' = "certifying" /\ cursor' = cursor + 1
                 /\ available' = EmptyTally /\ unavailable' = EmptyTally
                 /\ message' = NoMessage
              \/ UNCHANGED <<certified, cursor, phase>>
           /\ missed' = TRUE \/ missed' = missed
           /\ UNCHANGED <<store, range, tasks, log, kept>>
<1>1. ASSUME NEW v, NEW reply, TakeReply(v, reply)
      PROVE  /\ \/ /\ phase' = "certifying" /\ cursor' = cursor + 1
                   /\ available' = EmptyTally /\ unavailable' = EmptyTally
                   /\ message' = NoMessage
                \/ UNCHANGED <<certified, cursor, phase>>
             /\ UNCHANGED <<store, range, tasks, log, kept, missed>>
    BY <1>1 DEF TakeReply, PushCertified, validators
<1>2. ASSUME NEW v \in Validators, HandleReadMessage(v) \/ FaultyReply(v)
      PROVE  phase = "asking" /\ \E reply : TakeReply(v, reply)
    BY <1>2 DEF HandleReadMessage, FaultyReply
<1>3. ASSUME (\E v \in Validators : GiveUp(v)) \/ RunOut
      PROVE  /\ phase = "asking"
             /\ phase' = "certifying" /\ cursor' = cursor + 1
             /\ available' = EmptyTally /\ unavailable' = EmptyTally
             /\ message' = NoMessage
             /\ missed' = TRUE \/ missed' = missed
             /\ UNCHANGED <<store, range, tasks, log, kept>>
    BY <1>3 DEF GiveUp, RunOut, PushCertified, validators
<1> QED  BY <1>1, <1>2, <1>3 DEF AskingStep

(* read_message is called for the next record.                             *)
LEMMA CertifyStep ==
    ASSUME Certify
    PROVE  /\ phase = "certifying" /\ phase' = "asking" /\ cursor < Len(log)
           /\ pending' = Validators
           /\ UNCHANGED <<store, range, tasks, log, cursor, available, unavailable, message,
                          certified, kept, missed>>
BY DEF Certify, validators, reading

(* read_certified returns.                                                 *)
LEMMA CertifyEndsStep ==
    ASSUME CertifyEnds
    PROVE  /\ phase = "certifying" /\ phase' = "done" /\ cursor = Len(log)
           /\ UNCHANGED <<store, range, pending, tasks, log, cursor, available, unavailable,
                          message, certified, kept, missed>>
BY DEF CertifyEnds, validators, reading

(* A call begins.                                                          *)
ReadStep ==
    \E kind \in {"read", "read_certified"}, ns \in Namespaces, span \in Spans :
       Read(kind, ns, span[1], span[2])

(* It keeps track of what correct validators hold then.                    *)
LEMMA ReadBegins ==
    ASSUME ReadStep
    PROVE  /\ phase = "idle" /\ phase' = "reading" /\ pending' = Validators
           /\ \A p \in kept' : /\ p = <<p[1], p[2]>> /\ p[1] \in Validators \ Faulty
                               /\ p[2] \in RecordsIn(store[p[1]][range'.ns])
                               /\ InRange(p[2], range'.start, range'.end)
           /\ UNCHANGED <<store, tasks, log, cursor, available, unavailable, message,
                          certified, missed>>
<1>1. PICK kind \in {"read", "read_certified"}, ns \in Namespaces, span \in Spans :
         Read(kind, ns, span[1], span[2])
    BY DEF ReadStep
<1>2. range'.ns = ns /\ range'.start = span[1] /\ range'.end = span[2]
    BY <1>1 DEF Read
<1>3. kept' = UNION {{v} \X {r \in RecordsIn(store[v][ns]) : InRange(r, span[1], span[2])} :
                        v \in Validators \ Faulty}
    BY <1>1 DEF Read
<1>4. \A p \in kept' : /\ p = <<p[1], p[2]>> /\ p[1] \in Validators \ Faulty
                       /\ p[2] \in RecordsIn(store[p[1]][range'.ns])
                       /\ InRange(p[2], range'.start, range'.end)
    BY <1>2, <1>3
<1> QED  BY <1>1, <1>4 DEF Read, validators, reading

(* Every step is of one of these kinds.                                    *)
LEMMA StepKinds ==
    ASSUME [Next]_vars
    PROVE  \/ \E v \in Validators :
                 \/ \E ns \in Namespaces, m \in Messages : HandleWrite(v, ns, m)
                 \/ Restart(v)
           \/ ReadStep
           \/ \E v \in Validators : HandleReadRange(v) \/ FaultyLog(v)
           \/ (\E v \in Validators : GiveUpLog(v)) \/ LogsRunOut
           \/ \E v \in Validators : JoinNext(v)
           \/ (\E v \in Validators : JoinRejects(v)) \/ JoinEnds
           \/ Certify
           \/ AskingStep
           \/ CertifyEnds
           \/ UNCHANGED vars
BY DEF Next, CallStep, ReadStep, AskingStep

-----------------------------------------------------------------------------
(* Every step keeps the invariant, part by part.                           *)

(* The phases of a call.                                                   *)
LEMMA NextPhased ==
    ASSUME Typed, Phased, [Next]_vars
    PROVE  Phased'
<1>1. ASSUME NEW v \in Validators,
             \/ \E ns \in Namespaces, m \in Messages : HandleWrite(v, ns, m)
             \/ Restart(v)
      PROVE  Phased'
  <2>1. /\ phase # "done" /\ kept' \in SUBSET kept
        /\ UNCHANGED <<range, phase, pending, tasks, log, cursor, available,
                       unavailable, message, certified>>
      BY <1>1, AroundStep
  <2> QED  BY <2>1 DEF Phased, LogReturned
<1>2. CASE ReadStep
    BY <1>2, ReadBegins DEF Phased, LogReturned
<1>3. ASSUME NEW v \in Validators, HandleReadRange(v) \/ FaultyLog(v)
      PROVE  Phased'
  <2>1. /\ phase = "reading" /\ v \in pending /\ pending' = pending \ {v}
        /\ \A w \in Validators \ {v} : tasks'[w] = tasks[w]
        /\ UNCHANGED <<phase, log, cursor, available, unavailable, message, certified>>
      BY <1>3, LogStep
  <2>2. pending \subseteq Validators
      BY DEF Typed, TypeOK
  <2> QED  BY <2>1, <2>2 DEF Phased, LogReturned
<1>4. CASE (\E v \in Validators : GiveUpLog(v)) \/ LogsRunOut
  <2>1. /\ phase = "reading" /\ phase' = "joining"
        /\ UNCHANGED <<cursor, available, unavailable, message, certified>>
      BY <1>4, ReadingEnds
  <2> QED  BY <2>1 DEF Phased, LogReturned
<1>5. ASSUME NEW v \in Validators, JoinNext(v)
      PROVE  Phased'
  <2>1. /\ phase = "joining"
        /\ UNCHANGED <<phase, cursor, available, unavailable, message, certified>>
      BY <1>5, LogJoined
  <2> QED  BY <2>1 DEF Phased, LogReturned
<1>6. CASE (\E v \in Validators : JoinRejects(v)) \/ JoinEnds
  <2>1. /\ phase = "joining"
        /\ phase' = IF range.kind = "read" THEN "done" ELSE "certifying"
        /\ tasks' = [v \in Validators |-> NoReply]
        /\ UNCHANGED <<range, available, unavailable, message>>
      BY <1>6, JoiningEnds
  <2> QED  BY <2>1 DEF Phased, LogReturned
<1>7. CASE Certify
    BY <1>7, CertifyStep DEF Phased, LogReturned
<1>8. CASE AskingStep
    BY <1>8, AskingEnds DEF Phased, LogReturned
<1>9. CASE CertifyEnds
    BY <1>9, CertifyEndsStep DEF Phased, LogReturned
<1>10. CASE UNCHANGED vars
    BY <1>10 DEF Phased, LogReturned, vars
<1> QED
    BY <1>1, <1>2, <1>3, <1>4, <1>5, <1>6, <1>7, <1>8, <1>9, <1>10, StepKinds

(* Stores of correct validators.                                           *)
LEMMA NextStoresSound ==
    ASSUME Typed, StoresSound, [Next]_vars
    PROVE  StoresSound'
<1>1. ASSUME NEW v \in Validators, NEW ns \in Namespaces, NEW m \in Messages,
             HandleWrite(v, ns, m)
      PROVE  StoresSound'
  <2>1. PICK ts \in Nat :
           \E entries \in WriteOne(store[v][ns], Cap, ns, Stamped(v, ns, ts, m)) :
              entries \in Seq(Entries) /\ store' = [store EXCEPT ![v][ns] = entries]
      BY <1>1, HandleWriteStore
  <2>2. PICK entries \in WriteOne(store[v][ns], Cap, ns, Stamped(v, ns, ts, m)) :
           entries \in Seq(Entries) /\ store' = [store EXCEPT ![v][ns] = entries]
      BY <2>1
  <2>3. v \in Validators \ Faulty
      BY <1>1 DEF HandleWrite
  <2>4. store[v][ns] \in Seq(Entries) /\ SoundEntries(v, ns, store[v][ns])
      BY <2>3 DEF StoresSound, Typed, TypeOK
  <2>5. SoundEntries(v, ns, entries)
      BY <2>2, <2>4, WriteOneSound
  <2>6. \A w \in Validators, k \in Namespaces :
           store'[w][k] = IF w = v /\ k = ns THEN entries ELSE store[w][k]
      BY <2>2 DEF Typed, TypeOK
  <2> QED  BY <2>5, <2>6 DEF StoresSound
<1>2. ASSUME NEW v \in Validators, Restart(v)
      PROVE  StoresSound'
  <2>1. store' = [store EXCEPT ![v] = [ns \in Namespaces |-> <<>>]]
      BY <1>2 DEF Restart
  <2>2. \A w \in Validators, k \in Namespaces :
           store'[w][k] = IF w = v THEN <<>> ELSE store[w][k]
      BY <2>1 DEF Typed, TypeOK
  <2> QED  BY <2>2, EmptySound DEF StoresSound
<1>3. ASSUME UNCHANGED store
      PROVE  StoresSound'
    BY <1>3 DEF StoresSound
<1>4. \/ \E v \in Validators, ns \in Namespaces, m \in Messages : HandleWrite(v, ns, m)
      \/ \E v \in Validators : Restart(v)
      \/ UNCHANGED store
    BY StepKinds, ReadBegins, LogStep, ReadingEnds, LogJoined, JoiningEnds, CertifyStep,
       AskingEnds, CertifyEndsStep DEF vars
<1> QED  BY <1>1, <1>2, <1>3, <1>4

(* The answer of a correct validator to read is sound.                     *)
LEMMA RangeOfSound ==
    ASSUME Typed, StoresSound, phase = "reading", NEW v \in Validators \ Faulty
    PROVE  SoundAnswer(v, RangeOf(store[v][range.ns], range.start, range.end))
<1>1. PICK ns \in Namespaces, start \in Times, end \in Times :
         range.ns = ns /\ range.start = start /\ range.end = end
    BY DEF Typed, Ranges
<1>2. PICK entries \in Seq(Entries) : entries = store[v][ns]
    BY <1>1 DEF Typed, TypeOK
<1>3. SoundEntries(v, ns, entries)
    BY <1>1, <1>2 DEF StoresSound
<1> DEFINE q == RangeOf(entries, start, end)
<1>5. /\ \A p \in DOMAIN q : \E i \in DOMAIN entries :
            q[p] = entries[i].record /\ InRange(q[p], start, end)
      /\ \A p, r \in DOMAIN q : p # r =>
            \E i, j \in DOMAIN entries :
               i # j /\ q[p] = entries[i].record /\ q[r] = entries[j].record
    BY RangeOfRecords
<1> HIDE DEF q
<1>6. \A i \in DOMAIN entries : SignedBy(v, entries[i].record)
    BY <1>1, <1>3 DEF SoundEntries, SignedBy
<1>7. \A i, j \in DOMAIN entries : entries[i].record = entries[j].record => i = j
  <2>1. \A i \in DOMAIN entries : entries[i].id = MsgId(ns, entries[i].record.message)
      BY <1>3 DEF SoundEntries
  <2>2. \A i, j \in DOMAIN entries : entries[i].id = entries[j].id => i = j
      BY <1>3 DEF SoundEntries
  <2> QED  BY <2>1, <2>2
<1>8. Distinct(q)
    BY <1>5, <1>7 DEF Distinct
<1>9. SoundAnswer(v, q)
    BY <1>1, <1>5, <1>6, <1>8 DEF SoundAnswer
<1> QED  BY <1>1, <1>2, <1>9 DEF q

(* A place of a concatenation is a place of one of its parts.              *)
LEMMA PlaceInConcat ==
    ASSUME NEW s \in Seq(Records), NEW t \in Seq(Records)
    PROVE  /\ s \o t \in Seq(Records)
           /\ \A i \in DOMAIN (s \o t) :
                 \/ i \in DOMAIN s /\ (s \o t)[i] = s[i]
                 \/ /\ i \notin DOMAIN s /\ i - Len(s) \in DOMAIN t
                    /\ (s \o t)[i] = t[i - Len(s)]
           /\ \A i \in DOMAIN (s \o t) : i \in Nat
           /\ Len(s) \in Nat
           /\ \A i \in DOMAIN s : i \in DOMAIN (s \o t) /\ (s \o t)[i] = s[i]
           /\ \A i \in DOMAIN t :
                 Len(s) + i \in DOMAIN (s \o t) /\ (s \o t)[Len(s) + i] = t[i]
<1>1. /\ s \o t \in Seq(Records) /\ Len(s \o t) = Len(s) + Len(t)
      /\ \A i \in 1 .. Len(s) + Len(t) :
            (s \o t)[i] = IF i <= Len(s) THEN s[i] ELSE t[i - Len(s)]
    BY ConcatProperties
<1>2. /\ DOMAIN s = 1 .. Len(s) /\ DOMAIN t = 1 .. Len(t) /\ Len(s) \in Nat /\ Len(t) \in Nat
      /\ DOMAIN (s \o t) = 1 .. Len(s \o t)
    BY <1>1, LenProperties
<1>3. PICK u : u = s \o t
    OBVIOUS
<1> QED  BY <1>1, <1>2, <1>3

(* A log that is joined is new to the ones joined before.                  *)
LEMMA JoinedSound ==
    ASSUME Typed, Gathering, NEW v \in Validators, JoinNext(v)
    PROVE  Gathering'
<1>1. PICK q \in Seq(Records) : q = tasks[v].records
    BY LogJoined
<1>2. /\ phase = "joining" /\ tasks[v] # NoReply /\ LogVerifies(v, range.ns, q)
      /\ log' = log \o q /\ tasks' = [tasks EXCEPT ![v] = NoReply]
      /\ UNCHANGED <<range, phase>>
    BY <1>1, LogJoined
<1>3. log \in Seq(Records) /\ DOMAIN tasks = Validators
    BY DEF Typed, TypeOK
<1>4. \A i \in DOMAIN q : SignedBy(v, q[i]) /\ q[i].signature.key = v
    BY <1>2 DEF LogVerifies, SignedBy, Verify, Sign
<1>5. \A i \in DOMAIN log : log[i].signature.key \in Validators \ {v}
    BY <1>2, <1>3, RecordAt DEF Gathering
<1>6. PICK n \in Nat : n = Len(log)
    BY <1>3, LenProperties
<1>7. \A i \in DOMAIN log' :
         /\ i \in Nat
         /\ \/ i \in DOMAIN log /\ log'[i] = log[i]
            \/ i \notin DOMAIN log /\ i - n \in DOMAIN q /\ log'[i] = q[i - n]
    BY <1>2, <1>3, <1>6, PlaceInConcat
<1>8. v \notin Faulty => SoundAnswer(v, q)
    BY <1>1, <1>2 DEF Gathering
<1>9. ASSUME NEW i \in DOMAIN log'
      PROVE  /\ SignedBy(log'[i].signature.key, log'[i])
             /\ log'[i].signature.key \notin Faulty =>
                   /\ InRange(log'[i], range.start, range.end)
                   /\ \A j \in DOMAIN log' : log'[j] = log'[i] => i = j
             /\ tasks'[log'[i].signature.key] = NoReply
  <2>1. CASE i \in DOMAIN log /\ log'[i] = log[i]
    <3>1. /\ SignedBy(log[i].signature.key, log[i])
          /\ log[i].signature.key \notin Faulty =>
                /\ InRange(log[i], range.start, range.end)
                /\ \A j \in DOMAIN log : log[j] = log[i] => i = j
          /\ tasks[log[i].signature.key] = NoReply
        BY <2>1 DEF Gathering, SoundLog
    <3>2. tasks'[log[i].signature.key] = NoReply
        BY <1>2, <1>3, <1>5, <2>1, <3>1
    <3>3. \A j \in DOMAIN log' : log'[j] = log[i] => j \in DOMAIN log /\ log'[j] = log[j]
        BY <1>4, <1>5, <1>7, <2>1
    <3> QED  BY <2>1, <3>1, <3>2, <3>3
  <2>2. CASE i \notin DOMAIN log /\ i - n \in DOMAIN q /\ log'[i] = q[i - n]
    <3>1. SignedBy(v, q[i - n]) /\ q[i - n].signature.key = v
        BY <1>4, <2>2
    <3>2. tasks'[v] = NoReply
        BY <1>2, <1>3
    <3>3. ASSUME v \notin Faulty
          PROVE  /\ InRange(q[i - n], range.start, range.end)
                 /\ \A j \in DOMAIN log' : log'[j] = q[i - n] => i = j
      <4>1. /\ InRange(q[i - n], range.start, range.end)
            /\ \A j \in DOMAIN q : q[j] = q[i - n] => j = i - n
          BY <1>8, <2>2, <3>3 DEF SoundAnswer, Distinct
      <4>2. ASSUME NEW j \in DOMAIN log', log'[j] = q[i - n]
            PROVE  i = j
        <5>1. j - n \in DOMAIN q /\ log'[j] = q[j - n] /\ j \in Nat /\ i \in Nat
            BY <1>5, <1>7, <3>1, <4>2
        <5>2. j - n = i - n
            BY <4>1, <4>2, <5>1
        <5> QED  BY <5>1, <5>2
      <4> QED  BY <4>1, <4>2
    <3> QED  BY <2>2, <3>1, <3>2, <3>3
  <2> QED  BY <1>7, <2>1, <2>2
<1>10. SoundLog(log)' /\ \A i \in DOMAIN log' : tasks'[log'[i].signature.key] = NoReply
    BY <1>2, <1>9 DEF SoundLog, SignedBy
<1>11. \A w \in Validators \ Faulty :
          tasks'[w] # NoReply => tasks[w] # NoReply /\ tasks'[w] = tasks[w]
    BY <1>2, <1>3
<1>12. \A w \in Validators \ Faulty :
          tasks'[w] # NoReply => SoundAnswer(w, tasks[w].records)'
    BY <1>2, <1>11 DEF Gathering, SoundAnswer, SignedBy
<1>13. ~LogReturned'
    BY <1>2 DEF LogReturned
<1> QED  BY <1>10, <1>12, <1>13 DEF Gathering

(* Sorting keeps a log sound, and every record of it.                      *)
LEMMA SortedSound ==
    ASSUME NEW q \in Seq(Records), SoundLog(q)
    PROVE  SoundLog(SortByTimestamp(q)) /\ SortedLog(SortByTimestamp(q))
<1> DEFINE s == SortByTimestamp(q)
<1>1. /\ \A i, j \in DOMAIN s : i < j => s[i].timestamp <= s[j].timestamp
      /\ \E f \in [DOMAIN s -> DOMAIN q] :
            /\ \A p \in DOMAIN s : s[p] = q[f[p]]
            /\ \A p, r \in DOMAIN s : f[p] = f[r] => p = r
    BY SortByTimestampSorts
<1> HIDE DEF s
<1>2. PICK f \in [DOMAIN s -> DOMAIN q] :
         /\ \A p \in DOMAIN s : s[p] = q[f[p]]
         /\ \A p, r \in DOMAIN s : f[p] = f[r] => p = r
    BY <1>1
<1>3. ASSUME NEW i \in DOMAIN s
      PROVE  /\ SignedBy(s[i].signature.key, s[i])
             /\ s[i].signature.key \notin Faulty =>
                   /\ InRange(s[i], range.start, range.end)
                   /\ \A j \in DOMAIN s : s[j] = s[i] => i = j
  <2>1. f[i] \in DOMAIN q /\ s[i] = q[f[i]]
      BY <1>2
  <2>2. /\ SignedBy(s[i].signature.key, s[i])
        /\ s[i].signature.key \notin Faulty =>
              /\ InRange(s[i], range.start, range.end)
              /\ \A k \in DOMAIN q : q[k] = s[i] => f[i] = k
      BY <2>1 DEF SoundLog
  <2> QED  BY <1>2, <2>2
<1>4. SoundLog(s)
    BY <1>3 DEF SoundLog
<1>5. SortedLog(s)
    BY <1>1 DEF SortedLog
<1> QED  BY <1>4, <1>5 DEF s

(* Logs that are gathered.                                                 *)
LEMMA NextGathering ==
    ASSUME Typed, Phased, StoresSound, Gathering, [Next]_vars
    PROVE  Gathering'
<1>t. log \in Seq(Records) /\ tasks \in [Validators -> {NoReply} \cup Answers]
    BY DEF Typed, TypeOK, Answers
<1>1. ASSUME UNCHANGED <<range, tasks, log>>, LogReturned' => LogReturned
      PROVE  Gathering'
    BY <1>1 DEF Gathering, SoundLog, SoundAnswer, SortedLog, SignedBy
<1>2. ASSUME NEW v \in Validators,
             \/ \E ns \in Namespaces, m \in Messages : HandleWrite(v, ns, m)
             \/ Restart(v)
      PROVE  Gathering'
  <2>1. UNCHANGED <<range, phase, tasks, log>>
      BY <1>2, AroundStep
  <2> QED  BY <1>1, <2>1 DEF LogReturned
<1>3. CASE ReadStep
  <2>1. phase = "idle" /\ phase' = "reading" /\ UNCHANGED <<tasks, log>>
      BY <1>3, ReadBegins
  <2>2. log = <<>> /\ \A v \in Validators : tasks[v] = NoReply
      BY <2>1 DEF Phased
  <2> QED  BY <2>1, <2>2 DEF Gathering, SoundLog, LogReturned
<1>4. ASSUME NEW v \in Validators, HandleReadRange(v) \/ FaultyLog(v)
      PROVE  Gathering'
  <2>1. /\ phase = "reading"
        /\ \A w \in Validators \ {v} : tasks'[w] = tasks[w]
        /\ v \notin Faulty => tasks'[v] =
              LogReply(RangeOf(store[v][range.ns], range.start, range.end))
        /\ UNCHANGED <<range, phase, log>>
      BY <1>4, LogStep
  <2>2. log' = <<>> /\ ~LogReturned'
      BY <2>1 DEF Phased, LogReturned
  <2>3. ASSUME v \notin Faulty
        PROVE  SoundAnswer(v, tasks[v].records)'
    <3>1. PICK q : q = RangeOf(store[v][range.ns], range.start, range.end)
        OBVIOUS
    <3>2. SoundAnswer(v, q)
        BY <2>1, <2>3, <3>1, RangeOfSound
    <3>3. tasks'[v].records = q
        BY <2>1, <2>3, <3>1 DEF LogReply
    <3> QED  BY <2>1, <3>2, <3>3 DEF SoundAnswer, SignedBy
  <2>4. ASSUME NEW w \in Validators \ Faulty, tasks'[w] # NoReply, w # v
        PROVE  SoundAnswer(w, tasks[w].records)'
      BY <2>1, <2>4 DEF Gathering, SoundAnswer, SignedBy
  <2>5. \A w \in Validators \ Faulty :
           tasks'[w] # NoReply => SoundAnswer(w, tasks[w].records)'
      BY <2>3, <2>4
  <2> QED  BY <2>2, <2>5 DEF Gathering, SoundLog
<1>5. CASE (\E v \in Validators : GiveUpLog(v)) \/ LogsRunOut
    BY <1>1, <1>5, ReadingEnds DEF LogReturned
<1>6. ASSUME NEW v \in Validators, JoinNext(v)
      PROVE  Gathering'
    BY <1>6, JoinedSound
<1>7. CASE (\E v \in Validators : JoinRejects(v)) \/ JoinEnds
  <2>1. /\ log' = SortByTimestamp(log)
        /\ tasks' = [v \in Validators |-> NoReply]
        /\ UNCHANGED range
      BY <1>7, JoiningEnds
  <2>2. SoundLog(log)
      BY DEF Gathering
  <2>3. PICK s : s = SortByTimestamp(log)
      OBVIOUS
  <2>4. SoundLog(s) /\ SortedLog(s) /\ s \in Seq(Records)
      BY <1>t, <2>2, <2>3, SortedSound, SortByTimestampSorts
  <2>5. \A i \in DOMAIN s : s[i].signature.key \in Validators
      BY <2>4, RecordAt
  <2>6. SoundLog(log)' /\ SortedLog(log)'
      BY <2>1, <2>3, <2>4 DEF SoundLog, SortedLog, SignedBy
  <2>7. \A i \in DOMAIN log' : tasks'[log'[i].signature.key] = NoReply
      BY <2>1, <2>3, <2>5
  <2>8. \A v \in Validators : tasks'[v] = NoReply
      BY <2>1
  <2> QED  BY <2>6, <2>7, <2>8 DEF Gathering
<1>8. CASE Certify
    BY <1>1, <1>8, CertifyStep DEF LogReturned
<1>9. CASE AskingStep
    BY <1>1, <1>9, AskingEnds DEF LogReturned
<1>10. CASE CertifyEnds
    BY <1>1, <1>10, CertifyEndsStep DEF LogReturned
<1>11. CASE UNCHANGED vars
    BY <1>1, <1>11 DEF vars, LogReturned
<1> QED
    BY <1>2, <1>3, <1>4, <1>5, <1>6, <1>7, <1>8, <1>9, <1>10, <1>11, StepKinds

(* What is kept is a record with its correct validator.                    *)
LEMMA KeptPair ==
    ASSUME Typed, NEW p \in kept
    PROVE  /\ p = <<p[1], p[2]>> /\ p[1] \in Validators \ Faulty /\ p[2] \in Records
BY DEF Typed, TypeOK

(* Records that are kept.                                                  *)
LEMMA NextKeeping ==
    ASSUME Typed, Typed', Phased, Keeping, [Next]_vars
    PROVE  Keeping'
<1>t. log \in Seq(Records) /\ tasks \in [Validators -> {NoReply} \cup Answers]
    BY DEF Typed, TypeOK, Answers
<1>1. ASSUME NEW v \in Validators,
             \/ \E ns \in Namespaces, m \in Messages : HandleWrite(v, ns, m)
             \/ Restart(v)
      PROVE  Keeping'
  <2>1. /\ kept' = StillKept(store')
        /\ UNCHANGED <<range, phase, pending, tasks, log, missed>>
      BY <1>1, AroundStep
  <2>2. \A p \in kept' : p \in kept /\ p[2] \in RecordsIn(store'[p[1]][range.ns])
      BY <2>1 DEF StillKept
  <2> QED  BY <2>1, <2>2 DEF Keeping, Has
<1>2. CASE ReadStep
  <2>1. /\ phase' = "reading" /\ pending' = Validators
        /\ \A p \in kept' : /\ p[1] \in Validators \ Faulty
                            /\ p[2] \in RecordsIn(store[p[1]][range'.ns])
                            /\ InRange(p[2], range'.start, range'.end)
        /\ UNCHANGED store
      BY <1>2, ReadBegins
  <2> QED  BY <2>1 DEF Keeping
<1>3. ASSUME NEW v \in Validators, HandleReadRange(v) \/ FaultyLog(v)
      PROVE  Keeping'
  <2>1. /\ phase = "reading" /\ v \in pending /\ pending' = pending \ {v}
        /\ \A w \in Validators \ {v} : tasks'[w] = tasks[w]
        /\ v \notin Faulty => tasks'[v] =
              LogReply(RangeOf(store[v][range.ns], range.start, range.end))
        /\ UNCHANGED <<store, range, phase, log, kept, missed>>
      BY <1>3, LogStep
  <2>2. ASSUME NEW p \in kept, p[1] = v
        PROVE  tasks'[v] # NoReply /\ Has(tasks'[v].records, p[2])
    <3>1. v \notin Faulty /\ range.ns \in Namespaces
        BY <2>1, <2>2, KeptPair DEF Typed, Ranges
    <3>0. store \in [Validators -> [Namespaces -> Seq(Entries)]]
        BY DEF Typed, TypeOK
    <3>2. PICK entries \in Seq(Entries) : entries = store[v][range.ns]
        BY <3>0, <3>1
    <3>3. PICK i \in DOMAIN entries : p[2] = entries[i].record
        BY <2>2, <3>2 DEF Keeping, RecordsIn
    <3>4. InRange(entries[i].record, range.start, range.end)
        BY <3>3 DEF Keeping
    <3> DEFINE q == RangeOf(entries, range.start, range.end)
    <3>5. q \in Seq(Records) /\ \E k \in DOMAIN q : q[k] = entries[i].record
        BY <3>4, RangeOfRecords
    <3> HIDE DEF q
    <3>6. tasks'[v] = LogReply(q)
        BY <2>1, <3>1, <3>2 DEF q
    <3> QED  BY <3>3, <3>5, <3>6, LogReplyType DEF Has
  <2>3. \A p \in kept : p[1] \in Validators
      BY KeptPair
  <2>4. ASSUME NEW p \in kept, ~missed, p[1] # v
        PROVE  \/ p[1] \in pending'
               \/ tasks'[p[1]] # NoReply /\ Has(tasks'[p[1]].records, p[2])
               \/ Has(log, p[2])
      BY <2>1, <2>3, <2>4 DEF Keeping
  <2>5. ASSUME NEW p \in kept, ~missed
        PROVE  \/ p[1] \in pending'
               \/ tasks'[p[1]] # NoReply /\ Has(tasks'[p[1]].records, p[2])
               \/ Has(log, p[2])
      BY <2>2, <2>4, <2>5
  <2> QED  BY <2>1, <2>5 DEF Keeping, Has
<1>4. CASE (\E v \in Validators : GiveUpLog(v)) \/ LogsRunOut
  <2>1. /\ missed' = TRUE \/ (missed' = missed /\ pending = {})
        /\ UNCHANGED <<store, range, tasks, log, kept>>
      BY <1>4, ReadingEnds
  <2> QED  BY <2>1 DEF Keeping, Has
<1>5. ASSUME NEW v \in Validators, JoinNext(v)
      PROVE  Keeping'
  <2>1. PICK q \in Seq(Records) : q = tasks[v].records
      BY <1>5, LogJoined
  <2>2. /\ phase = "joining" /\ log' = log \o q
        /\ tasks' = [tasks EXCEPT ![v] = NoReply]
        /\ UNCHANGED <<store, range, phase, kept, missed>>
      BY <1>5, <2>1, LogJoined
  <2>3. \A r : Has(log, r) \/ Has(q, r) => Has(log', r)
    <3>1. PICK n : n = Len(log)
        OBVIOUS
    <3>2. /\ \A i \in DOMAIN log : i \in DOMAIN log' /\ log'[i] = log[i]
          /\ \A i \in DOMAIN q : n + i \in DOMAIN log' /\ log'[n + i] = q[i]
        BY <1>t, <2>2, <3>1, PlaceInConcat
    <3> QED  BY <3>2 DEF Has
  <2>4. \A p \in kept : p[1] \in Validators
      BY KeptPair
  <2>5. ASSUME NEW p \in kept, ~missed
        PROVE  \/ tasks'[p[1]] # NoReply /\ Has(tasks'[p[1]].records, p[2])
               \/ Has(log', p[2])
    <3>1. \/ tasks[p[1]] # NoReply /\ Has(tasks[p[1]].records, p[2])
          \/ Has(log, p[2])
        BY <2>2, <2>5 DEF Keeping
    <3>2. CASE p[1] = v
        BY <2>1, <2>3, <3>1, <3>2
    <3>3. CASE p[1] # v
        BY <1>t, <2>2, <2>3, <2>4, <3>1, <3>3
    <3> QED  BY <3>2, <3>3
  <2>6. ASSUME NEW p \in kept'
        PROVE  /\ p[2] \in RecordsIn(store'[p[1]][range'.ns])
               /\ InRange(p[2], range'.start, range'.end)
      BY <2>2 DEF Keeping
  <2> QED  BY <2>2, <2>5, <2>6 DEF Keeping, Has
<1>6. CASE (\E v \in Validators : JoinRejects(v)) \/ JoinEnds
  <2>1. /\ phase = "joining" /\ log' = SortByTimestamp(log)
        /\ missed' = TRUE \/ (missed' = missed /\ \A v \in Validators : tasks[v] = NoReply)
        /\ UNCHANGED <<store, range, kept>>
      BY <1>6, JoiningEnds
  <2>2. \A r : Has(log, r) => Has(log', r)
      BY <1>t, <2>1, SortByTimestampSorts DEF Has
  <2>3. \A p \in kept : p[1] \in Validators
      BY KeptPair
  <2>4. ASSUME NEW p \in kept, missed' # TRUE
        PROVE  Has(log', p[2])
    <3>1. ~missed /\ tasks[p[1]] = NoReply
        BY <2>1, <2>3, <2>4 DEF Typed, TypeOK
    <3> QED  BY <2>1, <2>2, <3>1 DEF Keeping
  <2>5. ASSUME NEW p \in kept'
        PROVE  /\ p[2] \in RecordsIn(store'[p[1]][range'.ns])
               /\ InRange(p[2], range'.start, range'.end)
      BY <2>1 DEF Keeping
  <2> QED  BY <2>1, <2>4, <2>5 DEF Keeping, Has
<1>7. ASSUME UNCHANGED <<store, range, tasks, log, kept>>, phase # "reading",
             missed' = TRUE \/ missed' = missed
      PROVE  Keeping'
    BY <1>7 DEF Keeping, Has
<1>8. CASE Certify
    BY <1>7, <1>8, CertifyStep
<1>9. CASE AskingStep
    BY <1>7, <1>9, AskingEnds
<1>10. CASE CertifyEnds
    BY <1>7, <1>10, CertifyEndsStep
<1>11. CASE UNCHANGED vars
    BY <1>11 DEF Keeping, Has, vars
<1> QED
    BY <1>1, <1>2, <1>3, <1>4, <1>5, <1>6, <1>8, <1>9, <1>10, <1>11, StepKinds

(* A validator that has kept a record of the message answers with a record *)
(* that counts.                                                            *)
LEMMA KeeperAnswers ==
    ASSUME Typed, StoresSound, Keeping, phase = "asking",
           NEW p \in kept, p[2].message = Asked, NEW ts,
           NEW reply \in MessageReplies(p[1], store[p[1]][range.ns], MessageCall.id, ts)
    PROVE  CountsAvailable(MessageCall, p[1], reply)
<1>1. PICK v \in Validators \ Faulty : v = p[1]
    BY KeptPair
<1>2. PICK ns \in Namespaces : ns = range.ns
    BY MessageCallType
<1>3. PICK entries \in Seq(Entries) : entries = store[v][ns]
    BY DEF Typed, TypeOK
<1>4. SoundEntries(v, ns, entries)
    BY <1>3 DEF StoresSound
<1>5. PICK i \in DOMAIN entries : p[2] = entries[i].record
    BY <1>1, <1>2, <1>3 DEF Keeping, RecordsIn
<1>6. PICK id \in MsgIds : id = MessageCall.id
    BY MessageCallType, MsgIdType
<1>7. id = MsgId(ns, Asked) /\ MessageCall.ns = ns /\ MessageCall.type = "read"
    BY <1>2, <1>6, MessageCallType
<1>8. entries[i].id = id
    BY <1>4, <1>5, <1>7 DEF SoundEntries
<1>9. id \in KeysOf(entries)
    BY <1>8 DEF KeysOf
<1>10. PICK r : r = RecordOf(entries, id)
    OBVIOUS
<1>11. /\ MsgId(ns, r.message) = id
       /\ Verify(r.signature, v, RecordDigest(ns, r.timestamp, r.message))
    BY <1>4, <1>9, <1>10, RecordOfSound
<1>12. reply = RecordReply(r)
    BY <1>1, <1>2, <1>3, <1>6, <1>9, <1>10 DEF MessageReplies
<1>13. reply.type = "record" /\ reply.record = r
    BY <1>12 DEF RecordReply
<1> QED  BY <1>1, <1>6, <1>7, <1>11, <1>13 DEF CountsAvailable, Matches

(* A record that matches the call carries the message that is asked for.   *)
LEMMA MatchingIsAsked ==
    ASSUME Typed, phase = "asking", NEW r \in Records, Matches(MessageCall, r)
    PROVE  r.message = Asked
<1>1. MessageCall \in Calls /\ Asked \in Messages /\ MessageCall.ns = range.ns
      /\ MessageCall.type = "read" /\ MessageCall.id = MsgId(range.ns, Asked)
    BY MessageCallType
<1>2. PICK c \in Calls : c = MessageCall
    BY <1>1
<1>3. MsgId(c.ns, Asked) = CallId(c)
    BY <1>1, <1>2 DEF CallId
<1> QED  BY <1>1, <1>2, <1>3, MatchesCallId

(* An answer and what has been counted with it.                            *)
LEMMA ReplyCounted ==
    ASSUME Typed, StoresSound, Keeping, phase = "asking",
           Counted(available, unavailable, message, pending),
           NEW v \in pending, NEW reply \in Replies,
           v \notin Faulty =>
              \E ts \in Times :
                 reply \in MessageReplies(v, store[v][range.ns], MessageCall.id, ts)
    PROVE  Counted(TallyRecord(MessageCall, v, reply, available),
                   TallyAbsence(MessageCall, v, reply, unavailable),
                   TakenMessage(MessageCall, reply, message), pending \ {v})
<1>1. /\ MessageCall \in Calls /\ v \in Validators /\ pending \subseteq Validators
      /\ available \in Tallies /\ unavailable \in Tallies
      /\ message \in Messages \cup {NoMessage}
      /\ MessageCall.ns = range.ns
    BY MessageCallType DEF Typed, TypeOK
<1>2. v \notin Voters(available) /\ v \notin Voters(unavailable)
    BY DEF Counted
<1>3. ASSUME NEW p \in kept, p[2].message = Asked, p[1] = v
      PROVE  CountsAvailable(MessageCall, v, reply)
  <2>1. v \notin Faulty
      BY <1>3, KeptPair
  <2>2. PICK ts \in Times :
           reply \in MessageReplies(p[1], store[p[1]][range.ns], MessageCall.id, ts)
      BY <1>3, <2>1
  <2>3. CountsAvailable(MessageCall, p[1], reply)
      BY <1>3, <2>2, KeeperAnswers
  <2> QED  BY <1>3, <2>3
<1>4. CASE CountsAvailable(MessageCall, v, reply)
  <2>1. PICK r \in Records : r = reply.record
      BY <1>4, CountedType DEF CountsAvailable
  <2>2. /\ Matches(MessageCall, r)
        /\ Verify(r.signature, v, RecordDigest(range.ns, r.timestamp, r.message))
        /\ r.signature.key = v /\ reply.type = "record"
      BY <1>1, <1>4, <2>1, CountedKey DEF CountsAvailable
  <2>3. r.message = Asked
      BY <2>2, MatchingIsAsked
  <2>4. r.timestamp \in Nat /\ r.signature \in Signatures
      BY DEF Records
  <2>5. PICK ts \in Nat, sig \in Signatures : ts = r.timestamp /\ sig = r.signature
      BY <2>4
  <2>6. PICK a \in Tallies : a = AddVote(available, v, ts, sig)
      BY <1>1, AddVoteType
  <2>7. sig.key = v /\ sig = Sign(v, RecordDigest(range.ns, ts, Asked))
      BY <2>2, <2>3, <2>5 DEF Verify
  <2>8. available.votes = Cardinality(Voters(available))
      BY DEF Counted
  <2>9. Voters(a) = Voters(available) \cup {v} /\ a.votes = Cardinality(Voters(a))
      BY <1>1, <1>2, <2>6, <2>7, <2>8, AddVoteCounts
  <2>10. /\ a.sigs = available.sigs \cup {sig}
         /\ a.timestamps[v] = ts
         /\ \A w \in Validators \ {v} : a.timestamps[w] = available.timestamps[w]
         /\ \A s \in available.sigs : s.key \in Validators \ {v}
      BY <1>1, <1>2, <2>6, <2>7, AddVoteEntries
  <2>11. \A s \in a.sigs : s = Sign(s.key, RecordDigest(range.ns, a.timestamps[s.key], Asked))
      BY <2>7, <2>10 DEF Counted
  <2>12. TallyRecord(MessageCall, v, reply, available) = a
      BY <1>4, <2>1, <2>5, <2>6 DEF TallyRecord
  <2>13. TallyAbsence(MessageCall, v, reply, unavailable) = unavailable
      BY <2>2 DEF TallyAbsence, CountsUnavailable
  <2>14. TakenMessage(MessageCall, reply, message) = Asked
      BY <2>1, <2>2, <2>3 DEF TakenMessage
  <2>15. Counted(a, unavailable, Asked, pending \ {v})
      BY <1>2, <2>9, <2>11 DEF Counted
  <2> QED  BY <2>12, <2>13, <2>14, <2>15
<1>5. CASE CountsUnavailable(MessageCall, v, reply)
  <2>1. ~CountsAvailable(MessageCall, v, reply) /\ reply.type = "unavailable"
      BY <1>5 DEF CountsAvailable, CountsUnavailable
  <2>2. PICK ts \in Nat, sig \in Signatures :
           ts = reply.unavailable.timestamp /\ sig = reply.unavailable.signature
      BY <1>5, CountedType
  <2>3. sig.key = v
      BY <1>5, <2>2, CountedKey
  <2>4. PICK u : u = AddVote(unavailable, v, ts, sig)
      OBVIOUS
  <2>5. unavailable.votes = Cardinality(Voters(unavailable))
      BY DEF Counted
  <2>6. Voters(u) = Voters(unavailable) \cup {v} /\ u.votes = Cardinality(Voters(u))
      BY <1>1, <1>2, <2>3, <2>4, <2>5, AddVoteCounts
  <2>7. TallyRecord(MessageCall, v, reply, available) = available
      BY <2>1 DEF TallyRecord
  <2>8. TallyAbsence(MessageCall, v, reply, unavailable) = u
      BY <1>5, <2>2, <2>4 DEF TallyAbsence
  <2>9. TakenMessage(MessageCall, reply, message) = message
      BY <2>1 DEF TakenMessage
  <2>10. \A p \in kept : p[2].message = Asked => p[1] # v
      BY <1>3, <2>1
  <2>11. Counted(available, u, message, pending \ {v})
      BY <1>2, <2>6, <2>10 DEF Counted
  <2> QED  BY <2>7, <2>8, <2>9, <2>11
<1>6. CASE ~CountsAvailable(MessageCall, v, reply) /\ ~CountsUnavailable(MessageCall, v, reply)
  <2>1. /\ TallyRecord(MessageCall, v, reply, available) = available
        /\ TallyAbsence(MessageCall, v, reply, unavailable) = unavailable
      BY <1>6 DEF TallyRecord, TallyAbsence
  <2>2. PICK msg : msg = TakenMessage(MessageCall, reply, message)
      OBVIOUS
  <2>3. msg = message \/ msg = Asked
    <3>1. CASE reply.type = "record" /\ Matches(MessageCall, reply.record)
      <4>1. reply.record \in Records
          BY <3>1, CountedType
      <4>2. reply.record.message = Asked
          BY <3>1, <4>1, MatchingIsAsked
      <4> QED  BY <2>2, <3>1, <4>2 DEF TakenMessage
    <3>2. CASE ~(reply.type = "record" /\ Matches(MessageCall, reply.record))
        BY <2>2, <3>2 DEF TakenMessage
    <3> QED  BY <3>1, <3>2
  <2>4. \A p \in kept : p[2].message = Asked => p[1] # v
      BY <1>3, <1>6
  <2>5. Counted(available, unavailable, msg, pending \ {v})
      BY <2>3, <2>4 DEF Counted
  <2> QED  BY <2>1, <2>2, <2>5
<1> QED  BY <1>4, <1>5, <1>6

(* When the loop of read_message may end with its answers.                 *)
LoopDone(a, u, waiting) == LoopBreaks(a, u) \/ waiting = {}

(* A step of the loop of read_message goes on or ends with what it has     *)
(* counted.                                                                *)
LEMMA AskingCounted ==
    ASSUME Typed, StoresSound, Keeping, Counting, AskingStep
    PROVE  \E a \in Tallies, u \in Tallies, msg \in Messages \cup {NoMessage},
              waiting \in SUBSET Validators :
              /\ Counted(a, u, msg, waiting)
              /\ \/ /\ available' = a /\ unavailable' = u /\ message' = msg
                    /\ pending' = waiting
                    /\ UNCHANGED <<certified, cursor, phase, missed>>
                 \/ /\ PushCertified(a, u, msg)
                    /\ missed' = TRUE \/ (missed' = missed /\ LoopDone(a, u, waiting))
<1>1. /\ phase = "asking" /\ MessageCall \in Calls
      /\ Counted(available, unavailable, message, pending)
      /\ available \in Tallies /\ unavailable \in Tallies
      /\ message \in Messages \cup {NoMessage} /\ pending \in SUBSET Validators
    BY AskingEnds, MessageCallType DEF Counting, Typed, TypeOK
<1>2. ASSUME NEW v \in Validators, HandleReadMessage(v) \/ FaultyReply(v)
      PROVE  \E a \in Tallies, u \in Tallies, msg \in Messages \cup {NoMessage},
                waiting \in SUBSET Validators :
                /\ Counted(a, u, msg, waiting)
                /\ \/ /\ available' = a /\ unavailable' = u /\ message' = msg
                      /\ pending' = waiting
                      /\ UNCHANGED <<certified, cursor, phase, missed>>
                   \/ /\ PushCertified(a, u, msg)
                      /\ missed' = TRUE \/ (missed' = missed /\ LoopDone(a, u, waiting))
  <2>1. v \in pending
      BY <1>2, ReplyTaken
  <2>2. PICK reply \in Replies :
           /\ TakeReply(v, reply)
           /\ v \notin Faulty =>
                 \E ts \in Times :
                    reply \in MessageReplies(v, store[v][range.ns], MessageCall.id, ts)
      BY <1>2, ReplyTaken
  <2>3. PICK a \in Tallies : a = TallyRecord(MessageCall, v, reply, available)
      BY <1>1, TalliedType
  <2>4. PICK u \in Tallies : u = TallyAbsence(MessageCall, v, reply, unavailable)
      BY <1>1, TalliedType
  <2>5. PICK msg \in Messages \cup {NoMessage} :
           msg = TakenMessage(MessageCall, reply, message)
      BY <1>1, TalliedType
  <2>6. PICK waiting \in SUBSET Validators : waiting = pending \ {v}
      BY <1>1
  <2>7. Counted(a, u, msg, waiting)
      BY <1>1, <2>1, <2>2, <2>3, <2>4, <2>5, <2>6, ReplyCounted
  <2>8. /\ \/ /\ available' = a /\ unavailable' = u /\ message' = msg
              /\ UNCHANGED <<certified, cursor, phase>>
           \/ PushCertified(a, u, msg) /\ LoopBreaks(a, u)
        /\ pending' = waiting /\ missed' = missed
      BY <2>2, <2>3, <2>4, <2>5, <2>6 DEF TakeReply
  <2> QED  BY <2>7, <2>8 DEF LoopDone
<1>3. ASSUME (\E v \in Validators : GiveUp(v)) \/ RunOut
      PROVE  /\ PushCertified(available, unavailable, message)
             /\ missed' = TRUE \/ (missed' = missed /\ pending = {})
    BY <1>3 DEF GiveUp, RunOut
<1>4. CASE (\E v \in Validators : GiveUp(v)) \/ RunOut
    BY <1>1, <1>3, <1>4 DEF LoopDone
<1> QED  BY <1>2, <1>4 DEF AskingStep

(* Votes that are counted.                                                 *)
LEMMA NextCounting ==
    ASSUME Typed, Phased, StoresSound, Keeping, Counting, [Next]_vars
    PROVE  Counting'
<1>1. ASSUME NEW v \in Validators,
             \/ \E ns \in Namespaces, m \in Messages : HandleWrite(v, ns, m)
             \/ Restart(v)
      PROVE  Counting'
  <2>1. /\ kept' \in SUBSET kept
        /\ UNCHANGED <<range, phase, pending, log, cursor, available, unavailable,
                       message, missed>>
      BY <1>1, AroundStep
  <2>2. Asked' = Asked
      BY <2>1 DEF Asked
  <2> QED  BY <2>1, <2>2 DEF Counting, Counted
<1>2. CASE Certify
  <2>1. /\ phase = "certifying" /\ phase' = "asking" /\ pending' = Validators
        /\ UNCHANGED <<available, unavailable, kept>>
      BY <1>2, CertifyStep
  <2>2. available' = EmptyTally /\ unavailable' = EmptyTally
      BY <2>1 DEF Phased
  <2>3. EmptyTally.sigs = {}
      BY DEF EmptyTally
  <2>4. \A p \in kept' : p[1] \in Validators
      BY <2>1, KeptPair
  <2> QED  BY <2>1, <2>2, <2>3, <2>4, EmptyTallyCounted DEF Counting, Counted
<1>3. CASE AskingStep
  <2>1. SUFFICES ASSUME phase' = "asking"
                 PROVE  Counted(available, unavailable, message, pending)'
      BY DEF Counting
  <2>2. PICK a \in Tallies, u \in Tallies, msg \in Messages \cup {NoMessage},
             waiting \in SUBSET Validators :
           /\ Counted(a, u, msg, waiting)
           /\ \/ /\ available' = a /\ unavailable' = u /\ message' = msg
                 /\ pending' = waiting
                 /\ UNCHANGED <<certified, cursor, phase, missed>>
              \/ PushCertified(a, u, msg)
      BY <1>3, AskingCounted
  <2>3. ~PushCertified(a, u, msg)
      BY <2>1 DEF PushCertified
  <2>4. UNCHANGED <<range, log, kept>>
      BY <1>3, AskingEnds
  <2>5. Asked' = Asked
      BY <2>2, <2>3, <2>4 DEF Asked
  <2> QED  BY <2>2, <2>3, <2>4, <2>5 DEF Counted
<1>4. ASSUME phase' # "asking"
      PROVE  Counting'
    BY <1>4 DEF Counting
<1>5. CASE ReadStep
    BY <1>4, <1>5, ReadBegins
<1>6. ASSUME NEW v \in Validators, HandleReadRange(v) \/ FaultyLog(v)
      PROVE  Counting'
    BY <1>4, <1>6, LogStep
<1>7. CASE (\E v \in Validators : GiveUpLog(v)) \/ LogsRunOut
    BY <1>4, <1>7, ReadingEnds
<1>8. ASSUME NEW v \in Validators, JoinNext(v)
      PROVE  Counting'
    BY <1>4, <1>8, LogJoined
<1>9. CASE (\E v \in Validators : JoinRejects(v)) \/ JoinEnds
    BY <1>4, <1>9, JoiningEnds
<1>10. CASE CertifyEnds
    BY <1>4, <1>10, CertifyEndsStep
<1>11. CASE UNCHANGED vars
    BY <1>11 DEF Counting, Counted, Asked, vars
<1> QED
    BY <1>1, <1>2, <1>3, <1>5, <1>6, <1>7, <1>8, <1>9, <1>10, <1>11, StepKinds

(* The validators that have kept a record of a message are correct, and    *)
(* there are at most N of them.                                            *)
LEMMA KeepersType ==
    ASSUME Typed, NEW m
    PROVE  /\ Keepers(m) \in SUBSET Validators
           /\ IsFiniteSet(Keepers(m)) /\ Cardinality(Keepers(m)) \in 0 .. N
<1>1. Keepers(m) \in SUBSET Validators
    BY KeptPair DEF Keepers
<1> QED  BY <1>1, IndexSubset, NAssumption DEF Validators

(* When a quorum has kept the message that is asked for and no answer was  *)
(* lost, the loop ends with a quorum of records.                           *)
LEMMA QuorumKeptIsCertified ==
    ASSUME Typed, phase = "asking", ~missed, N # 4,
           HasReachedQuorum(N, Cardinality(Keepers(Asked))), Keepers(Asked) # {},
           NEW a \in Tallies, NEW u \in Tallies, NEW msg,
           NEW waiting \in SUBSET Validators,
           Counted(a, u, msg, waiting), LoopDone(a, u, waiting)
    PROVE  HasReachedQuorum(N, a.votes) /\ a.sigs # {}
<1>1. PICK K \in SUBSET Validators : K = Keepers(Asked)
    BY KeepersType
<1>2. HasReachedQuorum(N, Cardinality(K)) /\ Cardinality(K) \in 0 .. N /\ K # {}
    BY <1>1, KeepersType
<1>3. PICK A \in SUBSET Validators, U \in SUBSET Validators : A = Voters(a) /\ U = Voters(u)
    BY VotersType
<1>4. /\ IsFiniteSet(A) /\ Cardinality(A) \in 0 .. N
      /\ IsFiniteSet(U) /\ Cardinality(U) \in 0 .. N
    BY <1>3, VotersType
<1>5. /\ a.votes = Cardinality(A) /\ u.votes = Cardinality(U)
      /\ A \cap U = {} /\ A \cap waiting = {} /\ U \cap waiting = {}
    BY <1>3 DEF Counted
<1>6. K \cap U = {} /\ K \subseteq waiting \cup A
    BY <1>1, <1>3 DEF Counted, Keepers
<1>7. N \in Nat \ {0, 4}
  <2>1. Validators = {} \/ N # 0
      BY NAssumption DEF Validators, Indexes
  <2> QED  BY <1>1, <1>2, <2>1, NAssumption
<1>8. ASSUME K \subseteq A
      PROVE  HasReachedQuorum(N, a.votes)
  <2>1. Cardinality(K) <= Cardinality(A)
      BY <1>4, <1>8, FS_Subset
  <2> QED  BY <1>2, <1>4, <1>5, <1>7, <2>1, QuorumMonotone
<1>9. ~HasReachedQuorum(N, u.votes)
    BY <1>1, <1>2, <1>3, <1>5, <1>6, <1>7, QuorumsShareValidator DEF Validators
<1>10. ASSUME a.votes + u.votes >= N
       PROVE  K \subseteq A
  <2>1. IsFiniteSet(A \cup U) /\ Cardinality(A \cup U) = Cardinality(A) + Cardinality(U)
    <3>1. /\ IsFiniteSet(A \cup U)
          /\ Cardinality(A \cup U) = Cardinality(A) + Cardinality(U) - Cardinality(A \cap U)
        BY <1>4, FS_Union
    <3>2. Cardinality(A \cap U) = 0
        BY <1>5, FS_EmptySet
    <3> QED  BY <1>4, <3>1, <3>2
  <2>2. IsFiniteSet(Validators) /\ Cardinality(Validators) = N
      BY IndexesCardinality, NAssumption DEF Validators
  <2>3. A \cup U \in SUBSET Validators
      BY <1>3
  <2>4. PICK V : V = A \cup U
      OBVIOUS
  <2>5. Cardinality(V) <= N /\ (Cardinality(V) = N => V = Validators)
      BY <2>2, <2>3, <2>4, FS_Subset
  <2>6. Cardinality(V) >= N /\ Cardinality(V) \in Nat
      BY <1>4, <1>5, <1>10, <2>1, <2>4
  <2>7. V = Validators
      BY <1>7, <2>5, <2>6
  <2> QED  BY <1>5, <1>6, <2>4, <2>7
<1>11. waiting = {} => K \subseteq A
    BY <1>6
<1>12. HasReachedQuorum(N, a.votes)
    BY <1>8, <1>9, <1>10, <1>11 DEF LoopDone, LoopBreaks
<1>13. a.sigs # {}
  <2>1. Cardinality(A) > 0
      BY <1>4, <1>5, <1>7, <1>12, QuorumNotEmpty
  <2>2. A # {}
      BY <2>1, FS_EmptySet
  <2> QED  BY <1>3, <2>2 DEF Voters
<1> QED  BY <1>12, <1>13

(* Every timestamp of an array is in the sorted array.                     *)
LEMMA SortedHasEach ==
    ASSUME NEW ts \in [Validators -> Nat], NEW v \in Validators
    PROVE  \E w \in Validators : Sorted(N, ts)[w] = ts[v]
<1>1. PICK t \in Nat : t = ts[v]
    OBVIOUS
<1> DEFINE Old == {i \in Indexes(N) : ts[i] = t}
           Now == {i \in Indexes(N) : Sorted(N, ts)[i] = t}
<1>2. Cardinality(Now) = Cardinality(Old)
    BY NAssumption, SortedSameElements DEF Validators
<1>3. v \in Old /\ Old \in SUBSET Indexes(N)
    BY <1>1 DEF Validators
<1>4. SUFFICES Now # {}
    BY <1>1 DEF Validators
<1> HIDE DEF Old, Now
<1>5. IsFiniteSet(Old)
    BY <1>3, IndexSubset, NAssumption
<1>6. Cardinality(Old) # 0
    BY <1>3, <1>5, FS_EmptySet
<1> QED  BY <1>2, <1>6, FS_EmptySet

(* What the end of a read_message adds to the certified log.               *)
LEMMA PushedResult ==
    ASSUME Typed, phase = "asking", NEW a \in Tallies, NEW u \in Tallies,
           NEW msg \in Messages \cup {NoMessage}, NEW waiting,
           Counted(a, u, msg, waiting), PushCertified(a, u, msg)
    PROVE  /\ cursor' = cursor + 1
           /\ \/ certified' = certified /\ ~(HasReachedQuorum(N, a.votes) /\ a.sigs # {})
              \/ \E r \in Results : /\ certified' = Append(certified, r)
                                    /\ r.message = Asked
                                    /\ Supported(r)
<1>1. MessageCall \in Calls
    BY MessageCallType
<1>2. PICK r \in Results : r = Concluded(MessageCall, a, u, msg)
    BY <1>1, ConcludedType
<1>3. /\ cursor' = cursor + 1
      /\ certified' = IF r.type = "available" THEN Append(certified, r) ELSE certified
    BY <1>2 DEF PushCertified
<1>4. r.type = "available" <=> HasReachedQuorum(N, a.votes) /\ a.sigs # {}
    BY <1>2 DEF Concluded, Panic, NoQuorum
<1>5. ASSUME HasReachedQuorum(N, a.votes), a.sigs # {}
      PROVE  r.message = Asked /\ Supported(r)
  <2>1. r = [type |-> "available", timestamps |-> Sorted(N, a.timestamps),
             message |-> msg, sigs |-> a.sigs]
      BY <1>2, <1>5 DEF Concluded
  <2>2. msg = Asked
      BY <1>5 DEF Counted
  <2>3. r.message = Asked /\ r.sigs = a.sigs /\ r.timestamps = Sorted(N, a.timestamps)
      BY <2>1, <2>2
  <2>4. HasReachedQuorum(N, Cardinality({s.key : s \in r.sigs}))
      BY <1>5, <2>3 DEF Counted, Voters
  <2>5. ASSUME NEW s \in a.sigs
        PROVE  \E v \in Validators :
                  s = Sign(s.key, RecordDigest(range.ns, r.timestamps[v], r.message))
    <3>1. a.timestamps \in [Validators -> Nat] /\ s.key \in Validators
        BY DEF Tallies, Signatures
    <3>2. PICK t : t = a.timestamps[s.key]
        OBVIOUS
    <3>3. PICK v \in Validators : Sorted(N, a.timestamps)[v] = t
        BY <3>1, <3>2, SortedHasEach
    <3>4. s = Sign(s.key, RecordDigest(range.ns, a.timestamps[s.key], Asked))
        BY DEF Counted
    <3> QED  BY <2>3, <3>2, <3>3, <3>4
  <2> QED  BY <2>3, <2>4, <2>5 DEF Supported
<1> QED  BY <1>3, <1>4, <1>5

(* The entries of c certify messages among the first k of q, in order.     *)
Follows(c, q, k) ==
    \E S \in SUBSET (1 .. k) :
       /\ Cardinality(S) = Len(c)
       /\ \A i \in S : c[Cardinality({j \in S : j <= i})].message = q[i].message

(* An entry joins the certified log, for the record after those that are   *)
(* done.                                                                   *)
LEMMA FollowsOneMore ==
    ASSUME NEW c \in Seq(Results), NEW r \in Results, NEW q, NEW k \in Nat,
           Follows(c, q, k), r.message = q[k + 1].message
    PROVE  Follows(Append(c, r), q, k + 1)
<1>0. PICK S \in SUBSET (1 .. k) :
         /\ Cardinality(S) = Len(c)
         /\ \A i \in S : c[Cardinality({j \in S : j <= i})].message = q[i].message
    BY DEF Follows
<1> DEFINE T == S \cup {k + 1}
<1>1. S \in SUBSET Nat /\ IsFiniteSet(S) /\ k + 1 \notin S
  <2>1. IsFiniteSet(1 .. k)
      BY FS_Interval
  <2>2. IsFiniteSet(S)
      BY <2>1, FS_Subset
  <2>3. \A i \in S : i \in Nat /\ i <= k
      OBVIOUS
  <2> QED  BY <2>2, <2>3
<1>2. IsFiniteSet(T) /\ Cardinality(T) = Len(c) + 1
    BY <1>0, <1>1, FS_AddElement
<1>3. Len(c) \in Nat /\ Len(Append(c, r)) = Len(c) + 1
      /\ Append(c, r)[Len(c) + 1] = r
      /\ \A i \in 1 .. Len(c) : Append(c, r)[i] = c[i]
    BY LenProperties, AppendProperties
<1>4. ASSUME NEW i \in S
      PROVE  Append(c, r)[Cardinality({j \in T : j <= i})].message = q[i].message
  <2>1. {j \in T : j <= i} = {j \in S : j <= i}
      BY <1>1
  <2>2. Cardinality({j \in S : j <= i}) \in 1 .. Len(c)
      BY <1>0, <1>1, CountUpTo
  <2> QED  BY <1>0, <1>3, <2>1, <2>2
<1>5. {j \in T : j <= k + 1} = T
  <2>1. \A j \in T : j <= k + 1
      OBVIOUS
  <2> QED  BY <2>1
<1>6. Append(c, r)[Cardinality({j \in T : j <= k + 1})].message = q[k + 1].message
    BY <1>2, <1>3, <1>5
<1>7. T \in SUBSET (1 .. k + 1)
    OBVIOUS
<1>8. \A i \in T : Append(c, r)[Cardinality({j \in T : j <= i})].message = q[i].message
    BY <1>4, <1>6
<1> HIDE DEF T
<1> QED  BY <1>2, <1>3, <1>7, <1>8 DEF Follows

(* The certified log follows the log.                                      *)
LEMMA NextFollows ==
    ASSUME Typed, Phased, StoresSound, Keeping, Counting, CertifiedFollowsLog, [Next]_vars
    PROVE  CertifiedFollowsLog'
<1>1. ASSUME certified' = <<>>
      PROVE  CertifiedFollowsLog'
  <2>1. {} \in SUBSET (1 .. cursor') /\ Cardinality({}) = 0
      BY FS_EmptySet
  <2>2. DOMAIN certified' = {} /\ Len(certified') = 0
      BY <1>1
  <2> QED  BY <2>1, <2>2 DEF CertifiedFollowsLog
<1>2. ASSUME UNCHANGED <<range, log, cursor, certified>>
      PROVE  CertifiedFollowsLog'
  <2>1. \A i \in DOMAIN certified' : Supported(certified[i])'
      BY <1>2 DEF CertifiedFollowsLog, Supported
  <2>2. Follows(certified, log, cursor)
      BY DEF CertifiedFollowsLog, Follows
  <2> QED  BY <1>2, <2>1, <2>2 DEF CertifiedFollowsLog, Follows
<1>3. CASE AskingStep
  <2>1. PICK a \in Tallies, u \in Tallies, msg \in Messages \cup {NoMessage},
             waiting \in SUBSET Validators :
           /\ Counted(a, u, msg, waiting)
           /\ UNCHANGED <<certified, cursor>> \/ PushCertified(a, u, msg)
      BY <1>3, AskingCounted
  <2>2. phase = "asking" /\ UNCHANGED <<range, log>>
      BY <1>3, AskingEnds
  <2>3. CASE UNCHANGED <<certified, cursor>>
      BY <1>2, <2>2, <2>3
  <2>4. CASE PushCertified(a, u, msg)
    <3>1. /\ cursor' = cursor + 1
          /\ \/ certified' = certified
             \/ \E r \in Results : /\ certified' = Append(certified, r)
                                   /\ r.message = Asked
                                   /\ Supported(r)
        BY <2>1, <2>2, <2>4, PushedResult
    <3>2. cursor \in Nat /\ certified \in Seq(Results)
        BY <2>2, MessageCallType DEF Typed, TypeOK
    <3>3. Follows(certified, log, cursor)
        BY DEF CertifiedFollowsLog, Follows
    <3>4. CASE certified' = certified
      <4>1. \A S \in SUBSET (1 .. cursor) : S \in SUBSET (1 .. cursor')
          BY <3>1, <3>2
      <4>2. Follows(certified, log, cursor')
          BY <3>3, <4>1 DEF Follows
      <4>3. \A i \in DOMAIN certified' : Supported(certified[i])'
          BY <2>2, <3>4 DEF CertifiedFollowsLog, Supported
      <4> QED  BY <2>2, <3>4, <4>2, <4>3 DEF CertifiedFollowsLog, Follows
    <3>5. ASSUME NEW r \in Results, certified' = Append(certified, r), r.message = Asked,
                 Supported(r)
          PROVE  CertifiedFollowsLog'
      <4>1. r.message = log[cursor + 1].message
          BY <3>5 DEF Asked
      <4>2. Follows(Append(certified, r), log, cursor + 1)
          BY <3>2, <3>3, <4>1, FollowsOneMore
      <4>3. \A i \in DOMAIN certified' : certified'[i] = r \/
               (i \in DOMAIN certified /\ certified'[i] = certified[i])
          BY <3>2, <3>5
      <4>4. \A i \in DOMAIN certified' : Supported(certified'[i])
          BY <3>5, <4>3 DEF CertifiedFollowsLog
      <4>5. \A i \in DOMAIN certified' : Supported(certified[i])'
          BY <2>2, <4>4 DEF Supported
      <4> QED  BY <2>2, <3>1, <3>5, <4>2, <4>5 DEF CertifiedFollowsLog, Follows
    <3> QED  BY <3>1, <3>4, <3>5
  <2> QED  BY <2>1, <2>3, <2>4
<1>4. ASSUME NEW v \in Validators,
             \/ \E ns \in Namespaces, m \in Messages : HandleWrite(v, ns, m)
             \/ Restart(v)
      PROVE  CertifiedFollowsLog'
    BY <1>2, <1>4, AroundStep
<1>5. CASE ReadStep
    BY <1>1, <1>5, ReadBegins DEF Phased
<1>6. ASSUME NEW v \in Validators, HandleReadRange(v) \/ FaultyLog(v)
      PROVE  CertifiedFollowsLog'
    BY <1>2, <1>6, LogStep
<1>7. CASE (\E v \in Validators : GiveUpLog(v)) \/ LogsRunOut
    BY <1>2, <1>7, ReadingEnds
<1>8. ASSUME NEW v \in Validators, JoinNext(v)
      PROVE  CertifiedFollowsLog'
    BY <1>1, <1>8, LogJoined DEF Phased
<1>9. CASE (\E v \in Validators : JoinRejects(v)) \/ JoinEnds
    BY <1>1, <1>9, JoiningEnds DEF Phased
<1>10. CASE Certify
    BY <1>2, <1>10, CertifyStep
<1>11. CASE CertifyEnds
    BY <1>2, <1>11, CertifyEndsStep
<1>12. CASE UNCHANGED vars
    BY <1>2, <1>12 DEF vars
<1> QED
    BY <1>3, <1>4, <1>5, <1>6, <1>7, <1>8, <1>9, <1>10, <1>11, <1>12, StepKinds

(* What has been kept can only become less.                                *)
LEMMA FewerKeepers ==
    ASSUME Typed, kept' \in SUBSET kept, NEW m, HasReachedQuorum(N, Cardinality(Keepers(m)')),
           Keepers(m)' # {}
    PROVE  HasReachedQuorum(N, Cardinality(Keepers(m))) /\ Keepers(m) # {}
<1>1. PICK K \in SUBSET Validators : K = Keepers(m)
    BY KeepersType
<1>2. IsFiniteSet(K) /\ Cardinality(K) \in 0 .. N
    BY <1>1, KeepersType
<1>3. PICK L : L = Keepers(m)'
    OBVIOUS
<1>4. L \in SUBSET K
    BY <1>1, <1>3 DEF Keepers
<1>5. Cardinality(L) <= Cardinality(K) /\ Cardinality(L) \in 0 .. N
    BY <1>2, <1>4, FS_Subset, FS_CardinalityType, NAssumption
<1>6. HasReachedQuorum(N, Cardinality(K))
    BY <1>2, <1>3, <1>5, NAssumption, QuorumMonotone
<1> QED  BY <1>1, <1>3, <1>4, <1>6

(* What read_certified has certified.                                      *)
LEMMA NextCertifying ==
    ASSUME Typed, Phased, StoresSound, Keeping, Counting, Certifying, [Next]_vars
    PROVE  Certifying'
<1>1. ASSUME cursor' = 0
      PROVE  Certifying'
    BY <1>1 DEF Certifying
<1>2. ASSUME UNCHANGED <<log, cursor, certified, kept, missed>>
      PROVE  Certifying'
    BY <1>2 DEF Certifying, Keepers
<1>3. ASSUME NEW v \in Validators,
             \/ \E ns \in Namespaces, m \in Messages : HandleWrite(v, ns, m)
             \/ Restart(v)
      PROVE  Certifying'
  <2>1. kept' \in SUBSET kept /\ UNCHANGED <<log, cursor, certified, missed>>
      BY <1>3, AroundStep
  <2>2. \A m : HasReachedQuorum(N, Cardinality(Keepers(m)')) /\ Keepers(m)' # {}
                  => HasReachedQuorum(N, Cardinality(Keepers(m))) /\ Keepers(m) # {}
      BY <2>1, FewerKeepers
  <2>3. SUFFICES ASSUME ~missed, N # 4, NEW k \in 1 .. cursor,
                        HasReachedQuorum(N, Cardinality(Keepers(log[k].message)')),
                        Keepers(log[k].message)' # {}
                 PROVE  \E i \in DOMAIN certified : certified[i].message = log[k].message
      BY <2>1 DEF Certifying
  <2>4. PICK m : m = log[k].message
      OBVIOUS
  <2>5. Keepers(log[k].message)' = Keepers(m)'
      BY <2>1, <2>4 DEF Keepers
  <2>6. HasReachedQuorum(N, Cardinality(Keepers(m))) /\ Keepers(m) # {}
      BY <2>2, <2>3, <2>5
  <2> QED  BY <2>3, <2>4, <2>6 DEF Certifying
<1>4. CASE AskingStep
  <2>1. PICK a \in Tallies, u \in Tallies, msg \in Messages \cup {NoMessage},
             waiting \in SUBSET Validators :
           /\ Counted(a, u, msg, waiting)
           /\ \/ UNCHANGED <<certified, cursor, missed>>
              \/ /\ PushCertified(a, u, msg)
                 /\ missed' = TRUE \/ (missed' = missed /\ LoopDone(a, u, waiting))
      BY <1>4, AskingCounted
  <2>2. phase = "asking" /\ UNCHANGED <<log, kept>>
      BY <1>4, AskingEnds
  <2>3. CASE UNCHANGED <<certified, cursor, missed>>
      BY <1>2, <2>2, <2>3
  <2>4. CASE /\ PushCertified(a, u, msg)
             /\ missed' = TRUE \/ (missed' = missed /\ LoopDone(a, u, waiting))
    <3>1. /\ cursor' = cursor + 1
          /\ \/ certified' = certified /\ ~(HasReachedQuorum(N, a.votes) /\ a.sigs # {})
             \/ \E r \in Results : certified' = Append(certified, r) /\ r.message = Asked
        BY <2>1, <2>2, <2>4, PushedResult
    <3>2. cursor \in Nat /\ certified \in Seq(Results)
        BY <2>2, MessageCallType DEF Typed, TypeOK
    <3>3. \A m : (\E i \in DOMAIN certified : certified[i].message = m)
                    => \E i \in DOMAIN certified' : certified'[i].message = m
      <4>1. ASSUME NEW r \in Results, certified' = Append(certified, r)
            PROVE  \A i \in DOMAIN certified :
                      i \in DOMAIN certified' /\ certified'[i] = certified[i]
          BY <3>2, <4>1
      <4> QED  BY <3>1, <4>1
    <3>4. SUFFICES ASSUME missed' = missed, LoopDone(a, u, waiting), ~missed, N # 4,
                          NEW k \in 1 .. cursor + 1,
                          HasReachedQuorum(N, Cardinality(Keepers(log[k].message))),
                          Keepers(log[k].message) # {}
                   PROVE  \E i \in DOMAIN certified' : certified'[i].message = log[k].message
        BY <2>2, <2>4, <3>1 DEF Certifying, Keepers
    <3>5. CASE k \in 1 .. cursor
        BY <3>3, <3>4, <3>5 DEF Certifying
    <3>6. CASE k = cursor + 1
      <4>1. HasReachedQuorum(N, a.votes) /\ a.sigs # {}
          BY <2>1, <2>2, <3>4, <3>6, QuorumKeptIsCertified DEF Asked
      <4>2. PICK r \in Results : certified' = Append(certified, r) /\ r.message = Asked
          BY <3>1, <4>1
      <4>3. Len(certified) + 1 \in DOMAIN certified' /\ certified'[Len(certified) + 1] = r
          BY <3>2, <4>2
      <4> QED  BY <3>6, <4>2, <4>3 DEF Asked
    <3> QED  BY <3>2, <3>5, <3>6
  <2> QED  BY <2>1, <2>3, <2>4
<1>5. CASE ReadStep
    BY <1>1, <1>5, ReadBegins DEF Phased
<1>6. ASSUME NEW v \in Validators, HandleReadRange(v) \/ FaultyLog(v)
      PROVE  Certifying'
    BY <1>2, <1>6, LogStep
<1>7. CASE (\E v \in Validators : GiveUpLog(v)) \/ LogsRunOut
    BY <1>1, <1>7, ReadingEnds DEF Phased
<1>8. ASSUME NEW v \in Validators, JoinNext(v)
      PROVE  Certifying'
    BY <1>1, <1>8, LogJoined DEF Phased
<1>9. CASE (\E v \in Validators : JoinRejects(v)) \/ JoinEnds
    BY <1>1, <1>9, JoiningEnds DEF Phased
<1>10. CASE Certify
    BY <1>2, <1>10, CertifyStep
<1>11. CASE CertifyEnds
    BY <1>2, <1>11, CertifyEndsStep
<1>12. CASE UNCHANGED vars
    BY <1>2, <1>12 DEF vars
<1> QED
    BY <1>3, <1>4, <1>5, <1>6, <1>7, <1>8, <1>9, <1>10, <1>11, <1>12, StepKinds

-----------------------------------------------------------------------------
(* The theorems.                                                           *)

(* Every behaviour of a range read keeps the inductive invariant.          *)
LEMMA LogReadInvariant == Spec => []LogReadInv
<1>1. Init => LogReadInv
  <2> SUFFICES ASSUME Init PROVE LogReadInv
      OBVIOUS
  <2>1. TypeOK
    <3>1. store \in [Validators -> [Namespaces -> Seq(Entries)]]
        BY DEF Init
    <3>2. /\ log \in Seq(Records) /\ certified \in Seq(Results)
          /\ cursor \in 0 .. Len(log)
        BY DEF Init
    <3>3. restarts \in 0 .. MaxRestarts /\ writes \in 0 .. MaxWrites
        BY RestartAssumption, MaxWritesAssumption DEF Init
    <3>4. tasks \in [Validators -> {NoReply} \cup [type : {"log"}, records : Seq(Records)]]
        BY DEF Init
    <3>5. /\ range \in {Idle} \cup Ranges /\ phase \in Phases /\ pending \subseteq Validators
          /\ available \in Tallies /\ unavailable \in Tallies
          /\ message \in Messages \cup {NoMessage}
          /\ kept \subseteq (Validators \ Faulty) \X Records /\ missed \in BOOLEAN
        BY EmptyTallyType DEF Init, Phases
    <3> QED  BY <3>1, <3>2, <3>3, <3>4, <3>5 DEF TypeOK
  <2>2. Typed /\ Phased
      BY <2>1 DEF Init, Typed, Phased, LogReturned
  <2>3. StoresSound
      BY EmptySound DEF Init, StoresSound
  <2>4. Gathering /\ Keeping /\ Counting
      BY DEF Init, Gathering, SoundLog, LogReturned, Keeping, Counting
  <2>5. Certifying
      BY DEF Init, Certifying
  <2>6. CertifiedFollowsLog
    <3>1. {} \in SUBSET (1 .. cursor) /\ Cardinality({}) = 0
        BY FS_EmptySet
    <3>2. DOMAIN certified = {} /\ Len(certified) = 0
        BY DEF Init
    <3> QED  BY <3>1, <3>2 DEF CertifiedFollowsLog
  <2> QED  BY <2>2, <2>3, <2>4, <2>5, <2>6 DEF LogReadInv
<1>2. LogReadInv /\ [Next]_vars => LogReadInv'
  <2> SUFFICES ASSUME LogReadInv, [Next]_vars PROVE LogReadInv'
      OBVIOUS
  <2>1. /\ Typed /\ Phased /\ StoresSound /\ Gathering /\ Keeping
        /\ Counting /\ Certifying /\ CertifiedFollowsLog
      BY DEF LogReadInv
  <2>2. Typed'
      BY <2>1, NextTyped
  <2>3. Phased'
      BY <2>1, NextPhased
  <2>4. StoresSound'
      BY <2>1, NextStoresSound
  <2>5. Gathering'
      BY <2>1, NextGathering
  <2>6. Keeping'
      BY <2>1, <2>2, NextKeeping
  <2>7. Counting'
      BY <2>1, NextCounting
  <2>8. Certifying'
      BY <2>1, NextCertifying
  <2>9. CertifiedFollowsLog'
      BY <2>1, NextFollows
  <2> QED  BY <2>2, <2>3, <2>4, <2>5, <2>6, <2>7, <2>8, <2>9 DEF LogReadInv
<1> QED  BY <1>1, <1>2, PTL DEF Spec

(* A log that is returned is complete, unless something was missed.        *)
LEMMA InvLogComplete == LogReadInv => LogComplete
<1> SUFFICES ASSUME LogReadInv, LogReturned, ~missed, NEW p \in kept
             PROVE  \E i \in DOMAIN log : log[i] = p[2]
    BY DEF LogComplete
<1>1. p[1] \in Validators
    BY KeptPair DEF LogReadInv
<1>2. tasks[p[1]] = NoReply /\ phase # "reading"
    BY <1>1 DEF LogReadInv, Phased, LogReturned
<1> QED  BY <1>2 DEF LogReadInv, Keeping, Has

(* Every variable of read and read_certified has its type.                 *)
THEOREM LogReadTypes == Spec => []TypeOK
<1>1. LogReadInv => TypeOK
    BY DEF LogReadInv, Typed
<1> QED  BY <1>1, LogReadInvariant, PTL

(* Client::read returns a log sorted by time, each record of which some    *)
(* validator signed, those of correct validators in the range and once: in *)
(* whatever order answers and verify tasks come in, with any number of     *)
(* faulty validators.                                                      *)
THEOREM ReadLogsAreSound == Spec => []LogSound
<1>1. LogReadInv => LogSound
  <2> SUFFICES ASSUME LogReadInv, LogReturned
               PROVE  \A i \in DOMAIN log :
                  /\ \A j \in DOMAIN log : i < j => log[i].timestamp <= log[j].timestamp
                  /\ LET v == log[i].signature.key
                     IN  /\ Verify(log[i].signature, v,
                                   RecordDigest(range.ns, log[i].timestamp, log[i].message))
                         /\ v \notin Faulty =>
                              /\ InRange(log[i], range.start, range.end)
                              /\ \A j \in DOMAIN log : log[j] = log[i] => i = j
      BY DEF LogSound
  <2>1. SoundLog(log) /\ SortedLog(log)
      BY DEF LogReadInv, Gathering
  <2> QED  BY <2>1 DEF SoundLog, SortedLog, SignedBy
<1> QED  BY <1>1, LogReadInvariant, PTL

(* A Client::read in which no request failed and no log was rejected       *)
(* returns every record in its range that a correct validator held from    *)
(* the beginning of the call on.                                           *)
THEOREM ReadLogsAreComplete == Spec => []LogComplete
BY InvLogComplete, LogReadInvariant, PTL

(* The log that Client::read_certified builds keeps the order of the log   *)
(* that was read, and each of its entries has the signatures of a quorum   *)
(* over its message and one of its timestamps.                             *)
THEOREM CertifiedLogsFollowReadLogs == Spec => []CertifiedFollowsLog
<1>1. LogReadInv => CertifiedFollowsLog
    BY DEF LogReadInv
<1> QED  BY <1>1, LogReadInvariant, PTL

(* A Client::read_certified that lost no answer certifies every message of *)
(* which a quorum of correct validators held a record in the range         *)
(* throughout the call, for any number of validators but four.             *)
THEOREM CertifiedLogsAreComplete == Spec => []CertifiedComplete
<1>1. LogReadInv => CertifiedComplete
  <2>1. SUFFICES ASSUME LogReadInv, phase = "done", range.kind = "read_certified",
                        ~missed, N # 4, NEW p \in kept,
                        HasReachedQuorum(N, Cardinality(Keepers(p[2].message)))
                 PROVE  \E i \in DOMAIN certified : certified[i].message = p[2].message
      BY DEF CertifiedComplete, Keepers
  <2>2. PICK i \in DOMAIN log : log[i] = p[2]
      BY <2>1, InvLogComplete DEF LogComplete, LogReturned
  <2>3. cursor = Len(log) /\ log \in Seq(Records)
      BY <2>1 DEF LogReadInv, Phased, Typed, TypeOK
  <2>4. i \in 1 .. cursor
      BY <2>3, LenProperties
  <2>5. Keepers(log[i].message) # {}
      BY <2>2 DEF Keepers
  <2> QED  BY <2>1, <2>2, <2>4, <2>5 DEF LogReadInv, Certifying
<1> QED  BY <1>1, LogReadInvariant, PTL
=============================================================================
