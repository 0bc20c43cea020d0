-------------------------- MODULE QuorumCert_proofs --------------------------
(***************************************************************************)
(* Facts about quorums and certified timestamps for any number of          *)
(* validators.                                                             *)
(***************************************************************************)
EXTENDS QuorumCert, FiniteSetTheorems, WellFoundedInduction, TLAPS

(* A set of naturals that is not empty has a least element.                *)
LEMMA LeastNat ==
    ASSUME NEW S \in SUBSET Nat, S # {}
    PROVE  \E x \in S : \A y \in S : x <= y
<1>1. PICK x \in S : \A y \in S : ~(<<y, x>> \in OpToRel(<, Nat))
    BY NatLessThanWellFounded, WFMin
<1>2. \A y \in S : ~(y < x)
    BY <1>1 DEF OpToRel
<1> QED  BY <1>2

(* There are n indexes.                                                    *)
LEMMA IndexesCardinality ==
    ASSUME NEW n \in Nat
    PROVE  IsFiniteSet(Indexes(n)) /\ Cardinality(Indexes(n)) = n
BY FS_Interval DEF Indexes

(* What a set of indexes and its cardinality are.                          *)
LEMMA IndexSubset ==
    ASSUME NEW n \in Nat, NEW S \in SUBSET Indexes(n)
    PROVE  IsFiniteSet(S) /\ Cardinality(S) \in 0 .. n
<1>1. IsFiniteSet(S) /\ Cardinality(S) <= n
    BY IndexesCardinality, FS_Subset
<1> QED  BY <1>1, FS_CardinalityType

(* Two thirds, rounded down, between the thirds.                           *)
LEMMA TwoThirds ==
    ASSUME NEW n \in Nat
    PROVE  /\ (2 * n) \div 3 \in Nat
           /\ 3 * ((2 * n) \div 3) <= 2 * n
           /\ 2 * n < 3 * ((2 * n) \div 3) + 3
OBVIOUS

(* has_reached_quorum asks for a strict majority, unless there are exactly *)
(* four validators (two of four are then enough) or none.                  *)
THEOREM QuorumIsMajority ==
    ASSUME NEW n \in Nat \ {0, 4}, NEW q \in Nat, HasReachedQuorum(n, q)
    PROVE  2 * q > n
BY TwoThirds DEF HasReachedQuorum

(* More votes do not undo a quorum.                                        *)
LEMMA QuorumMonotone ==
    ASSUME NEW n \in Nat, NEW q \in 0 .. n, NEW r \in 0 .. n, q <= r,
           HasReachedQuorum(n, q)
    PROVE  HasReachedQuorum(n, r)
BY TwoThirds DEF HasReachedQuorum

(* A quorum of at least one validator is not empty.                        *)
LEMMA QuorumNotEmpty ==
    ASSUME NEW n \in Nat \ {0}, NEW q \in Nat, HasReachedQuorum(n, q)
    PROVE  q > 0
BY TwoThirds DEF HasReachedQuorum

(* Any two quorums share a validator, unless there are exactly four.       *)
THEOREM QuorumsShareValidator ==
    ASSUME NEW n \in Nat \ {0, 4},
           NEW S \in SUBSET Indexes(n), HasReachedQuorum(n, Cardinality(S)),
           NEW T \in SUBSET Indexes(n), HasReachedQuorum(n, Cardinality(T))
    PROVE  S \cap T # {}
<1>1. /\ Cardinality(S) \in Nat /\ Cardinality(T) \in Nat
      /\ IsFiniteSet(Indexes(n)) /\ Cardinality(Indexes(n)) = n
    BY IndexSubset, IndexesCardinality
<1>2. 2 * Cardinality(S) > n /\ 2 * Cardinality(T) > n
    BY <1>1, QuorumIsMajority
<1>3. Cardinality(S) + Cardinality(T) > Cardinality(Indexes(n))
    BY <1>1, <1>2
<1> QED  BY <1>1, <1>3, FS_MajoritiesIntersect

-----------------------------------------------------------------------------
(* The number of timestamps at or below a time.                            *)
LEMMA AtMostCardinality ==
    ASSUME NEW n \in Nat, NEW ts, NEW t
    PROVE  /\ AtMost(n, ts, t) \in SUBSET Indexes(n)
           /\ IsFiniteSet(AtMost(n, ts, t))
           /\ Cardinality(AtMost(n, ts, t)) \in 0 .. n
<1>1. AtMost(n, ts, t) \in SUBSET Indexes(n)
    BY DEF AtMost
<1> QED  BY <1>1, IndexSubset

(* Some timestamp is the latest: the one with the most at or below it.     *)
LEMMA LatestExists ==
    ASSUME NEW n \in Nat \ {0}, NEW ts \in [Indexes(n) -> Nat]
    PROVE  \E j \in Indexes(n) : \A k \in Indexes(n) : ts[k] <= ts[j]
<1> DEFINE Above(j) == n - Cardinality(AtMost(n, ts, ts[j]))
           S == {Above(j) : j \in Indexes(n)}
<1>1. \A j \in Indexes(n) : Above(j) \in Nat
    BY AtMostCardinality
<1>2. S # {} /\ S \in SUBSET Nat
  <2>1. 0 \in Indexes(n)
      BY DEF Indexes
  <2> QED  BY <1>1, <2>1
<1>3. PICK x \in S : \A y \in S : x <= y
    BY <1>2, LeastNat
<1>4. PICK j \in Indexes(n) : x = Above(j)
    BY <1>3
<1>5. \A k \in Indexes(n) : Above(j) <= Above(k)
    BY <1>3, <1>4
<1>6. ASSUME NEW k \in Indexes(n), ~(ts[k] <= ts[j])
      PROVE  FALSE
  <2> DEFINE J == AtMost(n, ts, ts[j])
             K == AtMost(n, ts, ts[k])
  <2>1. ts[j] \in Nat /\ ts[k] \in Nat /\ ts[j] < ts[k]
      BY <1>6
  <2>2. J \in SUBSET K /\ k \in K /\ k \notin J
      BY <2>1 DEF AtMost
  <2>3. IsFiniteSet(K) /\ Cardinality(K) \in Nat /\ Cardinality(J) \in Nat
      BY AtMostCardinality
  <2>4. Cardinality(J) <= Cardinality(K) /\ Cardinality(J) # Cardinality(K)
    <3> HIDE DEF J, K
    <3> QED  BY <2>2, <2>3, FS_Subset
  <2>5. n - Cardinality(J) <= n - Cardinality(K)
      BY <1>5, <1>6
  <2> HIDE DEF J, K
  <2> QED  BY <2>3, <2>4, <2>5
<1> QED  BY <1>4, <1>6

(* Element i of the sorted array is a timestamp of the array with more     *)
(* than i timestamps at or below it.                                       *)
LEMMA OrderStatisticFacts ==
    ASSUME NEW n \in Nat, NEW ts \in [Indexes(n) -> Nat], NEW i \in Indexes(n)
    PROVE  /\ \E j \in Indexes(n) : OrderStatistic(n, ts, i) = ts[j]
           /\ Cardinality(AtMost(n, ts, OrderStatistic(n, ts, i))) > i
<1> DEFINE R == {t \in {ts[j] : j \in Indexes(n)} :
                    Cardinality(AtMost(n, ts, t)) > i}
<1>1. n # 0 /\ i < n /\ i \in Nat
    BY DEF Indexes
<1>2. PICK j \in Indexes(n) : \A k \in Indexes(n) : ts[k] <= ts[j]
    BY <1>1, LatestExists
<1>3. AtMost(n, ts, ts[j]) = Indexes(n)
    BY <1>2 DEF AtMost
<1>4. ts[j] \in R
    BY <1>1, <1>3, IndexesCardinality
<1>5. R \in SUBSET Nat /\ R # {}
    BY <1>4
<1>6. \E t \in R : \A u \in R : t <= u
  <2> HIDE DEF R
  <2> QED  BY <1>5, LeastNat
<1>7. OrderStatistic(n, ts, i) = CHOOSE t \in R : \A u \in R : t <= u
    BY DEF OrderStatistic
<1>8. OrderStatistic(n, ts, i) \in R
  <2> HIDE DEF R
  <2> QED  BY <1>6, <1>7
<1> QED  BY <1>8

(* Sorting yields an array of times.                                       *)
LEMMA SortedType ==
    ASSUME NEW n \in Nat, NEW ts \in [Indexes(n) -> Nat]
    PROVE  Sorted(n, ts) \in [Indexes(n) -> Nat]
<1>1. \A i \in Indexes(n) : OrderStatistic(n, ts, i) \in Nat
    BY OrderStatisticFacts
<1> QED  BY <1>1 DEF Sorted

-----------------------------------------------------------------------------
(* The sort itself.  Everything about the sorted array follows from one    *)
(* equivalence: its element i is at or below t exactly if more than i      *)
(* timestamps are.                                                         *)

(* Of the timestamps at or below a time, one is the latest.                *)
LEMMA LatestAtMost ==
    ASSUME NEW n \in Nat, NEW ts \in [Indexes(n) -> Nat], NEW t \in Nat,
           AtMost(n, ts, t) # {}
    PROVE  \E j \in AtMost(n, ts, t) : AtMost(n, ts, ts[j]) = AtMost(n, ts, t)
<1> DEFINE S == {t - ts[j] : j \in AtMost(n, ts, t)}
<1>1. S \in SUBSET Nat /\ S # {}
    BY DEF AtMost
<1>2. PICK x \in S : \A y \in S : x <= y
    BY <1>1, LeastNat
<1>3. PICK j \in AtMost(n, ts, t) : x = t - ts[j]
    BY <1>2
<1>4. \A k \in AtMost(n, ts, t) : t - ts[j] <= t - ts[k]
    BY <1>2, <1>3
<1>5. \A k \in AtMost(n, ts, t) : ts[k] <= ts[j]
    BY <1>4 DEF AtMost
<1>6. ts[j] \in Nat /\ ts[j] <= t
    BY DEF AtMost
<1> QED  BY <1>5, <1>6 DEF AtMost

(* An order statistic is at or below t exactly if enough timestamps are.   *)
LEMMA OrderStatisticAtMost ==
    ASSUME NEW n \in Nat, NEW ts \in [Indexes(n) -> Nat], NEW i \in Indexes(n),
           NEW t \in Nat
    PROVE  OrderStatistic(n, ts, i) <= t <=> Cardinality(AtMost(n, ts, t)) > i
<1> DEFINE R == {u \in {ts[j] : j \in Indexes(n)} :
                    Cardinality(AtMost(n, ts, u)) > i}
           s == OrderStatistic(n, ts, i)
<1>1. PICK j \in Indexes(n) : s = ts[j]
    BY OrderStatisticFacts
<1>2. s \in Nat /\ Cardinality(AtMost(n, ts, s)) > i /\ i \in Nat
    BY <1>1, OrderStatisticFacts DEF Indexes
<1>3. ASSUME s <= t
      PROVE  Cardinality(AtMost(n, ts, t)) > i
  <2>1. AtMost(n, ts, s) \in SUBSET AtMost(n, ts, t)
      BY <1>2, <1>3 DEF AtMost
  <2>2. Cardinality(AtMost(n, ts, s)) <= Cardinality(AtMost(n, ts, t))
      BY <2>1, AtMostCardinality, FS_Subset
  <2>3. /\ Cardinality(AtMost(n, ts, s)) \in Nat
        /\ Cardinality(AtMost(n, ts, t)) \in Nat
      BY AtMostCardinality
  <2> QED  BY <1>2, <2>2, <2>3
<1>4. ASSUME Cardinality(AtMost(n, ts, t)) > i
      PROVE  s <= t
  <2>1. AtMost(n, ts, t) # {}
    <3>1. Cardinality(AtMost(n, ts, t)) # 0
        BY <1>2, <1>4
    <3> QED  BY <3>1, FS_EmptySet
  <2>2. PICK k \in AtMost(n, ts, t) : AtMost(n, ts, ts[k]) = AtMost(n, ts, t)
      BY <2>1, LatestAtMost
  <2>3. k \in Indexes(n) /\ ts[k] \in Nat /\ ts[k] <= t
      BY DEF AtMost
  <2>4. ts[k] \in R
      BY <1>4, <2>2, <2>3
  <2>5. R \in SUBSET Nat
      OBVIOUS
  <2>6. s = CHOOSE u \in R : \A w \in R : u <= w
      BY DEF OrderStatistic
  <2> HIDE DEF R, s
  <2>7. \E u \in R : \A w \in R : u <= w
      BY <2>4, <2>5, LeastNat
  <2>8. s <= ts[k]
      BY <2>4, <2>6, <2>7
  <2> QED  BY <1>2, <2>3, <2>8
<1> QED  BY <1>3, <1>4

(* As many elements of the sorted array are at or below t as timestamps.   *)
LEMMA SortedAtMost ==
    ASSUME NEW n \in Nat, NEW ts \in [Indexes(n) -> Nat], NEW t \in Nat
    PROVE  Cardinality(AtMost(n, Sorted(n, ts), t)) = Cardinality(AtMost(n, ts, t))
<1> DEFINE c == Cardinality(AtMost(n, ts, t))
<1>1. c \in 0 .. n
    BY AtMostCardinality
<1>2. AtMost(n, Sorted(n, ts), t) = {i \in Indexes(n) : c > i}
    BY OrderStatisticAtMost DEF AtMost, Sorted
<1> HIDE DEF c
<1>3. {i \in Indexes(n) : c > i} = Indexes(c)
    BY <1>1 DEF Indexes
<1>4. Cardinality(Indexes(c)) = c
    BY <1>1, IndexesCardinality
<1> QED  BY <1>2, <1>3, <1>4 DEF c

(* The timestamps equal to t are those at or below t and not at or below   *)
(* t - 1.                                                                  *)
LEMMA EqualCount ==
    ASSUME NEW n \in Nat, NEW ts \in [Indexes(n) -> Nat], NEW t \in Nat
    PROVE  Cardinality({i \in Indexes(n) : ts[i] = t}) =
              IF t = 0 THEN Cardinality(AtMost(n, ts, 0))
              ELSE Cardinality(AtMost(n, ts, t)) - Cardinality(AtMost(n, ts, t - 1))
<1>1. CASE t = 0
  <2>1. {i \in Indexes(n) : ts[i] = t} = AtMost(n, ts, 0)
      BY <1>1 DEF AtMost
  <2> QED  BY <1>1, <2>1
<1>2. CASE t # 0
  <2> DEFINE A == AtMost(n, ts, t)
             B == AtMost(n, ts, t - 1)
             E == {i \in Indexes(n) : ts[i] = t}
  <2>1. E = A \ B /\ A \cap B = B
      BY <1>2 DEF AtMost
  <2>2. IsFiniteSet(A)
      BY AtMostCardinality
  <2> HIDE DEF A, B, E
  <2>3. Cardinality(A \ B) = Cardinality(A) - Cardinality(A \cap B)
      BY <2>2, FS_Difference, Zenon
  <2>4. Cardinality(E) = Cardinality(A) - Cardinality(B)
      BY <2>1, <2>3
  <2> QED  BY <1>2, <2>4 DEF A, B, E
<1> QED  BY <1>1, <1>2

(* timestamps.sort() keeps every timestamp as often as it was.             *)
LEMMA SortedSameElements ==
    ASSUME NEW n \in Nat, NEW ts \in [Indexes(n) -> Nat], NEW t \in Nat
    PROVE  Cardinality({i \in Indexes(n) : Sorted(n, ts)[i] = t})
              = Cardinality({i \in Indexes(n) : ts[i] = t})
<1>1. Sorted(n, ts) \in [Indexes(n) -> Nat]
    BY SortedType
<1>2. Cardinality(AtMost(n, Sorted(n, ts), t)) = Cardinality(AtMost(n, ts, t))
    BY SortedAtMost
<1>3. CASE t = 0
    BY <1>1, <1>2, <1>3, EqualCount
<1>4. CASE t # 0
  <2>1. t - 1 \in Nat
      BY <1>4
  <2>2. Cardinality(AtMost(n, Sorted(n, ts), t - 1)) = Cardinality(AtMost(n, ts, t - 1))
      BY <2>1, SortedAtMost
  <2> QED  BY <1>1, <1>2, <1>4, <2>2, EqualCount
<1> QED  BY <1>3, <1>4

(* The sorted array is nondecreasing.                                      *)
LEMMA SortedNondecreasing ==
    ASSUME NEW n \in Nat, NEW ts \in [Indexes(n) -> Nat],
           NEW i \in Indexes(n), NEW j \in Indexes(n), i <= j
    PROVE  Sorted(n, ts)[i] <= Sorted(n, ts)[j]
<1> DEFINE u == OrderStatistic(n, ts, j)
<1>1. u \in Nat
    BY OrderStatisticFacts
<1>2. Cardinality(AtMost(n, ts, u)) > j /\ Cardinality(AtMost(n, ts, u)) \in Nat
    BY OrderStatisticFacts, AtMostCardinality
<1> HIDE DEF u
<1>3. Cardinality(AtMost(n, ts, u)) > i
    BY <1>2 DEF Indexes
<1>4. OrderStatistic(n, ts, i) <= u
    BY <1>1, <1>3, OrderStatisticAtMost
<1> QED  BY <1>4 DEF Sorted, u

(* Sorting a sorted array changes nothing.                                 *)
LEMMA SortedIdempotent ==
    ASSUME NEW n \in Nat, NEW ts \in [Indexes(n) -> Nat]
    PROVE  Sorted(n, Sorted(n, ts)) = Sorted(n, ts)
<1> DEFINE s == Sorted(n, ts)
<1>1. s \in [Indexes(n) -> Nat]
    BY SortedType
<1>2. ASSUME NEW i \in Indexes(n)
      PROVE  OrderStatistic(n, s, i) = OrderStatistic(n, ts, i)
  <2> DEFINE a == OrderStatistic(n, s, i)
             b == OrderStatistic(n, ts, i)
  <2> HIDE DEF s
  <2>1. a \in Nat /\ b \in Nat
      BY <1>1, OrderStatisticFacts
  <2>2. \A t \in Nat : a <= t <=> b <= t
    <3> SUFFICES ASSUME NEW t \in Nat PROVE a <= t <=> b <= t
        OBVIOUS
    <3>1. Cardinality(AtMost(n, s, t)) = Cardinality(AtMost(n, ts, t))
        BY SortedAtMost DEF s
    <3>2. a <= t <=> Cardinality(AtMost(n, s, t)) > i
        BY <1>1, OrderStatisticAtMost
    <3>3. b <= t <=> Cardinality(AtMost(n, ts, t)) > i
        BY OrderStatisticAtMost
    <3> QED  BY <3>1, <3>2, <3>3
  <2> HIDE DEF a, b
  <2>3. a = b
      BY <2>1, <2>2
  <2> QED  BY <2>3 DEF a, b
<1>3. Sorted(n, s) = [i \in Indexes(n) |-> OrderStatistic(n, ts, i)]
  <2> HIDE DEF s
  <2> QED  BY <1>2 DEF Sorted
<1> QED  BY <1>3 DEF Sorted

(* A third party that sorts the timestamps of a certificate again gets the *)
(* certified timestamp the client got: certified_timestamp depends on the  *)
(* votes and not on whether it was called before.                          *)
THEOREM CertifiedTimestampOfSorted ==
    ASSUME NEW n \in Nat, NEW ts \in [Indexes(n) -> Nat]
    PROVE  CertifiedTimestamp(n, Sorted(n, ts)) = CertifiedTimestamp(n, ts)
BY SortedIdempotent DEF CertifiedTimestamp

-----------------------------------------------------------------------------
(* With at most i timestamps missing (zero), element i of the sorted array *)
(* lies within the bounds of the timestamps that are there.                *)
LEMMA OrderStatisticWithinVotes ==
    ASSUME NEW n \in Nat, NEW ts \in [Indexes(n) -> Nat],
           NEW V \in SUBSET Indexes(n), NEW lo \in Nat, NEW hi \in Nat,
           \A v \in V : lo <= ts[v] /\ ts[v] <= hi,
           \A v \in Indexes(n) \ V : ts[v] = 0,
           NEW i \in Indexes(n), n - Cardinality(V) <= i
    PROVE  /\ OrderStatistic(n, ts, i) \in Nat
           /\ lo <= OrderStatistic(n, ts, i)
           /\ OrderStatistic(n, ts, i) <= hi
<1> DEFINE t == OrderStatistic(n, ts, i)
           W == AtMost(n, ts, t)
           M == Indexes(n) \ V
<1>1. PICK k \in Indexes(n) : t = ts[k]
    BY OrderStatisticFacts
<1>2. Cardinality(W) > i /\ W \in SUBSET Indexes(n) /\ Cardinality(W) \in Nat
    BY OrderStatisticFacts, AtMostCardinality
<1>3. IsFiniteSet(M) /\ Cardinality(M) = n - Cardinality(V) /\ Cardinality(M) \in Nat
  <2>1. Indexes(n) \cap V = V
      OBVIOUS
  <2>2. /\ IsFiniteSet(M)
        /\ Cardinality(M) = Cardinality(Indexes(n)) - Cardinality(Indexes(n) \cap V)
    <3>1. IsFiniteSet(Indexes(n))
        BY IndexesCardinality
    <3> QED  BY <3>1, FS_Difference, Zenon
  <2>3. Cardinality(Indexes(n) \cap V) = Cardinality(V)
      BY <2>1, Zenon
  <2>4. Cardinality(Indexes(n)) = n /\ Cardinality(V) \in 0 .. n
      BY IndexesCardinality, IndexSubset
  <2>5. Cardinality(M) = n - Cardinality(V)
      BY <2>2, <2>3, <2>4, Zenon
  <2> HIDE DEF M
  <2> QED  BY <2>2, <2>4, <2>5
<1>4. ~(W \in SUBSET M)
  <2> HIDE DEF W, M
  <2>1. i \in Nat
      BY DEF Indexes
  <2>2. W \in SUBSET M => Cardinality(W) <= Cardinality(M)
      BY <1>3, FS_Subset
  <2> QED  BY <1>2, <1>3, <2>1, <2>2
<1>5. PICK j \in W : j \in V
    BY <1>2, <1>4
<1>6. ts[j] <= t /\ lo <= ts[j] /\ ts[j] \in Nat
    BY <1>5 DEF AtMost
<1>7. t \in Nat
    BY <1>1
<1>8. t <= hi
    BY <1>1, <1>7
<1> HIDE DEF t
<1> QED  BY <1>6, <1>7, <1>8 DEF t

(* The zeros of the validators outside a quorum do not reach the middle of *)
(* the array, nor, if the array has two middle elements, the lower one.    *)
LEMMA MissingBelowMiddle ==
    ASSUME NEW n \in Nat \ {0, 4}, NEW q \in 0 .. n, HasReachedQuorum(n, q)
    PROVE  /\ n \div 2 \in Indexes(n) /\ n - q <= n \div 2
           /\ n % 2 = 0 => n \div 2 - 1 \in Indexes(n) /\ n - q <= n \div 2 - 1
BY TwoThirds DEF HasReachedQuorum, Indexes

(* The certified timestamp of any quorum of votes, over an array that is   *)
(* zero elsewhere, lies between the earliest and the latest vote, for any  *)
(* number of validators but four: certified_timestamp is not thrown off by *)
(* the places write and read_message left at Timestamp::default().         *)
THEOREM CertifiedTimestampWithinVotes ==
    ASSUME NEW n \in Nat \ {0, 4}, NEW ts \in [Indexes(n) -> Nat],
           NEW V \in SUBSET Indexes(n), HasReachedQuorum(n, Cardinality(V)),
           NEW lo \in Nat, NEW hi \in Nat,
           \A v \in V : lo <= ts[v] /\ ts[v] <= hi,
           \A v \in Indexes(n) \ V : ts[v] = 0
    PROVE  /\ CertifiedTimestamp(n, ts) \in Nat
           /\ lo <= CertifiedTimestamp(n, ts)
           /\ CertifiedTimestamp(n, ts) <= hi
<1> DEFINE mid == n \div 2
           Within(t) == t \in Nat /\ lo <= t /\ t <= hi
<1>1. Cardinality(V) \in 0 .. n
    BY IndexSubset
<1>2. /\ mid \in Indexes(n) /\ n - Cardinality(V) <= mid
      /\ n % 2 = 0 => mid - 1 \in Indexes(n) /\ n - Cardinality(V) <= mid - 1
    BY <1>1, MissingBelowMiddle
<1>3. ASSUME NEW i \in Indexes(n), n - Cardinality(V) <= i
      PROVE  Within(Sorted(n, ts)[i])
    BY <1>3, OrderStatisticWithinVotes DEF Sorted
<1> HIDE DEF mid
<1>4. Within(Sorted(n, ts)[mid])
    BY <1>2, <1>3
<1>5. CASE n % 2 = 0
  <2>1. Within(Sorted(n, ts)[mid - 1])
      BY <1>2, <1>3, <1>5
  <2>2. Within((Sorted(n, ts)[mid - 1] + Sorted(n, ts)[mid]) \div 2)
      BY <1>4, <2>1
  <2> QED  BY <1>5, <2>2 DEF CertifiedTimestamp, mid
<1>6. CASE n % 2 # 0
    BY <1>4, <1>6 DEF CertifiedTimestamp, mid
<1> QED  BY <1>5, <1>6
=============================================================================
