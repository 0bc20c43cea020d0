----------------------- MODULE RegistryContract_proofs -----------------------
(***************************************************************************)
(* The registry contract is solvent and its mappings agree, for any        *)
(* accounts, keys and stakes and any nesting of calls in payments.         *)
(***************************************************************************)
EXTENDS RegistryContract, FiniteSetTheorems, SequenceTheorems, WellFoundedInduction,
        TLAPS

-----------------------------------------------------------------------------
(* The sum of the stakes.  SumFunction takes the elements of the domain    *)
(* one by one: Partial is the function it recurses with.                   *)
First(s) == CHOOSE x \in s : TRUE
SumStep(f, S, g) ==
    [s \in SUBSET S |-> IF s = {} THEN 0 ELSE f[First(s)] + g[s \ {First(s)}]]
Partial(f, S) == CHOOSE g : g = SumStep(f, S, g)

(* SumFunction in these names.                                             *)
LEMMA SumUnfolded ==
    ASSUME NEW f
    PROVE  SumFunction(f) = Partial(f, DOMAIN f)[DOMAIN f]
BY DEF SumFunction, SumFunctionOnSet, FoldFunctionOnSet, MapThenFoldSet,
       Partial, SumStep, First

(* A set of natural numbers has a least element.                           *)
LEMMA LeastNatural ==
    ASSUME NEW T \in SUBSET Nat, T # {}
    PROVE  \E x \in T : \A y \in T : x <= y
<1>1. PICK x \in T : \A y \in T : ~(<<y, x>> \in OpToRel(<, Nat))
    BY NatLessThanWellFounded, WFMin
<1>2. \A y \in T : ~(y < x)
    BY <1>1 DEF OpToRel
<1> QED  BY <1>2

(* Taking an element off a set.                                            *)
LEMMA WithoutFirst ==
    ASSUME NEW s, IsFiniteSet(s), s # {}
    PROVE  /\ First(s) \in s
           /\ IsFiniteSet(s \ {First(s)})
           /\ Cardinality(s) \in Nat
           /\ Cardinality(s \ {First(s)}) \in Nat
           /\ Cardinality(s \ {First(s)}) = Cardinality(s) - 1
<1>1. First(s) \in s
    BY DEF First
<1>2. IsFiniteSet(s \ {First(s)}) /\ Cardinality(s \ {First(s)}) = Cardinality(s) - 1
    BY <1>1, FS_RemoveElement
<1>3. Cardinality(s) \in Nat /\ Cardinality(s \ {First(s)}) \in Nat
    BY <1>2, FS_CardinalityType
<1> QED  BY <1>1, <1>2, <1>3

(* What holds of the empty set, and of a set if of the set without its     *)
(* first element, holds of all finite sets.                                *)
LEMMA SubsetInduction ==
    ASSUME NEW S, IsFiniteSet(S), NEW T, {} \in T,
           \A s \in SUBSET S : s # {} /\ s \ {First(s)} \in T => s \in T
    PROVE  SUBSET S \subseteq T
<1> DEFINE Bad == {s \in SUBSET S : s \notin T}
           Sizes == {Cardinality(s) : s \in Bad}
<1>1. SUFFICES ASSUME Bad # {} PROVE FALSE
    OBVIOUS
<1>2. \A s \in SUBSET S : IsFiniteSet(s) /\ Cardinality(s) \in Nat
    BY FS_Subset, FS_CardinalityType
<1>3. Sizes # {} /\ Sizes \in SUBSET Nat
    BY <1>1, <1>2
<1>4. PICK n \in Sizes : \A m \in Sizes : n <= m
    BY <1>3, LeastNatural
<1>5. PICK s \in Bad : Cardinality(s) = n
    BY <1>4
<1>6. s # {} /\ s \in SUBSET S
    BY <1>5
<1>7. /\ s \ {First(s)} \in SUBSET S /\ Cardinality(s) \in Nat
      /\ Cardinality(s \ {First(s)}) = Cardinality(s) - 1
    BY <1>2, <1>6, WithoutFirst
<1>8. s \ {First(s)} \notin Bad
  <2> SUFFICES ASSUME s \ {First(s)} \in Bad PROVE FALSE
      OBVIOUS
  <2>1. n <= Cardinality(s \ {First(s)})
      BY <1>4
  <2> QED  BY <1>5, <1>7, <2>1
<1> QED  BY <1>5, <1>6, <1>7, <1>8

(* The recursion that SumFunction uses has a solution.                     *)
LEMMA PartialUnfolded ==
    ASSUME NEW S, IsFiniteSet(S), NEW f
    PROVE  Partial(f, S) = SumStep(f, S, Partial(f, S))
<1> DEFINE D(n) == {s \in SUBSET S : Cardinality(s) <= n}
           Good(n, g) == g = [s \in D(n) |->
                                IF s = {} THEN 0 ELSE f[First(s)] + g[s \ {First(s)}]]
           Bad == {n \in Nat : ~ \E g : Good(n, g)}
<1>1. \A s \in SUBSET S : IsFiniteSet(s) /\ Cardinality(s) \in Nat
    BY FS_Subset, FS_CardinalityType
<1>2. Bad = {}
  <2> SUFFICES ASSUME Bad # {} PROVE FALSE
      OBVIOUS
  <2>1. PICK n \in Bad : \A m \in Bad : n <= m
      BY LeastNatural
  <2>2. n # 0
    <3>1. \A s \in D(0) : s = {}
        BY <1>1, FS_EmptySet
    <3>2. Good(0, [s \in D(0) |-> 0])
        BY <3>1
    <3>3. \A m \in Bad : ~ \E g : Good(m, g)
        OBVIOUS
    <3> HIDE DEF Good, Bad
    <3> QED  BY <2>1, <3>2, <3>3
  <2>3. n - 1 \in Nat /\ n - 1 \notin Bad
    <3>1. n \in Nat
        BY <2>1
    <3> HIDE DEF Bad
    <3> QED  BY <2>1, <2>2, <3>1
  <2>4. PICK g : Good(n - 1, g)
      BY <2>3
  <2> DEFINE h == [s \in D(n) |->
                     IF s = {} THEN 0 ELSE f[First(s)] + g[s \ {First(s)}]]
  <2>5. ASSUME NEW s \in D(n), s # {}
        PROVE  g[s \ {First(s)}] = h[s \ {First(s)}]
    <3>1. IsFiniteSet(s) /\ Cardinality(s) <= n
        BY <1>1
    <3>2. /\ s \ {First(s)} \in SUBSET S /\ Cardinality(s) \in Nat
          /\ Cardinality(s \ {First(s)}) = Cardinality(s) - 1
        BY <2>5, <3>1, WithoutFirst
    <3>3. s \ {First(s)} \in D(n - 1) /\ s \ {First(s)} \in D(n)
        BY <3>1, <3>2
    <3> QED  BY <2>4, <3>3
  <2>6. Good(n, h)
    <3>1. \A s \in D(n) : (IF s = {} THEN 0 ELSE f[First(s)] + g[s \ {First(s)}])
                             = (IF s = {} THEN 0 ELSE f[First(s)] + h[s \ {First(s)}])
        BY <2>5
    <3>2. h = [s \in D(n) |->
                 IF s = {} THEN 0 ELSE f[First(s)] + h[s \ {First(s)}]]
        BY <3>1, Zenon
    <3> QED  BY <3>2
  <2> QED  BY <2>1, <2>6
<1>3. Cardinality(S) \in Nat /\ D(Cardinality(S)) = SUBSET S
    BY FS_Subset, FS_CardinalityType
<1>4. \E g : Good(Cardinality(S), g)
    BY <1>2, <1>3
<1>5. \E g : g = SumStep(f, S, g)
    BY <1>3, <1>4 DEF SumStep
<1> QED  BY <1>5 DEF Partial

(* So the sum of no elements is zero, and the sum of some is one plus the  *)
(* sum of the others.                                                      *)
LEMMA PartialSums ==
    ASSUME NEW S, IsFiniteSet(S), NEW f
    PROVE  /\ Partial(f, S)[{}] = 0
           /\ \A s \in SUBSET S : s # {} =>
                 Partial(f, S)[s] = f[First(s)] + Partial(f, S)[s \ {First(s)}]
<1>1. PICK g : g = Partial(f, S)
    OBVIOUS
<1>2. g = SumStep(f, S, g)
    BY <1>1, PartialUnfolded
<1>3. g[{}] = 0
    BY <1>2 DEF SumStep
<1>4. \A s \in SUBSET S : s # {} => g[s] = f[First(s)] + g[s \ {First(s)}]
    BY <1>2 DEF SumStep
<1> QED  BY <1>1, <1>3, <1>4

(* The sum of natural numbers is one.                                      *)
LEMMA SumType ==
    ASSUME NEW S, IsFiniteSet(S), NEW f \in [S -> Nat]
    PROVE  /\ \A s \in SUBSET S : Partial(f, S)[s] \in Nat
           /\ SumFunction(f) \in Nat
<1> DEFINE T == {s \in SUBSET S : Partial(f, S)[s] \in Nat}
<1>1. {} \in T
    BY PartialSums
<1>2. ASSUME NEW s \in SUBSET S, s # {}, s \ {First(s)} \in T
      PROVE  s \in T
  <2>1. First(s) \in S
      BY <1>2 DEF First
  <2>2. f[First(s)] \in Nat /\ Partial(f, S)[s \ {First(s)}] \in Nat
      BY <1>2, <2>1
  <2>3. Partial(f, S)[s] = f[First(s)] + Partial(f, S)[s \ {First(s)}]
      BY <1>2, PartialSums
  <2>4. Partial(f, S)[s] \in Nat
      BY <2>2, <2>3
  <2> QED  BY <2>4
<1>3. SUBSET S \subseteq T
  <2> HIDE DEF T
  <2> QED  BY <1>1, <1>2, SubsetInduction
<1> QED  BY <1>3, SumUnfolded

(* A change of one number changes the sum by as much.                      *)
LEMMA SumUpdate ==
    ASSUME NEW S, IsFiniteSet(S), NEW f \in [S -> Nat], NEW h \in [S -> Nat],
           NEW a \in S, \A b \in S \ {a} : h[b] = f[b]
    PROVE  SumFunction(h) = SumFunction(f) + h[a] - f[a]
<1> DEFINE P == Partial(f, S)
           Q == Partial(h, S)
           T == {s \in SUBSET S : Q[s] = P[s] + (IF a \in s THEN h[a] - f[a] ELSE 0)}
<1>1. \A s \in SUBSET S : P[s] \in Nat /\ Q[s] \in Nat
    BY SumType
<1>2. {} \in T
    BY PartialSums
<1>3. ASSUME NEW s \in SUBSET S, s # {}, s \ {First(s)} \in T
      PROVE  s \in T
  <2>1. First(s) \in s /\ First(s) \in S
      BY <1>3 DEF First
  <2>2. PICK x \in S : x = First(s)
      BY <2>1
  <2>3. P[s] = f[x] + P[s \ {x}] /\ Q[s] = h[x] + Q[s \ {x}]
      BY ZenonT(30), <1>3, <2>2, PartialSums
  <2>4. Q[s \ {x}] = P[s \ {x}] + (IF a \in s \ {x} THEN h[a] - f[a] ELSE 0)
      BY <1>3, <2>2
  <2>5. P[s \ {x}] \in Nat /\ f[x] \in Nat /\ h[x] \in Nat /\ f[a] \in Nat /\ h[a] \in Nat
      BY <1>1
  <2> HIDE DEF P, Q
  <2>6. Q[s] = P[s] + (IF a \in s THEN h[a] - f[a] ELSE 0)
    <3>1. CASE x = a
      <4>1. a \in s /\ a \notin s \ {x}
          BY <2>1, <2>2, <3>1
      <4> QED  BY <2>3, <2>4, <2>5, <3>1, <4>1
    <3>2. CASE x # a
      <4>1. h[x] = f[x] /\ (a \in s <=> a \in s \ {x})
          BY <3>2
      <4> QED  BY <2>3, <2>4, <2>5, <4>1
    <3> QED  BY <3>1, <3>2
  <2> QED  BY <2>6
<1>4. SUBSET S \subseteq T
  <2> HIDE DEF T
  <2> QED  BY <1>2, <1>3, SubsetInduction
<1>5. Q[S] = P[S] + (h[a] - f[a]) /\ P[S] \in Nat
    BY <1>1, <1>4
<1>6. SumFunction(f) = P[S] /\ SumFunction(h) = Q[S]
    BY SumUnfolded
<1>7. f[a] \in Nat /\ h[a] \in Nat
    OBVIOUS
<1> HIDE DEF P, Q
<1> QED  BY <1>5, <1>6, <1>7

-----------------------------------------------------------------------------
(* Sequences without repetitions.                                          *)
Distinct(q) == \A i, j \in DOMAIN q : q[i] = q[j] => i = j

(* One more element at the end.                                            *)
LEMMA AppendDistinct ==
    ASSUME NEW S, NEW q \in Seq(S), Distinct(q), NEW a \in S, a \notin Range(q)
    PROVE  /\ Append(q, a) \in Seq(S)
           /\ Distinct(Append(q, a))
           /\ Range(Append(q, a)) = Range(q) \cup {a}
<1>1. PICK r : r = Append(q, a)
    OBVIOUS
<1>2. /\ r \in Seq(S) /\ Len(r) = Len(q) + 1 /\ r[Len(q) + 1] = a
      /\ \A i \in 1 .. Len(q) : r[i] = q[i]
    BY <1>1, AppendProperties
<1>3. /\ DOMAIN q = 1 .. Len(q) /\ Len(q) \in Nat
      /\ DOMAIN r = 1 .. Len(q) + 1
    BY <1>2, LenProperties
<1>4. \A i \in DOMAIN q : q[i] # a
    BY DEF Range
<1>5. \A i \in DOMAIN r : i \in DOMAIN q \/ i = Len(q) + 1
    BY <1>3
<1>6. Distinct(r)
    BY <1>2, <1>3, <1>4, <1>5 DEF Distinct
<1>7. Range(r) = Range(q) \cup {a}
  <2>1. \A i \in DOMAIN q : i \in DOMAIN r /\ r[i] = q[i]
      BY <1>2, <1>3
  <2>2. Len(q) + 1 \in DOMAIN r
      BY <1>3
  <2> QED  BY <1>2, <1>5, <2>1, <2>2 DEF Range
<1> QED  BY <1>1, <1>2, <1>6, <1>7

(* Swap and pop takes out the one address, and no other.                   *)
LEMMA SwapPopDistinct ==
    ASSUME NEW S, NEW q \in Seq(S), Distinct(q), NEW a \in Range(q)
    PROVE  /\ SwapPop(q, a) \in Seq(S)
           /\ Distinct(SwapPop(q, a))
           /\ Range(SwapPop(q, a)) = Range(q) \ {a}
<1> DEFINE here == {i \in DOMAIN q : q[i] = a}
           last == Len(q)
<1>1. PICK n \in DOMAIN q : q[n] = a
    BY DEF Range
<1>2. DOMAIN q = 1 .. last /\ last \in Nat /\ n \in 1 .. last
    BY <1>1, LenProperties
<1>3. here = {n}
    BY <1>1 DEF Distinct
<1>4. (CHOOSE i \in here : \A j \in here : i <= j) = n
    BY <1>2, <1>3
<1>5. PICK p : p = [q EXCEPT ![n] = q[last]]
    OBVIOUS
<1>6. PICK r : r = SubSeq(p, 1, last - 1)
    OBVIOUS
<1>7. SwapPop(q, a) = r
    BY <1>3, <1>4, <1>5, <1>6 DEF SwapPop
<1>8. last \in DOMAIN q /\ q[last] \in S
    BY <1>2, ElementOfSeq
<1>9. \A j \in 1 .. last : p[j] = (IF j = n THEN q[last] ELSE q[j]) /\ p[j] \in S
  <2>1. \A j \in 1 .. last : p[j] = IF j = n THEN q[last] ELSE q[j]
      BY <1>2, <1>5
  <2> QED  BY <2>1, <1>8, ElementOfSeq
<1>10. \A j \in 1 .. last - 1 : p[j] \in S
    BY <1>2, <1>9
<1>11. 1 \in Int /\ last - 1 \in Int
    BY <1>2
<1> HIDE DEF last
<1>12. /\ r \in Seq(S)
       /\ Len(r) = IF 1 <= last - 1 THEN (last - 1) - 1 + 1 ELSE 0
       /\ \A i \in 1 .. (last - 1) - 1 + 1 : r[i] = p[1 + i - 1]
    BY <1>6, <1>10, <1>11, SubSeqProperties
<1>13. Len(r) = last - 1
    BY <1>2, <1>12
<1>14. DOMAIN r = 1 .. last - 1
    BY <1>12, <1>13, LenProperties
<1>15. \A i \in DOMAIN r : i \in DOMAIN q /\ i # last /\ r[i] = IF i = n THEN q[last] ELSE q[i]
    BY <1>2, <1>9, <1>12, <1>14
<1>16. Distinct(r)
  <2> SUFFICES ASSUME NEW i \in DOMAIN r, NEW j \in DOMAIN r, r[i] = r[j]
               PROVE  i = j
      BY DEF Distinct
  <2>1. PICK x \in DOMAIN q : x = IF i = n THEN last ELSE i
      BY <1>8, <1>15
  <2>2. PICK y \in DOMAIN q : y = IF j = n THEN last ELSE j
      BY <1>8, <1>15
  <2>3. q[x] = q[y]
      BY <1>15, <2>1, <2>2
  <2>4. x = y
      BY <2>3 DEF Distinct
  <2> QED  BY <1>15, <2>1, <2>2, <2>4
<1>17. Range(r) = Range(q) \ {a}
  <2>1. ASSUME NEW i \in DOMAIN r PROVE r[i] \in Range(q) /\ r[i] # a
    <3>1. PICK x \in DOMAIN q : x = IF i = n THEN last ELSE i
        BY <1>8, <1>15
    <3>2. r[i] = q[x]
        BY <1>15, <3>1
    <3>3. x # n
        BY <1>15, <3>1
    <3>4. q[x] # a
        BY <1>1, <3>3 DEF Distinct
    <3> QED  BY <3>2, <3>4 DEF Range
  <2>2. ASSUME NEW x \in DOMAIN q, q[x] # a PROVE q[x] \in Range(r)
    <3>1. x # n
        BY <1>1, <2>2
    <3>2. CASE x = last
      <4>1. n \in DOMAIN r
          BY <1>2, <1>14, <3>1, <3>2
      <4>2. r[n] = q[x]
          BY <1>15, <3>2, <4>1
      <4> QED  BY <4>1, <4>2 DEF Range
    <3>3. CASE x # last
      <4>1. x \in DOMAIN r
          BY <1>2, <1>14, <3>3
      <4>2. r[x] = q[x]
          BY <1>15, <3>1, <4>1
      <4> QED  BY <4>1, <4>2 DEF Range
    <3> QED  BY <3>2, <3>3
  <2> QED  BY <2>1, <2>2 DEF Range
<1> QED  BY <1>7, <1>12, <1>16, <1>17

(* A sequence without repetitions is as long as its range is large.        *)
LEMMA DistinctLength ==
    ASSUME NEW S, NEW q \in Seq(S), Distinct(q)
    PROVE  Len(q) = Cardinality(Range(q))
<1>1. DOMAIN q = 1 .. Len(q) /\ Len(q) \in Nat /\ q \in [1 .. Len(q) -> S]
    BY LenProperties
<1>2. q \in [1 .. Len(q) -> Range(q)]
    BY <1>1 DEF Range
<1>3. q \in Bijection(1 .. Len(q), Range(q))
  <2>1. \A i, j \in 1 .. Len(q) : q[i] = q[j] => i = j
      BY <1>1 DEF Distinct
  <2>2. \A t \in Range(q) : \E i \in 1 .. Len(q) : q[i] = t
      BY <1>1 DEF Range
  <2>3. q \in Injection(1 .. Len(q), Range(q))
      BY <1>2, <2>1 DEF Injection, IsInjective
  <2>4. q \in Surjection(1 .. Len(q), Range(q))
      BY <1>2, <2>2 DEF Surjection
  <2> QED  BY <2>3, <2>4 DEF Bijection
<1>4. ExistsBijection(1 .. Len(q), Range(q))
    BY <1>3 DEF ExistsBijection
<1>5. /\ IsFiniteSet(1 .. Len(q))
      /\ Cardinality(1 .. Len(q)) = IF 1 > Len(q) THEN 0 ELSE Len(q) - 1 + 1
    BY <1>1, FS_Interval
<1>6. Cardinality(1 .. Len(q)) = Len(q)
    BY <1>1, <1>5
<1> QED  BY <1>4, <1>5, <1>6, FS_Bijection

-----------------------------------------------------------------------------
(* The inductive invariant.  A revert brings an earlier state of the       *)
(* contract back, so it says of each saved state what it says of the       *)
(* present one.                                                            *)
Stakes(s) == [a \in Addresses |-> s.validators[a].stake]

SolventIn(s) == SumFunction(Stakes(s)) <= s.balance

(* An address is listed once, which is what the length says, and can be    *)
(* followed through a swap and pop.                                        *)
Listed(s) ==
    /\ Range(s.validatorAddresses) = Live(s)
    /\ Distinct(s.validatorAddresses)

KeysLead(s) ==
    \A k \in Bytes :
        s.blsPubKeyToValidator[k] # NoAddress =>
            /\ s.blsPubKeyToValidator[k] \in Live(s)
            /\ s.validators[s.blsPubKeyToValidator[k]].key = k

IndexesLead(s) ==
    \A a \in Live(s) :
        /\ s.validators[a].index < s.validatorCount
        /\ s.indexToPubKey[s.validators[a].index] = s.validators[a].key
        /\ \A b \in Live(s) : s.validators[b].index = s.validators[a].index => b = a

(* Only indexes that were given out lead to a key.                         *)
Numbered(s) == \A i \in Slots : s.indexToPubKey[i] # NoKey => i < s.validatorCount

(* A key is still in its slot only while the validator it was given to is  *)
(* registered.                                                             *)
SlotsLead(s) ==
    \A i \in Slots :
        s.indexToPubKey[i] # NoKey => \E a \in Live(s) : s.validators[a].index = i

Consistent(s) ==
    /\ s \in Registries
    /\ SolventIn(s)
    /\ Listed(s)
    /\ KeysLead(s)
    /\ IndexesLead(s)
    /\ Numbered(s)
    /\ SlotsLead(s)

(* What a reader remembers is not contradicted in s, and will not be by a  *)
(* registration after s.                                                   *)
Remembered(s, m) ==
    \A i \in Slots :
        m[i] # NoKey => i < s.validatorCount /\ s.indexToPubKey[i] \in {m[i], NoKey}

(* A key that is not in C leads to the validator that has it: it has only  *)
(* one.                                                                    *)
Uncontested(s, C) ==
    \A a \in Live(s) :
        s.validators[a].key \notin C => s.blsPubKeyToValidator[s.validators[a].key] = a

(* All of this, of one state of the contract.                              *)
Settled(s) == Consistent(s) /\ Remembered(s, seen) /\ Uncontested(s, contested)

RegistryInv ==
    /\ RegistryTypeOK
    /\ Settled(reg)
    /\ \A i \in DOMAIN stack : Settled(stack[i].saved)

-----------------------------------------------------------------------------
(* What a registry consists of, for the steps below.                       *)
LEMMA RegistryFields ==
    ASSUME NEW s \in Registries
    PROVE  /\ s.validators \in [Addresses -> [exists : BOOLEAN, index : Nat,
                                              key : Bytes, stake : Nat]]
           /\ s.indexToPubKey \in [Slots -> Bytes]
           /\ s.blsPubKeyToValidator \in [Bytes -> Addresses \cup {NoAddress}]
           /\ s.validatorAddresses \in Seq(Addresses)
           /\ s.validatorCount \in 0 .. MaxIndex
           /\ s.balance \in Nat
BY DEF Registries

(* The stakes of a registry are numbers, and so is their sum.              *)
LEMMA StakesType ==
    ASSUME NEW s \in Registries
    PROVE  /\ Stakes(s) \in [Addresses -> Nat]
           /\ SumFunction(Stakes(s)) \in Nat
           /\ IsFiniteSet(Addresses)
<1>1. Stakes(s) \in [Addresses -> Nat]
    BY RegistryFields DEF Stakes
<1>2. IsFiniteSet(Addresses)
    BY AddressAssumption
<1> QED  BY <1>1, <1>2, SumType

(* A validator is one of the accounts, and its index one of the slots.     *)
LEMMA LiveSlot ==
    ASSUME NEW s, Consistent(s), NEW a \in Live(s)
    PROVE  /\ a \in Addresses
           /\ s.validators[a].index \in Slots
<1>1. a \in Addresses
    BY DEF Live
<1>2. s \in Registries
    BY DEF Consistent
<1>3. s.validatorCount \in Int /\ s.validatorCount <= MaxIndex
    BY <1>2, RegistryFields, BoundAssumption
<1>4. s.validators[a].index \in Nat
    BY <1>1, <1>2, RegistryFields
<1>5. s.validators[a].index < s.validatorCount
    BY DEF Consistent, IndexesLead
<1> QED  BY <1>1, <1>3, <1>4, <1>5, BoundAssumption DEF Slots

(* If only the stake of one account changes, the sum changes by as much.   *)
LEMMA StakeChange ==
    ASSUME NEW s \in Registries, NEW t \in Registries, NEW a \in Addresses,
           \A b \in Addresses \ {a} : t.validators[b].stake = s.validators[b].stake
    PROVE  /\ SumFunction(Stakes(t)) =
                 SumFunction(Stakes(s)) + t.validators[a].stake - s.validators[a].stake
           /\ s.validators[a].stake \in Nat
           /\ t.validators[a].stake \in Nat
           /\ SumFunction(Stakes(s)) \in Nat
           /\ SumFunction(Stakes(t)) \in Nat
<1>1. PICK f \in [Addresses -> Nat] : f = Stakes(s)
    BY StakesType
<1>2. PICK h \in [Addresses -> Nat] : h = Stakes(t)
    BY StakesType
<1>3. \A b \in Addresses : f[b] = s.validators[b].stake /\ h[b] = t.validators[b].stake
    BY <1>1, <1>2 DEF Stakes
<1>4. \A b \in Addresses \ {a} : h[b] = f[b]
    BY <1>3
<1>5. IsFiniteSet(Addresses)
    BY AddressAssumption
<1>6. SumFunction(h) = SumFunction(f) + h[a] - f[a]
    BY <1>4, <1>5, SumUpdate
<1>7. h[a] \in Nat /\ f[a] \in Nat
    OBVIOUS
<1> QED  BY <1>1, <1>2, <1>3, <1>6, <1>7, StakesType

(* No stake is larger than their sum.                                      *)
LEMMA StakeWithinSum ==
    ASSUME NEW s \in Registries, NEW a \in Addresses
    PROVE  s.validators[a].stake <= SumFunction(Stakes(s))
<1>1. PICK f \in [Addresses -> Nat] : f = Stakes(s)
    BY StakesType
<1>2. PICK h \in [Addresses -> Nat] : h = [f EXCEPT ![a] = 0]
    OBVIOUS
<1>3. h[a] = 0 /\ \A b \in Addresses \ {a} : h[b] = f[b]
    BY <1>2
<1>4. IsFiniteSet(Addresses)
    BY AddressAssumption
<1>5. SumFunction(h) = SumFunction(f) + h[a] - f[a]
    BY <1>3, <1>4, SumUpdate
<1>6. SumFunction(h) \in Nat /\ SumFunction(f) \in Nat
    BY <1>4, SumType
<1>7. f[a] = s.validators[a].stake /\ f[a] \in Nat
    BY <1>1 DEF Stakes
<1> QED  BY <1>1, <1>3, <1>5, <1>6, <1>7

(* The empty registry is consistent.                                       *)
LEMMA EmptyConsistent ==
    /\ Consistent(EmptyRegistry)
    /\ Remembered(EmptyRegistry, [i \in Slots |-> NoKey])
    /\ Uncontested(EmptyRegistry, {})
<1>1. PICK s : s = EmptyRegistry
    OBVIOUS
<1>2. NoKey \in Bytes
    BY DEF Bytes
<1>3. /\ s.validators = [a \in Addresses |-> NoValidator]
      /\ s.indexToPubKey = [i \in Slots |-> NoKey]
      /\ s.blsPubKeyToValidator = [k \in Bytes |-> NoAddress]
      /\ s.validatorAddresses = <<>>
      /\ s.validatorCount = 0
      /\ s.balance = 0
    BY <1>1 DEF EmptyRegistry
<1>4. NoValidator \in [exists : BOOLEAN, index : Nat, key : Bytes, stake : Nat]
    BY <1>2 DEF NoValidator
<1>5. s \in Registries
    BY <1>1, <1>2, <1>4, BoundAssumption DEF EmptyRegistry, Registries
<1>6. Live(s) = {}
    BY <1>3 DEF Live, NoValidator
<1>7. Listed(s)
    BY <1>3, <1>6 DEF Listed, Distinct, Range
<1>8. KeysLead(s) /\ IndexesLead(s) /\ Numbered(s) /\ SlotsLead(s)
    BY <1>3, <1>6 DEF KeysLead, IndexesLead, Numbered, SlotsLead
<1>9. SolventIn(s)
  <2> DEFINE T == {u \in SUBSET Addresses : Partial(Stakes(s), Addresses)[u] = 0}
  <2>1. IsFiniteSet(Addresses)
      BY AddressAssumption
  <2>2. \A a \in Addresses : Stakes(s)[a] = 0
      BY <1>3 DEF Stakes, NoValidator
  <2>3. {} \in T
      BY <2>1, PartialSums
  <2>4. ASSUME NEW u \in SUBSET Addresses, u # {}, u \ {First(u)} \in T
        PROVE  u \in T
    <3>1. First(u) \in Addresses
        BY <2>4 DEF First
    <3>2. Partial(Stakes(s), Addresses)[u]
             = Stakes(s)[First(u)] + Partial(Stakes(s), Addresses)[u \ {First(u)}]
        BY <2>1, <2>4, PartialSums
    <3> QED  BY <2>2, <2>4, <3>1, <3>2
  <2>5. SUBSET Addresses \subseteq T
    <3> HIDE DEF T
    <3> QED  BY <2>1, <2>3, <2>4, SubsetInduction
  <2>6. DOMAIN Stakes(s) = Addresses
      BY DEF Stakes
  <2>7. SumFunction(Stakes(s)) = 0
      BY <2>5, <2>6, SumUnfolded
  <2> QED  BY <1>3, <2>7 DEF SolventIn
<1>10. Remembered(s, [i \in Slots |-> NoKey]) /\ Uncontested(s, {})
    BY <1>6 DEF Remembered, Uncontested
<1> QED  BY <1>1, <1>5, <1>7, <1>8, <1>9, <1>10 DEF Consistent

(* registerValidator keeps a registry consistent, and takes an index that  *)
(* no reader has seen.                                                     *)
LEMMA RegisteredConsistent ==
    ASSUME NEW s, Consistent(s), NEW a \in Addresses, a \notin Live(s),
           NEW k \in Keys, NEW stake \in Nat, s.validatorCount < MaxIndex
    PROVE  /\ Consistent(Registered(s, a, k, stake))
           /\ \A m : Remembered(s, m) => Remembered(Registered(s, a, k, stake), m)
           /\ \A C : Uncontested(s, C) =>
                 Uncontested(Registered(s, a, k, stake),
                             C \cup (IF k \in KeysHeld(s) THEN {k} ELSE {}))
<1>1. PICK t : t = Registered(s, a, k, stake)
    OBVIOUS
<1>2. PICK n : n = s.validatorCount
    OBVIOUS
<1>3. s \in Registries
    BY DEF Consistent
<1>4. n \in Slots /\ n \in Nat /\ n + 1 \in 0 .. MaxIndex /\ k \in Bytes
    BY <1>2, <1>3, RegistryFields, BoundAssumption DEF Slots, Bytes
<1>5. PICK v : v = [exists |-> TRUE, index |-> n, key |-> k, stake |-> stake]
    OBVIOUS
<1>6. /\ t.validators = [s.validators EXCEPT ![a] = v]
      /\ t.indexToPubKey = [s.indexToPubKey EXCEPT ![n] = k]
      /\ t.blsPubKeyToValidator = [s.blsPubKeyToValidator EXCEPT ![k] = a]
      /\ t.validatorAddresses = Append(s.validatorAddresses, a)
      /\ t.validatorCount = n + 1
      /\ t.balance = s.balance + stake
    BY <1>1, <1>2, <1>3, <1>5 DEF Registered, Registries
<1>7. /\ v \in [exists : BOOLEAN, index : Nat, key : Bytes, stake : Nat]
      /\ v.exists = TRUE /\ v.index = n /\ v.key = k /\ v.stake = stake
    BY <1>4, <1>5
<1>8. /\ t.validators[a] = v
      /\ \A b \in Addresses \ {a} : t.validators[b] = s.validators[b]
    BY <1>3, <1>6, RegistryFields
<1>9. Live(t) = Live(s) \cup {a}
    BY <1>7, <1>8 DEF Live
<1>10. /\ t.validatorAddresses \in Seq(Addresses)
       /\ Listed(t)
  <2>1. Distinct(s.validatorAddresses) /\ Range(s.validatorAddresses) = Live(s)
      BY DEF Consistent, Listed
  <2>2. s.validatorAddresses \in Seq(Addresses)
      BY <1>3, RegistryFields
  <2>3. /\ t.validatorAddresses \in Seq(Addresses)
        /\ Distinct(t.validatorAddresses)
        /\ Range(t.validatorAddresses) = Live(s) \cup {a}
      BY <1>6, <2>1, <2>2, AppendDistinct
  <2> QED  BY <1>9, <2>3 DEF Listed
<1>11. t \in Registries
  <2>1. /\ t.validators \in [Addresses -> [exists : BOOLEAN, index : Nat,
                                           key : Bytes, stake : Nat]]
        /\ t.indexToPubKey \in [Slots -> Bytes]
        /\ t.blsPubKeyToValidator \in [Bytes -> Addresses \cup {NoAddress}]
        /\ t.balance \in Nat
      BY <1>3, <1>4, <1>6, <1>7, RegistryFields
  <2>2. t = [validators |-> t.validators, indexToPubKey |-> t.indexToPubKey,
             blsPubKeyToValidator |-> t.blsPubKeyToValidator,
             validatorAddresses |-> t.validatorAddresses,
             validatorCount |-> t.validatorCount, balance |-> t.balance]
      BY <1>1, <1>3 DEF Registered, Registries
  <2> QED  BY <1>4, <1>6, <1>10, <2>1, <2>2 DEF Registries
<1>12. SolventIn(t)
  <2>1. /\ SumFunction(Stakes(t)) =
             SumFunction(Stakes(s)) + t.validators[a].stake - s.validators[a].stake
        /\ s.validators[a].stake \in Nat
        /\ SumFunction(Stakes(s)) \in Nat
      BY <1>3, <1>8, <1>11, StakeChange
  <2>2. SumFunction(Stakes(s)) <= s.balance /\ s.balance \in Nat
      BY <1>3, RegistryFields DEF Consistent, SolventIn
  <2>3. t.validators[a].stake = stake /\ t.balance = s.balance + stake
      BY <1>6, <1>7, <1>8
  <2> QED  BY <2>1, <2>2, <2>3 DEF SolventIn
<1>13. KeysLead(t)
  <2> SUFFICES ASSUME NEW j \in Bytes, t.blsPubKeyToValidator[j] # NoAddress
               PROVE  /\ t.blsPubKeyToValidator[j] \in Live(t)
                      /\ t.validators[t.blsPubKeyToValidator[j]].key = j
      BY DEF KeysLead
  <2>1. CASE j = k
      BY <1>3, <1>4, <1>6, <1>7, <1>8, <1>9, <2>1, RegistryFields
  <2>2. CASE j # k
    <3>1. t.blsPubKeyToValidator[j] = s.blsPubKeyToValidator[j]
        BY <1>3, <1>6, <2>2, RegistryFields
    <3>2. /\ s.blsPubKeyToValidator[j] \in Live(s)
          /\ s.validators[s.blsPubKeyToValidator[j]].key = j
        BY <3>1 DEF Consistent, KeysLead
    <3>3. s.blsPubKeyToValidator[j] \in Addresses \ {a}
        BY <3>2 DEF Live
    <3> QED  BY <1>8, <1>9, <3>1, <3>2, <3>3
  <2> QED  BY <2>1, <2>2
<1>14. IndexesLead(t)
  <2>1. \A b \in Live(s) :
           /\ b \in Addresses \ {a} /\ t.validators[b] = s.validators[b]
           /\ s.validators[b].index \in Slots /\ s.validators[b].index < n
           /\ s.indexToPubKey[s.validators[b].index] = s.validators[b].key
      BY <1>2, <1>8, LiveSlot DEF Consistent, IndexesLead
  <2>2. t.indexToPubKey[n] = k /\ \A i \in Slots : i < n => t.indexToPubKey[i] = s.indexToPubKey[i]
      BY <1>3, <1>4, <1>6, RegistryFields
  <2>3. ASSUME NEW b \in Live(t)
        PROVE  /\ t.validators[b].index < n + 1
               /\ t.indexToPubKey[t.validators[b].index] = t.validators[b].key
               /\ \A c \in Live(t) : t.validators[c].index = t.validators[b].index => c = b
    <3>1. CASE b = a
      <4>1. t.validators[b].index = n /\ t.validators[b].key = k
          BY <1>7, <1>8, <3>1
      <4>2. \A c \in Live(s) : t.validators[c].index < n /\ t.validators[c].index \in Slots
          BY <2>1
      <4>3. \A c \in Live(s) : t.validators[c].index # n
          BY <1>4, <4>2 DEF Slots
      <4> QED  BY <1>4, <1>9, <2>2, <3>1, <4>1, <4>3
    <3>2. CASE b # a
      <4>1. b \in Live(s)
          BY <1>9, <3>2
      <4>2. t.validators[b] = s.validators[b] /\ s.validators[b].index \in Slots
            /\ s.validators[b].index < n
          BY <2>1, <4>1
      <4>3. t.validators[b].index < n + 1
          BY <1>4, <4>2 DEF Slots
      <4>4. t.indexToPubKey[t.validators[b].index] = t.validators[b].key
          BY <2>1, <2>2, <4>1, <4>2
      <4>5. ASSUME NEW c \in Live(t), t.validators[c].index = t.validators[b].index
            PROVE  c = b
        <5>1. c # a
            BY <1>4, <1>7, <1>8, <4>2, <4>5 DEF Slots
        <5>2. c \in Live(s) /\ t.validators[c] = s.validators[c]
            BY <1>9, <2>1, <5>1
        <5> QED  BY <4>1, <4>2, <4>5, <5>2 DEF Consistent, IndexesLead
      <4> QED  BY <4>3, <4>4, <4>5
    <3> QED  BY <3>1, <3>2
  <2> QED  BY <1>6, <2>3 DEF IndexesLead
<1>15. \A i \in Slots : i # n => t.indexToPubKey[i] = s.indexToPubKey[i]
    BY <1>3, <1>6, RegistryFields
<1>16. \A i \in Slots : i \in Int
    BY DEF Slots
<1>17. Numbered(t)
    BY <1>2, <1>4, <1>6, <1>15, <1>16 DEF Consistent, Numbered
<1>18. \A m : Remembered(s, m) => Remembered(t, m)
    BY <1>2, <1>4, <1>6, <1>15, <1>16 DEF Remembered
<1>19. SlotsLead(t)
  <2> SUFFICES ASSUME NEW i \in Slots, t.indexToPubKey[i] # NoKey
               PROVE  \E b \in Live(t) : t.validators[b].index = i
      BY DEF SlotsLead
  <2>1. CASE i = n
      BY <1>7, <1>8, <1>9, <2>1
  <2>2. CASE i # n
    <3>1. s.indexToPubKey[i] # NoKey
        BY <1>15, <2>2
    <3>2. PICK b \in Live(s) : s.validators[b].index = i
        BY <3>1 DEF Consistent, SlotsLead
    <3>3. b \in Addresses \ {a}
        BY DEF Live
    <3> QED  BY <1>8, <1>9, <3>2, <3>3
  <2> QED  BY <2>1, <2>2
<1>20. ASSUME NEW C, Uncontested(s, C)
       PROVE  Uncontested(t, C \cup (IF k \in KeysHeld(s) THEN {k} ELSE {}))
  <2> SUFFICES ASSUME NEW b \in Live(t),
                      t.validators[b].key \notin
                          C \cup (IF k \in KeysHeld(s) THEN {k} ELSE {})
               PROVE  t.blsPubKeyToValidator[t.validators[b].key] = b
      BY DEF Uncontested
  <2>1. CASE b = a
      BY <1>3, <1>4, <1>6, <1>7, <1>8, <2>1, RegistryFields
  <2>2. CASE b # a
    <3>1. b \in Live(s) /\ t.validators[b] = s.validators[b]
        BY <1>8, <1>9, <2>2 DEF Live
    <3>2. s.blsPubKeyToValidator[s.validators[b].key] = b
        BY <1>20, <3>1 DEF Uncontested
    <3>3. s.validators[b].key # k
        BY <3>1 DEF KeysHeld
    <3>4. s.validators[b].key \in Bytes
        BY <1>3, <3>1, RegistryFields DEF Live
    <3> QED  BY <1>3, <1>6, <3>1, <3>2, <3>3, <3>4, RegistryFields
  <2> QED  BY <2>1, <2>2
<1> QED
    BY <1>1, <1>10, <1>11, <1>12, <1>13, <1>14, <1>17, <1>18, <1>19, <1>20 DEF Consistent

(* A registry with another stake and another balance.                      *)
Restaked(s, a, x, y) == [s EXCEPT !.validators[a].stake = x, !.balance = y]

(* depositStake and the payment change a stake and the balance, and        *)
(* nothing that leads to a validator.                                      *)
LEMMA RestakedConsistent ==
    ASSUME NEW s, Consistent(s), NEW a \in Addresses, NEW x \in Nat, NEW y \in Nat,
           SumFunction(Stakes(s)) + x - s.validators[a].stake <= y
    PROVE  /\ Consistent(Restaked(s, a, x, y))
           /\ \A m : Remembered(s, m) => Remembered(Restaked(s, a, x, y), m)
           /\ \A C : Uncontested(s, C) => Uncontested(Restaked(s, a, x, y), C)
<1>0. PICK t : t = Restaked(s, a, x, y)
    OBVIOUS
<1>1. s \in Registries
    BY DEF Consistent
<1>2. PICK v : v = [s.validators[a] EXCEPT !.stake = x]
    OBVIOUS
<1>3. /\ t.validators = [s.validators EXCEPT ![a] = v]
      /\ t.indexToPubKey = s.indexToPubKey
      /\ t.blsPubKeyToValidator = s.blsPubKeyToValidator
      /\ t.validatorAddresses = s.validatorAddresses
      /\ t.validatorCount = s.validatorCount
      /\ t.balance = y
    BY <1>0, <1>1, <1>2 DEF Restaked, Registries
<1>4. /\ v \in [exists : BOOLEAN, index : Nat, key : Bytes, stake : Nat]
      /\ v.exists = s.validators[a].exists
      /\ v.index = s.validators[a].index
      /\ v.key = s.validators[a].key
      /\ v.stake = x
    BY ZenonT(30), <1>1, <1>2, RegistryFields
<1>5. /\ t.validators[a] = v
      /\ \A b \in Addresses \ {a} : t.validators[b] = s.validators[b]
    BY <1>1, <1>3, RegistryFields
<1>6. \A b \in Addresses : /\ t.validators[b].exists = s.validators[b].exists
                           /\ t.validators[b].index = s.validators[b].index
                           /\ t.validators[b].key = s.validators[b].key
    BY <1>4, <1>5
<1>7. Live(t) = Live(s) /\ Live(s) \subseteq Addresses
    BY <1>6 DEF Live
<1>8. t \in Registries
  <2>1. t.validators \in [Addresses -> [exists : BOOLEAN, index : Nat,
                                        key : Bytes, stake : Nat]]
      BY <1>1, <1>3, <1>4, RegistryFields
  <2>2. t = [validators |-> t.validators, indexToPubKey |-> t.indexToPubKey,
             blsPubKeyToValidator |-> t.blsPubKeyToValidator,
             validatorAddresses |-> t.validatorAddresses,
             validatorCount |-> t.validatorCount, balance |-> t.balance]
      BY <1>0, <1>1 DEF Restaked, Registries
  <2>3. /\ t.indexToPubKey \in [Slots -> Bytes]
        /\ t.blsPubKeyToValidator \in [Bytes -> Addresses \cup {NoAddress}]
        /\ t.validatorAddresses \in Seq(Addresses)
        /\ t.validatorCount \in 0 .. MaxIndex
        /\ t.balance \in Nat
      BY <1>1, <1>3, RegistryFields
  <2> QED  BY <2>1, <2>2, <2>3 DEF Registries
<1>9. SolventIn(t)
  <2>1. SumFunction(Stakes(t)) =
           SumFunction(Stakes(s)) + t.validators[a].stake - s.validators[a].stake
      BY <1>1, <1>5, <1>8, StakeChange
  <2>2. t.validators[a].stake = x
      BY <1>4, <1>5
  <2> QED  BY <1>3, <2>1, <2>2 DEF SolventIn
<1>10. Listed(t)
    BY <1>3, <1>7 DEF Consistent, Listed
<1>11. KeysLead(t)
    BY <1>3, <1>6, <1>7 DEF Consistent, KeysLead
<1>12. IndexesLead(t)
  <2>1. IndexesLead(s)
      BY DEF Consistent
  <2> QED  BY <1>3, <1>6, <1>7, <2>1 DEF IndexesLead
<1>13. Numbered(t) /\ \A m : Remembered(s, m) => Remembered(t, m)
    BY <1>3 DEF Consistent, Numbered, Remembered
<1>14. SlotsLead(t)
    BY <1>3, <1>6, <1>7 DEF Consistent, SlotsLead
<1>15. \A C : Uncontested(s, C) => Uncontested(t, C)
    BY <1>3, <1>6, <1>7 DEF Uncontested
<1> QED
    BY <1>0, <1>8, <1>9, <1>10, <1>11, <1>12, <1>13, <1>14, <1>15 DEF Consistent

(* depositStake                                                            *)
LEMMA DepositedConsistent ==
    ASSUME NEW s, Consistent(s), NEW a \in Addresses, NEW amount \in Nat
    PROVE  /\ Consistent(Deposited(s, a, amount))
           /\ \A m : Remembered(s, m) => Remembered(Deposited(s, a, amount), m)
           /\ \A C : Uncontested(s, C) => Uncontested(Deposited(s, a, amount), C)
<1>1. s \in Registries
    BY DEF Consistent
<1>2. PICK x : x = s.validators[a].stake + amount
    OBVIOUS
<1>3. PICK y : y = s.balance + amount
    OBVIOUS
<1>4. /\ s.validators[a].stake \in Nat /\ s.balance \in Nat
      /\ SumFunction(Stakes(s)) \in Nat /\ SumFunction(Stakes(s)) <= s.balance
    BY <1>1, RegistryFields, StakesType DEF Consistent, SolventIn
<1>5. x \in Nat /\ y \in Nat /\ SumFunction(Stakes(s)) + x - s.validators[a].stake <= y
    BY <1>2, <1>3, <1>4
<1>6. Restaked(s, a, x, y) = Deposited(s, a, amount)
    BY <1>1, <1>2, <1>3 DEF Restaked, Deposited, Registries
<1> QED  BY <1>5, <1>6, RestakedConsistent

(* withdrawAllStake, up to and with the payment: the balance covers it.    *)
LEMMA PaidConsistent ==
    ASSUME NEW s, Consistent(s), NEW a \in Addresses
    PROVE  /\ Consistent(Paid(s, a))
           /\ \A m : Remembered(s, m) => Remembered(Paid(s, a), m)
           /\ \A C : Uncontested(s, C) => Uncontested(Paid(s, a), C)
<1>1. s \in Registries
    BY DEF Consistent
<1>2. PICK y : y = s.balance - s.validators[a].stake
    OBVIOUS
<1>3. /\ s.validators[a].stake \in Nat /\ s.balance \in Nat
      /\ SumFunction(Stakes(s)) \in Nat /\ SumFunction(Stakes(s)) <= s.balance
    BY <1>1, RegistryFields, StakesType DEF Consistent, SolventIn
<1>4. s.validators[a].stake <= SumFunction(Stakes(s))
    BY <1>1, StakeWithinSum
<1>5. y \in Nat /\ SumFunction(Stakes(s)) + 0 - s.validators[a].stake <= y
    BY <1>2, <1>3, <1>4
<1>6. Restaked(s, a, 0, y) = Paid(s, a)
    BY <1>1, <1>2 DEF Restaked, Paid, Registries
<1> QED  BY <1>5, <1>6, RestakedConsistent

(* removeValidator leaves every other validator where it was, also if a    *)
(* deposit arrived in the payment, and if the key has another owner.       *)
LEMMA RemovedConsistent ==
    ASSUME NEW s, Consistent(s), NEW a \in Live(s)
    PROVE  /\ Consistent(Removed(s, a))
           /\ \A m : Remembered(s, m) => Remembered(Removed(s, a), m)
           /\ \A C : Uncontested(s, C) => Uncontested(Removed(s, a), C)
<1>1. PICK t : t = Removed(s, a)
    OBVIOUS
<1>2. PICK n : n = s.validators[a].index
    OBVIOUS
<1>3. PICK k : k = s.validators[a].key
    OBVIOUS
<1>4. s \in Registries
    BY DEF Consistent
<1>5. a \in Addresses /\ n \in Slots /\ k \in Bytes /\ NoKey \in Bytes
    BY <1>2, <1>3, <1>4, LiveSlot, RegistryFields DEF Bytes
<1>6. /\ t.validators = [s.validators EXCEPT ![a] = NoValidator]
      /\ t.indexToPubKey = [s.indexToPubKey EXCEPT ![n] = NoKey]
      /\ t.blsPubKeyToValidator = [s.blsPubKeyToValidator EXCEPT ![k] = NoAddress]
      /\ t.validatorAddresses = SwapPop(s.validatorAddresses, a)
      /\ t.validatorCount = s.validatorCount
      /\ t.balance = s.balance
    BY <1>1, <1>2, <1>3, <1>4 DEF Removed, Registries
<1>7. /\ NoValidator \in [exists : BOOLEAN, index : Nat, key : Bytes, stake : Nat]
      /\ NoValidator.exists = FALSE /\ NoValidator.stake = 0
    BY <1>5 DEF NoValidator
<1>8. /\ t.validators[a] = NoValidator
      /\ \A b \in Addresses \ {a} : t.validators[b] = s.validators[b]
    BY <1>4, <1>5, <1>6, RegistryFields
<1>9. Live(t) = Live(s) \ {a}
    BY <1>7, <1>8 DEF Live
<1>10. /\ t.validatorAddresses \in Seq(Addresses)
       /\ Listed(t)
  <2>1. Distinct(s.validatorAddresses) /\ Range(s.validatorAddresses) = Live(s)
      BY DEF Consistent, Listed
  <2>2. s.validatorAddresses \in Seq(Addresses)
      BY <1>4, RegistryFields
  <2>3. /\ t.validatorAddresses \in Seq(Addresses)
        /\ Distinct(t.validatorAddresses)
        /\ Range(t.validatorAddresses) = Live(s) \ {a}
      BY <1>6, <2>1, <2>2, SwapPopDistinct
  <2> QED  BY <1>9, <2>3 DEF Listed
<1>11. t \in Registries
  <2>1. /\ t.validators \in [Addresses -> [exists : BOOLEAN, index : Nat,
                                           key : Bytes, stake : Nat]]
        /\ t.indexToPubKey \in [Slots -> Bytes]
        /\ t.blsPubKeyToValidator \in [Bytes -> Addresses \cup {NoAddress}]
        /\ t.validatorCount \in 0 .. MaxIndex
        /\ t.balance \in Nat
      BY <1>4, <1>5, <1>6, <1>7, RegistryFields
  <2>2. t = [validators |-> t.validators, indexToPubKey |-> t.indexToPubKey,
             blsPubKeyToValidator |-> t.blsPubKeyToValidator,
             validatorAddresses |-> t.validatorAddresses,
             validatorCount |-> t.validatorCount, balance |-> t.balance]
      BY <1>1, <1>4 DEF Removed, Registries
  <2> QED  BY <1>10, <2>1, <2>2 DEF Registries
<1>12. SolventIn(t)
  <2>1. /\ SumFunction(Stakes(t)) =
             SumFunction(Stakes(s)) + t.validators[a].stake - s.validators[a].stake
        /\ s.validators[a].stake \in Nat
        /\ SumFunction(Stakes(s)) \in Nat
      BY <1>4, <1>5, <1>8, <1>11, StakeChange
  <2>2. SumFunction(Stakes(s)) <= s.balance /\ s.balance \in Nat
      BY <1>4, RegistryFields DEF Consistent, SolventIn
  <2>3. t.validators[a].stake = 0 /\ t.balance = s.balance
      BY <1>6, <1>7, <1>8
  <2> QED  BY <2>1, <2>2, <2>3 DEF SolventIn
<1>13. KeysLead(t)
  <2> SUFFICES ASSUME NEW j \in Bytes, t.blsPubKeyToValidator[j] # NoAddress
               PROVE  /\ t.blsPubKeyToValidator[j] \in Live(t)
                      /\ t.validators[t.blsPubKeyToValidator[j]].key = j
      BY DEF KeysLead
  <2>1. j # k /\ t.blsPubKeyToValidator[j] = s.blsPubKeyToValidator[j]
      BY <1>4, <1>5, <1>6, RegistryFields
  <2>2. /\ s.blsPubKeyToValidator[j] \in Live(s)
        /\ s.validators[s.blsPubKeyToValidator[j]].key = j
      BY <2>1 DEF Consistent, KeysLead
  <2>3. s.blsPubKeyToValidator[j] \in Addresses \ {a}
      BY <1>3, <2>1, <2>2 DEF Live
  <2> QED  BY <1>8, <1>9, <2>1, <2>2, <2>3
<1>14. \A i \in Slots : i # n => t.indexToPubKey[i] = s.indexToPubKey[i]
    BY <1>4, <1>6, RegistryFields
<1>15. t.indexToPubKey[n] = NoKey
    BY <1>4, <1>5, <1>6, RegistryFields
<1>16. IndexesLead(t)
  <2>1. \A b \in Live(t) :
           /\ b \in Live(s) /\ b # a /\ b \in Addresses
           /\ t.validators[b] = s.validators[b]
           /\ s.validators[b].index \in Slots
      BY <1>8, <1>9, LiveSlot DEF Live
  <2>2. IndexesLead(s)
      BY DEF Consistent
  <2>3. \A b \in Live(t) : s.validators[b].index # n
      BY <1>2, <2>1, <2>2 DEF IndexesLead
  <2> QED  BY <1>6, <1>14, <2>1, <2>2, <2>3 DEF IndexesLead
<1>17. Numbered(t)
    BY <1>6, <1>14, <1>15 DEF Consistent, Numbered
<1>18. \A m : Remembered(s, m) => Remembered(t, m)
    BY <1>6, <1>14, <1>15 DEF Remembered
<1>19. SlotsLead(t)
  <2> SUFFICES ASSUME NEW i \in Slots, t.indexToPubKey[i] # NoKey
               PROVE  \E b \in Live(t) : t.validators[b].index = i
      BY DEF SlotsLead
  <2>1. i # n /\ s.indexToPubKey[i] # NoKey
      BY <1>14, <1>15
  <2>2. PICK b \in Live(s) : s.validators[b].index = i
      BY <2>1 DEF Consistent, SlotsLead
  <2>3. b \in Addresses \ {a}
      BY <1>2, <2>1, <2>2 DEF Live
  <2> QED  BY <1>8, <1>9, <2>2, <2>3
<1>20. ASSUME NEW C, Uncontested(s, C)
       PROVE  Uncontested(t, C)
  <2> SUFFICES ASSUME NEW b \in Live(t), t.validators[b].key \notin C
               PROVE  t.blsPubKeyToValidator[t.validators[b].key] = b
      BY DEF Uncontested
  <2>1. b \in Live(s) /\ b # a /\ t.validators[b] = s.validators[b]
      BY <1>8, <1>9 DEF Live
  <2>2. s.blsPubKeyToValidator[s.validators[b].key] = b
      BY <1>20, <2>1 DEF Uncontested
  <2>3. s.validators[b].key # k
      BY <1>3, <1>20, <2>1, <2>2 DEF Uncontested
  <2>4. s.validators[b].key \in Bytes
      BY <1>4, <2>1, RegistryFields DEF Live
  <2> QED  BY <1>4, <1>6, <2>1, <2>2, <2>3, <2>4, RegistryFields
<1> QED
    BY <1>1, <1>10, <1>11, <1>12, <1>13, <1>16, <1>17, <1>18, <1>19, <1>20 DEF Consistent

-----------------------------------------------------------------------------
(* What the invariant says of the calls in progress, when the last one     *)
(* ends.                                                                   *)
LEMMA PopFrame ==
    ASSUME RegistryInv, stack # <<>>
    PROVE  /\ stack[Len(stack)].who \in Addresses
           /\ Settled(stack[Len(stack)].saved)
           /\ SubSeq(stack, 1, Len(stack) - 1) \in Seq([who : Addresses, saved : Registries])
           /\ \A i \in DOMAIN SubSeq(stack, 1, Len(stack) - 1) :
                 Settled(SubSeq(stack, 1, Len(stack) - 1)[i].saved)
<1> DEFINE Frames == [who : Addresses, saved : Registries]
<1>1. stack \in Seq(Frames)
    BY DEF RegistryInv, RegistryTypeOK
<1>2. DOMAIN stack = 1 .. Len(stack) /\ Len(stack) \in Nat
    BY <1>1, LenProperties
<1>3. Len(stack) # 0
    BY <1>1, EmptySeq
<1>4. Len(stack) \in DOMAIN stack /\ Len(stack) - 1 \in Nat
    BY <1>2, <1>3
<1>5. \A i \in DOMAIN stack : stack[i] \in Frames
    BY <1>1, <1>2, ElementOfSeq
<1>6. PICK r : r = SubSeq(stack, 1, Len(stack) - 1)
    OBVIOUS
<1>7. PICK n \in Nat : n = Len(stack) - 1
    BY <1>4
<1>8. \A i \in 1 .. n : stack[i] \in Frames /\ i \in DOMAIN stack
    BY <1>2, <1>5, <1>7
<1>9. /\ r \in Seq(Frames)
      /\ Len(r) = IF 1 <= n THEN n - 1 + 1 ELSE 0
      /\ \A i \in 1 .. n - 1 + 1 : r[i] = stack[1 + i - 1]
    BY <1>6, <1>7, <1>8, SubSeqProperties
<1>10. DOMAIN r = 1 .. n /\ \A i \in 1 .. n : r[i] = stack[i]
  <2>1. Len(r) = n
      BY <1>9
  <2> QED  BY <1>9, <2>1, LenProperties
<1>11. \A i \in DOMAIN r : Settled(r[i].saved)
    BY <1>8, <1>10 DEF RegistryInv
<1>12. stack[Len(stack)].who \in Addresses
    BY <1>4, <1>5
<1> QED  BY <1>4, <1>6, <1>9, <1>11, <1>12 DEF RegistryInv

(* A key that is registered twice takes nothing from what holds of the     *)
(* others.                                                                 *)
LEMMA MoreContested ==
    ASSUME NEW s, NEW C, NEW D, Uncontested(s, C), C \subseteq D
    PROVE  Uncontested(s, D)
BY DEF Uncontested

(* The invariant is inductive.                                             *)
LEMMA RegistryInvariant == ContractSpec => []RegistryInv
<1>1. ContractInit => RegistryInv
  <2> SUFFICES ASSUME ContractInit PROVE RegistryInv
      OBVIOUS
  <2>1. /\ reg = EmptyRegistry /\ stack = <<>> /\ seen = [i \in Slots |-> NoKey]
        /\ contested = {}
      BY DEF ContractInit
  <2>2. Settled(reg)
      BY <2>1, EmptyConsistent DEF Settled
  <2>3. seen \in [Slots -> Bytes] /\ contested \subseteq Keys
      BY <2>1 DEF Bytes
  <2>4. stack \in Seq([who : Addresses, saved : Registries]) /\ DOMAIN stack = {}
      BY <2>1
  <2> QED  BY <2>2, <2>3, <2>4 DEF RegistryInv, RegistryTypeOK, Settled, Consistent
<1>2. RegistryInv /\ [ContractNext]_contractVars => RegistryInv'
  <2> SUFFICES ASSUME RegistryInv, [ContractNext]_contractVars PROVE RegistryInv'
      OBVIOUS
  <2> USE DEF RegistryInv, RegistryTypeOK
  <2>1. ASSUME NEW a \in Addresses, NEW k \in Keys, NEW stake \in 0 .. MaxStake,
               RegisterValidator(a, k, stake)
        PROVE  RegistryInv'
    <3>1. stake \in Nat
        BY StakeAssumption
    <3>2. PICK D : D = contested \cup (IF k \in KeysHeld(reg) THEN {k} ELSE {})
        OBVIOUS
    <3>3. /\ reg' = Registered(reg, a, k, stake) /\ stack' = stack /\ seen' = seen
          /\ contested' = D
        BY <2>1, <3>2 DEF RegisterValidator
    <3>4. /\ Consistent(Registered(reg, a, k, stake))
          /\ Remembered(Registered(reg, a, k, stake), seen)
          /\ Uncontested(Registered(reg, a, k, stake), D)
        BY <2>1, <3>1, <3>2, RegisteredConsistent DEF RegisterValidator, Settled
    <3>5. contested \subseteq D /\ D \subseteq Keys
        BY <3>2
    <3>6. \A i \in DOMAIN stack : /\ Consistent(stack[i].saved)
                                  /\ Remembered(stack[i].saved, seen)
                                  /\ Uncontested(stack[i].saved, D)
        BY <3>5, MoreContested DEF Settled
    <3> QED  BY <3>3, <3>4, <3>5, <3>6 DEF Settled, Consistent
  <2>2. ASSUME NEW a \in Addresses, NEW amount \in 0 .. MaxStake, DepositStake(a, amount)
        PROVE  RegistryInv'
    <3>1. amount \in Nat
        BY StakeAssumption
    <3>2. Settled(Deposited(reg, a, amount))
        BY <3>1, DepositedConsistent DEF Settled
    <3>3. /\ reg' = Deposited(reg, a, amount) /\ stack' = stack /\ seen' = seen
          /\ contested' = contested
        BY <2>2 DEF DepositStake
    <3> QED  BY <3>2, <3>3 DEF Settled, Consistent
  <2>3. ASSUME NEW a \in Addresses, WithdrawAllStake(a)
        PROVE  RegistryInv'
    <3>1. Settled(Paid(reg, a))
        BY PaidConsistent DEF Settled
    <3>2. /\ reg' = Paid(reg, a) /\ seen' = seen /\ contested' = contested
          /\ stack' = Append(stack, [who |-> a, saved |-> reg])
        BY <2>3 DEF WithdrawAllStake
    <3>3. [who |-> a, saved |-> reg] \in [who : Addresses, saved : Registries]
        OBVIOUS
    <3>4. /\ stack' \in Seq([who : Addresses, saved : Registries])
          /\ DOMAIN stack' = 1 .. Len(stack) + 1
          /\ DOMAIN stack = 1 .. Len(stack) /\ Len(stack) \in Nat
          /\ \A i \in 1 .. Len(stack) : stack'[i] = stack[i]
          /\ stack'[Len(stack) + 1] = [who |-> a, saved |-> reg]
        BY <3>2, <3>3, AppendProperties, LenProperties
    <3>5. \A i \in DOMAIN stack' : i \in DOMAIN stack \/ i = Len(stack) + 1
        BY <3>4
    <3>6. \A i \in DOMAIN stack' : Settled(stack'[i].saved)
        BY <3>4, <3>5
    <3> QED  BY <3>1, <3>2, <3>4, <3>6 DEF Settled, Consistent
  <2>4. CASE PaymentReturns
    <3>1. /\ stack # <<>> /\ seen' = seen /\ contested' = contested
          /\ stack' = SubSeq(stack, 1, Len(stack) - 1)
        BY <2>4 DEF PaymentReturns
    <3>2. PICK s : s = reg'
        OBVIOUS
    <3>3. Settled(s)
      <4>1. PICK a : a = stack[Len(stack)].who
          OBVIOUS
      <4>2. CASE a \in Live(reg)
        <5>1. s = Removed(reg, a)
            BY <2>4, <3>2, <4>1, <4>2 DEF PaymentReturns
        <5> QED  BY <4>2, <5>1, RemovedConsistent DEF Settled
      <4>3. CASE a \notin Live(reg)
        <5>1. s = stack[Len(stack)].saved
            BY <2>4, <3>2, <4>1, <4>3 DEF PaymentReturns
        <5> QED  BY <3>1, <5>1, PopFrame
      <4> QED  BY <4>2, <4>3
    <3> QED  BY <3>1, <3>2, <3>3, PopFrame DEF Settled, Consistent
  <2>5. CASE PaymentFails
    <3>1. /\ stack # <<>> /\ seen' = seen /\ stack' = SubSeq(stack, 1, Len(stack) - 1)
          /\ contested' = contested /\ reg' = stack[Len(stack)].saved
        BY <2>5 DEF PaymentFails
    <3> QED  BY <3>1, PopFrame DEF Settled, Consistent
  <2>6. ASSUME NEW i \in Slots, GetPubKeyByIndex(i)
        PROVE  RegistryInv'
    <3>1. /\ stack = <<>> /\ reg' = reg /\ stack' = stack /\ contested' = contested
          /\ reg.indexToPubKey[i] # NoKey
          /\ seen' = [seen EXCEPT ![i] = reg.indexToPubKey[i]]
        BY <2>6 DEF GetPubKeyByIndex
    <3>2. i < reg.validatorCount /\ reg.indexToPubKey[i] \in Bytes
        BY <3>1, RegistryFields DEF Settled, Consistent, Numbered
    <3>3. seen' \in [Slots -> Bytes]
        BY <3>1, <3>2
    <3>4. Remembered(reg, seen')
      <4>1. \A j \in Slots : seen'[j] = IF j = i THEN reg.indexToPubKey[i] ELSE seen[j]
          BY <3>1
      <4> QED  BY <3>2, <4>1 DEF Settled, Remembered
    <3>5. DOMAIN stack' = {}
        BY <3>1
    <3> QED  BY <3>1, <3>3, <3>4, <3>5 DEF Settled
  <2>7. CASE UNCHANGED contractVars
      BY <2>7 DEF contractVars, Settled
  <2> QED  BY <2>1, <2>2, <2>3, <2>4, <2>5, <2>6, <2>7 DEF ContractNext
<1> QED  BY <1>1, <1>2, PTL DEF ContractSpec

-----------------------------------------------------------------------------
(* The state of the contract has its types; so the balance never runs      *)
(* below zero, and every index that is given out is a slot.                *)
THEOREM RegistryTypes == ContractSpec => []RegistryTypeOK
<1>1. RegistryInv => RegistryTypeOK
    BY DEF RegistryInv
<1> QED  BY <1>1, RegistryInvariant, PTL

(* The contract can pay every withdrawal, whatever the addresses it pays   *)
(* call and revert, for any accounts and stakes.                           *)
THEOREM RegistryStaysSolvent == ContractSpec => []Solvent
<1>1. RegistryInv => Solvent
    BY DEF RegistryInv, Settled, Consistent, SolventIn, Stakes, Solvent
<1> QED  BY <1>1, RegistryInvariant, PTL

(* The list of addresses that getAllValidatorSockets walks names each      *)
(* registered validator exactly once.                                      *)
THEOREM AddressListExact == ContractSpec => []AddressesExact
<1>1. RegistryInv => AddressesExact
  <2> SUFFICES ASSUME RegistryInv PROVE AddressesExact
      OBVIOUS
  <2>1. /\ Range(reg.validatorAddresses) = Live(reg)
        /\ Distinct(reg.validatorAddresses)
      BY DEF RegistryInv, Settled, Consistent, Listed
  <2>2. reg.validatorAddresses \in Seq(Addresses)
      BY RegistryFields DEF RegistryInv, RegistryTypeOK
  <2>3. Len(reg.validatorAddresses) = Cardinality(Range(reg.validatorAddresses))
      BY <2>1, <2>2, DistinctLength
  <2> QED  BY <2>1, <2>3 DEF AddressesExact
<1> QED  BY <1>1, RegistryInvariant, PTL

(* validators, indexToPubKey and blsPubKeyToValidator agree.  A key and an *)
(* index lead only to what was registered with them, and, unless the key   *)
(* was registered while another validator had it, from each validator the  *)
(* way over its index and its key leads back to it, and from each index to *)
(* the validator it was given to: through any nesting of payments,         *)
(* removals and reverts.                                                   *)
THEOREM LookupsAgree == ContractSpec => []LookupSound
<1>1. RegistryInv => LookupSound
  <2> SUFFICES ASSUME RegistryInv PROVE LookupSound
      OBVIOUS
  <2>1. /\ reg \in Registries
        /\ KeysLead(reg) /\ IndexesLead(reg) /\ SlotsLead(reg)
        /\ Uncontested(reg, contested)
      BY DEF RegistryInv, Settled, Consistent
  <2>2. \A k \in Bytes :
           reg.blsPubKeyToValidator[k] # NoAddress =>
               /\ reg.blsPubKeyToValidator[k] \in Live(reg)
               /\ reg.validators[reg.blsPubKeyToValidator[k]].key = k
      BY <2>1 DEF KeysLead
  <2>3. \A a \in Live(reg) :
           /\ reg.validators[a].index < reg.validatorCount
           /\ reg.indexToPubKey[reg.validators[a].index] = reg.validators[a].key
           /\ \A b \in Live(reg) :
                 reg.validators[b].index = reg.validators[a].index => b = a
      BY <2>1 DEF IndexesLead
  <2>4. \A a \in Live(reg) : reg.validators[a].key \notin contested =>
                               GetValidatorByIndex(reg, reg.validators[a].index) = a
      BY <2>1, <2>3 DEF Uncontested, GetValidatorByIndex
  <2>5. ASSUME NEW i \in Slots, reg.indexToPubKey[i] \notin contested \cup {NoKey}
        PROVE  /\ GetValidatorByIndex(reg, i) # NoAddress
               /\ reg.validators[GetValidatorByIndex(reg, i)].index = i
    <3>1. PICK a \in Live(reg) : reg.validators[a].index = i
        BY <2>1, <2>5 DEF SlotsLead
    <3>2. GetValidatorByIndex(reg, i) = a
        BY <2>3, <2>4, <2>5, <3>1
    <3>3. a # NoAddress
        BY AddressAssumption DEF Live
    <3> QED  BY <3>1, <3>2, <3>3
  <2> QED  BY <2>2, <2>3, <2>4, <2>5 DEF LookupSound
<1> QED  BY <1>1, RegistryInvariant, PTL

(* An index that getPubKeyByIndex once answered never leads to another     *)
(* key, across removals, registrations and reverts.                        *)
THEOREM IndexesNeverReassigned == ContractSpec => []IndexNeverReassigned
<1>1. RegistryInv => IndexNeverReassigned
    BY DEF RegistryInv, Settled, Remembered, IndexNeverReassigned
<1> QED  BY <1>1, RegistryInvariant, PTL
=============================================================================
