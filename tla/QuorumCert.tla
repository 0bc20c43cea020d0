----------------------------- MODULE QuorumCert -----------------------------
(***************************************************************************)
(* The arithmetic behind every certificate: when a number of votes is a    *)
(* quorum (has_reached_quorum, src/client/client.rs) and which time the    *)
(* timestamps of a certificate stand for (certified_timestamp,             *)
(* src/common.rs).  Pure operators; n is the number of validators and a    *)
(* timestamp array is a function on the indexes 0 .. n-1, zero where the   *)
(* validator has not voted.                                                *)
(***************************************************************************)
EXTENDS Integers, FiniteSets

Indexes(n) == 0 .. n - 1

(* Mutant: the factor two is lost.                                         *)
HasReachedQuorumThird(total, votes) == votes >= total \div 3

(* has_reached_quorum: usize arithmetic, the product before the division.  *)
HasReachedQuorum(total, votes) ==
    IF total < 3 THEN votes = total ELSE votes >= (2 * total) \div 3

(* The indexes whose timestamp is at most t.                               *)
AtMost(n, ts, t) == {j \in Indexes(n) : ts[j] <= t}

(* Element i of the sorted array: the least timestamp t of the array with  *)
(* more than i elements at or below it.                                    *)
OrderStatistic(n, ts, i) ==
    LET Reaching == {t \in {ts[j] : j \in Indexes(n)} :
                        Cardinality(AtMost(n, ts, t)) > i}
    IN  CHOOSE t \in Reaching : \A u \in Reaching : t <= u

(* timestamps.sort(), as certified_timestamp leaves the array.             *)
Sorted(n, ts) == [i \in Indexes(n) |-> OrderStatistic(n, ts, i)]

(* Mutant: the array is not sorted first.                                  *)
CertifiedTimestampUnsorted(n, ts) ==
    LET mid == n \div 2
    IN  IF n % 2 = 0 THEN (ts[mid - 1] + ts[mid]) \div 2 ELSE ts[mid]

(* certified_timestamp, for n > 0 (the code panics on an empty array).     *)
CertifiedTimestamp(n, ts) ==
    LET mid == n \div 2
    IN  IF n % 2 = 0
        THEN (Sorted(n, ts)[mid - 1] + Sorted(n, ts)[mid]) \div 2
        ELSE Sorted(n, ts)[mid]
=============================================================================
