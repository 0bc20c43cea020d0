--------------------------- MODULE InMemoryStore ---------------------------
(***************************************************************************)
(* The validator's data store (src/validator/store.rs).  A namespace holds *)
(* a FIFO map of records keyed by message digest, here the sequence of its *)
(* entries, oldest first.  A namespace never written to is the empty       *)
(* sequence: the code's missing map and an empty map answer alike.         *)
(*                                                                         *)
(* FIFOMap is a crate outside the repository.  The store relies on it for  *)
(* one thing only, "evict old records when the capacity is reached": a new *)
(* key that finds the map full removes the oldest entry.  What inserting   *)
(* an existing key does to its place in the queue is left open: it keeps   *)
(* its place or becomes the newest entry.                                  *)
(***************************************************************************)
EXTENDS Integers, Sequences, FiniteSets

(* Message::digest and Record::message_digest: keccak256 is collision      *)
(* free, so a digest is the bytes it hashes.                               *)
MsgId(ns, m) == ns \o m

KeysOf(entries) == {entries[i].id : i \in DOMAIN entries}

(* Where the entry keyed id is.                                            *)
Place(entries, id) == CHOOSE i \in DOMAIN entries : entries[i].id = id

(* read_message: the record stored under the digest.                       *)
RecordOf(entries, id) == entries[Place(entries, id)].record

(* The entries without the one keyed id.                                   *)
Without(entries, id) ==
    [i \in 1 .. Len(entries) - 1 |->
        entries[IF i < Place(entries, id) THEN i ELSE i + 1]]

(* The entries left after making room for a new key.                       *)
EvictFor(entries, cap) == IF Len(entries) < cap THEN entries ELSE Tail(entries)

(* FIFOMap::insert: the possible maps after inserting record under id.     *)
Insert(entries, cap, id, record) ==
    LET entry == [id |-> id, record |-> record]
    IN  IF id \in KeysOf(entries)
        THEN {[i \in DOMAIN entries |->
                  IF entries[i].id = id THEN entry ELSE entries[i]],
              Append(Without(entries, id), entry)}
        ELSE {Append(EvictFor(entries, cap), entry)}

(* Mutant: the record's digest, with its timestamp, is the key.            *)
WriteOneByRecord(entries, cap, ns, record) ==
    Insert(entries, cap, ns \o <<record.timestamp>> \o record.message, record)

(* Mutant: the namespace's map is created anew for every record.           *)
WriteOneFresh(entries, cap, ns, record) ==
    Insert(<<>>, cap, MsgId(ns, record.message), record)

(* write_one: the possible maps of namespace ns after writing record,      *)
(* which is filed under the digest of its message.                         *)
WriteOne(entries, cap, ns, record) ==
    Insert(entries, cap, MsgId(ns, record.message), record)
=============================================================================
