------------------------------ MODULE Protocol ------------------------------
(***************************************************************************)
(* What clients and validators exchange, and what a client makes of it:    *)
(* digests, signatures, records and absences (src/common.rs,               *)
(* src/primitives/), the checks an answer must pass, and the tallies that  *)
(* become a certificate (src/client/client.rs).  Operators only; Dato,     *)
(* LogRead and Subscription build their state machines from them.          *)
(***************************************************************************)
EXTENDS QuorumCert, InMemoryStore

CONSTANTS
    N,           \* number of validators the client is connected to
    Faulty,      \* indexes of validators that may answer anything
    Namespaces,  \* sequences of bytes
    Messages,    \* sequences of bytes
    Cap,         \* records kept per namespace (4096 in the code)
    Skew,        \* bound on the error of a validator's clock
    MaxTime,     \* bound: the last instant of a behaviour
    MaxRestarts  \* bound: how often validators restart

Validators == Indexes(N)

ASSUME NAssumption == N \in Nat
ASSUME FaultyAssumption == Faulty \subseteq Validators
ASSUME CapAssumption == Cap \in Nat \ {0}
ASSUME BytesAssumption == /\ Namespaces \subseteq Seq(Nat)
                          /\ Messages \subseteq Seq(Nat)
ASSUME ClockAssumption == Skew \in Nat /\ MaxTime \in Nat
ASSUME RestartAssumption == MaxRestarts \in Nat

-----------------------------------------------------------------------------
(* Data.  A digest is the bytes it hashes, as in InMemoryStore; a          *)
(* timestamp is one element of them.                                       *)

(* Message::record_digest and Record::digest                               *)
RecordDigest(ns, ts, m) == [bytes |-> ns \o <<ts>> \o m]

(* UnavailableMessage::digest                                              *)
UnavailableDigest(id, ts) == [msg_id |-> id, timestamp |-> ts]

(* sign_with_prefix with the secret key of validator v                     *)
Sign(v, digest) == [key |-> v, digest |-> digest]

(* Mutant: what was signed is not looked at.                               *)
VerifyKeyOnly(signature, v, digest) == signature.key = v

(* verify_signature against the public key of validator v                  *)
Verify(signature, v, digest) == signature = Sign(v, digest)

(* What a validator makes of a message, and of the id of a message it does *)
(* not have, when its clock shows ts.                                      *)
Stamped(v, ns, ts, m) ==
    [message |-> m, timestamp |-> ts, signature |-> Sign(v, RecordDigest(ns, ts, m))]
StampedAbsence(v, id, ts) ==
    [msg_id |-> id, timestamp |-> ts, signature |-> Sign(v, UnavailableDigest(id, ts))]

MsgIds == {MsgId(ns, m) : ns \in Namespaces, m \in Messages}
Times == 0 .. MaxTime + Skew

(* What Timestamp::now() may return on a validator at the instant t.       *)
ClockAt(t) == {ts \in Times : t - Skew <= ts /\ ts <= t + Skew}

Digests == [bytes : Seq(Nat)] \cup [msg_id : Seq(Nat), timestamp : Nat]
Signatures == [key : Validators, digest : Digests]
Records == [message : Messages, timestamp : Nat, signature : Signatures]
Unavailables == [msg_id : MsgIds, timestamp : Nat, signature : Signatures]
Entries == [id : MsgIds, record : Records]

(* Arguments of a call.                                                    *)
Idle == [type |-> "idle"]
Calls == [type : {"write"}, ns : Namespaces, message : Messages]
         \cup [type : {"read"}, ns : Namespaces, id : MsgIds]
CallId(c) == IF c.type = "write" THEN MsgId(c.ns, c.message) ELSE c.id

(* What a future holds: Garbage is an answer that does not deserialize.    *)
NoReply == [type |-> "none"]
Garbage == [type |-> "garbage"]
RecordReply(r) == [type |-> "record", record |-> r]
UnavailableReply(u) == [type |-> "unavailable", unavailable |-> u]
Replies == {NoReply, Garbage} \cup [type : {"record"}, record : Records]
           \cup [type : {"unavailable"}, unavailable : Unavailables]

(* The votes, timestamps and aggregate signature a call accumulates.       *)
EmptyTally == [votes |-> 0, timestamps |-> [v \in Validators |-> 0], sigs |-> {}]
Tallies == [votes : Nat, timestamps : [Validators -> Nat],
            sigs : SUBSET Signatures]
Voters(tally) == {s.key : s \in tally.sigs}

(* The initial value of a read's message: Message::default().              *)
NoMessage == <<>>

NoResult == [type |-> "none"]
NoQuorum == [type |-> "noQuorum"]
Panic == [type |-> "panic"]
Results ==
    {NoResult, NoQuorum, Panic}
    \cup [type : {"available"}, timestamps : [Validators -> Nat],
          message : Messages \cup {NoMessage}, sigs : SUBSET Signatures]
    \cup [type : {"unavailable"}, timestamps : [Validators -> Nat],
          msg_id : MsgIds, sigs : SUBSET Signatures]

-----------------------------------------------------------------------------
(* Answers of validators.  Forged is a signature that verifies over no     *)
(* record and no absence.                                                  *)
Forged(v) == Sign(v, [bytes |-> <<>>])

(* A faulty validator answers with anything it can sign, or with a         *)
(* signature that does not verify (whatever its time then is), or with     *)
(* bytes that do not parse.                                                *)
FaultyReplies(v, c) ==
    {Garbage}
    \cup {RecordReply([message |-> m, timestamp |-> 0, signature |-> Forged(v)]) :
            m \in Messages}
    \cup {RecordReply(Stamped(v, c.ns, ts, m)) :
            m \in Messages, ts \in Times}
    \cup {UnavailableReply([msg_id |-> id, timestamp |-> 0, signature |-> Forged(v)]) :
            id \in MsgIds}
    \cup {UnavailableReply(StampedAbsence(v, id, ts)) :
            id \in MsgIds, ts \in Times}

-----------------------------------------------------------------------------
(* Validator::read_message at the instant t: the stored record, or a       *)
(* freshly stamped and signed absence.                                     *)
MessageReplies(v, entries, id, t) ==
    IF id \in KeysOf(entries)
    THEN {RecordReply(RecordOf(entries, id))}
    ELSE {UnavailableReply(StampedAbsence(v, id, ts)) : ts \in ClockAt(t)}

(* A record counts for a write if it carries the message that was written, *)
(* for a read if its message has the requested digest.                     *)
Matches(c, record) ==
    IF c.type = "write" THEN record.message = c.message
                        ELSE MsgId(c.ns, record.message) = c.id

CountsAvailable(c, v, reply) ==
    /\ reply.type = "record"
    /\ Matches(c, reply.record)
    /\ Verify(reply.record.signature, v,
              RecordDigest(c.ns, reply.record.timestamp, reply.record.message))

(* The signature is checked over the answer's own msg_id.  A write cannot  *)
(* deserialize an absence.                                                 *)
CountsUnavailable(c, v, reply) ==
    /\ c.type = "read"
    /\ reply.type = "unavailable"
    /\ Verify(reply.unavailable.signature, v,
              UnavailableDigest(reply.unavailable.msg_id, reply.unavailable.timestamp))

(* Mutant: the vote's timestamp is not entered.                            *)
AddVoteNoTime(tally, v, ts, sig) ==
    [tally EXCEPT !.votes = @ + 1, !.sigs = @ \cup {sig}]

(* One more vote: its timestamp at the validator's index, its signature    *)
(* added to the aggregate.                                                 *)
AddVote(tally, v, ts, sig) ==
    [votes |-> tally.votes + 1,
     timestamps |-> [tally.timestamps EXCEPT ![v] = ts],
     sigs |-> tally.sigs \cup {sig}]

(* What the answer of validator v does to the tally of records, to that of *)
(* absences and to the message a call has taken.  An answer that fails a   *)
(* check leaves the tallies alone; a read takes the message of a matching  *)
(* record before it looks at the signature.                                *)
TallyRecord(c, v, reply, tally) ==
    IF CountsAvailable(c, v, reply)
    THEN AddVote(tally, v, reply.record.timestamp, reply.record.signature)
    ELSE tally
TallyAbsence(c, v, reply, tally) ==
    IF CountsUnavailable(c, v, reply)
    THEN AddVote(tally, v, reply.unavailable.timestamp, reply.unavailable.signature)
    ELSE tally
TakenMessage(c, reply, msg) ==
    IF reply.type = "record" /\ Matches(c, reply.record)
    THEN reply.record.message
    ELSE msg

(* Mutant: the certificate of unavailability names the taken message.      *)
ConcludedNoId(c, a, u, msg) ==
    IF HasReachedQuorum(N, a.votes)
    THEN [type |-> "available", timestamps |-> Sorted(N, a.timestamps),
          message |-> msg, sigs |-> a.sigs]
    ELSE IF c.type = "read" /\ HasReachedQuorum(N, u.votes)
    THEN [type |-> "unavailable", timestamps |-> Sorted(N, u.timestamps),
          msg_id |-> msg, sigs |-> u.sigs]
    ELSE NoQuorum

(* Mutant: votes of both kinds make the quorum.                            *)
ConcludedSumsVotes(c, a, u, msg) ==
    IF HasReachedQuorum(N, a.votes + u.votes) /\ a.sigs # {}
    THEN [type |-> "available", timestamps |-> Sorted(N, a.timestamps),
          message |-> msg, sigs |-> a.sigs]
    ELSE NoQuorum

(* Mutant: the check after the loop asks for one vote more than its break. *)
ConcludedOneMore(c, a, u, msg) ==
    IF HasReachedQuorum(N, a.votes - 1) /\ a.sigs # {}
    THEN [type |-> "available", timestamps |-> Sorted(N, a.timestamps),
          message |-> msg, sigs |-> a.sigs]
    ELSE NoQuorum

(* What the call returns once its loop has ended with the tallies a and u. *)
(* certified_timestamp() sorts the timestamps of the certificate in place. *)
Concluded(c, a, u, msg) ==
    IF HasReachedQuorum(N, a.votes)
    THEN IF a.sigs = {}
         THEN Panic
         ELSE [type |-> "available", timestamps |-> Sorted(N, a.timestamps),
               message |-> msg, sigs |-> a.sigs]
    ELSE IF c.type = "read" /\ HasReachedQuorum(N, u.votes)
    THEN [type |-> "unavailable", timestamps |-> Sorted(N, u.timestamps),
          msg_id |-> c.id, sigs |-> u.sigs]
    ELSE NoQuorum

(* The loop's break: a quorum of either kind, or every validator counted.  *)
LoopBreaks(a, u) ==
    \/ HasReachedQuorum(N, a.votes)
    \/ HasReachedQuorum(N, u.votes)
    \/ a.votes + u.votes >= N
=============================================================================
