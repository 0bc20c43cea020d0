------------------------------ MODULE LogRead ------------------------------
(***************************************************************************)
(* Reading a time range: Client::read and Client::read_certified           *)
(* (src/client/client.rs), while validators are written to, evict records  *)
(* and restart.                                                            *)
(*                                                                         *)
(* read asks every validator for its records in the range, verifies each   *)
(* log in a task of its own and joins the verified logs, sorted by time.   *)
(* read_certified then calls read_message for the records of that log, one *)
(* after the other.                                                        *)
(*                                                                         *)
(* A validator handles a request and the client takes the answer in one    *)
(* step here; in Dato these are two.  What a call makes of its answers     *)
(* depends on which of them it takes before its loop ends and not on their *)
(* order, and an answer that is never taken is a future that failed, so    *)
(* the results are the same.  Clocks of validators show any time: a record *)
(* is in the range or not, and no property tells when it was made.         *)
(***************************************************************************)
EXTENDS Protocol

CONSTANTS
    Spans,       \* <<start, end>>: the ranges clients ask for
    MaxWrites,   \* bound: how many writes validators handle
    MaxFaultyLog \* bound: the longest log of a faulty validator

ASSUME SpansAssumption == Spans \subseteq Times \X Times
ASSUME MaxWritesAssumption == MaxWrites \in Nat
ASSUME MaxFaultyLogAssumption == MaxFaultyLog \in Nat

VARIABLES
    store,        \* store[v][ns]: entries of validator v in namespace ns
    restarts,     \* restarts so far
    writes,       \* writes handled so far
    range,        \* arguments of the call
    phase,        \* which loop of read, read_certified or read_message runs
    pending,      \* validators whose answer that loop has yet to take
    tasks,        \* tasks[v]: the log that a verify task not yet joined has
    log,          \* final_log
    cursor,       \* how many records of the log read_certified is done with
    available,    \* read_message: tally of records
    unavailable,  \* read_message: tally of signed absences
    message,      \* read_message: the message taken from an answer
    certified,    \* the certified log
    kept,         \* history: <<v, record>> that a correct validator has held,
                  \* in the range, since the call began
    missed        \* history: an answer was lost or a log rejected

validators == <<store, restarts, writes>>
reading == <<available, unavailable, message>>
vars == <<store, restarts, writes, range, phase, pending, tasks, log, cursor,
          available, unavailable, message, certified, kept, missed>>

Phases == {"idle", "reading", "joining", "certifying", "asking", "done"}
Ranges == [kind : {"read", "read_certified"}, ns : Namespaces,
           start : Times, end : Times]

(* What a future of read holds.                                            *)
LogReply(records) == [type |-> "log", records |-> records]

-----------------------------------------------------------------------------
InRange(r, start, end) == start <= r.timestamp /\ r.timestamp <= end

(* InMemoryStore::read_range: the records of a namespace in the range, in  *)
(* the order of its entries.                                               *)
RangeOf(entries, start, end) ==
    LET hits == {i \in DOMAIN entries : InRange(entries[i].record, start, end)}
        Nth(p) == CHOOSE i \in hits : Cardinality({j \in hits : j <= i}) = p
    IN  [p \in 1 .. Cardinality(hits) |-> entries[Nth(p)].record]

(* Where record i of a log goes in a stable sort by timestamp.             *)
Rank(records, i) ==
    Cardinality({j \in DOMAIN records :
                    \/ records[j].timestamp < records[i].timestamp
                    \/ records[j].timestamp = records[i].timestamp /\ j <= i})

(* Mutant: the joined log is returned as it is.                            *)
SortByTimestampNot(records) == records

(* records.sort_by_key(|r| r.timestamp)                                    *)
SortByTimestamp(records) ==
    [p \in DOMAIN records |->
        records[CHOOSE i \in DOMAIN records : Rank(records, i) = p]]

(* What a verify task returns Some for: every record is signed by v.       *)
LogVerifies(v, ns, records) ==
    \A i \in DOMAIN records :
        Verify(records[i].signature, v,
               RecordDigest(ns, records[i].timestamp, records[i].message))

(* A faulty validator answers with records of its own making, in the range *)
(* or not, in any order and as often as it likes, with ones it cannot      *)
(* sign, or with bytes that do not parse.                                  *)
FaultyRecords(v, ns) ==
    {[message |-> m, timestamp |-> 0, signature |-> Forged(v)] : m \in Messages}
    \cup {Stamped(v, ns, ts, m) : m \in Messages, ts \in Times}
FaultyLogs(v, ns) ==
    {Garbage} \cup {LogReply(records) :
        records \in UNION {[1 .. n -> FaultyRecords(v, ns)] : n \in 0 .. MaxFaultyLog}}

RecordsIn(entries) == {entries[i].record : i \in DOMAIN entries}

(* The records that correct validators have held until newStore.           *)
StillKept(newStore) ==
    {p \in kept : p[2] \in RecordsIn(newStore[p[1]][range.ns])}

-----------------------------------------------------------------------------
Init ==
    /\ store = [v \in Validators |-> [ns \in Namespaces |-> <<>>]]
    /\ restarts = 0
    /\ writes = 0
    /\ range = Idle
    /\ phase = "idle"
    /\ pending = {}
    /\ tasks = [v \in Validators |-> NoReply]
    /\ log = <<>>
    /\ cursor = 0
    /\ available = EmptyTally
    /\ unavailable = EmptyTally
    /\ message = NoMessage
    /\ certified = <<>>
    /\ kept = {}
    /\ missed = FALSE

(* What happens around a call, until it returns.                           *)
Around ==
    /\ phase # "done"
    /\ UNCHANGED <<range, phase, pending, tasks, log, cursor, reading, certified,
                   missed>>

(* Validator::write, for a request of any client.  (What a faulty          *)
(* validator stores does not matter: its answers are not bound by it.)     *)
HandleWrite(v, ns, m) ==
    /\ v \notin Faulty
    /\ writes < MaxWrites
    /\ writes' = writes + 1
    /\ \E ts \in Times :
          \E entries \in WriteOne(store[v][ns], Cap, ns, Stamped(v, ns, ts, m)) :
             store' = [store EXCEPT ![v][ns] = entries]
    /\ kept' = StillKept(store')
    /\ UNCHANGED restarts
    /\ Around

(* A validator process restarts: its store is gone.  (With an empty store  *)
(* it restarts unnoticed.)                                                 *)
Restart(v) ==
    /\ v \notin Faulty
    /\ \E ns \in Namespaces : store[v][ns] # <<>>
    /\ restarts < MaxRestarts
    /\ restarts' = restarts + 1
    /\ store' = [store EXCEPT ![v] = [ns \in Namespaces |-> <<>>]]
    /\ kept' = StillKept(store')
    /\ UNCHANGED writes
    /\ Around

-----------------------------------------------------------------------------
(* Client::read, called by itself or by Client::read_certified: a request, *)
(* and a future, per validator.                                            *)
Read(kind, ns, start, end) ==
    /\ phase = "idle"
    /\ phase' = "reading"
    /\ range' = [kind |-> kind, ns |-> ns, start |-> start, end |-> end]
    /\ pending' = Validators
    /\ kept' = UNION {{v} \X {r \in RecordsIn(store[v][ns]) : InRange(r, start, end)} :
                         v \in Validators \ Faulty}
    /\ UNCHANGED <<validators, tasks, log, cursor, reading, certified, missed>>

(* One iteration of the response loop, on the answer of validator v: a log *)
(* that parses gets a task, bytes that do not are passed over.             *)
TakeLog(v, reply) ==
    /\ pending' = pending \ {v}
    /\ tasks' = IF reply = Garbage THEN tasks ELSE [tasks EXCEPT ![v] = reply]
    /\ UNCHANGED <<validators, range, phase, log, cursor, reading, certified,
                   kept, missed>>

(* Validator::read_range, called for Request::ReadRange.                   *)
HandleReadRange(v) ==
    /\ phase = "reading"
    /\ v \in pending \ Faulty
    /\ TakeLog(v, LogReply(RangeOf(store[v][range.ns], range.start, range.end)))

FaultyLog(v) ==
    /\ phase = "reading"
    /\ v \in pending \cap Faulty
    /\ \E reply \in FaultyLogs(v, range.ns) : TakeLog(v, reply)

(* Mutant: a failed future is noticed once the others have answered.       *)
GiveUpLogLast(v) ==
    /\ phase = "reading"
    /\ pending = {v}
    /\ phase' = "joining"
    /\ missed' = TRUE
    /\ UNCHANGED <<validators, range, pending, tasks, log, cursor, reading,
                   certified, kept>>

(* The future of v yields None, after an error or the timeout, and the     *)
(* response loop ends, whatever other answers wait.                        *)
GiveUpLog(v) ==
    /\ phase = "reading"
    /\ v \in pending
    /\ phase' = "joining"
    /\ missed' = TRUE
    /\ UNCHANGED <<validators, range, pending, tasks, log, cursor, reading,
                   certified, kept>>

(* No future is left.                                                      *)
LogsRunOut ==
    /\ phase = "reading"
    /\ pending = {}
    /\ phase' = "joining"
    /\ UNCHANGED <<validators, range, pending, tasks, log, cursor, reading,
                   certified, kept, missed>>

(* Mutant: a log takes the place of the ones joined before.                *)
JoinNextReplaces(v) ==
    /\ phase = "joining"
    /\ tasks[v] # NoReply
    /\ LogVerifies(v, range.ns, tasks[v].records)
    /\ log' = tasks[v].records
    /\ tasks' = [tasks EXCEPT ![v] = NoReply]
    /\ UNCHANGED <<validators, range, phase, pending, cursor, reading, certified,
                   kept, missed>>

(* One iteration of the join loop, on a log that its task accepted; tasks  *)
(* finish in any order.                                                    *)
JoinNext(v) ==
    /\ phase = "joining"
    /\ tasks[v] # NoReply
    /\ LogVerifies(v, range.ns, tasks[v].records)
    /\ log' = log \o tasks[v].records
    /\ tasks' = [tasks EXCEPT ![v] = NoReply]
    /\ UNCHANGED <<validators, range, phase, pending, cursor, reading, certified,
                   kept, missed>>

(* The end of read: tasks that were not joined are dropped, the log is     *)
(* sorted, and returned or handed to read_certified.                       *)
FinishRead ==
    /\ log' = SortByTimestamp(log)
    /\ tasks' = [v \in Validators |-> NoReply]
    /\ phase' = IF range.kind = "read" THEN "done" ELSE "certifying"
    /\ UNCHANGED <<validators, range, pending, cursor, reading, certified, kept>>

(* A task that met a signature it cannot verify returns None, which ends   *)
(* the join loop: "while let Some(Ok(Some(log)))".                         *)
JoinRejects(v) ==
    /\ phase = "joining"
    /\ tasks[v] # NoReply
    /\ ~LogVerifies(v, range.ns, tasks[v].records)
    /\ missed' = TRUE
    /\ FinishRead

JoinEnds ==
    /\ phase = "joining"
    /\ \A v \in Validators : tasks[v] = NoReply
    /\ FinishRead
    /\ UNCHANGED missed

-----------------------------------------------------------------------------
(* The read_message call of read_certified for its next record.            *)
MessageCall ==
    [type |-> "read", ns |-> range.ns,
     id |-> MsgId(range.ns, log[cursor + 1].message)]

Certify ==
    /\ phase = "certifying"
    /\ cursor < Len(log)
    /\ phase' = "asking"
    /\ pending' = Validators
    /\ UNCHANGED <<validators, range, tasks, log, cursor, reading, certified, kept,
                   missed>>

(* Mutant: the votes for one record are counted for the next as well.      *)
PushCertifiedKeepsVotes(a, u, msg) ==
    /\ LET r == Concluded(MessageCall, a, u, msg)
       IN  certified' = IF r.type = "available" THEN Append(certified, r) ELSE certified
    /\ cursor' = cursor + 1
    /\ phase' = "certifying"
    /\ available' = a
    /\ unavailable' = u
    /\ message' = NoMessage

(* Mutant: a record without certificate ends the loop.                     *)
PushCertifiedStops(a, u, msg) ==
    /\ LET r == Concluded(MessageCall, a, u, msg)
       IN  /\ certified' = IF r.type = "available" THEN Append(certified, r)
                                                   ELSE certified
           /\ phase' = IF r.type = "available" THEN "certifying" ELSE "done"
    /\ cursor' = cursor + 1
    /\ available' = EmptyTally
    /\ unavailable' = EmptyTally
    /\ message' = NoMessage

(* read_message returns: a certificate of availability is appended, an     *)
(* unavailable message or a NoQuorum error is passed over.                 *)
PushCertified(a, u, msg) ==
    /\ LET r == Concluded(MessageCall, a, u, msg)
       IN  certified' = IF r.type = "available" THEN Append(certified, r) ELSE certified
    /\ cursor' = cursor + 1
    /\ phase' = "certifying"
    /\ available' = EmptyTally
    /\ unavailable' = EmptyTally
    /\ message' = NoMessage

(* One iteration of the loop of read_message, on the answer of v.          *)
TakeReply(v, reply) ==
    /\ LET a == TallyRecord(MessageCall, v, reply, available)
           u == TallyAbsence(MessageCall, v, reply, unavailable)
           msg == TakenMessage(MessageCall, reply, message)
           counted == \/ CountsAvailable(MessageCall, v, reply)
                      \/ CountsUnavailable(MessageCall, v, reply)
       IN  IF counted /\ LoopBreaks(a, u)
           THEN PushCertified(a, u, msg)
           ELSE /\ available' = a
                /\ unavailable' = u
                /\ message' = msg
                /\ UNCHANGED <<certified, cursor, phase>>
    /\ pending' = pending \ {v}
    /\ UNCHANGED <<validators, range, tasks, log, kept, missed>>

(* Validator::read_message, called for Request::ReadMessage.               *)
HandleReadMessage(v) ==
    /\ phase = "asking"
    /\ v \in pending \ Faulty
    /\ \E ts \in Times :
          \E reply \in MessageReplies(v, store[v][range.ns], MessageCall.id, ts) :
             TakeReply(v, reply)

FaultyReply(v) ==
    /\ phase = "asking"
    /\ v \in pending \cap Faulty
    /\ \E reply \in FaultyReplies(v, MessageCall) : TakeReply(v, reply)

GiveUp(v) ==
    /\ phase = "asking"
    /\ v \in pending
    /\ missed' = TRUE
    /\ PushCertified(available, unavailable, message)
    /\ UNCHANGED <<validators, range, pending, tasks, log, kept>>

RunOut ==
    /\ phase = "asking"
    /\ pending = {}
    /\ PushCertified(available, unavailable, message)
    /\ UNCHANGED <<validators, range, pending, tasks, log, kept, missed>>

CertifyEnds ==
    /\ phase = "certifying"
    /\ cursor = Len(log)
    /\ phase' = "done"
    /\ UNCHANGED <<validators, range, pending, tasks, log, cursor, reading,
                   certified, kept, missed>>

-----------------------------------------------------------------------------
(* What the task of the call does whether or not a validator answers:      *)
(* every future completes, by its timeout at the latest, and the runtime   *)
(* polls the task and the verify tasks.                                    *)
CallStep ==
    \/ \E v \in Validators : GiveUpLog(v)
    \/ LogsRunOut
    \/ \E v \in Validators : JoinNext(v)
    \/ \E v \in Validators : JoinRejects(v)
    \/ JoinEnds
    \/ Certify
    \/ \E v \in Validators : GiveUp(v)
    \/ RunOut
    \/ CertifyEnds

Next ==
    \/ \E v \in Validators, ns \in Namespaces, m \in Messages : HandleWrite(v, ns, m)
    \/ \E v \in Validators : Restart(v)
    \/ \E kind \in {"read", "read_certified"}, ns \in Namespaces, span \in Spans :
          Read(kind, ns, span[1], span[2])
    \/ \E v \in Validators : HandleReadRange(v)
    \/ \E v \in Validators : FaultyLog(v)
    \/ \E v \in Validators : HandleReadMessage(v)
    \/ \E v \in Validators : FaultyReply(v)
    \/ CallStep

Spec == Init /\ [][Next]_vars

FairSpec == Spec /\ WF_vars(CallStep)

-----------------------------------------------------------------------------
(* Every variable of read and read_certified has its type.                 *)
TypeOK ==
    /\ store \in [Validators -> [Namespaces -> Seq(Entries)]]
    /\ restarts \in 0 .. MaxRestarts
    /\ writes \in 0 .. MaxWrites
    /\ range \in {Idle} \cup Ranges
    /\ phase \in Phases
    /\ pending \subseteq Validators
    /\ tasks \in [Validators -> {NoReply} \cup [type : {"log"}, records : Seq(Records)]]
    /\ log \in Seq(Records)
    /\ cursor \in 0 .. Len(log)
    /\ available \in Tallies
    /\ unavailable \in Tallies
    /\ message \in Messages \cup {NoMessage}
    /\ certified \in Seq(Results)
    /\ kept \subseteq (Validators \ Faulty) \X Records
    /\ missed \in BOOLEAN

LogReturned == phase \in {"certifying", "asking", "done"}

(* Whatever the order in which answers and verify tasks come in, read      *)
(* returns a log sorted by time whose records carry the signature of a     *)
(* validator; those of a correct validator are in the range, and are there *)
(* once.                                                                   *)
LogSound ==
    LogReturned =>
        \A i \in DOMAIN log :
            /\ \A j \in DOMAIN log : i < j => log[i].timestamp <= log[j].timestamp
            /\ LET v == log[i].signature.key
               IN  /\ Verify(log[i].signature, v,
                             RecordDigest(range.ns, log[i].timestamp, log[i].message))
                   /\ v \notin Faulty =>
                        /\ InRange(log[i], range.start, range.end)
                        /\ \A j \in DOMAIN log : log[j] = log[i] => i = j

(* A read in which no request failed and no log was rejected has every     *)
(* record in its range that a correct validator held from the beginning of *)
(* the call on, whatever is written, evicted or lost meanwhile.            *)
LogComplete ==
    LogReturned /\ ~missed => \A p \in kept : \E i \in DOMAIN log : log[i] = p[2]

(* The certificate r has the signatures of a quorum, each over its message *)
(* and one of its timestamps.                                              *)
Supported(r) ==
    /\ HasReachedQuorum(N, Cardinality({s.key : s \in r.sigs}))
    /\ \A s \in r.sigs : \E v \in Validators :
          s = Sign(s.key, RecordDigest(range.ns, r.timestamps[v], r.message))

(* The certified log keeps the order of the log it was read from, each of  *)
(* its entries certifies the message of a record of its own in that log,   *)
(* and none rests on votes that were cast for another record.              *)
CertifiedFollowsLog ==
    /\ \A i \in DOMAIN certified : Supported(certified[i])
    /\ \E S \in SUBSET (1 .. cursor) :
          /\ Cardinality(S) = Len(certified)
          /\ \A k \in S :
                certified[Cardinality({j \in S : j <= k})].message = log[k].message

(* A read_certified that lost no answer certifies every message of which a *)
(* quorum of correct validators held a record in the range throughout the  *)
(* call: that the range is read first and certified record by record later *)
(* loses only what the validators drop.  (Quorums of four validators need  *)
(* not intersect.)                                                         *)
CertifiedComplete ==
    phase = "done" /\ range.kind = "read_certified" /\ ~missed /\ N # 4 =>
        \A m \in {p[2].message : p \in kept} :
            HasReachedQuorum(N, Cardinality({p[1] : p \in {q \in kept : q[2].message = m}}))
                => \E i \in DOMAIN certified : certified[i].message = m

(* Every read and read_certified returns: a silent validator costs a       *)
(* timeout per request, a rejected log or a message without certificate    *)
(* does not stop the loops.                                                *)
ReadTermination == phase = "reading" ~> phase = "done"
=============================================================================
