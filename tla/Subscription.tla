---------------------------- MODULE Subscription ----------------------------
(***************************************************************************)
(* Subscriptions: from a write that a validator handles, through its       *)
(* publish queue (Validator::subscribe and poll, src/validator/mod.rs) and *)
(* the client's background tasks (Client::subscribe and                    *)
(* subscribe_certified, src/client/client.rs), to the stream of certified  *)
(* records.  One subscription of one client, to the namespace Subscribed;  *)
(* other clients write, and subscribe to whatever they like.               *)
(*                                                                         *)
(* Left to Dato: the store that Validator::write also fills and the answer *)
(* to the client that writes; nothing here reads them.  Publishers are     *)
(* correct: the client takes their records unverified ("TODO: ... verify   *)
(* the signature of each incoming message").                               *)
(***************************************************************************)
EXTENDS Protocol

CONSTANTS
    Subscribed,  \* the namespace
    QueueCap,    \* capacity of the publish queue (512 in the code)
    ChannelCap,  \* capacity of the stream of records (512)
    MapCap,      \* capacity of records_by_id (1024)
    OutCap,      \* capacity of the stream of certified records (512)
    MaxHandled   \* bound: requests of other clients that validators handle

ASSUME SubscribedAssumption == Subscribed \in Namespaces
ASSUME CapacityAssumption == {QueueCap, ChannelCap, MapCap, OutCap} \subseteq Nat \ {0}
ASSUME MaxHandledAssumption == MaxHandled \in Nat

VARIABLES
    active,     \* active[v]: active_subscriptions
    queue,      \* queue[v]: <<namespace, record>> in the queue of this poll
    restarts,   \* restarts so far
    handled,    \* requests of other clients handled so far
    phase,      \* which loop of subscribe, or of its task, is running
    reqs,       \* validators that have yet to handle the subscribe request
    pending,    \* validators whose answer subscribe has yet to take
    ports,      \* validators whose publisher is yet to be connected to
    stale,      \* validators that restarted after they gave their port
    connected,  \* validators whose publisher the client is connected to
    wire,       \* wire[v]: records published and not yet received
    channel,    \* record_sub_tx to record_sub_rx
    byId,       \* records_by_id
    emit,       \* the certified record that is being sent, if any
    certifying, \* whether the task of subscribe_certified is running
    out,        \* certified records the consumer has yet to take
    open,       \* whether the consumer still has the stream
    sent,       \* history: all records certified and sent, in order
    stamped,    \* history: <<v, topic, m>>: validator v has queued m
    repeated,   \* history: the same, more than once
    evicted     \* history: ids that records_by_id has evicted

publishers == <<active, queue, restarts, handled, stamped, repeated>>
asking == <<reqs, pending>>
stream == <<channel, byId, emit, certifying, out, open, sent, evicted>>
vars == <<active, queue, restarts, handled, phase, reqs, pending, ports,
          stale, connected, wire, channel, byId, emit, certifying, out, open,
          sent, stamped, repeated, evicted>>

Phases == {"idle", "asking", "connecting", "receiving", "stopped"}

(* String::from_utf8_lossy, for namespaces whose bytes from 128 on are not *)
(* part of a character: each of these becomes U+FFFD.                      *)
Topic(ns) == [i \in DOMAIN ns |-> IF ns[i] < 128 THEN ns[i] ELSE 65533]

(* The certified record that is being sent, when there is none.            *)
Nothing == <<>>

-----------------------------------------------------------------------------
Init ==
    /\ active = [v \in Validators |-> {}]
    /\ queue = [v \in Validators |-> <<>>]
    /\ restarts = 0
    /\ handled = 0
    /\ phase = "idle"
    /\ reqs = {}
    /\ pending = {}
    /\ ports = {}
    /\ stale = {}
    /\ connected = {}
    /\ wire = [v \in Validators |-> <<>>]
    /\ channel = <<>>
    /\ byId = <<>>
    /\ emit = Nothing
    /\ certifying = TRUE
    /\ out = 0
    /\ open = TRUE
    /\ sent = <<>>
    /\ stamped = {}
    /\ repeated = {}
    /\ evicted = {}

-----------------------------------------------------------------------------
(* Validator::poll.  Each iteration of its loop serves a request if one is *)
(* ready, else a record of the queue.                                      *)

(* Mutant: the queue is not bounded.                                       *)
PollWriteUnbounded(v, ns, m) ==
    /\ handled < MaxHandled
    /\ handled' = handled + 1
    /\ ns \in active[v]
    /\ queue' = [queue EXCEPT ![v] = Append(@, <<ns, Stamped(v, ns, 0, m)>>)]
    /\ UNCHANGED <<active, restarts, stamped, repeated, phase, asking, ports, stale,
                   connected, wire, stream>>

(* Request::Write: the record goes to the queue if the namespace has a     *)
(* subscription and the queue has room.                                    *)
PollWrite(v, ns, m) ==
    /\ handled < MaxHandled
    /\ handled' = handled + 1
    /\ IF ns \in active[v] /\ Len(queue[v]) < QueueCap
       THEN LET stamp == <<v, Topic(ns), m>>
            IN  /\ \E ts \in Times :
                     queue' = [queue EXCEPT ![v] = Append(@, <<ns, Stamped(v, ns, ts, m)>>)]
                /\ stamped' = stamped \cup {stamp}
                /\ repeated' = IF stamp \in stamped THEN repeated \cup {stamp} ELSE repeated
       ELSE UNCHANGED <<queue, stamped, repeated>>
    /\ UNCHANGED <<active, restarts, phase, asking, ports, stale, connected,
                   wire, stream>>

(* Mutant: the namespace is not entered.                                   *)
PollSubscribeNoInsert(v) ==
    /\ v \in reqs
    /\ reqs' = reqs \ {v}
    /\ UNCHANGED <<publishers, phase, pending, ports, stale, connected, wire, stream>>

(* Request::Subscribe: the answer, with the publisher's port, waits in the *)
(* client's future.                                                        *)
PollSubscribe(v) ==
    /\ v \in reqs
    /\ active' = [active EXCEPT ![v] = @ \cup {Subscribed}]
    /\ reqs' = reqs \ {v}
    /\ UNCHANGED <<queue, restarts, handled, stamped, repeated, phase, pending,
                   ports, stale, connected, wire, stream>>

(* Request::Subscribe of another client, to any namespace.  (Before the    *)
(* client subscribes nothing here is of consequence to it.)                *)
PollOtherSubscribe(v, ns) ==
    /\ phase # "idle"
    /\ handled < MaxHandled
    /\ handled' = handled + 1
    /\ active' = [active EXCEPT ![v] = @ \cup {ns}]
    /\ UNCHANGED <<queue, restarts, stamped, repeated, phase, asking,
                   ports, stale, connected, wire, stream>>

(* No request is ready: the oldest record of the queue is published, and   *)
(* reaches the client if it is connected and its topic is the same.        *)
PollPublish(v) ==
    /\ queue[v] # <<>>
    /\ LET ns == Head(queue[v])[1]
           record == Head(queue[v])[2]
       IN  wire' = IF v \in connected /\ Topic(ns) = Topic(Subscribed)
                   THEN [wire EXCEPT ![v] = Append(@, record)]
                   ELSE wire
    /\ queue' = [queue EXCEPT ![v] = Tail(@)]
    /\ UNCHANGED <<active, restarts, handled, stamped, repeated, phase, asking,
                   ports, stale, connected, stream>>

(* The publisher's socket refuses the record, which is logged.             *)
PublishFails(v) ==
    /\ queue[v] # <<>>
    /\ queue' = [queue EXCEPT ![v] = Tail(@)]
    /\ UNCHANGED <<active, restarts, handled, stamped, repeated, phase, asking, ports,
                   stale, connected, wire, stream>>

(* Neither yields anything although the queue has records: the operations  *)
(* that tokio grants one poll of a task are used up, by the requests of    *)
(* all clients.  poll returns Pending and its queue is dropped.            *)
PollPending(v) ==
    /\ queue[v] # <<>>
    /\ queue' = [queue EXCEPT ![v] = <<>>]
    /\ UNCHANGED <<active, restarts, handled, stamped, repeated, phase, asking, ports,
                   stale, connected, wire, stream>>

(* A validator process restarts, with no subscriptions and with another    *)
(* port for its publisher; the client knows the old one.  (Before there is *)
(* a subscription a restart changes nothing here.)  What it had published  *)
(* last may not reach the client.                                          *)
Restart(v) ==
    /\ phase # "idle"
    /\ restarts < MaxRestarts
    /\ restarts' = restarts + 1
    /\ active' = [active EXCEPT ![v] = {}]
    /\ queue' = [queue EXCEPT ![v] = <<>>]
    /\ connected' = connected \ {v}
    /\ stale' = IF v \in reqs THEN stale ELSE stale \cup {v}
    /\ \E k \in 0 .. Len(wire[v]) : wire' = [wire EXCEPT ![v] = SubSeq(@, 1, k)]
    /\ UNCHANGED <<handled, stamped, repeated, phase, asking, ports, stream>>

-----------------------------------------------------------------------------
(* Client::subscribe, called by subscribe_certified.                       *)
Subscribe ==
    /\ phase = "idle"
    /\ phase' = "asking"
    /\ reqs' = Validators
    /\ pending' = Validators
    /\ UNCHANGED <<publishers, ports, stale, connected, wire, stream>>

(* One iteration of the response loop, on the answer of v.                 *)
TakePort(v) ==
    /\ phase = "asking"
    /\ v \in pending \ reqs
    /\ pending' = pending \ {v}
    /\ ports' = ports \cup {v}
    /\ UNCHANGED <<publishers, phase, reqs, stale, connected, wire, stream>>

(* The loop ends: a future failed, or none is left.  The background tasks  *)
(* are spawned and the caller has its stream.                              *)
AskingEnds ==
    /\ phase = "asking"
    /\ phase' = "connecting"
    /\ pending' = {}
    /\ UNCHANGED <<publishers, reqs, ports, stale, connected, wire, stream>>

(* The task connects and subscribes to the publishers one after the other; *)
(* from a port that is no longer served nothing comes.                     *)
Connect(v) ==
    /\ phase = "connecting"
    /\ v \in ports
    /\ ports' = ports \ {v}
    /\ connected' = IF v \in stale THEN connected ELSE connected \cup {v}
    /\ UNCHANGED <<publishers, phase, asking, stale, wire, stream>>

(* The socket of the task is closed; the channel it filled ends.           *)
TaskReturns ==
    /\ phase' = "stopped"
    /\ connected' = {}
    /\ wire' = [v \in Validators |-> <<>>]

(* One of them cannot be connected to: the task returns.                   *)
ConnectFails ==
    /\ phase = "connecting"
    /\ ports # {}
    /\ TaskReturns
    /\ UNCHANGED <<publishers, asking, ports, stale, stream>>

ConnectEnds ==
    /\ phase = "connecting"
    /\ ports = {}
    /\ phase' = "receiving"
    /\ UNCHANGED <<publishers, asking, ports, stale, connected, wire, stream>>

(* One iteration of the receive loop: the record goes to the channel, or   *)
(* is dropped if that is full; if its receiver is gone, the task returns.  *)
Receive(v) ==
    /\ phase = "receiving"
    /\ wire[v] # <<>>
    /\ IF certifying
       THEN /\ channel' = IF Len(channel) < ChannelCap
                          THEN Append(channel, Head(wire[v]))
                          ELSE channel
            /\ wire' = [wire EXCEPT ![v] = Tail(@)]
            /\ UNCHANGED <<phase, connected>>
       ELSE TaskReturns /\ UNCHANGED channel
    /\ UNCHANGED <<publishers, asking, ports, stale, byId, emit, certifying, out,
                   open, sent, evicted>>

-----------------------------------------------------------------------------
(* CertifiedRecord::from_records_unchecked                                 *)
FromRecordsUnchecked(records) ==
    [timestamps |-> [k \in DOMAIN records |-> records[k].timestamp],
     sigs |-> [k \in DOMAIN records |-> records[k].signature],
     message |-> records[1].message]

(* Mutant: the newest record comes first.                                  *)
CollectedFirst(id, record) ==
    IF id \in KeysOf(byId) THEN <<record>> \o RecordOf(byId, id) ELSE <<record>>

(* Mutant: the records of any message in the map.                          *)
CollectedAny(id, record) ==
    IF byId # <<>> THEN Append(byId[1].record, record) ELSE <<record>>

(* Mutant: the records so far are forgotten.                               *)
CollectedAlone(id, record) == <<record>>

(* The records of its message that the map has, with the new one.          *)
Collected(id, record) ==
    IF id \in KeysOf(byId) THEN Append(RecordOf(byId, id), record) ELSE <<record>>

(* Mutant: a quorum and one more is asked for.                             *)
CertifiesOneMore(records) == Len(records) > 1 /\ HasReachedQuorum(N, Len(records) - 1)

(* if has_reached_quorum(validators_count, records.len())                  *)
Certifies(records) == HasReachedQuorum(N, Len(records))

(* One iteration of the loop of subscribe_certified: the record joins the  *)
(* others of its message; as often as they are enough for a quorum, the    *)
(* certified record they make is sent.                                     *)
Aggregate ==
    /\ certifying
    /\ channel # <<>>
    /\ emit = Nothing
    /\ LET id == MsgId(Subscribed, Head(channel).message)
           records == Collected(id, Head(channel))
       IN  /\ byId' = IF id \in KeysOf(byId)
                      THEN [byId EXCEPT ![Place(byId, id)].record = records]
                      ELSE Append(EvictFor(byId, MapCap), [id |-> id, record |-> records])
           /\ emit' = IF Certifies(records) THEN FromRecordsUnchecked(records)
                                            ELSE Nothing
    /\ channel' = Tail(channel)
    /\ evicted' = evicted \cup (KeysOf(byId) \ KeysOf(byId'))
    /\ UNCHANGED <<publishers, phase, asking, ports, stale, connected, wire,
                   certifying, out, open, sent>>

(* send().await completes, once the stream has room.                       *)
Send ==
    /\ certifying
    /\ emit # Nothing
    /\ open
    /\ out < OutCap
    /\ out' = out + 1
    /\ sent' = Append(sent, emit)
    /\ emit' = Nothing
    /\ UNCHANGED <<publishers, phase, asking, ports, stale, connected, wire, channel,
                   byId, certifying, open, evicted>>


(* The task of subscribe_certified returns: its consumer closed the stream *)
(* when it came to send, or the channel has ended.                         *)
CertifyingEnds ==
    /\ certifying
    /\ \/ emit # Nothing /\ ~open
       \/ emit = Nothing /\ channel = <<>> /\ phase = "stopped"
    /\ certifying' = FALSE
    /\ channel' = <<>>
    /\ byId' = <<>>
    /\ emit' = Nothing
    /\ UNCHANGED <<publishers, phase, asking, ports, stale, connected, wire, out,
                   open, sent, evicted>>

ConsumerTakes ==
    /\ open
    /\ out > 0
    /\ out' = out - 1
    /\ UNCHANGED <<publishers, phase, asking, ports, stale, connected, wire, channel,
                   byId, emit, certifying, open, sent, evicted>>

(* The consumer has the stream once subscribe has returned.                *)
ConsumerCloses ==
    /\ phase \notin {"idle", "asking"}
    /\ open
    /\ open' = FALSE
    /\ out' = 0
    /\ UNCHANGED <<publishers, phase, asking, ports, stale, connected, wire, channel,
                   byId, emit, certifying, sent, evicted>>

-----------------------------------------------------------------------------
Poll(v) == PollPublish(v) \/ PublishFails(v) \/ PollPending(v)

(* The steps of the task of subscribe.                                     *)
TaskStep ==
    \/ AskingEnds
    \/ \E v \in Validators : Connect(v)
    \/ ConnectEnds
    \/ \E v \in Validators : Receive(v)

Next ==
    \/ \E v \in Validators, ns \in Namespaces, m \in Messages : PollWrite(v, ns, m)
    \/ \E v \in Validators : PollSubscribe(v)
    \/ \E v \in Validators, ns \in Namespaces : PollOtherSubscribe(v, ns)
    \/ \E v \in Validators : Poll(v)
    \/ \E v \in Validators : Restart(v)
    \/ Subscribe
    \/ \E v \in Validators : TakePort(v)
    \/ ConnectFails
    \/ TaskStep
    \/ Aggregate
    \/ Send
    \/ CertifyingEnds
    \/ ConsumerTakes
    \/ ConsumerCloses

Spec == Init /\ [][Next]_vars

(* The runtime polls every task that can go on; a sender that waits for    *)
(* room gets its turn if there is room again and again.                    *)
FairSpec ==
    /\ Spec
    /\ \A v \in Validators : WF_vars(Poll(v))
    /\ WF_vars(TaskStep)
    /\ WF_vars(Aggregate)
    /\ WF_vars(CertifyingEnds)
    /\ SF_vars(Send)

-----------------------------------------------------------------------------
(* Every variable of publishers and subscriber has its type, and every     *)
(* queue, channel and map is within its capacity.                          *)
TypeOK ==
    /\ active \in [Validators -> SUBSET Namespaces]
    /\ \A v \in Validators : /\ queue[v] \in Seq(Namespaces \X Records)
                              /\ Len(queue[v]) <= QueueCap
    /\ restarts \in 0 .. MaxRestarts
    /\ handled \in 0 .. MaxHandled
    /\ phase \in Phases
    /\ reqs \cup pending \cup ports \cup stale \cup connected \subseteq Validators
    /\ wire \in [Validators -> Seq(Records)]
    /\ channel \in Seq(Records) /\ Len(channel) <= ChannelCap
    /\ byId \in Seq([id : MsgIds, record : Seq(Records)]) /\ Len(byId) <= MapCap
    /\ certifying \in BOOLEAN
    /\ out \in 0 .. OutCap
    /\ open \in BOOLEAN

(* While the client is connected to the publisher of a validator, that     *)
(* validator has its namespace among the active ones, whatever restarts    *)
(* and late answers came between: no write it handles is left unpublished  *)
(* for want of a subscription.                                             *)
ConnectedIsActive == \A v \in connected : Subscribed \in active[v]

(* A certified record of the stream has as many signatures as a quorum,    *)
(* each over its message, the timestamp at the same place, and a namespace *)
(* with the topic of the subscription; two are of the same validator only  *)
(* if that validator queued the message twice.                             *)
StreamSound ==
    \A i \in DOMAIN sent :
        LET c == sent[i]
        IN  /\ HasReachedQuorum(N, Len(c.sigs))
            /\ \A k \in DOMAIN c.sigs :
                  /\ \E ns \in Namespaces :
                        /\ Topic(ns) = Topic(Subscribed)
                        /\ c.sigs[k] = Sign(c.sigs[k].key,
                                           RecordDigest(ns, c.timestamps[k], c.message))
                  /\ \A j \in DOMAIN c.sigs :
                        c.sigs[j].key = c.sigs[k].key /\ j # k
                          => <<c.sigs[k].key, Topic(Subscribed), c.message>> \in repeated

(* The stream repeats a message only with more signatures than before:     *)
(* every record after the quorum sends it again.  What records_by_id has   *)
(* evicted begins anew.                                                    *)
RepeatsGrow ==
    \A i, j \in DOMAIN sent :
        i < j /\ sent[i].message = sent[j].message
          => \/ MsgId(Subscribed, sent[i].message) \in evicted
             \/ /\ Len(sent[i].sigs) < Len(sent[j].sigs)
                /\ sent[i].sigs = SubSeq(sent[j].sigs, 1, Len(sent[i].sigs))

HoldsMessage(records, m) == \E k \in DOMAIN records : records[k].message = m

(* The validators of which a record of m is on its way to the stream.      *)
Carried(m) ==
    {v \in Validators :
        \/ v \in connected /\ \E k \in DOMAIN queue[v] :
              queue[v][k][1] = Subscribed /\ queue[v][k][2].message = m
        \/ HoldsMessage(wire[v], m)
        \/ \E k \in DOMAIN channel :
              channel[k].message = m /\ channel[k].signature.key = v
        \/ \E e \in DOMAIN byId : \E k \in DOMAIN byId[e].record :
              /\ byId[e].record[k].message = m
              /\ byId[e].record[k].signature.key = v}

(* A record on its way to the stream is lost by one of these steps only:   *)
(* its validator's poll runs out of operations or cannot publish it, or    *)
(* the validator restarts; it is the next to go into a channel that is     *)
(* full, or of the oldest message of a full records_by_id when a record of *)
(* a new message comes; or one of the two tasks returns.  Between these a  *)
(* record is moved, joined to others or certified, never dropped.          *)
LostOnlyAtLimits ==
    [][\A m \in Messages : \A v \in Carried(m) \ Carried(m)' :
          \/ PollPending(v)
          \/ PublishFails(v) /\ Head(queue[v])[2].message = m
          \/ Restart(v)
          \/ /\ Receive(v)
             /\ Len(channel) = ChannelCap /\ Head(wire[v]).message = m
          \/ /\ Aggregate
             /\ Len(byId) = MapCap /\ byId[1].id = MsgId(Subscribed, m)
             /\ MsgId(Subscribed, Head(channel).message) \notin KeysOf(byId)
          \/ ConnectFails
          \/ ~certifying /\ \E w \in Validators : Receive(w)
          \/ CertifyingEnds]_vars

(* A message of which a quorum of validators has a record on its way is    *)
(* sent to the consumer, unless records of it are lost, as long as the     *)
(* consumer keeps making room.                                             *)
CertifiedEventually ==
    []<>(out < OutCap) =>
        \A m \in Messages :
            HasReachedQuorum(N, Cardinality(Carried(m)))
              ~> \/ \E i \in DOMAIN sent : sent[i].message = m
                 \/ ~HasReachedQuorum(N, Cardinality(Carried(m)))
                 \/ ~open

=============================================================================
