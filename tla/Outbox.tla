------------------------------- MODULE Outbox -------------------------------
(***************************************************************************)
(* The outgoing path of one agent's daemon (src/src/daemon.rs), from an    *)
(* IPC request down to the broker:                                         *)
(*                                                                         *)
(*   send / enqueue_receipt / enqueue_presence / pair_start                *)
(*        |  insert_outbound_log, enqueue_outbound (SQLite, durable)       *)
(*        v                                                                *)
(*   outbox table  <---- pump thread: snapshot, publish_on, mark_delivered *)
(*        |                                                                *)
(*        v  publish_on: a bounded channel, no acknowledgement             *)
(*   event-loop thread of the current Mqtt session ----> broker            *)
(*                                                                         *)
(* One thread per IPC request (here: per message), the pump thread and one *)
(* event-loop thread per session interleave; each statement on the store   *)
(* is atomic (one connection behind one mutex), what lies between two of   *)
(* them is not.  The process may die anywhere; the store survives it.      *)
(***************************************************************************)
EXTENDS Integers, FiniteSets

CONSTANTS
    Sends,          \* ids of messages an IPC Send request publishes
    Receipts,       \* ids of automatic receipts (logged, never published directly)
    Beacons,        \* ids of presence beacons (queued, never logged)
    Hellos,         \* ids of pairing hellos (queued and published, never logged)
    NoId,           \* no message
    ChanCap,        \* capacity of the client's request channel: Client::new(opts, 64)
    MaxSessions,    \* bound: broker sessions started
    MaxCrashes,     \* bound: deaths of the process
    MaxDrops,       \* bound: connections lost
    MaxFaults       \* bound: SQLite statements that fail

Id == Sends \cup Receipts \cup Beacons \cup Hellos
Session == 1..MaxSessions
\* A request in a session's channel: who put it there, and for which message.
\* A message enters one session's channel at most once per role.
Publish == Id \X {"request", "pump"}
Subscribe == <<NoId, "subscribe">>
Token == Publish \cup {Subscribe}

LogState == {"absent", "pending", "sent", "delivered", "read"}
Pc == {"idle", "logged", "queued", "client", "handed", "sent", "pending",
       "done", "orphan", "dead"}
LoopState == {"none", "down", "subscribing", "up", "gone"}

ASSUME IdsAssumption == NoId \notin Id
ASSUME KindsAssumption ==
    /\ Sends \cap Receipts = {} /\ Sends \cap Beacons = {} /\ Sends \cap Hellos = {}
    /\ Receipts \cap Beacons = {} /\ Receipts \cap Hellos = {} /\ Beacons \cap Hellos = {}
ASSUME BoundsAssumption ==
    /\ ChanCap \in Nat \ {0} /\ MaxSessions \in Nat
    /\ MaxCrashes \in Nat /\ MaxDrops \in Nat /\ MaxFaults \in Nat

VARIABLES
    log,        \* messages.delivery_state of the outbound row of each id
    outbox,     \* outbox.seq of each id's row, 0 when it has none
    lastRow,    \* the AUTOINCREMENT counter of the outbox table
    pc,         \* where the thread working for each id stands
    handle,     \* the session whose client that thread cloned
    pump,       \* the pump thread: [at, session, batch, item]
    current,    \* Daemon.mqtt: the session behind the mutex, 0 for None
    loop,       \* the event-loop thread of each session
    stopping,   \* Mqtt.stop: sessions told to stop
    chan,       \* requests in each session's channel
    inflight,   \* requests the event loop took, not yet acknowledged
    handed,     \* history: ids some client accepted (publish_on returned Ok)
    broker,     \* ids the broker has acknowledged
    crashes, drops, faults

store == <<log, outbox, lastRow>>
net == <<current, loop, stopping, chan, inflight>>
counters == <<crashes, drops, faults>>
vars == <<log, outbox, lastRow, pc, handle, pump, current, loop, stopping,
          chan, inflight, handed, broker, crashes, drops, faults>>

IdlePump == [at |-> "idle", session |-> 0, batch |-> [i \in Id |-> 0], item |-> NoId]

Init ==
    /\ log = [i \in Id |-> "absent"]
    /\ outbox = [i \in Id |-> 0]
    /\ lastRow = 0
    /\ pc = [i \in Id |-> "idle"]
    /\ handle = [i \in Id |-> 0]
    /\ pump = IdlePump
    /\ current = 0
    /\ loop = [s \in Session |-> "none"]
    /\ stopping = {}
    /\ chan = [s \in Session |-> {}]
    /\ inflight = [s \in Session |-> {}]
    /\ handed = {} /\ broker = {}
    /\ crashes = 0 /\ drops = 0 /\ faults = 0

-----------------------------------------------------------------------------
(* The store's statements.                                                 *)

\* is_connected / connected_client: the flag is set from ConnAck until the
\* next poll error or the end of the thread.
Connected == current # 0 /\ loop[current] \in {"subscribing", "up"}

Evictable(i) == log[i] \in {"delivered", "read"}

\* Mutation of MarkDelivered: the two statements swapped.
MarkDelivered_DeleteFirst(i, steps) ==
    /\ outbox' = IF steps >= 1 THEN [outbox EXCEPT ![i] = 0] ELSE outbox
    /\ log' = IF steps = 2 /\ log[i] = "pending" THEN [log EXCEPT ![i] = "sent"] ELSE log
    /\ faults' = IF steps = 2 THEN faults ELSE faults + 1
    /\ faults' <= MaxFaults
    /\ UNCHANGED lastRow

\* Mutation of MarkDelivered: the row is deleted only when the UPDATE changed one.
MarkDelivered_OnlyLogged(i, steps) ==
    /\ log' = IF steps >= 1 /\ log[i] = "pending" THEN [log EXCEPT ![i] = "sent"] ELSE log
    /\ outbox' = IF steps = 2 /\ log[i] = "pending" THEN [outbox EXCEPT ![i] = 0] ELSE outbox
    /\ faults' = IF steps = 2 THEN faults ELSE faults + 1
    /\ faults' <= MaxFaults
    /\ UNCHANGED lastRow

\* mark_delivered: an UPDATE guarded by the state, then a DELETE.  "steps" of
\* them take effect; fewer than 2 is a failing statement (its error is
\* discarded by every caller), or what a crash in the middle leaves behind.
MarkDelivered(i, steps) ==
    /\ log' = IF steps >= 1 /\ log[i] = "pending" THEN [log EXCEPT ![i] = "sent"] ELSE log
    /\ outbox' = IF steps = 2 THEN [outbox EXCEPT ![i] = 0] ELSE outbox
    /\ faults' = IF steps = 2 THEN faults ELSE faults + 1
    /\ faults' <= MaxFaults
    /\ UNCHANGED lastRow

\* publish_on(client of session s) for a message: an error once the event
\* loop is gone, otherwise it blocks until the channel has room.
Accepts(s) == loop[s] # "gone" /\ Cardinality(chan[s]) < ChanCap
Refuses(s) == loop[s] = "gone"

-----------------------------------------------------------------------------
(* The request threads.                                                    *)

\* send, enqueue_receipt: insert_outbound_log, whose error is ignored.
InsertOutboundLog(i) ==
    /\ i \in Sends \cup Receipts
    /\ pc[i] = "idle"
    /\ pc' = [pc EXCEPT ![i] = "logged"]
    /\ \/ log' = [log EXCEPT ![i] = "pending"] /\ UNCHANGED faults
       \/ faults < MaxFaults /\ faults' = faults + 1 /\ UNCHANGED log
    /\ UNCHANGED <<outbox, lastRow, handle, pump, net, handed, broker, crashes, drops>>

ReadyToEnqueue(i) ==
    \/ i \in Sends \cup Receipts /\ pc[i] = "logged"
    \/ i \in Beacons \cup Hellos /\ pc[i] = "idle"

EnqueueOutbound(i) ==
    /\ ReadyToEnqueue(i)
    /\ outbox' = [outbox EXCEPT ![i] = lastRow + 1]
    /\ lastRow' = lastRow + 1
    /\ pc' = [pc EXCEPT ![i] = IF i \in Sends \cup Hellos THEN "queued" ELSE "done"]
    /\ UNCHANGED <<log, handle, pump, net, handed, broker, counters>>

\* The insert fails: send and pair_start answer with the error, the other two
\* discard it.  A log row written just before stays, with nothing to send it.
EnqueueFails(i) ==
    /\ ReadyToEnqueue(i)
    /\ faults < MaxFaults
    /\ faults' = faults + 1
    /\ pc' = [pc EXCEPT ![i] = "orphan"]
    /\ UNCHANGED <<store, handle, pump, net, handed, broker, crashes, drops>>

\* Mutation of NotPublished: the answer ignores what publish_on returned.
NotPublished_SaysSent(i) == IF i \in Sends THEN "sent" ELSE "done"

\* The answer of a request whose message was not published by its own thread.
NotPublished(i) == IF i \in Sends THEN "pending" ELSE "done"

\* connected_client: clone the handle, under the mutex, iff connected.
CloneClient(i) ==
    /\ pc[i] = "queued"
    /\ IF Connected
       THEN /\ pc' = [pc EXCEPT ![i] = "client"]
            /\ handle' = [handle EXCEPT ![i] = current]
       ELSE /\ pc' = [pc EXCEPT ![i] = NotPublished(i)]
            /\ UNCHANGED handle
    /\ UNCHANGED <<store, pump, net, handed, broker, counters>>

\* publish_on from the request's own thread; pair_start leaves the row to the
\* pump, which will publish it a second time.
PublishNow(i) ==
    /\ pc[i] = "client"
    /\ LET s == handle[i] IN
         \/ /\ Accepts(s)
            /\ chan' = [chan EXCEPT ![s] = @ \cup {<<i, "request">>}]
            /\ handed' = handed \cup {i}
            /\ pc' = [pc EXCEPT ![i] = IF i \in Sends THEN "handed" ELSE "done"]
         \/ /\ Refuses(s)
            /\ pc' = [pc EXCEPT ![i] = NotPublished(i)]
            /\ UNCHANGED <<chan, handed>>
    /\ handle' = [handle EXCEPT ![i] = 0]
    /\ UNCHANGED <<store, pump, current, loop, stopping, inflight, broker, counters>>

\* mark_delivered, then the answer "sent" (whatever mark_delivered returned).
MarkSent(i) ==
    /\ pc[i] = "handed"
    /\ \E steps \in 0..2 : MarkDelivered(i, steps)
    /\ pc' = [pc EXCEPT ![i] = "sent"]
    /\ UNCHANGED <<handle, pump, net, handed, broker, crashes, drops>>

-----------------------------------------------------------------------------
(* The pump thread (spawn_outbox_pump): every second, if connected, publish *)
(* a snapshot of the outbox in row order and mark what the client accepted. *)

PumpClient ==
    /\ pump.at = "idle"
    /\ Connected
    /\ pump' = [pump EXCEPT !.at = "snapshot", !.session = current]
    /\ UNCHANGED <<store, pc, handle, net, handed, broker, counters>>

\* pending_outbound; when the query fails there is nothing to publish.
PumpSnapshot ==
    /\ pump.at = "snapshot"
    /\ \/ pump' = [pump EXCEPT !.at = "publish", !.batch = outbox] /\ UNCHANGED faults
       \/ pump' = IdlePump /\ faults < MaxFaults /\ faults' = faults + 1
    /\ UNCHANGED <<store, pc, handle, net, handed, broker, crashes, drops>>

InBatch(i) == pump.batch[i] # 0
\* The oldest row of the snapshot that is not dealt with.
NextInBatch(i) ==
    /\ InBatch(i)
    /\ \A j \in Id : InBatch(j) => pump.batch[i] <= pump.batch[j]

\* Mutation of PumpPublish: mark_delivered whatever publish_on returned.
PumpPublish_Unchecked(i) ==
    /\ pump.at = "publish"
    /\ NextInBatch(i)
    /\ LET s == pump.session IN
         /\ Accepts(s) \/ Refuses(s)
         /\ chan' = IF Refuses(s) THEN chan ELSE [chan EXCEPT ![s] = @ \cup {<<i, "pump">>}]
         /\ handed' = IF Refuses(s) THEN handed ELSE handed \cup {i}
         /\ pump' = [pump EXCEPT !.at = "mark", !.item = i, !.batch[i] = 0]
    /\ UNCHANGED <<store, pc, handle, current, loop, stopping, inflight, broker, counters>>

PumpPublish(i) ==
    /\ pump.at = "publish"
    /\ NextInBatch(i)
    /\ LET s == pump.session IN
         \/ /\ Accepts(s)
            /\ chan' = [chan EXCEPT ![s] = @ \cup {<<i, "pump">>}]
            /\ handed' = handed \cup {i}
            /\ pump' = [pump EXCEPT !.at = "mark", !.item = i, !.batch[i] = 0]
         \/ /\ Refuses(s)
            /\ pump' = [pump EXCEPT !.batch[i] = 0]
            /\ UNCHANGED <<chan, handed>>
    /\ UNCHANGED <<store, pc, handle, current, loop, stopping, inflight, broker, counters>>

PumpMark ==
    /\ pump.at = "mark"
    /\ \E steps \in 0..2 : MarkDelivered(pump.item, steps)
    /\ pump' = [pump EXCEPT !.at = "publish", !.item = NoId]
    /\ UNCHANGED <<pc, handle, net, handed, broker, crashes, drops>>

PumpSleep ==
    /\ pump.at = "publish"
    /\ \A i \in Id : ~InBatch(i)
    /\ pump' = IdlePump
    /\ UNCHANGED <<store, pc, handle, net, handed, broker, counters>>

-----------------------------------------------------------------------------
(* Sessions: Daemon::connect / disconnect and the event-loop thread of      *)
(* Mqtt::start.                                                            *)

\* Connect request: a new client and a new thread, unless there is one.
Connect ==
    /\ current = 0
    /\ \E s \in Session :
         /\ loop[s] = "none"
         /\ \A t \in Session : t < s => loop[t] # "none"
         /\ current' = s
         /\ loop' = [loop EXCEPT ![s] = "down"]
    /\ UNCHANGED <<store, pc, handle, pump, stopping, chan, inflight, handed, broker, counters>>

\* Disconnect request: take() the session out of the mutex, then stop() it
\* with the mutex released; the requesting thread joins the loop.
Disconnect ==
    /\ current # 0
    /\ stopping' = stopping \cup {current}
    /\ current' = 0
    /\ UNCHANGED <<store, pc, handle, pump, loop, chan, inflight, handed, broker, counters>>

\* ConnAck: connected = true; the thread goes on to (re)subscribe.
ConnAck(s) ==
    /\ loop[s] = "down" /\ s \notin stopping
    /\ loop' = [loop EXCEPT ![s] = "subscribing"]
    /\ UNCHANGED <<store, pc, handle, pump, current, stopping, chan, inflight,
                   handed, broker, counters>>

\* sub_client.subscribe: a blocking send into the channel that only this
\* thread drains.
Resubscribe(s) ==
    /\ loop[s] = "subscribing"
    /\ Cardinality(chan[s]) < ChanCap
    /\ chan' = [chan EXCEPT ![s] = @ \cup {Subscribe}]
    /\ loop' = [loop EXCEPT ![s] = "up"]
    /\ UNCHANGED <<store, pc, handle, pump, current, stopping, inflight, handed,
                   broker, counters>>

\* Mutation of Take: every request taken is awaited like a publish.
Take_AwaitsAll(s) ==
    /\ loop[s] = "up"
    /\ \E t \in chan[s] :
         /\ chan' = [chan EXCEPT ![s] = @ \ {t}]
         /\ inflight' = [inflight EXCEPT ![s] = @ \cup {t}]
    /\ UNCHANGED <<store, pc, handle, pump, current, loop, stopping, handed, broker, counters>>

\* connection.iter(): the loop takes a request and writes it to the network.
\* (A SUBSCRIBE is followed no further: ConnAck sends it again anyway.)
Take(s) ==
    /\ loop[s] = "up"
    /\ \E t \in chan[s] :
         /\ chan' = [chan EXCEPT ![s] = @ \ {t}]
         /\ inflight' = [inflight EXCEPT ![s] = @ \cup ({t} \ {Subscribe})]
    /\ UNCHANGED <<store, pc, handle, pump, current, loop, stopping, handed, broker, counters>>

\* The broker's PUBACK.
BrokerAck(s) ==
    /\ loop[s] = "up"
    /\ \E t \in inflight[s] :
         /\ inflight' = [inflight EXCEPT ![s] = @ \ {t}]
         /\ broker' = broker \cup {t[1]}
    /\ UNCHANGED <<store, pc, handle, pump, current, loop, stopping, chan, handed, counters>>

\* A poll error: connected = false and a backoff sleep.  The client library
\* keeps what was unacknowledged, and what it drains from the channel, for the
\* next connection.
ConnectionLost(s) ==
    /\ loop[s] = "up"
    /\ drops < MaxDrops
    /\ drops' = drops + 1
    /\ loop' = [loop EXCEPT ![s] = "down"]
    /\ inflight' = [inflight EXCEPT ![s] = @ \cup (chan[s] \ {Subscribe})]
    /\ chan' = [chan EXCEPT ![s] = {}]
    /\ UNCHANGED <<store, pc, handle, pump, current, stopping, handed, broker, crashes, faults>>

\* The loop sees the stop flag at its next event or slice of sleep and ends;
\* the channel and the unacknowledged requests go with it.
LoopExit(s) ==
    /\ s \in stopping
    /\ loop[s] \in {"down", "up"}
    /\ loop' = [loop EXCEPT ![s] = "gone"]
    /\ chan' = [chan EXCEPT ![s] = {}]
    /\ inflight' = [inflight EXCEPT ![s] = {}]
    /\ UNCHANGED <<store, pc, handle, pump, current, stopping, handed, broker, counters>>

-----------------------------------------------------------------------------
(* Receipts coming back, retention, and the death of the process.           *)

\* The event loop runs on_message, which applies a receipt for any id the store
\* has; that a receipt comes only once the broker has the message (i \in broker)
\* is an assumption about the peers.
Ingesting == \E s \in Session : loop[s] = "up" /\ s \notin stopping

\* Mutation of ApplyDeliveryReceipt: the guard against a settled row is gone.
ApplyDeliveryReceipt_Clobbers(i) ==
    /\ Ingesting /\ i \in Sends \cap broker
    /\ log[i] # "absent"
    /\ log' = [log EXCEPT ![i] = "delivered"]
    /\ UNCHANGED <<outbox, lastRow, pc, handle, pump, net, handed, broker, counters>>

\* apply_delivery_receipt: not over 'read' (nor 'failed', which no caller sets).
ApplyDeliveryReceipt(i) ==
    /\ Ingesting /\ i \in Sends \cap broker
    /\ log[i] \notin {"absent", "read"}
    /\ log' = [log EXCEPT ![i] = "delivered"]
    /\ UNCHANGED <<outbox, lastRow, pc, handle, pump, net, handed, broker, counters>>

ApplyReadReceipt(i) ==
    /\ Ingesting /\ i \in Sends \cap broker
    /\ log[i] # "absent"
    /\ log' = [log EXCEPT ![i] = "read"]
    /\ UNCHANGED <<outbox, lastRow, pc, handle, pump, net, handed, broker, counters>>

\* enforce_bounds, on the ingest of some message, deletes evictable rows.
Evict(i) ==
    /\ Ingesting
    /\ Evictable(i)
    /\ log' = [log EXCEPT ![i] = "absent"]
    /\ UNCHANGED <<outbox, lastRow, pc, handle, pump, net, handed, broker, counters>>

\* Shutdown is process::exit(0) while every other thread is wherever it is, so
\* it is the same step as a crash.  The restarted daemon has an idle pump and
\* no session; its store is what the statements that completed left.
AfterCrash(at) ==
    CASE at \in {"queued", "client", "handed"} -> "dead"
      [] at = "logged" -> "orphan"
      [] OTHER -> at

Crash ==
    /\ crashes < MaxCrashes
    /\ crashes' = crashes + 1
    /\ pc' = [i \in Id |-> AfterCrash(pc[i])]
    /\ handle' = [i \in Id |-> 0]
    /\ pump' = IdlePump
    /\ current' = 0
    /\ loop' = [s \in Session |-> IF loop[s] = "none" THEN "none" ELSE "gone"]
    /\ chan' = [s \in Session |-> {}]
    /\ inflight' = [s \in Session |-> {}]
    /\ UNCHANGED <<store, stopping, handed, broker, drops, faults>>

-----------------------------------------------------------------------------
RequestStep(i) ==
    \/ InsertOutboundLog(i) \/ EnqueueOutbound(i) \/ EnqueueFails(i)
    \/ CloneClient(i) \/ PublishNow(i) \/ MarkSent(i)

PumpStep ==
    \/ PumpClient \/ PumpSnapshot \/ PumpMark \/ PumpSleep
    \/ \E i \in Id : PumpPublish(i)

LoopStep(s) == ConnAck(s) \/ Resubscribe(s) \/ Take(s) \/ BrokerAck(s) \/ LoopExit(s)

PeerStep(i) == ApplyDeliveryReceipt(i) \/ ApplyReadReceipt(i)

Next ==
    \/ \E i \in Id : RequestStep(i) \/ PeerStep(i) \/ Evict(i)
    \/ PumpStep
    \/ \E s \in Session : LoopStep(s) \/ ConnectionLost(s)
    \/ Connect \/ Disconnect
    \/ Crash

Spec == Init /\ [][Next]_vars

\* Threads are scheduled, and a reachable broker answers: a request that was
\* accepted runs to its end, the pump wakes up every second, the event loop
\* keeps polling.  Nobody has to connect, disconnect, send, lose a connection
\* or die.
Fairness ==
    /\ \A i \in Id : /\ WF_vars(pc[i] # "idle" /\ RequestStep(i))
    /\ WF_vars(PumpStep)
    /\ \A s \in Session :
         /\ WF_vars(ConnAck(s) \/ Resubscribe(s)) /\ WF_vars(Take(s))
         /\ WF_vars(BrokerAck(s)) /\ WF_vars(LoopExit(s))

FairSpec == Spec /\ Fairness

-----------------------------------------------------------------------------
(* Properties.                                                             *)

\* Types of the variables; a client never awaits an acknowledgement of a SUBSCRIBE.
TypeOK ==
    /\ log \in [Id -> LogState]
    /\ outbox \in [Id -> Nat]
    /\ lastRow \in Nat
    /\ pc \in [Id -> Pc]
    /\ handle \in [Id -> Session \cup {0}]
    /\ pump \in [at : {"idle", "snapshot", "publish", "mark"},
                 session : Session \cup {0}, batch : [Id -> Nat], item : Id \cup {NoId}]
    /\ current \in Session \cup {0}
    /\ loop \in [Session -> LoopState]
    /\ stopping \in SUBSET Session
    /\ chan \in [Session -> SUBSET Token]
    /\ inflight \in [Session -> SUBSET Publish]
    /\ handed \in SUBSET Id /\ broker \in SUBSET Id
    /\ crashes \in Nat /\ drops \in Nat /\ faults \in Nat

\* enqueue_outbound has succeeded for i.
Enqueued(i) == pc[i] \notin {"idle", "logged", "orphan"}

\* No message is lost before a client takes it: once enqueue_outbound has
\* succeeded, the outbox row is only deleted after publish_on returned Ok,
\* whatever the pump, the request's own thread, a stale client handle, failing
\* statements and crashes do (send, spawn_outbox_pump, mark_delivered).
OutboxDurable == \A i \in Id : Enqueued(i) => outbox[i] # 0 \/ i \in handed

\* The delivery state is honest: 'sent' (in the log or in the answer to Send)
\* is only ever said of a message a client accepted, 'delivered' and 'read'
\* only of one the broker has (mark_delivered, apply_*_receipt, Response::Sent).
StateHonest ==
    \A i \in Id :
        /\ log[i] = "sent" \/ pc[i] = "sent" => i \in handed
        /\ log[i] \in {"delivered", "read"} => i \in broker \cap handed

\* A row shown as 'pending' is one the pump will still try: the only holes are
\* a thread between insert_outbound_log and enqueue_outbound, and a message
\* whose enqueue never happened (an error or a death exactly there).
PendingIsQueued ==
    \A i \in Id : log[i] = "pending" => outbox[i] # 0 \/ pc[i] \in {"logged", "orphan"}

\* How far the message i has come, for Handoff.
Phase(i) == IF i \in handed THEN "handed" ELSE IF outbox[i] # 0 THEN "queued" ELSE "new"
H == INSTANCE Handoff WITH phase <- [i \in Id |-> Phase(i)], state <- log

\* The outgoing path implements Handoff: every step of every thread is a step
\* of the abstract message life cycle or leaves it alone.
ImplementsHandoff == H!Spec

\* REQ-0016, "An outbound message issued while the broker is down is delivered
\* after reconnection": if the daemon ends up connected for good, every row
\* leaves the outbox (the pump thread, spawn_outbox_pump).
OutboxDrains ==
    <>[]Connected => \A i \in Id : outbox[i] # 0 ~> outbox[i] = 0

=============================================================================
