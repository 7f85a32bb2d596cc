------------------------------ MODULE Delivery ------------------------------
(***************************************************************************)
(* Two daemons and the broker between them: direct messages one way, their *)
(* delivery and read receipts the other, over the same outbox, client and  *)
(* session.  Outbox and Inbox look inside one daemon; here its outgoing    *)
(* path is what Handoff promises of it, its ingest one step per message,   *)
(* and the subject is what happens between them:                           *)
(*                                                                         *)
(*   outbox row --Hand--> channel --Take--> client --BrokerReceives-->     *)
(*   queue of the peer's session --Deliver--> events --Ingest--> store     *)
(*                                                                         *)
(* The session is persistent (clean_session(false)), but its client id is  *)
(* name-pid, so a restarted daemon has another session; rumqttc            *)
(* acknowledges a PUBLISH when it reads it, not when the callback is done. *)
(* Sets instead of queues: republishing already reorders.                  *)
(***************************************************************************)
EXTENDS Integers, FiniteSets, Sequences, SequencesExt

CONSTANTS
    Agents,
    Msgs,           \* direct messages
    From, To,       \* sender and recipient of each
    ClientCap,      \* capacity of a client's request channel: Client::new(opts, 64)
    MaxFaults       \* bound, by the number of messages sent before: crashes, Disconnects,
                    \* lost connections, discarded sessions, failing statements and items
                    \* grown stale, together

\* What travels: a message or one of its receipts, and who sends it to whom.
Item == Msgs \X {"message", "delivered", "read"}
Src(i) == IF i[2] = "message" THEN From[i[1]] ELSE To[i[1]]
Dst(i) == IF i[2] = "message" THEN To[i[1]] ELSE From[i[1]]

ASSUME PeersAssumption ==
    /\ From \in [Msgs -> Agents] /\ To \in [Msgs -> Agents]
    /\ \A m \in Msgs : From[m] # To[m]
ASSUME CapAssumption == ClientCap \in Nat \ {0}
ASSUME FaultsAssumption == IsFiniteSet(Msgs) /\ MaxFaults \in [0..Cardinality(Msgs) -> Nat]

VARIABLES
    table,      \* delivery_state of each message in its sender's store
    rows,       \* inbound rows of each agent's store, in the order of their seq
    cursor,     \* number of those rows its reader has acknowledged
    named,      \* messages some Ack named
    outbox,     \* items with an outbox row (in the store of Src)
    chan,       \* items in the request channel of each daemon's client
    client,     \* items the client has taken from it, not yet acknowledged
    link,       \* its event loop: "off" (no Mqtt), "down" (backoff), "acked" (ConnAck, in
                \* the call of subscribe), "subscribing" (SUBSCRIBE in the channel), "up"
    session,    \* the broker's session for its client id: "none", "open", "subscribed"
    queue,      \* items in that session
    events,     \* items the client has read and acknowledged, callback not yet run
    stale,      \* items older than freshness_secs
    lost,       \* history: items that met one of the losses named in the actions
    faults      \* number of faults so far

vars == <<table, rows, cursor, named, outbox, chan, client, link, session, queue,
          events, stale, lost, faults>>
stores == <<table, rows, cursor, named, outbox>>
net == <<chan, client, link, session, queue, events>>

Sent == {m \in Msgs : table[m] # "absent"}
Fault == faults < MaxFaults[Cardinality(Sent)] /\ faults' = faults + 1

Init ==
    /\ table = [m \in Msgs |-> "absent"]
    /\ rows = [n \in Agents |-> <<>>] /\ cursor = [n \in Agents |-> 0]
    /\ named = {} /\ outbox = {} /\ stale = {} /\ lost = {}
    /\ chan = [n \in Agents |-> {}] /\ client = [n \in Agents |-> {}]
    /\ link = [n \in Agents |-> "off"]
    /\ session = [n \in Agents |-> "none"]
    /\ queue = [n \in Agents |-> {}] /\ events = [n \in Agents |-> {}]
    /\ faults = 0

Stored(m) == m \in Range(rows[To[m]])

\* connected, as the threads that publish see it; the event loop is in its iterator.
Connected(n) == link[n] \in {"acked", "subscribing", "up"}
Polls(n) == link[n] \in {"subscribing", "up"}
\* Room in the channel, where a SUBSCRIBE takes a slot of its own.
HasRoom(n) == Cardinality(chan[n]) + (IF link[n] = "subscribing" THEN 1 ELSE 0) < ClientCap

-----------------------------------------------------------------------------
(* Requests of users.                                                      *)

\* enqueue_outbound, for a message after its log row (send) or for a receipt
\* (enqueue_receipt, best effort): an error, or a death before the statement,
\* leaves no outbox row.
Enqueue(i) ==
    \/ outbox' = outbox \cup {i} /\ UNCHANGED <<lost, faults>>
    \/ lost' = lost \cup {i} /\ Fault /\ UNCHANGED outbox

\* send: log row, then outbox row.
Submit(m) ==
    /\ table[m] = "absent" /\ faults <= MaxFaults[Cardinality(Sent) + 1]
    /\ table' = [table EXCEPT ![m] = "pending"]
    /\ Enqueue(<<m, "message">>)
    /\ UNCHANGED <<rows, cursor, named, net, stale>>

\* Request::Ack of some row: the cursor passes it and all before it, and
\* maybe_read_receipt answers for it alone.  (Bound: no row is named twice.)
Ack(n, p) ==
    /\ p \in 1..Len(rows[n]) /\ rows[n][p] \notin named
    /\ cursor' = [cursor EXCEPT ![n] = IF p > @ THEN p ELSE @]
    /\ named' = named \cup {rows[n][p]}
    /\ Enqueue(<<rows[n][p], "read">>)
    /\ UNCHANGED <<table, rows, net, stale>>

-----------------------------------------------------------------------------
(* From the outbox to the broker.                                          *)

\* The request's own thread or the pump: publish_on, then mark_delivered,
\* which sets 'sent' and then deletes the row; a failure of either leaves the
\* row to be published again.  publish blocks while the channel is full.
Hand(i) ==
    /\ i \in outbox /\ Connected(Src(i)) /\ HasRoom(Src(i))
    /\ chan' = [chan EXCEPT ![Src(i)] = @ \cup {i}]
    /\ LET sent == IF i[2] = "message" /\ table[i[1]] = "pending"
                   THEN [table EXCEPT ![i[1]] = "sent"] ELSE table
       IN \/ table' = sent /\ outbox' = outbox \ {i} /\ UNCHANGED faults
          \/ table' \in {table, sent} /\ Fault /\ UNCHANGED outbox
    /\ UNCHANGED <<rows, cursor, named, client, link, session, queue, events, stale, lost>>

\* The event loop takes a request from the channel and writes it to the network.
Take(i) ==
    /\ i \in chan[Src(i)] /\ Polls(Src(i))
    /\ chan' = [chan EXCEPT ![Src(i)] = @ \ {i}]
    /\ client' = [client EXCEPT ![Src(i)] = @ \cup {i}]
    /\ UNCHANGED <<stores, link, session, queue, events, stale, lost, faults>>

\* A poll error: the client keeps, for the next connection, what was not
\* acknowledged and what it drains from the channel.
Sever(n) ==
    /\ link' = [link EXCEPT ![n] = "down"] /\ Fault
    /\ client' = [client EXCEPT ![n] = @ \cup chan[n]]
    /\ chan' = [chan EXCEPT ![n] = {}]

\* Mutation of Route: every subscriber of the topic queues it, the sender too.
Route_Echo(i) ==
    /\ queue' = [n \in Agents |-> IF session[n] = "subscribed" THEN queue[n] \cup {i} ELSE queue[n]]
    /\ lost' = IF session[Dst(i)] = "subscribed" THEN lost ELSE lost \cup {i}

\* The broker queues a PUBLISH for a session that has subscribed, present or
\* not.  (The sender's own copy is ignored on arrival and left out here.)
Route(i) ==
    IF session[Dst(i)] = "subscribed"
    THEN queue' = [queue EXCEPT ![Dst(i)] = @ \cup {i}] /\ UNCHANGED lost
    ELSE lost' = lost \cup {i} /\ UNCHANGED queue

\* A PUBLISH reaches the broker; its PUBACK comes back, or the connection
\* breaks before and the client keeps the item to send it again.
BrokerReceives(i) ==
    /\ i \in client[Src(i)] /\ Polls(Src(i))
    /\ Route(i)
    /\ \/ client' = [client EXCEPT ![Src(i)] = @ \ {i}] /\ UNCHANGED <<chan, link, faults>>
       \/ Sever(Src(i))
    /\ UNCHANGED <<stores, session, events, stale>>

\* rumqttc reads a PUBLISH, queues it for the iterator and acknowledges it at
\* once; the broker forgets it, or the connection breaks before the PUBACK
\* arrives and the broker will send it again.
Deliver(i) ==
    /\ i \in queue[Dst(i)] /\ Polls(Dst(i))
    /\ events' = [events EXCEPT ![Dst(i)] = @ \cup {i}]
    /\ \/ queue' = [queue EXCEPT ![Dst(i)] = @ \ {i}] /\ UNCHANGED <<chan, client, link, faults>>
       \/ Sever(Dst(i)) /\ UNCHANGED queue
    /\ UNCHANGED <<stores, session, stale, lost>>

-----------------------------------------------------------------------------
(* The callback.                                                           *)

\* Mutation of StoreMessage: the receipt does not wait for insert_inbound.
StoreMessage_ReceiptFirst(m) ==
    /\ \/ Stored(m) /\ UNCHANGED <<rows, lost, faults>>
       \/ ~Stored(m) /\ rows' = [rows EXCEPT ![To[m]] = Append(@, m)] /\ UNCHANGED <<lost, faults>>
       \/ ~Stored(m) /\ lost' = lost \cup {<<m, "message">>} /\ Fault /\ UNCHANGED rows
    /\ outbox' = outbox \cup {<<m, "delivered">>}
    /\ UNCHANGED table

\* insert_inbound: Ok(None) for an id it has, otherwise a row and a delivery
\* receipt; an error, or a panic caught by the event loop, drops the message.
StoreMessage(m) ==
    /\ \/ Stored(m) /\ UNCHANGED <<rows, outbox, lost, faults>>
       \/ /\ ~Stored(m)
          /\ rows' = [rows EXCEPT ![To[m]] = Append(@, m)]
          /\ Enqueue(<<m, "delivered">>)
       \/ /\ ~Stored(m)
          /\ lost' = lost \cup {<<m, "message">>} /\ Fault
          /\ UNCHANGED <<rows, outbox>>
    /\ UNCHANGED table

\* apply_delivery_receipt (not over 'read') and apply_read_receipt.  on_message
\* applies the receipt of any trusted sender for the id it carries; here every
\* agent is honest, and only the recipient of a message answers for it.
ApplyReceipt(i) ==
    /\ \/ /\ table' = IF table[i[1]] = "read" THEN table ELSE [table EXCEPT ![i[1]] = i[2]]
          /\ UNCHANGED <<lost, faults>>
       \/ lost' = lost \cup {i} /\ Fault /\ UNCHANGED table
    /\ UNCHANGED <<rows, outbox>>

\* The event loop takes a PUBLISH and runs on_message: a stale item is
\* rejected whatever it is, a message stored, a receipt applied.
Ingest(i) ==
    /\ i \in events[Dst(i)] /\ Polls(Dst(i))
    /\ events' = [events EXCEPT ![Dst(i)] = @ \ {i}]
    /\ IF i \in stale THEN lost' = lost \cup {i} /\ UNCHANGED <<table, rows, outbox, faults>>
       ELSE IF i[2] = "message" THEN StoreMessage(i[1])
       ELSE ApplyReceipt(i)
    /\ UNCHANGED <<cursor, named, chan, client, link, session, queue, stale>>

-----------------------------------------------------------------------------
(* Sessions.                                                               *)

\* Daemon::connect, from a request or at startup.
Connect(n) ==
    /\ link[n] = "off"
    /\ link' = [link EXCEPT ![n] = "down"]
    /\ UNCHANGED <<stores, chan, client, session, queue, events, stale, lost, faults>>

\* Mutation of ConnAck: a clean session.
ConnAck_Clean(n) ==
    /\ link[n] = "down"
    /\ link' = [link EXCEPT ![n] = "acked"]
    /\ session' = [session EXCEPT ![n] = "open"]
    /\ queue' = [queue EXCEPT ![n] = {}]
    /\ UNCHANGED <<stores, chan, client, events, stale, lost, faults>>

\* Mutation of ConnAck: the event loop does not come back after an error.
ConnAck_Once(n) ==
    /\ link[n] = "down" /\ session[n] = "none"
    /\ link' = [link EXCEPT ![n] = "acked"]
    /\ session' = [session EXCEPT ![n] = "open"]
    /\ UNCHANGED <<stores, chan, client, queue, events, stale, lost, faults>>

\* The iterator (re)connects and the broker resumes the session of this client
\* id or opens one; a client that is told of a new session drops what it had
\* not got acknowledged.
ConnAck(n) ==
    /\ link[n] = "down"
    /\ link' = [link EXCEPT ![n] = "acked"]
    /\ IF session[n] = "none"
       THEN /\ session' = [session EXCEPT ![n] = "open"]
            /\ client' = [client EXCEPT ![n] = {}]
            /\ lost' = lost \cup client[n]
       ELSE UNCHANGED <<session, client, lost>>
    /\ UNCHANGED <<stores, chan, queue, events, stale, faults>>

\* The ConnAck arm of the event loop calls subscribe: a blocking send into the
\* channel that only this thread drains.
QueueSubscribe(n) ==
    /\ link[n] = "acked" /\ HasRoom(n)
    /\ link' = [link EXCEPT ![n] = "subscribing"]
    /\ UNCHANGED <<stores, chan, client, session, queue, events, stale, lost, faults>>

\* The SUBSCRIBE is taken from the channel and reaches the broker.
Subscribe(n) ==
    /\ link[n] = "subscribing"
    /\ link' = [link EXCEPT ![n] = "up"]
    /\ session' = [session EXCEPT ![n] = "subscribed"]
    /\ UNCHANGED <<stores, chan, client, queue, events, stale, lost, faults>>

ConnectionLost(n) ==
    /\ Polls(n) /\ Sever(n)
    /\ UNCHANGED <<stores, session, queue, events, stale, lost>>

\* What the event loop held when it ended is gone: it breaks out before it
\* looks at the next event, acknowledged or not.  (A loop blocked in subscribe
\* does not end, but nothing it holds gets anywhere either.)
Discard(n) ==
    /\ link' = [link EXCEPT ![n] = "off"]
    /\ chan' = [chan EXCEPT ![n] = {}] /\ client' = [client EXCEPT ![n] = {}]
    /\ events' = [events EXCEPT ![n] = {}]

\* Daemon::disconnect; the same process will resume the session.
Disconnect(n) ==
    /\ link[n] # "off" /\ Fault
    /\ Discard(n)
    /\ lost' = lost \cup chan[n] \cup client[n] \cup events[n]
    /\ UNCHANGED <<stores, session, queue, stale>>

\* The daemon dies or is shut down; its next client id names another session.
Crash(n) ==
    /\ Fault
    /\ Discard(n)
    /\ session' = [session EXCEPT ![n] = "none"]
    /\ queue' = [queue EXCEPT ![n] = {}]
    /\ lost' = lost \cup chan[n] \cup client[n] \cup events[n] \cup queue[n]
    /\ UNCHANGED <<stores, stale>>

\* The broker discards the session of an absent client (expiry, a restart).
Forget(n) ==
    /\ link[n] \in {"off", "down"} /\ session[n] # "none" /\ Fault
    /\ session' = [session EXCEPT ![n] = "none"]
    /\ queue' = [queue EXCEPT ![n] = {}]
    /\ lost' = lost \cup queue[n]
    /\ UNCHANGED <<stores, chan, client, link, events, stale>>

\* An item on its way becomes older than freshness_secs.
Age(i) ==
    /\ i \notin stale /\ Fault
    /\ i \in outbox \cup chan[Src(i)] \cup client[Src(i)] \cup queue[Dst(i)] \cup events[Dst(i)]
    /\ stale' = stale \cup {i}
    /\ UNCHANGED <<stores, net, lost>>

-----------------------------------------------------------------------------
Carry(i) == Hand(i) \/ Take(i) \/ BrokerReceives(i) \/ Deliver(i) \/ Ingest(i)
Link(n) == ConnAck(n) \/ QueueSubscribe(n) \/ Subscribe(n)

Next ==
    \/ \E m \in Msgs : Submit(m)
    \/ \E n \in Agents : \E p \in 1..Len(rows[n]) : Ack(n, p)
    \/ \E i \in Item : Carry(i) \/ Age(i)
    \/ \E n \in Agents : \/ Link(n) \/ Connect(n) \/ ConnectionLost(n)
                         \/ Disconnect(n) \/ Crash(n) \/ Forget(n)

Spec == Init /\ [][Next]_vars

\* The pump wakes up every second, an event loop that is not blocked polls and
\* reconnects, a reachable broker forwards and answers.  Nobody has to send,
\* read, connect.
Fairness ==
    /\ \A i \in Item : /\ WF_vars(Hand(i)) /\ WF_vars(Take(i)) /\ WF_vars(BrokerReceives(i))
                       /\ WF_vars(Deliver(i)) /\ WF_vars(Ingest(i))
    /\ \A n \in Agents : WF_vars(ConnAck(n)) /\ WF_vars(QueueSubscribe(n)) /\ WF_vars(Subscribe(n))

FairSpec == Spec /\ Fairness

-----------------------------------------------------------------------------
(* Properties.                                                             *)

\* Types of the variables; a client and its channel hold what its agent sends, a
\* session and its events what the agent is sent (own echoes never get that far).
TypeOK ==
    /\ table \in [Msgs -> {"absent", "pending", "sent", "delivered", "read"}]
    /\ rows \in [Agents -> Seq(Msgs)] /\ cursor \in [Agents -> Nat]
    /\ named \subseteq Msgs /\ faults \in Nat
    /\ outbox \subseteq Item /\ stale \subseteq Item /\ lost \subseteq Item
    /\ link \in [Agents -> {"off", "down", "acked", "subscribing", "up"}]
    /\ session \in [Agents -> {"none", "open", "subscribed"}]
    /\ chan \in [Agents -> SUBSET Item] /\ client \in [Agents -> SUBSET Item]
    /\ queue \in [Agents -> SUBSET Item] /\ events \in [Agents -> SUBSET Item]
    /\ \A n \in Agents : /\ \A i \in chan[n] \cup client[n] : Src(i) = n
                         /\ \A i \in queue[n] \cup events[n] : Dst(i) = n

Passed(m) == \E p \in 1..cursor[To[m]] : rows[To[m]][p] = m
Phase(m) ==
    IF table[m] = "absent" THEN "new"
    ELSE IF Passed(m) THEN "passed" ELSE IF Stored(m) THEN "stored" ELSE "submitted"

C == INSTANCE Conversation WITH phase <- [m \in Msgs |-> Phase(m)], shown <- table

\* Every step of two daemons, the broker and their faults is a step of a
\* Conversation: 'delivered' is shown only of a message the peer has stored and
\* 'read' only of one its reader's cursor has passed, however messages and
\* receipts are repeated, reordered or lost.
ImplementsConversation == C!Spec

Issued(i) ==
    CASE i[2] = "message" -> table[i[1]] # "absent"
      [] i[2] = "delivered" -> Stored(i[1])
      [] i[2] = "read" -> i[1] \in named
Arrived(i) ==
    CASE i[2] = "message" -> Stored(i[1])
      [] i[2] = "delivered" -> table[i[1]] \in {"delivered", "read"}
      [] i[2] = "read" -> table[i[1]] = "read"
OnItsWay(i) ==
    i \in outbox \cup chan[Src(i)] \cup client[Src(i)] \cup queue[Dst(i)] \cup events[Dst(i)]

\* REQ-0033: the persistent session carries messages over a lost connection.
\* A message or a receipt that has not arrived is in the outbox, the client or
\* its channel, the broker's queue or the receiving client, unless it met one
\* of: a crash or a Disconnect while a client held it (or, for a crash, while the
\* session with the old client id queued it), a session not yet subscribed or
\* discarded by the broker, an age over freshness_secs, a failing statement.  A
\* lost connection by itself, in either direction, at any moment, loses nothing.
AccountedFor == \A i \in Item : Issued(i) => Arrived(i) \/ OnItsWay(i) \/ i \in lost

\* The event loop waits in subscribe for a slot that only it could free.
Blocked(n) == link[n] = "acked" /\ ~HasRoom(n)

\* REQ-0016 and REQ-0034 end to end: when both daemons keep a session and
\* neither event loop has blocked itself, whatever is submitted is in the end
\* shown as delivered, unless the message or its delivery receipt met one of
\* those losses.  (OutboxBackpressure shows that an event loop does block.)
EventuallyConfirmed ==
    <>[](\A n \in Agents : link[n] # "off" /\ ~Blocked(n)) =>
        \A m \in Msgs :
            table[m] # "absent" ~> \/ table[m] \in {"delivered", "read"}
                                   \/ {<<m, "message">>, <<m, "delivered">>} \cap lost # {}
=============================================================================
