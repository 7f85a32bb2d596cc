--------------------------- MODULE DeliveryProofs ---------------------------
(***************************************************************************)
(* Proofs about Delivery, for any agents, any messages between them and    *)
(* any number of faults.                                                   *)
(***************************************************************************)
EXTENDS Delivery, TLAPS

(* The inductive invariant: TypeOK and the parts below.                    *)

\* A store holds rows of messages sent to its agent, and its cursor is on one.
RowsAddressed ==
    \A n \in Agents :
        /\ cursor[n] <= Len(rows[n])
        /\ \A p \in 1..Len(rows[n]) : To[rows[n][p]] = n

\* What is on its way, stored or shown has its cause: a message was submitted, a
\* delivery receipt follows a stored row and a read receipt a passed one.
Causality ==
    \A m \in Msgs :
        /\ OnItsWay(<<m, "message">>) \/ Stored(m) => table[m] # "absent"
        /\ OnItsWay(<<m, "delivered">>) \/ table[m] \in {"delivered", "read"} => Stored(m)
        /\ OnItsWay(<<m, "read">>) \/ table[m] = "read" => Passed(m)

IInv == TypeOK /\ RowsAddressed /\ Causality /\ AccountedFor

-----------------------------------------------------------------------------
(* Type correctness.                                                       *)

\* An item has an agent at either end.
LEMMA Ends == \A i \in Item : Src(i) \in Agents /\ Dst(i) \in Agents
BY PeersAssumption DEF Item, Src, Dst

\* Before anything is sent the state is well typed.
LEMMA InitType == Init => TypeOK
BY DEF Init, TypeOK

(* TypeOK in three parts, which different actions disturb.                  *)
StoresOK ==
    /\ table \in [Msgs -> {"absent", "pending", "sent", "delivered", "read"}]
    /\ rows \in [Agents -> Seq(Msgs)] /\ cursor \in [Agents -> Nat]
    /\ named \subseteq Msgs /\ faults \in Nat
    /\ outbox \subseteq Item /\ stale \subseteq Item /\ lost \subseteq Item
NetOK ==
    /\ link \in [Agents -> {"off", "down", "acked", "subscribing", "up"}]
    /\ session \in [Agents -> {"none", "open", "subscribed"}]
    /\ chan \in [Agents -> SUBSET Item] /\ client \in [Agents -> SUBSET Item]
    /\ queue \in [Agents -> SUBSET Item] /\ events \in [Agents -> SUBSET Item]
HeldByEnds ==
    \A n \in Agents : /\ \A i \in chan[n] \cup client[n] : Src(i) = n
                      /\ \A i \in queue[n] \cup events[n] : Dst(i) = n

\* The three parts together are TypeOK.
LEMMA TypeParts == TypeOK <=> StoresOK /\ NetOK /\ HeldByEnds
BY DEF TypeOK, StoresOK, NetOK, HeldByEnds

\* Storing a message keeps the tables well typed, whether it is new or not and
\* whichever statement fails.
LEMMA StoreMessageType ==
    ASSUME StoresOK, NEW m \in Msgs, StoreMessage(m)
    PROVE  /\ rows' \in [Agents -> Seq(Msgs)] /\ table' = table
           /\ outbox' \subseteq Item /\ lost' \subseteq Item /\ faults' \in Nat
<1>1. To[m] \in Agents /\ <<m, "message">> \in Item /\ <<m, "delivered">> \in Item
  BY PeersAssumption DEF Item
<1>2. rows' = rows \/ rows' = [rows EXCEPT ![To[m]] = Append(rows[To[m]], m)]
  BY DEF StoreMessage
<1>3. Append(rows[To[m]], m) \in Seq(Msgs)
  BY <1>1 DEF StoresOK
<1>4. rows' \in [Agents -> Seq(Msgs)]
  BY <1>2, <1>3 DEF StoresOK
<1>5. faults' = faults \/ faults' = faults + 1
  BY DEF StoreMessage, Enqueue, Fault
<1>6. /\ outbox' = outbox \/ outbox' = outbox \cup {<<m, "delivered">>}
      /\ \/ lost' = lost \/ lost' = lost \cup {<<m, "message">>}
         \/ lost' = lost \cup {<<m, "delivered">>}
      /\ table' = table
  BY DEF StoreMessage, Enqueue
<1>7. faults' \in Nat
  BY <1>5 DEF StoresOK
<1>8. outbox' \subseteq Item /\ lost' \subseteq Item
  BY <1>1, <1>6, Zenon DEF StoresOK
<1> QED
  BY <1>4, <1>6, <1>7, <1>8

\* Every step keeps the stores well typed.
LEMMA NextStores == TypeOK /\ [Next]_vars => StoresOK'
<1> SUFFICES ASSUME StoresOK, NetOK, [Next]_vars PROVE StoresOK'
  BY TypeParts
<1> USE DEF StoresOK, stores, net, Fault
<1>1. ASSUME NEW m \in Msgs, Submit(m) PROVE StoresOK'
  BY <1>1 DEF Submit, Enqueue, Item
<1>2. ASSUME NEW n \in Agents, NEW p \in 1..Len(rows[n]), Ack(n, p) PROVE StoresOK'
  <2>1. rows[n][p] \in Msgs
    OBVIOUS
  <2> QED
    BY <1>2, <2>1 DEF Ack, Enqueue, Item
<1>3. ASSUME NEW i \in Item, Hand(i) PROVE StoresOK'
  BY <1>3 DEF Hand, Item
<1>4. ASSUME NEW i \in Item, Take(i) \/ BrokerReceives(i) PROVE StoresOK'
  BY <1>4 DEF Take, BrokerReceives, Route, Sever
<1>5. ASSUME NEW i \in Item, Deliver(i) \/ Age(i) PROVE StoresOK'
  BY <1>5 DEF Deliver, Sever, Age
<1>6. ASSUME NEW i \in Item, Ingest(i) PROVE StoresOK'
  <2>1. i[1] \in Msgs /\ To[i[1]] \in Agents
    BY PeersAssumption DEF Item
  <2>2. CASE i \in stale
    BY <1>6, <2>2 DEF Ingest
  <2>3. CASE i \notin stale /\ i[2] = "message"
    <3>1. StoreMessage(i[1]) /\ UNCHANGED <<cursor, named, stale>>
      BY <1>6, <2>3 DEF Ingest
    <3> QED
      BY <2>1, <3>1, StoreMessageType
  <2>4. CASE i \notin stale /\ i[2] # "message"
    <3>1. i[2] \in {"delivered", "read"}
      BY <2>4 DEF Item
    <3> QED
      BY SMTT(30), <1>6, <2>1, <2>4, <3>1 DEF Ingest, ApplyReceipt
  <2> QED
    BY <2>2, <2>3, <2>4
<1>7. ASSUME NEW n \in Agents, Link(n) \/ Connect(n) \/ ConnectionLost(n) PROVE StoresOK'
  BY <1>7 DEF NetOK, Link, ConnAck, QueueSubscribe, Subscribe, Connect, ConnectionLost, Sever
<1>8. ASSUME NEW n \in Agents, Disconnect(n) \/ Crash(n) \/ Forget(n) PROVE StoresOK'
  BY <1>8 DEF NetOK, Disconnect, Crash, Forget, Discard
<1>9. CASE UNCHANGED vars
  BY <1>9 DEF vars
<1> QED
  BY <1>1, <1>2, <1>3, <1>4, <1>5, <1>6, <1>7, <1>8, <1>9 DEF Next, Carry

\* Every step keeps the clients and sessions well typed.
LEMMA NextNet == TypeOK /\ [Next]_vars => NetOK'
<1> SUFFICES ASSUME NetOK, [Next]_vars PROVE NetOK'
  BY TypeParts
<1> USE Ends DEF NetOK, net
<1>1. ASSUME NEW i \in Item, Hand(i) \/ Take(i) \/ BrokerReceives(i) \/ Deliver(i) PROVE NetOK'
  BY <1>1 DEF Hand, Take, BrokerReceives, Deliver, Route, Sever
<1>2. ASSUME NEW i \in Item, Ingest(i) PROVE NetOK'
  BY <1>2 DEF Ingest
<1>3. ASSUME NEW n \in Agents, Link(n) \/ Connect(n) \/ ConnectionLost(n) PROVE NetOK'
  BY <1>3 DEF Link, ConnAck, QueueSubscribe, Subscribe, Connect, ConnectionLost, Sever
<1>4. ASSUME NEW n \in Agents, Disconnect(n) \/ Crash(n) \/ Forget(n) PROVE NetOK'
  BY <1>4 DEF Disconnect, Crash, Forget, Discard
<1>5. CASE UNCHANGED net
  BY <1>5
<1> QED
  BY <1>1, <1>2, <1>3, <1>4, <1>5 DEF Next, Carry, Submit, Ack, Age, vars

\* No step gives a client or a session an item of somebody else.
LEMMA NextHeld == TypeOK /\ [Next]_vars => HeldByEnds'
<1> SUFFICES ASSUME NetOK, HeldByEnds, [Next]_vars PROVE HeldByEnds'
  BY TypeParts
<1> USE Ends DEF NetOK, HeldByEnds, net
<1>1. ASSUME NEW i \in Item, Hand(i) \/ Take(i) \/ BrokerReceives(i) \/ Deliver(i) PROVE HeldByEnds'
  BY <1>1 DEF Hand, Take, BrokerReceives, Deliver, Route, Sever
<1>2. ASSUME NEW i \in Item, Ingest(i) PROVE HeldByEnds'
  BY <1>2 DEF Ingest
<1>3. ASSUME NEW n \in Agents, Link(n) \/ Connect(n) \/ ConnectionLost(n) PROVE HeldByEnds'
  BY <1>3 DEF Link, ConnAck, QueueSubscribe, Subscribe, Connect, ConnectionLost, Sever
<1>4. ASSUME NEW n \in Agents, Disconnect(n) \/ Crash(n) \/ Forget(n) PROVE HeldByEnds'
  BY <1>4 DEF Disconnect, Crash, Forget, Discard
<1>5. CASE UNCHANGED net
  BY <1>5
<1> QED
  BY <1>1, <1>2, <1>3, <1>4, <1>5 DEF Next, Carry, Submit, Ack, Age, vars

\* Every step of a daemon, the broker or a user keeps the state well typed.
LEMMA NextType == TypeOK /\ [Next]_vars => TypeOK'
BY NextStores, NextNet, NextHeld, TypeParts DEF StoresOK, NetOK, HeldByEnds, TypeOK

\* Type correctness: every reachable state of two daemons and the broker is well typed,
\* and no client or session ever holds an item of somebody else.
THEOREM TypeCorrect == Spec => []TypeOK
BY InitType, NextType, PTL DEF Spec

-----------------------------------------------------------------------------
(* What one step may do to the tables and to an item on its way.            *)

\* The items of a message, and what Issued and Arrived say of each.
LEMMA ItemsOf ==
    ASSUME NEW m \in Msgs
    PROVE  /\ <<m, "message">> \in Item /\ Src(<<m, "message">>) = From[m] /\ Dst(<<m, "message">>) = To[m]
           /\ <<m, "delivered">> \in Item /\ Src(<<m, "delivered">>) = To[m] /\ Dst(<<m, "delivered">>) = From[m]
           /\ <<m, "read">> \in Item /\ Src(<<m, "read">>) = To[m] /\ Dst(<<m, "read">>) = From[m]
           /\ From[m] \in Agents /\ To[m] \in Agents
BY PeersAssumption DEF Item, Src, Dst

\* A message is stored when some row of its recipient's store is its row.
LEMMA StoredIsRow ==
    ASSUME StoresOK, NEW m \in Msgs
    PROVE  Stored(m) <=> \E p \in 1..Len(rows[To[m]]) : rows[To[m]][p] = m
<1>1. rows[To[m]] \in Seq(Msgs)
  BY ItemsOf DEF StoresOK
<1> QED
  BY <1>1 DEF Stored, Range

\* insert_inbound is the only writer of inbound rows, Ack of the cursor: a step appends
\* one new row of a message on its way, moves one cursor forward to a row, or neither.
LEMMA RowsStep ==
    ASSUME TypeOK, [Next]_vars
    PROVE  \/ rows' = rows /\ cursor' = cursor
           \/ /\ cursor' = cursor /\ table' = table
              /\ \E m \in Msgs : /\ <<m, "message">> \in events[To[m]] /\ ~Stored(m)
                                 /\ rows' = [rows EXCEPT ![To[m]] = Append(rows[To[m]], m)]
                                 /\ <<m, "delivered">> \in outbox' \cup lost'
           \/ /\ rows' = rows /\ table' = table
              /\ \E n \in Agents : \E p \in 1..Len(rows[n]) :
                    cursor' = [cursor EXCEPT ![n] = IF p > cursor[n] THEN p ELSE cursor[n]]
<1> USE DEF stores
<1>1. ASSUME NEW i \in Item, Ingest(i), rows' # rows
      PROVE  /\ cursor' = cursor /\ table' = table
             /\ \E m \in Msgs : /\ <<m, "message">> \in events[To[m]] /\ ~Stored(m)
                                /\ rows' = [rows EXCEPT ![To[m]] = Append(rows[To[m]], m)]
                                /\ <<m, "delivered">> \in outbox' \cup lost'
  <2>1. PICK m \in Msgs, k \in {"message", "delivered", "read"} : i = <<m, k>>
    BY DEF Item
  <2>2. k = "message" /\ StoreMessage(m) /\ cursor' = cursor
    BY <1>1, <2>1 DEF Ingest, ApplyReceipt
  <2>3. <<m, "message">> \in events[To[m]]
    BY <1>1, <2>1, <2>2, ItemsOf DEF Ingest
  <2>4. /\ ~Stored(m) /\ rows' = [rows EXCEPT ![To[m]] = Append(rows[To[m]], m)]
        /\ Enqueue(<<m, "delivered">>) /\ table' = table
    BY <1>1, <2>2 DEF StoreMessage
  <2>5. <<m, "delivered">> \in outbox' \cup lost'
    BY <2>4 DEF Enqueue
  <2> QED
    BY <2>2, <2>3, <2>4, <2>5
<1>2. ASSUME NEW i \in Item, Ingest(i) PROVE cursor' = cursor
  BY <1>2 DEF Ingest
<1>3. ASSUME NEW n \in Agents, NEW p \in 1..Len(rows[n]), Ack(n, p)
      PROVE  /\ rows' = rows /\ table' = table
             /\ cursor' = [cursor EXCEPT ![n] = IF p > cursor[n] THEN p ELSE cursor[n]]
  BY <1>3 DEF Ack
<1>4. ASSUME NEW i \in Item, Hand(i) \/ Take(i) \/ BrokerReceives(i) \/ Deliver(i) \/ Age(i)
      PROVE  rows' = rows /\ cursor' = cursor
  BY <1>4 DEF Hand, Take, BrokerReceives, Deliver, Age
<1>5. ASSUME NEW n \in Agents, Link(n) \/ Connect(n) \/ ConnectionLost(n)
      PROVE  rows' = rows /\ cursor' = cursor
  BY <1>5 DEF Link, ConnAck, QueueSubscribe, Subscribe, Connect, ConnectionLost, Sever
<1>6. ASSUME NEW n \in Agents, Disconnect(n) \/ Crash(n) \/ Forget(n)
      PROVE  rows' = rows /\ cursor' = cursor
  BY <1>6 DEF Disconnect, Crash, Forget
<1>7. ASSUME NEW m \in Msgs, Submit(m) PROVE rows' = rows /\ cursor' = cursor
  BY <1>7 DEF Submit
<1>8. CASE UNCHANGED vars
  BY <1>8 DEF vars
<1> QED
  BY <1>1, <1>2, <1>3, <1>4, <1>5, <1>6, <1>7, <1>8 DEF Next, Carry

\* The delivery state of a message only moves along send, mark_delivered and the two
\* receipts, each of which is on its way when it is applied.
LEMMA TableStep ==
    ASSUME TypeOK, [Next]_vars, NEW m \in Msgs
    PROVE  \/ table'[m] = table[m]
           \/ table[m] = "absent" /\ table'[m] = "pending" /\ <<m, "message">> \in outbox' \cup lost'
           \/ table[m] = "pending" /\ table'[m] = "sent"
           \/ table[m] # "read" /\ table'[m] = "delivered" /\ <<m, "delivered">> \in events[From[m]]
           \/ table[m] # "read" /\ table'[m] = "read" /\ <<m, "read">> \in events[From[m]]
<1>t. table \in [Msgs -> {"absent", "pending", "sent", "delivered", "read"}]
  BY DEF TypeOK
<1> USE DEF stores
<1>1. ASSUME NEW o \in Msgs, Submit(o)
      PROVE  \/ table'[m] = table[m]
             \/ table[m] = "absent" /\ table'[m] = "pending" /\ <<m, "message">> \in outbox' \cup lost'
  BY <1>1, <1>t DEF Submit, Enqueue
<1>2. ASSUME NEW i \in Item, Hand(i)
      PROVE  table'[m] = table[m] \/ (table[m] = "pending" /\ table'[m] = "sent")
  BY <1>2, <1>t DEF Hand
<1>3. ASSUME NEW i \in Item, Ingest(i), table'[m] # table[m]
      PROVE  \/ table[m] # "read" /\ table'[m] = "delivered" /\ <<m, "delivered">> \in events[From[m]]
             \/ table[m] # "read" /\ table'[m] = "read" /\ <<m, "read">> \in events[From[m]]
  <2>1. PICK o \in Msgs, k \in {"message", "delivered", "read"} : i = <<o, k>>
    BY DEF Item
  <2>2. k # "message" /\ ApplyReceipt(i)
    BY <1>3, <2>1 DEF Ingest, StoreMessage
  <2>3. table[o] # "read" /\ table' = [table EXCEPT ![o] = k]
    BY <1>3, <2>1, <2>2 DEF ApplyReceipt
  <2>4. o = m /\ table'[m] = k
    BY <1>3, <1>t, <2>3
  <2>5. i \in events[From[m]]
    BY <1>3, <2>1, <2>2, <2>4, ItemsOf DEF Ingest
  <2> QED
    BY <2>1, <2>2, <2>3, <2>4, <2>5
<1>4. ASSUME NEW i \in Item, Take(i) \/ BrokerReceives(i) \/ Deliver(i) \/ Age(i) PROVE table' = table
  BY <1>4 DEF Take, BrokerReceives, Deliver, Age
<1>5. ASSUME NEW n \in Agents, Link(n) \/ Connect(n) \/ ConnectionLost(n) PROVE table' = table
  BY <1>5 DEF Link, ConnAck, QueueSubscribe, Subscribe, Connect, ConnectionLost, Sever
<1>6. ASSUME NEW n \in Agents, Disconnect(n) \/ Crash(n) \/ Forget(n) PROVE table' = table
  BY <1>6 DEF Disconnect, Crash, Forget
<1>7. ASSUME NEW n \in Agents, NEW p \in 1..Len(rows[n]), Ack(n, p) PROVE table' = table
  BY <1>7 DEF Ack
<1>8. CASE UNCHANGED vars
  BY <1>8 DEF vars
<1> QED
  BY <1>1, <1>2, <1>3, <1>4, <1>5, <1>6, <1>7, <1>8 DEF Next, Carry

\* A row appended to a store is the row of its message and no other.
LEMMA AppendStores ==
    ASSUME StoresOK, NEW m \in Msgs, rows' = [rows EXCEPT ![To[m]] = Append(rows[To[m]], m)]
    PROVE  /\ Len(rows'[To[m]]) = Len(rows[To[m]]) + 1
           /\ rows'[To[m]][Len(rows[To[m]]) + 1] = m
           /\ \A p \in 1..Len(rows[To[m]]) : rows'[To[m]][p] = rows[To[m]][p]
           /\ \A n \in Agents : n # To[m] => rows'[n] = rows[n]
<1>1. To[m] \in Agents /\ rows[To[m]] \in Seq(Msgs)
  BY ItemsOf DEF StoresOK
<1>2. rows'[To[m]] = Append(rows[To[m]], m) /\ \A n \in Agents : n # To[m] => rows'[n] = rows[n]
  BY <1>1 DEF StoresOK
<1> QED
  BY <1>1, <1>2

\* The message of an appended row is stored.
LEMMA AppendedIsStored ==
    ASSUME StoresOK, StoresOK', NEW m \in Msgs,
           rows' = [rows EXCEPT ![To[m]] = Append(rows[To[m]], m)]
    PROVE  Stored(m)'
<1>1. rows'[To[m]] \in Seq(Msgs) /\ Len(rows[To[m]]) \in Nat
  BY ItemsOf DEF StoresOK
<1>2. Len(rows'[To[m]]) = Len(rows[To[m]]) + 1 /\ rows'[To[m]][Len(rows[To[m]]) + 1] = m
  BY AppendStores
<1>3. Len(rows[To[m]]) + 1 \in 1..Len(rows'[To[m]])
  BY <1>1, <1>2
<1> QED
  BY <1>1, <1>2, <1>3 DEF Stored, Range

\* A row appended for one message does not store another.
LEMMA OnlyStored ==
    ASSUME StoresOK, StoresOK', NEW m \in Msgs, NEW o \in Msgs, o # m,
           rows' = [rows EXCEPT ![To[m]] = Append(rows[To[m]], m)]
    PROVE  Stored(o)' <=> Stored(o)
<1>1. rows[To[o]] \in Seq(Msgs) /\ rows'[To[o]] \in Seq(Msgs) /\ To[o] \in Agents
  BY ItemsOf DEF StoresOK
<1>2. CASE To[o] # To[m]
  BY <1>1, <1>2, AppendStores DEF Stored
<1>3. CASE To[o] = To[m]
  <2>1. /\ Len(rows'[To[m]]) = Len(rows[To[m]]) + 1
        /\ rows'[To[m]][Len(rows[To[m]]) + 1] = m
        /\ \A p \in 1..Len(rows[To[m]]) : rows'[To[m]][p] = rows[To[m]][p]
    BY AppendStores
  <2>2. /\ Len(rows'[To[o]]) = Len(rows[To[o]]) + 1
        /\ rows'[To[o]][Len(rows[To[o]]) + 1] = m
        /\ \A p \in 1..Len(rows[To[o]]) : rows'[To[o]][p] = rows[To[o]][p]
    BY <1>3, <2>1, Zenon
  <2>3. Stored(o)' <=> \E p \in 1..Len(rows'[To[o]]) : rows'[To[o]][p] = o
    BY <1>1 DEF Stored, Range
  <2>4. Stored(o) <=> \E p \in 1..Len(rows[To[o]]) : rows[To[o]][p] = o
    BY <1>1 DEF Stored, Range
  <2>5. Len(rows[To[o]]) \in Nat
    BY <1>1
  <2> QED
    BY <2>2, <2>3, <2>4, <2>5
<1> QED
  BY <1>2, <1>3

\* Nothing but insert_inbound stores a message, and only one on its way; a row is never
\* taken back (retention is in Inbox).
LEMMA StoredStep ==
    ASSUME TypeOK, [Next]_vars, NEW m \in Msgs
    PROVE  /\ Stored(m) => Stored(m)'
           /\ Stored(m)' => \/ Stored(m)
                            \/ /\ <<m, "message">> \in events[To[m]] /\ table' = table
                               /\ <<m, "delivered">> \in outbox' \cup lost'
<1>1. StoresOK /\ StoresOK' /\ To[m] \in Agents
  BY TypeParts, NextStores, ItemsOf
<1>2. Stored(m) <=> \E p \in 1..Len(rows[To[m]]) : rows[To[m]][p] = m
  BY <1>1, StoredIsRow
<1>3. Stored(m)' <=> \E p \in 1..Len(rows'[To[m]]) : rows'[To[m]][p] = m
  <2>1. rows'[To[m]] \in Seq(Msgs)
    BY <1>1 DEF StoresOK
  <2> QED
    BY <2>1 DEF Stored, Range
<1>4. CASE rows' = rows
  BY <1>2, <1>3, <1>4
<1>5. CASE rows' # rows
  <2>1. PICK o \in Msgs : /\ <<o, "message">> \in events[To[o]] /\ table' = table
                          /\ rows' = [rows EXCEPT ![To[o]] = Append(rows[To[o]], o)]
                          /\ <<o, "delivered">> \in outbox' \cup lost'
    BY <1>5, RowsStep
  <2>2. CASE To[o] # To[m]
    <3>1. rows'[To[m]] = rows[To[m]]
      BY <1>1, <2>1, <2>2, AppendStores
    <3> QED
      BY <1>2, <1>3, <3>1
  <2>3. CASE To[o] = To[m]
    <3>1. /\ Len(rows'[To[m]]) = Len(rows[To[m]]) + 1
          /\ rows'[To[m]][Len(rows[To[m]]) + 1] = o
          /\ \A p \in 1..Len(rows[To[m]]) : rows'[To[m]][p] = rows[To[m]][p]
      <4>1. /\ Len(rows'[To[o]]) = Len(rows[To[o]]) + 1
            /\ rows'[To[o]][Len(rows[To[o]]) + 1] = o
            /\ \A p \in 1..Len(rows[To[o]]) : rows'[To[o]][p] = rows[To[o]][p]
        BY <1>1, <2>1, AppendStores
      <4> QED
        BY <2>3, <4>1, Zenon
    <3>2. Len(rows[To[m]]) \in Nat
      BY <1>1 DEF StoresOK
    <3>3. Stored(m) => Stored(m)'
      BY <1>2, <1>3, <3>1, <3>2
    <3>4. ASSUME NEW p \in 1..Len(rows'[To[m]]), rows'[To[m]][p] = m PROVE Stored(m) \/ m = o
      <4>1. p \in 1..Len(rows[To[m]]) \/ p = Len(rows[To[m]]) + 1
        BY <3>1, <3>2
      <4> QED
        BY <1>2, <3>1, <3>4, <4>1
    <3> QED
      BY <1>3, <2>1, <3>3, <3>4
  <2> QED
    BY <2>2, <2>3
<1> QED
  BY <1>4, <1>5

\* The store an agent reads from keeps rows of its own messages below its cursor.
LEMMA NextRows == TypeOK /\ RowsAddressed /\ [Next]_vars => RowsAddressed'
<1> SUFFICES ASSUME TypeOK, RowsAddressed, [Next]_vars, NEW n \in Agents
             PROVE  /\ cursor'[n] <= Len(rows'[n])
                    /\ \A p \in 1..Len(rows'[n]) : To[rows'[n][p]] = n
  BY DEF RowsAddressed
<1>1. StoresOK /\ cursor[n] \in Nat /\ rows[n] \in Seq(Msgs) /\ Len(rows[n]) \in Nat
  BY TypeParts DEF StoresOK
<1>2. cursor[n] <= Len(rows[n]) /\ \A p \in 1..Len(rows[n]) : To[rows[n][p]] = n
  BY DEF RowsAddressed
<1>3. CASE rows' = rows /\ cursor' = cursor
  BY <1>2, <1>3
<1>4. ASSUME NEW m \in Msgs, rows' = [rows EXCEPT ![To[m]] = Append(rows[To[m]], m)], cursor' = cursor
      PROVE  /\ cursor'[n] <= Len(rows'[n])
             /\ \A p \in 1..Len(rows'[n]) : To[rows'[n][p]] = n
  <2>1. CASE n # To[m]
    BY <1>1, <1>2, <1>4, <2>1, AppendStores
  <2>2. CASE n = To[m]
    <3>1. /\ Len(rows'[n]) = Len(rows[n]) + 1
          /\ rows'[n][Len(rows[n]) + 1] = m
          /\ \A p \in 1..Len(rows[n]) : rows'[n][p] = rows[n][p]
      <4>1. /\ Len(rows'[To[m]]) = Len(rows[To[m]]) + 1
            /\ rows'[To[m]][Len(rows[To[m]]) + 1] = m
            /\ \A p \in 1..Len(rows[To[m]]) : rows'[To[m]][p] = rows[To[m]][p]
        BY <1>1, <1>4, AppendStores, Zenon
      <4> QED
        BY <2>2, <4>1, Zenon
    <3> QED
      BY <1>1, <1>2, <1>4, <2>2, <3>1
  <2> QED
    BY <2>1, <2>2
<1>5. ASSUME rows' = rows, NEW a \in Agents, NEW q \in 1..Len(rows[a]),
             cursor' = [cursor EXCEPT ![a] = IF q > cursor[a] THEN q ELSE cursor[a]]
      PROVE  /\ cursor'[n] <= Len(rows'[n])
             /\ \A p \in 1..Len(rows'[n]) : To[rows'[n][p]] = n
  BY <1>1, <1>2, <1>5 DEF StoresOK
<1> QED
  BY <1>3, <1>4, <1>5, RowsStep

\* A cursor passes stored rows only.
LEMMA PassedIsStored == ASSUME TypeOK, RowsAddressed, NEW m \in Msgs, Passed(m) PROVE Stored(m)
<1>1. StoresOK /\ To[m] \in Agents
  BY TypeParts, ItemsOf
<1> QED
  BY <1>1, StoredIsRow DEF Passed, RowsAddressed, StoresOK

\* A cursor never goes back, so a message it has passed stays passed.
LEMMA PassedStep ==
    ASSUME TypeOK, RowsAddressed, [Next]_vars, NEW m \in Msgs, Passed(m)
    PROVE  Passed(m)'
<1>1. StoresOK /\ To[m] \in Agents
  BY TypeParts, ItemsOf
<1>2. PICK p \in 1..cursor[To[m]] : rows[To[m]][p] = m
  BY DEF Passed
<1>3. p \in 1..Len(rows[To[m]]) /\ cursor[To[m]] \in Nat
  BY <1>1 DEF RowsAddressed, StoresOK
<1>4. rows'[To[m]][p] = m
  <2>1. CASE rows' = rows
    BY <1>2, <2>1
  <2>2. ASSUME NEW o \in Msgs, rows' = [rows EXCEPT ![To[o]] = Append(rows[To[o]], o)]
        PROVE  rows'[To[m]][p] = rows[To[m]][p]
    <3>1. /\ \A k \in 1..Len(rows[To[o]]) : rows'[To[o]][k] = rows[To[o]][k]
          /\ \A n \in Agents : n # To[o] => rows'[n] = rows[n]
      BY <1>1, <2>2, AppendStores, Zenon
    <3>2. CASE To[o] = To[m]
      BY <1>3, <3>1, <3>2, Zenon
    <3>3. CASE To[o] # To[m]
      BY <1>1, <3>1, <3>3, Zenon
    <3> QED
      BY <3>2, <3>3
  <2> QED
    BY <1>2, <2>1, <2>2, RowsStep
<1>5. cursor'[To[m]] \in Nat /\ cursor'[To[m]] >= cursor[To[m]]
  BY <1>1, <1>3, RowsStep DEF StoresOK
<1> QED
  BY <1>3, <1>4, <1>5 DEF Passed

-----------------------------------------------------------------------------
(* Causes and losses.                                                      *)

\* Nothing appears on its way but what send, insert_inbound and maybe_read_receipt put
\* into an outbox: the client, the broker and the event loop only move items.
LEMMA Enters ==
    ASSUME TypeOK, RowsAddressed, [Next]_vars, NEW i \in Item, OnItsWay(i)', ~OnItsWay(i)
    PROVE  \/ \E m \in Msgs : i = <<m, "message">> /\ Submit(m)
           \/ \E m \in Msgs : i = <<m, "delivered">> /\ Stored(m)'
           \/ \E m \in Msgs : i = <<m, "read">> /\ Passed(m)'
<1>1. Src(i) \in Agents /\ Dst(i) \in Agents
  BY Ends
<1>2. StoresOK /\ NetOK
  BY TypeParts
<1> USE DEF OnItsWay, stores, net
<1>3. ASSUME NEW m \in Msgs, Submit(m) PROVE i = <<m, "message">>
  BY <1>3 DEF Submit, Enqueue
<1>4. ASSUME NEW n \in Agents, NEW p \in 1..Len(rows[n]), Ack(n, p)
      PROVE  \E m \in Msgs : i = <<m, "read">> /\ Passed(m)'
  <2>1. i = <<rows[n][p], "read">>
    BY <1>4 DEF Ack, Enqueue
  <2>2. rows[n][p] \in Msgs /\ To[rows[n][p]] = n /\ cursor[n] \in Nat
    BY <1>2 DEF StoresOK, RowsAddressed
  <2>3. rows' = rows /\ cursor'[n] \in Nat /\ p <= cursor'[n]
    BY <1>2, <1>4, <2>2 DEF Ack, StoresOK
  <2>4. p \in 1..cursor'[n]
    BY <2>3
  <2> QED
    BY <2>1, <2>2, <2>3, <2>4 DEF Passed
<1>5. ASSUME NEW j \in Item, Hand(j) \/ Take(j) \/ BrokerReceives(j) \/ Deliver(j) \/ Age(j) PROVE FALSE
  BY <1>1, <1>2, <1>5, Ends DEF NetOK, Hand, Take, BrokerReceives, Route, Deliver, Age, Sever
<1>6. ASSUME NEW j \in Item, Ingest(j)
      PROVE  \E m \in Msgs : i = <<m, "delivered">> /\ Stored(m)'
  <2>1. PICK m \in Msgs, k \in {"message", "delivered", "read"} : j = <<m, k>>
    BY DEF Item
  <2>2. i \in outbox' /\ i \notin outbox
    BY <1>1, <1>2, <1>6, Ends DEF Ingest, NetOK
  <2>3. k = "message" /\ StoreMessage(m)
    BY <1>6, <2>1, <2>2 DEF Ingest, ApplyReceipt
  <2>4. i = <<m, "delivered">> /\ rows' = [rows EXCEPT ![To[m]] = Append(rows[To[m]], m)]
    BY <2>2, <2>3 DEF StoreMessage, Enqueue
  <2>5. Stored(m)'
    BY <1>2, <2>4, NextStores, AppendedIsStored
  <2> QED
    BY <2>4, <2>5
<1>7. ASSUME NEW n \in Agents, Link(n) \/ Connect(n) \/ ConnectionLost(n) PROVE FALSE
  BY <1>1, <1>2, <1>7 DEF NetOK, Link, ConnAck, QueueSubscribe, Subscribe, Connect, ConnectionLost, Sever
<1>8. ASSUME NEW n \in Agents, Disconnect(n) \/ Crash(n) \/ Forget(n) PROVE FALSE
  BY <1>1, <1>2, <1>8 DEF NetOK, Disconnect, Crash, Forget, Discard
<1>9. CASE UNCHANGED vars
  BY <1>9 DEF vars
<1> HIDE DEF OnItsWay, stores, net
<1> QED
  BY <1>3, <1>4, <1>5, <1>6, <1>7, <1>8, <1>9 DEF Next, Carry

\* An item leaves its way only by arriving or by one of the recorded losses: no lost
\* connection, repeated PUBLISH or failing statement drops it silently.
LEMMA Leaves ==
    ASSUME TypeOK, [Next]_vars, NEW i \in Item, OnItsWay(i)
    PROVE  OnItsWay(i)' \/ i \in lost' \/ Arrived(i)'
<1>1. Src(i) \in Agents /\ Dst(i) \in Agents
  BY Ends
<1>2. NetOK
  BY TypeParts
<1> USE DEF OnItsWay, stores, net
<1>3. ASSUME NEW m \in Msgs, Submit(m) PROVE OnItsWay(i)'
  BY <1>3 DEF Submit, Enqueue
<1>4. ASSUME NEW n \in Agents, NEW p \in 1..Len(rows[n]), Ack(n, p) PROVE OnItsWay(i)'
  BY <1>4 DEF Ack, Enqueue
<1>5. ASSUME NEW j \in Item, Hand(j) \/ Take(j) \/ BrokerReceives(j) \/ Deliver(j) \/ Age(j)
      PROVE  OnItsWay(i)' \/ i \in lost'
  BY <1>1, <1>2, <1>5, Ends DEF NetOK, Hand, Take, BrokerReceives, Route, Deliver, Age, Sever
<1>6. ASSUME NEW j \in Item, Ingest(j), ~OnItsWay(i)', i \notin lost' PROVE Arrived(i)'
  <2>1. PICK m \in Msgs, k \in {"message", "delivered", "read"} : j = <<m, k>>
    BY DEF Item
  <2>2. outbox \subseteq outbox' /\ chan' = chan /\ client' = client /\ queue' = queue
    BY <1>6 DEF Ingest, StoreMessage, Enqueue, ApplyReceipt
  <2>3. i \in events[Dst(i)] /\ i \notin events'[Dst(i)]
    BY <1>6, <2>2
  <2>4. i = j
    BY <1>1, <1>2, <1>6, <2>3, Ends DEF Ingest, NetOK
  <2>5. i \notin stale
    BY <1>6, <2>4 DEF Ingest
  <2>6. CASE k = "message"
    <3>1. StoreMessage(m)
      BY <1>6, <2>1, <2>4, <2>5, <2>6 DEF Ingest
    <3>2. Stored(m)'
      <4>1. CASE Stored(m)
        BY <4>1, StoredStep
      <4>2. CASE rows' = [rows EXCEPT ![To[m]] = Append(rows[To[m]], m)]
        BY <4>2, NextStores, TypeParts, AppendedIsStored
      <4> QED
        BY <1>6, <2>1, <2>4, <2>6, <3>1, <4>1, <4>2 DEF StoreMessage
    <3> QED
      BY <2>1, <2>4, <2>6, <3>2 DEF Arrived
  <2>7. CASE k # "message"
    <3>1. ApplyReceipt(i)
      BY <1>6, <2>1, <2>4, <2>5, <2>7 DEF Ingest
    <3>2. table'[m] = "read" \/ table'[m] = k
      BY <1>6, <2>1, <2>4, <3>1 DEF ApplyReceipt, TypeOK
    <3> QED
      BY <2>1, <2>4, <2>7, <3>2 DEF Arrived
  <2> QED
    BY <2>6, <2>7
<1>7. ASSUME NEW n \in Agents, Link(n) \/ Connect(n) \/ ConnectionLost(n)
      PROVE  OnItsWay(i)' \/ i \in lost'
  BY <1>1, <1>2, <1>7 DEF NetOK, Link, ConnAck, QueueSubscribe, Subscribe, Connect, ConnectionLost, Sever
<1>8. ASSUME NEW n \in Agents, Disconnect(n) \/ Crash(n) \/ Forget(n)
      PROVE  OnItsWay(i)' \/ i \in lost'
  BY <1>1, <1>2, <1>8 DEF NetOK, Disconnect, Crash, Forget, Discard
<1>9. CASE UNCHANGED vars
  BY <1>9 DEF vars
<1> QED
  BY <1>3, <1>4, <1>5, <1>6, <1>7, <1>8, <1>9 DEF Next, Carry

\* Causes stay: whatever is on its way, stored or shown after a step was caused.
LEMMA NextCausality == TypeOK /\ RowsAddressed /\ Causality /\ [Next]_vars => Causality'
<1> SUFFICES ASSUME TypeOK, RowsAddressed, Causality, [Next]_vars, NEW m \in Msgs
             PROVE  /\ OnItsWay(<<m, "message">>)' \/ Stored(m)' => table'[m] # "absent"
                    /\ OnItsWay(<<m, "delivered">>)' \/ table'[m] \in {"delivered", "read"} => Stored(m)'
                    /\ OnItsWay(<<m, "read">>)' \/ table'[m] = "read" => Passed(m)'
  BY DEF Causality
<1>1. /\ OnItsWay(<<m, "message">>) \/ Stored(m) => table[m] # "absent"
      /\ OnItsWay(<<m, "delivered">>) \/ table[m] \in {"delivered", "read"} => Stored(m)
      /\ OnItsWay(<<m, "read">>) \/ table[m] = "read" => Passed(m)
  BY DEF Causality
<1>2. /\ table[m] # "absent" => table'[m] # "absent"
      /\ Stored(m) => Stored(m)'
      /\ Passed(m) => Passed(m)'
  BY TableStep, StoredStep, PassedStep
<1>3. ASSUME OnItsWay(<<m, "message">>)' PROVE table'[m] # "absent"
  <2>1. CASE OnItsWay(<<m, "message">>)
    BY <1>1, <1>2, <2>1
  <2>2. CASE ~OnItsWay(<<m, "message">>)
    <3>1. \E o \in Msgs : <<m, "message">> = <<o, "message">> /\ Submit(o)
      BY <1>3, <2>2, ItemsOf, Enters
    <3>2. Submit(m)
      BY <3>1
    <3> QED
      BY <3>2 DEF Submit, TypeOK
  <2> QED
    BY <2>1, <2>2
<1>4. ASSUME OnItsWay(<<m, "delivered">>)' PROVE Stored(m)'
  <2>1. CASE OnItsWay(<<m, "delivered">>)
    BY <1>1, <1>2, <2>1
  <2>2. CASE ~OnItsWay(<<m, "delivered">>)
    <3>1. \E o \in Msgs : <<m, "delivered">> = <<o, "delivered">> /\ Stored(o)'
      BY <1>4, <2>2, ItemsOf, Enters
    <3> QED
      BY <3>1
  <2> QED
    BY <2>1, <2>2
<1>5. ASSUME OnItsWay(<<m, "read">>)' PROVE Passed(m)'
  <2>1. CASE OnItsWay(<<m, "read">>)
    BY <1>1, <1>2, <2>1
  <2>2. CASE ~OnItsWay(<<m, "read">>)
    <3>1. \E o \in Msgs : <<m, "read">> = <<o, "read">> /\ Passed(o)'
      BY <1>5, <2>2, ItemsOf, Enters
    <3> QED
      BY <3>1
  <2> QED
    BY <2>1, <2>2
<1>6. /\ <<m, "message">> \in events[To[m]] => OnItsWay(<<m, "message">>)
      /\ <<m, "delivered">> \in events[From[m]] => OnItsWay(<<m, "delivered">>)
      /\ <<m, "read">> \in events[From[m]] => OnItsWay(<<m, "read">>)
  BY ItemsOf DEF OnItsWay
<1>7. Stored(m)' => table'[m] # "absent"
  BY <1>1, <1>2, <1>6, StoredStep
<1>8. Passed(m) => Stored(m)
  BY PassedIsStored
<1>9. /\ table'[m] \in {"delivered", "read"} => Stored(m)'
      /\ table'[m] = "read" => Passed(m)'
  BY <1>1, <1>2, <1>6, <1>8, TableStep
<1> QED
  BY <1>3, <1>4, <1>5, <1>7, <1>9

\* What has arrived has arrived for good: receipts are never taken back, and a
\* repeated or reordered one does not lower what the sender is shown.
LEMMA ArrivedStays == ASSUME TypeOK, [Next]_vars, NEW i \in Item, Arrived(i) PROVE Arrived(i)'
<1>1. PICK m \in Msgs, k \in {"message", "delivered", "read"} : i = <<m, k>>
  BY DEF Item
<1>2. CASE k = "message"
  BY <1>1, <1>2, StoredStep DEF Arrived
<1>3. CASE k = "delivered"
  BY <1>1, <1>3, TableStep DEF Arrived
<1>4. CASE k = "read"
  BY <1>1, <1>4, TableStep DEF Arrived
<1> QED
  BY <1>2, <1>3, <1>4

\* A loss is recorded once and for all.
LEMMA LostStays == [Next]_vars => lost \subseteq lost'
<1> SUFFICES ASSUME [Next]_vars PROVE lost \subseteq lost'
  OBVIOUS
<1>1. ASSUME NEW i \in Item, Hand(i) \/ Take(i) \/ BrokerReceives(i) \/ Deliver(i) \/ Age(i)
      PROVE  lost \subseteq lost'
  BY <1>1 DEF Hand, Take, BrokerReceives, Route, Deliver, Age, Sever
<1>2. ASSUME NEW i \in Item, Ingest(i) PROVE lost \subseteq lost'
  BY <1>2 DEF Ingest, StoreMessage, Enqueue, ApplyReceipt
<1>3. ASSUME NEW n \in Agents, Link(n) \/ Connect(n) \/ ConnectionLost(n) PROVE lost \subseteq lost'
  BY <1>3 DEF Link, ConnAck, QueueSubscribe, Subscribe, Connect, ConnectionLost, Sever
<1>4. ASSUME NEW n \in Agents, Disconnect(n) \/ Crash(n) \/ Forget(n) PROVE lost \subseteq lost'
  BY <1>4 DEF Disconnect, Crash, Forget
<1>5. ASSUME NEW n \in Agents, NEW p \in 1..Len(rows[n]), Ack(n, p) PROVE lost \subseteq lost'
  BY <1>5 DEF Ack, Enqueue
<1>6. ASSUME NEW m \in Msgs, Submit(m) PROVE lost \subseteq lost'
  BY <1>6 DEF Submit, Enqueue
<1>7. CASE UNCHANGED vars
  BY <1>7 DEF vars
<1> QED
  BY <1>1, <1>2, <1>3, <1>4, <1>5, <1>6, <1>7 DEF Next, Carry

\* A read receipt is asked for by an Ack, which enqueues it or records its loss.
LEMMA NamedStep ==
    ASSUME TypeOK, [Next]_vars, NEW m \in named', m \notin named
    PROVE  <<m, "read">> \in outbox' \cup lost'
<1> USE DEF stores
<1>1. ASSUME NEW n \in Agents, NEW p \in 1..Len(rows[n]), Ack(n, p)
      PROVE  <<m, "read">> \in outbox' \cup lost'
  BY <1>1 DEF Ack, Enqueue
<1>2. ASSUME NEW i \in Item, Carry(i) \/ Age(i) PROVE named' = named
  BY <1>2 DEF Carry, Hand, Take, BrokerReceives, Deliver, Ingest, Age
<1>3. ASSUME NEW n \in Agents, Link(n) \/ Connect(n) \/ ConnectionLost(n) PROVE named' = named
  BY <1>3 DEF Link, ConnAck, QueueSubscribe, Subscribe, Connect, ConnectionLost, Sever
<1>4. ASSUME NEW n \in Agents, Disconnect(n) \/ Crash(n) \/ Forget(n) PROVE named' = named
  BY <1>4 DEF Disconnect, Crash, Forget
<1>5. ASSUME NEW o \in Msgs, Submit(o) PROVE named' = named
  BY <1>5 DEF Submit
<1>6. CASE UNCHANGED vars
  BY <1>6 DEF vars
<1> QED
  BY <1>1, <1>2, <1>3, <1>4, <1>5, <1>6 DEF Next

\* An item is issued by the step that puts it into an outbox or records its loss.
LEMMA IssuedStep ==
    ASSUME TypeOK, RowsAddressed, Causality, [Next]_vars, NEW i \in Item, Issued(i)', ~Issued(i)
    PROVE  OnItsWay(i)' \/ i \in lost'
<1>1. PICK m \in Msgs, k \in {"message", "delivered", "read"} : i = <<m, k>>
  BY DEF Item
<1>2. CASE k = "message"
  <2>1. table[m] = "absent" /\ table'[m] # "absent"
    BY <1>1, <1>2 DEF Issued
  <2>2. ~OnItsWay(<<m, "delivered">>) /\ ~OnItsWay(<<m, "read">>)
    <3>1. ~Stored(m)
      BY <2>1 DEF Causality
    <3>2. ~Passed(m)
      BY <3>1, PassedIsStored
    <3> QED
      BY <3>1, <3>2 DEF Causality
  <2>3. <<m, "delivered">> \notin events[From[m]] /\ <<m, "read">> \notin events[From[m]]
    BY <2>2, ItemsOf DEF OnItsWay
  <2>4. <<m, "message">> \in outbox' \cup lost'
    BY <2>1, <2>3, TableStep
  <2> QED
    BY <1>1, <1>2, <2>4 DEF OnItsWay
<1>3. CASE k = "delivered"
  <2>1. <<m, "delivered">> \in outbox' \cup lost'
    BY <1>1, <1>3, StoredStep DEF Issued
  <2> QED
    BY <1>1, <1>3, <2>1 DEF OnItsWay
<1>4. CASE k = "read"
  <2>1. <<m, "read">> \in outbox' \cup lost'
    <3>1. m \in named' /\ m \notin named
      BY <1>1, <1>4 DEF Issued
    <3> QED
      BY <3>1, NamedStep
  <2> QED
    BY <1>1, <1>4, <2>1 DEF OnItsWay
<1> QED
  BY <1>2, <1>3, <1>4

\* The inductive invariant holds before anything is sent.
LEMMA InitInv == Init => IInv
<1> SUFFICES ASSUME Init PROVE RowsAddressed /\ Causality /\ AccountedFor
  BY InitType DEF IInv
<1>1. RowsAddressed
  BY DEF Init, RowsAddressed
<1>2. \A m \in Msgs : ~Stored(m) /\ table[m] = "absent"
  BY PeersAssumption DEF Init, Stored, Range
<1>3. \A i \in Item : ~OnItsWay(i)
  BY Ends DEF Init, OnItsWay
<1>4. \A i \in Item : ~Issued(i)
  BY <1>2 DEF Init, Issued, Item
<1>5. Causality
  BY <1>2, <1>3, ItemsOf DEF Causality
<1> QED
  BY <1>1, <1>4, <1>5 DEF AccountedFor

\* The inductive invariant survives every step.
LEMMA NextInv == IInv /\ [Next]_vars => IInv'
<1> SUFFICES ASSUME IInv, [Next]_vars PROVE IInv'
  OBVIOUS
<1>1. TypeOK' /\ RowsAddressed' /\ Causality'
  BY NextType, NextRows, NextCausality DEF IInv
<1>2. ASSUME NEW i \in Item, Issued(i)' PROVE Arrived(i)' \/ OnItsWay(i)' \/ i \in lost'
  <2>1. CASE ~Issued(i)
    BY <1>2, <2>1, IssuedStep DEF IInv
  <2>2. CASE Issued(i)
    BY <2>2, ArrivedStays, Leaves, LostStays DEF IInv, AccountedFor
  <2> QED
    BY <2>1, <2>2
<1> QED
  BY <1>1, <1>2 DEF IInv, AccountedFor

\* Invariance: stores, clients and sessions keep the inductive invariant for ever.
THEOREM Invariance == Spec => []IInv
BY InitInv, NextInv, PTL DEF Spec

\* REQ-0033: for any agents, messages and faults, whatever was sent has arrived, is on
\* its way or met one of the losses the daemons and the broker can inflict.
THEOREM NothingUnaccounted == Spec => []AccountedFor
BY Invariance, PTL DEF IInv

-----------------------------------------------------------------------------
(* Two daemons and the broker implement Conversation.                       *)

\* What leaves every phase and every delivery state alone is invisible.
LEMMA Invisible ==
    ASSUME table' = table, \A m \in Msgs : Phase(m)' = Phase(m)
    PROVE  UNCHANGED C!cvars
BY DEF C!cvars

\* At most one message's delivery state changes in a step.
LEMMA OneTableRow ==
    ASSUME TypeOK, [Next]_vars
    PROVE  table' = table \/ \E m \in Msgs : \E v : table' = [table EXCEPT ![m] = v]
<1> USE DEF stores
<1>1. ASSUME NEW m \in Msgs, Submit(m) PROVE \E o \in Msgs : \E v : table' = [table EXCEPT ![o] = v]
  BY <1>1 DEF Submit
<1>2. ASSUME NEW i \in Item, Hand(i) \/ Ingest(i)
      PROVE  table' = table \/ \E m \in Msgs : \E v : table' = [table EXCEPT ![m] = v]
  <2>1. i[1] \in Msgs
    BY DEF Item
  <2>2. \/ table' = table \/ table' = [table EXCEPT ![i[1]] = "sent"]
        \/ table' = [table EXCEPT ![i[1]] = i[2]]
    BY <1>2 DEF Hand, Ingest, StoreMessage, ApplyReceipt
  <2> QED
    BY <2>1, <2>2
<1>3. ASSUME NEW i \in Item, Take(i) \/ BrokerReceives(i) \/ Deliver(i) \/ Age(i) PROVE table' = table
  BY <1>3 DEF Take, BrokerReceives, Deliver, Age
<1>4. ASSUME NEW n \in Agents, Link(n) \/ Connect(n) \/ ConnectionLost(n) PROVE table' = table
  BY <1>4 DEF Link, ConnAck, QueueSubscribe, Subscribe, Connect, ConnectionLost, Sever
<1>5. ASSUME NEW n \in Agents, Disconnect(n) \/ Crash(n) \/ Forget(n) PROVE table' = table
  BY <1>5 DEF Disconnect, Crash, Forget
<1>6. ASSUME NEW n \in Agents, NEW p \in 1..Len(rows[n]), Ack(n, p) PROVE table' = table
  BY <1>6 DEF Ack
<1>7. CASE UNCHANGED vars
  BY <1>7 DEF vars
<1> QED
  BY <1>1, <1>2, <1>3, <1>4, <1>5, <1>6, <1>7 DEF Next, Carry

\* insert_inbound of a new id is the one step that stores a submitted message.
LEMMA StoreIsStore ==
    ASSUME IInv, [Next]_vars, NEW m \in Msgs, ~Stored(m), <<m, "message">> \in events[To[m]],
           table' = table, cursor' = cursor,
           rows' = [rows EXCEPT ![To[m]] = Append(rows[To[m]], m)]
    PROVE  C!Next
<1>1. StoresOK /\ StoresOK' /\ TypeOK /\ RowsAddressed
  BY TypeParts, NextStores DEF IInv
<1>2. table[m] # "absent"
  BY ItemsOf DEF IInv, Causality, OnItsWay
<1>3. ASSUME NEW o \in Msgs PROVE Passed(o)' <=> Passed(o)
  <2>1. To[o] \in Agents /\ cursor[To[o]] \in Nat /\ cursor[To[o]] <= Len(rows[To[o]])
    BY <1>1, ItemsOf DEF RowsAddressed, StoresOK
  <2>2. \A p \in 1..Len(rows[To[o]]) : rows'[To[o]][p] = rows[To[o]][p]
    <3>1. CASE To[o] = To[m]
      <4>1. \A p \in 1..Len(rows[To[m]]) : rows'[To[m]][p] = rows[To[m]][p]
        BY <1>1, AppendStores
      <4> QED
        BY <3>1, <4>1, Zenon
    <3>2. CASE To[o] # To[m]
      BY <1>1, <2>1, <3>2, AppendStores
    <3> QED
      BY <3>1, <3>2
  <2>3. Len(rows[To[o]]) \in Nat
    BY <1>1, <2>1 DEF StoresOK
  <2>4. \A p \in 1..cursor[To[o]] : p \in 1..Len(rows[To[o]])
    BY <2>1, <2>3
  <2> QED
    BY <2>2, <2>4 DEF Passed
<1>4. ~Passed(m) /\ Stored(m)'
  BY <1>1, PassedIsStored, AppendedIsStored
<1>5. ASSUME NEW o \in Msgs, o # m PROVE Stored(o)' <=> Stored(o)
  BY <1>1, <1>5, OnlyStored
<1>6. Phase(m) = "submitted" /\ Phase(m)' = "stored"
  BY <1>2, <1>3, <1>4 DEF Phase
<1>7. \A o \in Msgs : o # m => Phase(o)' = Phase(o)
  BY <1>3, <1>5 DEF Phase
<1>8. C!Store(m)
  BY <1>6, <1>7 DEF C!Store
<1> QED
  BY <1>8 DEF C!Next

\* An Ack passes every stored message up to the row it names, or none that was not passed.
LEMMA AckIsPass ==
    ASSUME IInv, [Next]_vars, rows' = rows, table' = table
    PROVE  C!Next \/ UNCHANGED C!cvars
<1>1. TypeOK /\ RowsAddressed /\ TypeOK' /\ RowsAddressed'
  BY NextInv DEF IInv
<1>2. \A m \in Msgs : Stored(m)' <=> Stored(m)
  BY DEF Stored
<1>3. \A m \in Msgs : Passed(m) => Passed(m)'
  BY <1>1, PassedStep
<1>4. ASSUME NEW m \in Msgs, Passed(m)' PROVE Stored(m)
  <2>1. StoresOK /\ To[m] \in Agents
    BY <1>1, TypeParts, ItemsOf
  <2>2. cursor'[To[m]] \in Nat /\ cursor'[To[m]] <= Len(rows[To[m]])
    BY <1>1, <2>1 DEF RowsAddressed, TypeOK
  <2> QED
    BY <1>4, <2>1, <2>2, StoredIsRow DEF Passed, StoresOK
<1> DEFINE S == {m \in Msgs : Phase(m) = "stored" /\ Passed(m)'}
<1>5. \A m \in Msgs : Phase(m)' = IF m \in S THEN "passed" ELSE Phase(m)
  BY <1>2, <1>3, <1>4 DEF Phase
<1>6. CASE S = {}
  BY <1>5, <1>6, Invisible
<1>7. CASE S # {}
  <2>1. C!Pass(S)
    BY <1>5, <1>7 DEF C!Pass
  <2> QED
    BY <2>1 DEF C!Next
<1> QED
  BY <1>6, <1>7

\* send, mark_delivered and the receipts show the sender no more than is true.
LEMMA ShownIsTrue ==
    ASSUME IInv, [Next]_vars, rows' = rows, cursor' = cursor
    PROVE  C!Next \/ UNCHANGED C!cvars
<1>1. TypeOK /\ RowsAddressed
  BY DEF IInv
<1>2. \A m \in Msgs : (Stored(m)' <=> Stored(m)) /\ (Passed(m)' <=> Passed(m))
  BY DEF Stored, Passed
<1>3. CASE table' = table
  BY <1>2, <1>3, Invisible DEF Phase
<1>4. ASSUME NEW m \in Msgs, NEW v, table' = [table EXCEPT ![m] = v], table' # table
      PROVE  C!Next
  <2>1. table'[m] = v /\ v # table[m] /\ \A o \in Msgs : o # m => table'[o] = table[o]
    BY <1>1, <1>4 DEF TypeOK
  <2>2. \A o \in Msgs : o # m => Phase(o)' = Phase(o)
    BY <1>2, <2>1 DEF Phase
  <2>3. /\ Stored(m) => table[m] # "absent"
        /\ <<m, "delivered">> \in events[From[m]] => Stored(m)
        /\ <<m, "read">> \in events[From[m]] => Passed(m)
    BY ItemsOf DEF IInv, Causality, OnItsWay
  <2>4. Passed(m) => Stored(m)
    BY <1>1, PassedIsStored
  <2>5. CASE table[m] = "absent" /\ v = "pending"
    <3>1. Phase(m) = "new" /\ Phase(m)' = "submitted"
      BY <1>2, <2>1, <2>3, <2>4, <2>5 DEF Phase
    <3>2. C!Submit(m)
      BY <1>4, <2>2, <2>5, <3>1 DEF C!Submit
    <3> QED
      BY <3>2 DEF C!Next
  <2>6. CASE table[m] # "absent" /\ v # "absent"
    <3>1. \A o \in Msgs : Phase(o)' = Phase(o)
      BY <1>2, <2>1, <2>2, <2>6 DEF Phase
    <3>2. UNCHANGED [o \in Msgs |-> Phase(o)]
      BY <3>1
    <3>3. CASE table[m] = "pending" /\ v = "sent"
      BY <1>4, <3>2, <3>3 DEF C!ShowSent, C!Next
    <3>4. CASE table[m] # "read" /\ v = "delivered" /\ Stored(m)
      <4>1. Phase(m) \in {"stored", "passed"} /\ table[m] \in {"pending", "sent"}
        BY <1>1, <2>1, <2>6, <3>4 DEF Phase, TypeOK
      <4> QED
        BY <1>4, <3>2, <3>4, <4>1 DEF C!ShowDelivered, C!Next
    <3>5. CASE v = "read" /\ Passed(m)
      <4>1. Phase(m) = "passed"
        BY <2>6, <3>5 DEF Phase
      <4> QED
        BY <1>4, <3>2, <3>5, <4>1 DEF C!ShowRead, C!Next
    <3> QED
      BY <1>1, <2>1, <2>3, <2>6, <3>3, <3>4, <3>5, TableStep
  <2> QED
    BY <1>1, <2>1, <2>3, <2>4, <2>5, <2>6, TableStep
<1> QED
  BY <1>1, <1>3, <1>4, OneTableRow

\* No message is in a conversation when the daemons start.
LEMMA ConversationInit == Init => C!Init
BY DEF Init, C!Init, Phase

\* Every step of the daemons, the broker and their faults is a step of Conversation or
\* invisible to it.
LEMMA ConversationStep == IInv /\ [Next]_vars => [C!Next]_C!cvars
<1> SUFFICES ASSUME IInv, [Next]_vars PROVE C!Next \/ UNCHANGED C!cvars
  OBVIOUS
<1>1. CASE rows' = rows /\ cursor' = cursor
  BY <1>1, ShownIsTrue
<1>2. CASE rows' = rows /\ table' = table
  BY <1>2, AckIsPass
<1>3. CASE \E m \in Msgs : /\ <<m, "message">> \in events[To[m]] /\ ~Stored(m)
                           /\ rows' = [rows EXCEPT ![To[m]] = Append(rows[To[m]], m)]
                           /\ cursor' = cursor /\ table' = table
  BY <1>3, StoreIsStore
<1> QED
  BY <1>1, <1>2, <1>3, RowsStep DEF IInv

\* 'delivered' is shown only of a message its recipient stored and 'read' only of one its
\* reader's cursor passed: two daemons and the broker, with every repeated, reordered and
\* lost item, implement Conversation.
THEOREM Refinement == Spec => ImplementsConversation
BY Invariance, ConversationInit, ConversationStep, PTL DEF Spec, ImplementsConversation, C!Spec

=============================================================================
