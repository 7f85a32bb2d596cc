---------------------------- MODULE OutboxProofs ----------------------------
(***************************************************************************)
(* Proofs about Outbox, for any sets of messages, any channel capacity and *)
(* any number of sessions, crashes, lost connections and faults.           *)
(***************************************************************************)
EXTENDS Outbox, TLAPS

(* The inductive invariant: TypeOK and the parts below.                    *)

\* Until enqueue_outbound succeeds a message is in no table, no batch and no
\* channel but, at most, in the log.
FreshIsNew ==
    \A i \in Id :
        /\ ~Enqueued(i) => outbox[i] = 0 /\ i \notin handed /\ pump.batch[i] = 0
        /\ pc[i] = "idle" => log[i] = "absent"

\* Whoever is about to call mark_delivered holds a successful publish_on.
MarkersHonest ==
    /\ pump.at = "mark" => pump.item \in handed
    /\ \A i \in Id : pc[i] = "handed" => i \in handed

\* What is on its way to the broker, or there, was handed over.
WireHonest ==
    /\ \A s \in Session : \A t \in Publish : t \in chan[s] \cup inflight[s] => t[1] \in handed
    /\ broker \subseteq handed

IInv ==
    /\ TypeOK
    /\ OutboxDurable /\ StateHonest /\ PendingIsQueued
    /\ FreshIsNew /\ MarkersHonest /\ WireHonest

-----------------------------------------------------------------------------
(* Type correctness.                                                       *)

\* mark_delivered keeps the two tables well typed, for any id and whichever of
\* its statements take effect.
LEMMA MarkDeliveredType ==
    ASSUME TypeOK, NEW i \in Id \cup {NoId}, NEW steps \in 0..2, MarkDelivered(i, steps)
    PROVE  /\ log' \in [Id -> LogState] /\ outbox' \in [Id -> Nat]
           /\ lastRow' \in Nat /\ faults' \in Nat
<1> USE DEF TypeOK, LogState
<1>1. log' \in [Id -> LogState]
  BY DEF MarkDelivered
<1>2. outbox' \in [Id -> Nat]
  BY DEF MarkDelivered
<1>3. lastRow' \in Nat /\ faults' \in Nat
  BY DEF MarkDelivered
<1> QED
  BY <1>1, <1>2, <1>3

\* A daemon that has just started is well typed.
LEMMA InitType == Init => TypeOK
BY BoundsAssumption DEF Init, TypeOK, IdlePump, LogState, Pc, LoopState

\* Every step of every thread keeps the state well typed.
LEMMA NextType == TypeOK /\ [Next]_vars => TypeOK'
<1> SUFFICES ASSUME TypeOK, [Next]_vars PROVE TypeOK'
  OBVIOUS
<1> USE DEF TypeOK, LogState, Pc, LoopState, store, net, counters
<1>1. ASSUME NEW i \in Id, InsertOutboundLog(i) PROVE TypeOK'
  BY <1>1 DEF InsertOutboundLog
<1>2. ASSUME NEW i \in Id, EnqueueOutbound(i) PROVE TypeOK'
  BY <1>2 DEF EnqueueOutbound
<1>3. ASSUME NEW i \in Id, EnqueueFails(i) PROVE TypeOK'
  BY <1>3 DEF EnqueueFails
<1>4. ASSUME NEW i \in Id, CloneClient(i) PROVE TypeOK'
  BY <1>4 DEF CloneClient, NotPublished
<1>5. ASSUME NEW i \in Id, PublishNow(i) PROVE TypeOK'
  BY <1>5 DEF PublishNow, NotPublished, Accepts, Token, Publish
<1>6. ASSUME NEW i \in Id, MarkSent(i) PROVE TypeOK'
  <2>1. PICK steps \in 0..2 : MarkDelivered(i, steps)
    BY <1>6 DEF MarkSent
  <2>2. /\ log' \in [Id -> LogState] /\ outbox' \in [Id -> Nat]
        /\ lastRow' \in Nat /\ faults' \in Nat
    BY <2>1, MarkDeliveredType
  <2> QED
    BY <1>6, <2>2 DEF MarkSent
<1>7. ASSUME PumpClient PROVE TypeOK'
  BY <1>7 DEF PumpClient
<1>8. ASSUME PumpSnapshot PROVE TypeOK'
  <2>1. CASE pump' = IdlePump
    <3>1. faults' \in Nat
      BY <1>8 DEF PumpSnapshot
    <3> QED
      BY <1>8, <2>1, <3>1 DEF PumpSnapshot, IdlePump
  <2>2. CASE pump' = [pump EXCEPT !.at = "publish", !.batch = outbox] /\ faults' = faults
    BY <1>8, <2>2 DEF PumpSnapshot
  <2> QED
    BY <1>8, <2>1, <2>2 DEF PumpSnapshot
<1>9. ASSUME NEW i \in Id, PumpPublish(i) PROVE TypeOK'
  <2> USE DEF Token, Publish
  <2>1. /\ [pump.batch EXCEPT ![i] = 0] \in [Id -> Nat]
        /\ \/ pump' = [pump EXCEPT !.at = "mark", !.item = i,
                                  !.batch = [pump.batch EXCEPT ![i] = 0]]
           \/ pump' = [pump EXCEPT !.batch = [pump.batch EXCEPT ![i] = 0]]
    BY <1>9 DEF PumpPublish
  <2>2. chan' \in [Session -> SUBSET Token]
    BY <1>9 DEF PumpPublish
  <2>3. pump' \in [at : {"idle", "snapshot", "publish", "mark"},
                  session : Session \cup {0}, batch : [Id -> Nat], item : Id \cup {NoId}]
    BY <2>1, ZenonT(60)
  <2> QED
    BY <1>9, <2>2, <2>3 DEF PumpPublish
<1>10. ASSUME PumpMark PROVE TypeOK'
  <2>1. PICK steps \in 0..2 : MarkDelivered(pump.item, steps)
    BY <1>10 DEF PumpMark
  <2>2. /\ log' \in [Id -> LogState] /\ outbox' \in [Id -> Nat]
        /\ lastRow' \in Nat /\ faults' \in Nat
    BY <2>1, MarkDeliveredType
  <2> QED
    BY <1>10, <2>2 DEF PumpMark
<1>11. ASSUME PumpSleep PROVE TypeOK'
  BY <1>11 DEF PumpSleep, IdlePump
<1>12. ASSUME Connect PROVE TypeOK'
  BY <1>12 DEF Connect
<1>13. ASSUME Disconnect PROVE TypeOK'
  BY <1>13 DEF Disconnect
<1>14. ASSUME NEW s \in Session, ConnAck(s) PROVE TypeOK'
  BY <1>14 DEF ConnAck
<1>15. ASSUME NEW s \in Session, Resubscribe(s) PROVE TypeOK'
  BY <1>15 DEF Resubscribe, Token
<1>16. ASSUME NEW s \in Session, Take(s) PROVE TypeOK'
  BY <1>16 DEF Take, Token
<1>17. ASSUME NEW s \in Session, BrokerAck(s) PROVE TypeOK'
  BY <1>17 DEF BrokerAck, Publish
<1>18. ASSUME NEW s \in Session, ConnectionLost(s) PROVE TypeOK'
  BY <1>18 DEF ConnectionLost, Token
<1>19. ASSUME NEW s \in Session, LoopExit(s) PROVE TypeOK'
  BY <1>19 DEF LoopExit
<1>20. ASSUME NEW i \in Id, ApplyDeliveryReceipt(i) \/ ApplyReadReceipt(i) \/ Evict(i)
       PROVE TypeOK'
  BY <1>20 DEF ApplyDeliveryReceipt, ApplyReadReceipt, Evict
<1>21. ASSUME Crash PROVE TypeOK'
  BY <1>21 DEF Crash, AfterCrash, IdlePump
<1>22. CASE UNCHANGED vars
  BY <1>22 DEF vars
<1> QED
  BY <1>1, <1>2, <1>3, <1>4, <1>5, <1>6, <1>7, <1>8, <1>9, <1>10, <1>11, <1>12, <1>13,
     <1>14, <1>15, <1>16, <1>17, <1>18, <1>19, <1>20, <1>21, <1>22
     DEF Next, RequestStep, PumpStep, LoopStep, PeerStep

\* Type correctness: every reachable state of the outgoing path is well typed.
THEOREM TypeCorrect == Spec => []TypeOK
BY InitType, NextType, PTL DEF Spec

-----------------------------------------------------------------------------
(* The safety invariants.                                                  *)

\* mark_delivered called for a message that was handed over keeps the tables
\* in agreement, whichever of its statements take effect.
LEMMA MarkDeliveredSafe ==
    ASSUME TypeOK, NEW i \in Id, NEW steps \in 0..2, MarkDelivered(i, steps), i \in handed
    PROVE  /\ \A j \in Id : j # i => log'[j] = log[j] /\ outbox'[j] = outbox[j]
           /\ outbox'[i] = outbox[i] \/ outbox'[i] = 0
           /\ log'[i] = log[i] \/ (log[i] = "pending" /\ log'[i] = "sent")
           /\ log'[i] = "pending" => outbox'[i] = outbox[i]
BY DEF TypeOK, MarkDelivered

\* The inductive invariant holds of a daemon that has just started.
LEMMA InitInv == Init => IInv
<1> SUFFICES ASSUME Init PROVE IInv
  OBVIOUS
<1>1. TypeOK
  BY InitType
<1>2. OutboxDurable /\ StateHonest /\ PendingIsQueued
  BY DEF Init, OutboxDurable, StateHonest, PendingIsQueued, Enqueued
<1>3. FreshIsNew /\ MarkersHonest /\ WireHonest
  BY DEF Init, FreshIsNew, MarkersHonest, WireHonest, IdlePump
<1> QED
  BY <1>1, <1>2, <1>3 DEF IInv

\* The invariant is inductive: one step per action.
LEMMA NextInv == IInv /\ [Next]_vars => IInv'
<1> SUFFICES ASSUME IInv, [Next]_vars PROVE IInv'
  OBVIOUS
<1>0. TypeOK /\ TypeOK'
  BY NextType DEF IInv
<1> DEFINE Safe == OutboxDurable /\ StateHonest /\ PendingIsQueued
                   /\ FreshIsNew /\ MarkersHonest /\ WireHonest
<1> SUFFICES Safe'
  BY <1>0 DEF IInv
<1>s. Safe
  BY DEF IInv
<1> USE <1>0 DEF OutboxDurable, StateHonest, PendingIsQueued, FreshIsNew, MarkersHonest,
                 WireHonest, Enqueued, store, net, counters
<1>1. ASSUME NEW i \in Id, InsertOutboundLog(i) PROVE Safe'
  BY <1>1, <1>s DEF InsertOutboundLog, TypeOK
<1>2. ASSUME NEW i \in Id, EnqueueOutbound(i) PROVE Safe'
  BY <1>2, <1>s DEF EnqueueOutbound, ReadyToEnqueue, TypeOK
<1>3. ASSUME NEW i \in Id, EnqueueFails(i) PROVE Safe'
  BY <1>3, <1>s DEF EnqueueFails, ReadyToEnqueue, TypeOK
<1>4. ASSUME NEW i \in Id, CloneClient(i) PROVE Safe'
  BY <1>4, <1>s DEF CloneClient, NotPublished, TypeOK
<1>5. ASSUME NEW i \in Id, PublishNow(i) PROVE Safe'
  BY <1>5, <1>s DEF PublishNow, NotPublished, TypeOK, Publish
<1>6. ASSUME NEW i \in Id, MarkSent(i) PROVE Safe'
  <2>1. PICK steps \in 0..2 : MarkDelivered(i, steps)
    BY <1>6 DEF MarkSent
  <2>2. i \in handed
    BY <1>6, <1>s DEF MarkSent
  <2> QED
    BY <1>6, <1>s, <2>1, <2>2, MarkDeliveredSafe DEF MarkSent, TypeOK
<1>7. ASSUME PumpClient PROVE Safe'
  BY <1>7, <1>s DEF PumpClient, TypeOK
<1>8. ASSUME PumpSnapshot PROVE Safe'
  <2>1. CASE pump' = IdlePump
    BY <1>8, <1>s, <2>1 DEF PumpSnapshot, IdlePump, TypeOK
  <2>2. CASE pump' = [pump EXCEPT !.at = "publish", !.batch = outbox]
    BY <1>8, <1>s, <2>2 DEF PumpSnapshot, TypeOK
  <2> QED
    BY <1>8, <2>1, <2>2 DEF PumpSnapshot
<1>9. ASSUME NEW i \in Id, PumpPublish(i) PROVE Safe'
  <2>1. Enqueued(i)
    BY <1>9, <1>s DEF PumpPublish, NextInBatch, InBatch
  <2>2. /\ pump'.batch = [pump.batch EXCEPT ![i] = 0]
        /\ pump'.at = "mark" => pump'.item = i /\ i \in handed'
        /\ handed' = handed \/ handed' = handed \cup {i}
    BY <1>9 DEF PumpPublish, TypeOK
  <2>3. WireHonest'
    BY <1>9, <1>s DEF PumpPublish, TypeOK, Publish
  <2>4. (OutboxDurable /\ StateHonest /\ PendingIsQueued)'
    BY <1>9, <1>s, <2>2, <2>3 DEF PumpPublish, TypeOK
  <2>5. FreshIsNew' /\ MarkersHonest'
    BY <1>9, <1>s, <2>1, <2>2 DEF PumpPublish, TypeOK
  <2> QED
    BY <2>3, <2>4, <2>5
<1>10. ASSUME PumpMark PROVE Safe'
  <2>1. PICK steps \in 0..2 : MarkDelivered(pump.item, steps)
    BY <1>10 DEF PumpMark
  <2>2. pump.item \in handed /\ pump.item \in Id
    BY <1>10, <1>s DEF PumpMark, TypeOK
  <2> QED
    BY <1>10, <1>s, <2>1, <2>2, MarkDeliveredSafe DEF PumpMark, TypeOK
<1>11. ASSUME PumpSleep PROVE Safe'
  BY <1>11, <1>s DEF PumpSleep, IdlePump, TypeOK
<1>12. ASSUME Connect PROVE Safe'
  BY <1>12, <1>s DEF Connect
<1>13. ASSUME Disconnect PROVE Safe'
  BY <1>13, <1>s DEF Disconnect
<1>14. ASSUME NEW s \in Session, ConnAck(s) PROVE Safe'
  BY <1>14, <1>s DEF ConnAck
<1>15. ASSUME NEW s \in Session, Resubscribe(s) PROVE Safe'
  <2>1. Subscribe \notin Publish
    BY IdsAssumption DEF Subscribe, Publish
  <2> QED
    BY <1>15, <1>s, <2>1 DEF Resubscribe, TypeOK
<1>16. ASSUME NEW s \in Session, Take(s) PROVE Safe'
  BY <1>16, <1>s DEF Take, TypeOK
<1>17. ASSUME NEW s \in Session, BrokerAck(s) PROVE Safe'
  BY <1>17, <1>s DEF BrokerAck, TypeOK
<1>18. ASSUME NEW s \in Session, ConnectionLost(s) PROVE Safe'
  BY <1>18, <1>s DEF ConnectionLost, TypeOK
<1>19. ASSUME NEW s \in Session, LoopExit(s) PROVE Safe'
  BY <1>19, <1>s DEF LoopExit, TypeOK
<1>20. ASSUME NEW i \in Id, ApplyDeliveryReceipt(i) \/ ApplyReadReceipt(i) \/ Evict(i)
       PROVE Safe'
  BY <1>20, <1>s DEF ApplyDeliveryReceipt, ApplyReadReceipt, Evict, Evictable, TypeOK
<1>21. ASSUME Crash PROVE Safe'
  BY <1>21, <1>s DEF Crash, AfterCrash, IdlePump, TypeOK
<1>22. CASE UNCHANGED vars
  BY <1>22, <1>s DEF vars
<1> QED
  BY <1>1, <1>2, <1>3, <1>4, <1>5, <1>6, <1>7, <1>8, <1>9, <1>10, <1>11, <1>12, <1>13,
     <1>14, <1>15, <1>16, <1>17, <1>18, <1>19, <1>20, <1>21, <1>22
     DEF Next, RequestStep, PumpStep, LoopStep, PeerStep

\* The inductive invariant holds in every reachable state.
THEOREM Invariance == Spec => []IInv
BY InitInv, NextInv, PTL DEF Spec

\* No enqueued message is lost before a broker client has accepted it.
THEOREM Durability == Spec => []OutboxDurable
BY Invariance, PTL DEF IInv

\* 'sent', 'delivered' and 'read' are never said of a message nobody took.
THEOREM Honesty == Spec => []StateHonest
BY Invariance, PTL DEF IInv

\* A row shown as pending is still in the outbox, up to a half-done submission.
THEOREM PendingRetried == Spec => []PendingIsQueued
BY Invariance, PTL DEF IInv

-----------------------------------------------------------------------------
(* The outgoing path implements Handoff.                                   *)

\* A step that leaves the log, the history of handovers and the emptiness of
\* every outbox row alone is invisible to Handoff.
LEMMA Invisible ==
    ASSUME log' = log, \A j \in Id : Phase(j)' = Phase(j)
    PROVE  UNCHANGED H!hvars
BY DEF H!hvars

\* A step that changes the log of one handed-over message by advancing it.
LEMMA LogAdvances ==
    ASSUME TypeOK, NEW i \in Id, i \in handed, log[i] # "absent",
           NEW to \in {"sent", "delivered", "read"}, H!Rank[to] > H!Rank[log[i]],
           log' = [log EXCEPT ![i] = to],
           \A j \in Id : Phase(j)' = Phase(j)
    PROVE  H!Next
<1>1. H!Advance(i)
  BY DEF H!Advance, Phase
<1> QED
  BY <1>1 DEF H!Next

\* mark_delivered, called for a handed-over message, advances it or nothing.
LEMMA MarkAdvances ==
    ASSUME IInv, NEW i \in Id, i \in handed, NEW steps \in 0..2, MarkDelivered(i, steps),
           handed' = handed
    PROVE  H!Next \/ UNCHANGED H!hvars
<1>0. TypeOK
  BY DEF IInv
<1>1. \A j \in Id : Phase(j)' = Phase(j)
  BY <1>0, MarkDeliveredSafe DEF Phase
<1>2. CASE log' = log
  BY <1>1, <1>2, Invisible
<1>3. CASE log' # log
  <2>1. log[i] = "pending" /\ log' = [log EXCEPT ![i] = "sent"]
    BY <1>3 DEF MarkDelivered
  <2>2. H!Rank["sent"] > H!Rank[log[i]]
    BY <2>1 DEF H!Rank
  <2> QED
    BY <1>0, <1>1, <2>1, <2>2, LogAdvances
<1> QED
  BY <1>2, <1>3

\* Publishing an enqueued message hands it over, or hands it over again.
LEMMA PublishHandsOver ==
    ASSUME IInv, NEW i \in Id, Enqueued(i), log' = log, outbox' = outbox,
           handed' = handed \/ handed' = handed \cup {i}
    PROVE  H!Next \/ UNCHANGED H!hvars
<1>1. CASE handed' = handed
  BY <1>1, Invisible DEF Phase
<1>2. CASE handed' = handed \cup {i} /\ i \notin handed
  <2>1. Phase(i) = "queued" /\ Phase(i)' = "handed"
    BY <1>2 DEF IInv, OutboxDurable, Phase
  <2>2. \A j \in Id : j # i => Phase(j)' = Phase(j)
    BY <1>2 DEF Phase
  <2>3. H!HandOver(i)
    BY <2>1, <2>2 DEF H!HandOver
  <2> QED
    BY <2>3 DEF H!Next
<1>3. CASE handed' = handed \cup {i} /\ i \in handed
  BY <1>3, Invisible DEF Phase
<1> QED
  BY <1>1, <1>2, <1>3

\* No message has begun its life when the daemon starts.
LEMMA HandoffInit == Init => H!Init
BY DEF Init, H!Init, Phase

\* Every step of the outgoing path is a step of Handoff or invisible to it.
LEMMA HandoffStep == IInv /\ [Next]_vars => [H!Next]_H!hvars
<1> SUFFICES ASSUME IInv, [Next]_vars PROVE H!Next \/ UNCHANGED H!hvars
  OBVIOUS
<1>t. TypeOK
  BY DEF IInv
<1> USE DEF store, net, counters
<1>1. ASSUME NEW i \in Id, InsertOutboundLog(i) PROVE H!Next \/ UNCHANGED H!hvars
  <2>1. \A j \in Id : Phase(j)' = Phase(j)
    BY <1>1 DEF InsertOutboundLog, Phase
  <2>2. CASE log' = log
    BY <2>1, <2>2, Invisible
  <2>3. CASE log' = [log EXCEPT ![i] = "pending"]
    <3>1. Phase(i) = "new" /\ log[i] = "absent"
      BY <1>1 DEF InsertOutboundLog, IInv, FreshIsNew, Enqueued, Phase
    <3>2. H!Log(i)
      BY <2>1, <2>3, <3>1 DEF H!Log
    <3> QED
      BY <3>2 DEF H!Next
  <2> QED
    BY <1>1, <2>2, <2>3 DEF InsertOutboundLog
<1>2. ASSUME NEW i \in Id, EnqueueOutbound(i) PROVE H!Next \/ UNCHANGED H!hvars
  <2>1. Phase(i) = "new"
    BY <1>2 DEF EnqueueOutbound, ReadyToEnqueue, IInv, FreshIsNew, Enqueued, Phase
  <2>2. Phase(i)' = "queued"
    BY <1>2, <1>t, <2>1 DEF EnqueueOutbound, TypeOK, Phase
  <2>3. \A j \in Id : j # i => Phase(j)' = Phase(j)
    BY <1>2, <1>t DEF EnqueueOutbound, TypeOK, Phase
  <2>4. H!Queue(i)
    BY <1>2, <2>1, <2>2, <2>3 DEF EnqueueOutbound, H!Queue
  <2> QED
    BY <2>4 DEF H!Next
<1>3. ASSUME NEW i \in Id, EnqueueFails(i) \/ CloneClient(i) PROVE UNCHANGED H!hvars
  BY <1>3, Invisible DEF EnqueueFails, CloneClient, Phase
<1>4. ASSUME NEW i \in Id, PublishNow(i) PROVE H!Next \/ UNCHANGED H!hvars
  <2>1. Enqueued(i)
    BY <1>4 DEF PublishNow, Enqueued
  <2>2. log' = log /\ outbox' = outbox /\ (handed' = handed \/ handed' = handed \cup {i})
    BY <1>4 DEF PublishNow
  <2> QED
    BY <2>1, <2>2, PublishHandsOver
<1>5. ASSUME NEW i \in Id, MarkSent(i) PROVE H!Next \/ UNCHANGED H!hvars
  <2>1. PICK steps \in 0..2 : MarkDelivered(i, steps)
    BY <1>5 DEF MarkSent
  <2>2. i \in handed /\ handed' = handed
    BY <1>5 DEF MarkSent, IInv, MarkersHonest
  <2> QED
    BY <2>1, <2>2, MarkAdvances
<1>6. ASSUME PumpClient \/ PumpSnapshot \/ PumpSleep PROVE UNCHANGED H!hvars
  BY <1>6, Invisible DEF PumpClient, PumpSnapshot, PumpSleep, Phase
<1>7. ASSUME NEW i \in Id, PumpPublish(i) PROVE H!Next \/ UNCHANGED H!hvars
  <2>1. Enqueued(i)
    BY <1>7 DEF PumpPublish, NextInBatch, InBatch, IInv, FreshIsNew
  <2>2. log' = log /\ outbox' = outbox /\ (handed' = handed \/ handed' = handed \cup {i})
    BY <1>7 DEF PumpPublish
  <2> QED
    BY <2>1, <2>2, PublishHandsOver
<1>8. ASSUME PumpMark PROVE H!Next \/ UNCHANGED H!hvars
  <2>1. PICK steps \in 0..2 : MarkDelivered(pump.item, steps)
    BY <1>8 DEF PumpMark
  <2>2. pump.item \in Id /\ pump.item \in handed /\ handed' = handed
    BY <1>8, <1>t DEF PumpMark, IInv, MarkersHonest, TypeOK
  <2> QED
    BY <2>1, <2>2, MarkAdvances
<1>9. ASSUME Connect \/ Disconnect PROVE UNCHANGED H!hvars
  BY <1>9, Invisible DEF Connect, Disconnect, Phase
<1>10. ASSUME NEW s \in Session, LoopStep(s) \/ ConnectionLost(s) PROVE UNCHANGED H!hvars
  BY <1>10, Invisible
     DEF LoopStep, ConnAck, Resubscribe, Take, BrokerAck, LoopExit, ConnectionLost, Phase
<1>11. ASSUME NEW i \in Id, PeerStep(i) PROVE H!Next \/ UNCHANGED H!hvars
  <2>1. i \in handed /\ log[i] # "absent" /\ log[i] \in LogState
    BY <1>11, <1>t
       DEF PeerStep, ApplyDeliveryReceipt, ApplyReadReceipt, IInv, WireHonest, TypeOK
  <2>2. \A j \in Id : Phase(j)' = Phase(j)
    BY <1>11 DEF PeerStep, ApplyDeliveryReceipt, ApplyReadReceipt, Phase
  <2>3. PICK to \in {"delivered", "read"} :
            /\ log' = [log EXCEPT ![i] = to]
            /\ to = "delivered" => log[i] # "read"
    BY <1>11 DEF PeerStep, ApplyDeliveryReceipt, ApplyReadReceipt
  <2>4. CASE log[i] = to
    <3>1. log' = log
      BY <1>t, <2>3, <2>4 DEF TypeOK
    <3> QED
      BY <2>2, <3>1, Invisible
  <2>5. CASE log[i] # to
    <3>1. H!Rank[to] > H!Rank[log[i]]
      BY <2>1, <2>3, <2>5 DEF LogState, H!Rank
    <3> QED
      BY <1>t, <2>1, <2>2, <2>3, <3>1, LogAdvances
  <2> QED
    BY <2>4, <2>5
<1>12. ASSUME NEW i \in Id, Evict(i) PROVE H!Next
  <2>1. \A j \in Id : Phase(j)' = Phase(j)
    BY <1>12 DEF Evict, Phase
  <2>2. H!Forget(i)
    BY <1>12, <2>1 DEF Evict, Evictable, H!Forget
  <2> QED
    BY <2>2 DEF H!Next
<1>13. ASSUME Crash PROVE UNCHANGED H!hvars
  BY <1>13, Invisible DEF Crash, Phase
<1>14. CASE UNCHANGED vars
  BY <1>14, Invisible DEF vars, Phase
<1> QED
  BY <1>1, <1>2, <1>3, <1>4, <1>5, <1>6, <1>7, <1>8, <1>9, <1>10, <1>11, <1>12, <1>13, <1>14
     DEF Next, RequestStep, PumpStep

\* The outgoing path of the daemon, with its threads, sessions, crashes and
\* failing statements, implements the abstract promise of Handoff.
THEOREM Refinement == Spec => ImplementsHandoff
BY Invariance, HandoffInit, HandoffStep, PTL DEF Spec, ImplementsHandoff, H!Spec

=============================================================================
