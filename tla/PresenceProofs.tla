--------------------------- MODULE PresenceProofs ---------------------------
(***************************************************************************)
(* Proofs about Presence, for any states, ttls, heartbeat and bounds.      *)
(***************************************************************************)
EXTENDS Presence, TLAPS

\* What the two threads hold.
HoldingOK ==
    /\ holding \in [Threads -> BeaconType \cup {NoBeacon}]
    /\ \A t \in Threads : holding[t].source \in {"none", IF t = "heartbeat" THEN "daemon" ELSE "agent"}

\* What was issued, what arrived and what the peer keeps.
IssuedOK ==
    /\ issued \in Seq(SignedType) /\ Len(issued) <= MaxBeacons
    /\ got \subseteq DOMAIN issued
    /\ row \in SignedType \cup {NoRow}

\* The wall clock.
ClockOK == clock \in 0..MaxTime /\ back \in 0..MaxBack

\* The invariant: RowIsNewest compares numbers of beacons, so it needs the types.
IInv == ClockOK /\ HoldingOK /\ IssuedOK /\ RowIsNewest

\* The parts make up the type invariant.
LEMMA TypeParts == TypeOK <=> ClockOK /\ HoldingOK /\ IssuedOK
BY DEF TypeOK, ClockOK, HoldingOK, IssuedOK

\* A beacon as published carries a number and is not the missing row.
LEMMA SignedFields ==
    \A b \in SignedType : b.seq \in 0..MaxTime /\ b # NoRow
BY NoRowAssumption DEF SignedType, Signed, BeaconType

\* The two kinds of beacon that are built have the beacons' type.
LEMMA BeaconTypes ==
    ASSUME clock \in 0..MaxTime
    PROVE  /\ Beacon("daemon", "online", 3 * HeartbeatSecs) \in BeaconType
           /\ \A s \in States, ttl \in Ttls : Beacon("agent", s, ttl) \in BeaconType
           /\ \A src, s, ttl : Beacon(src, s, ttl).source = src
BY DEF Beacon, BeaconType

\* A thread that takes up a beacon keeps the invariant.
LEMMA HoldInv ==
    ASSUME IInv, NEW t \in Threads, NEW b \in BeaconType, Hold(t, b),
           b.source = IF t = "heartbeat" THEN "daemon" ELSE "agent"
    PROVE  IInv'
<1>1. holding' = [holding EXCEPT ![t] = b] /\ UNCHANGED <<clock, back, issued, got, row>>
  BY DEF Hold
<1>2. HoldingOK'
  BY <1>1 DEF IInv, HoldingOK
<1> QED
  BY <1>1, <1>2 DEF IInv, ClockOK, IssuedOK, RowIsNewest

\* enqueue_presence keeps the invariant: the beacons that arrived keep their
\* places in the order of issue.
LEMMA EnqueueInv == ASSUME IInv, NEW t \in Threads, EnqueuePresence(t) PROVE IInv'
<1> DEFINE b == Signed(holding[t], clock)
<1>1. /\ holding[t] # NoBeacon /\ Len(issued) < MaxBeacons
      /\ issued' = Append(issued, b)
      /\ holding' = [holding EXCEPT ![t] = NoBeacon]
      /\ UNCHANGED <<clock, back, got, row>>
  BY DEF EnqueuePresence
<1>2. b \in SignedType
  BY <1>1 DEF IInv, HoldingOK, ClockOK, SignedType
<1> HIDE DEF b
<1>3. issued \in Seq(SignedType) /\ got \subseteq DOMAIN issued /\ row \in SignedType \cup {NoRow}
  BY DEF IInv, IssuedOK
<1>4. /\ issued' \in Seq(SignedType) /\ Len(issued') = Len(issued) + 1
      /\ DOMAIN issued \subseteq DOMAIN issued'
      /\ \A i \in DOMAIN issued : issued'[i] = issued[i]
  BY <1>1, <1>2, <1>3
<1>5. IssuedOK'
  BY <1>1, <1>3, <1>4, BoundsAssumption DEF IssuedOK
<1>6. HoldingOK'
  BY <1>1 DEF IInv, HoldingOK, NoBeacon
<1>7. RowIsNewest'
  BY <1>1, <1>3, <1>4 DEF IInv, RowIsNewest
<1> QED
  BY <1>1, <1>5, <1>6, <1>7 DEF IInv, ClockOK

\* upsert_presence keeps the invariant: the newer of the row and the beacon.
LEMMA ArrivesInv == ASSUME IInv, NEW i \in DOMAIN issued, BeaconArrives(i) PROVE IInv'
<1>1. /\ row' = (IF row = NoRow \/ issued[i].seq >= row.seq THEN issued[i] ELSE row)
      /\ got' = got \cup {i} /\ UNCHANGED <<clock, back, holding, issued>>
  BY DEF BeaconArrives, UpsertPresence
<1>2. /\ \A j \in DOMAIN issued : issued[j] \in SignedType /\ issued[j].seq \in Int /\ issued[j] # NoRow
      /\ got \subseteq DOMAIN issued
      /\ row # NoRow => row.seq \in Int
  BY SignedFields DEF IInv, IssuedOK
<1>3. row' # NoRow /\ row' \in SignedType
  BY <1>1, <1>2 DEF IInv, IssuedOK
<1>4. IssuedOK'
  BY <1>1, <1>3 DEF IInv, IssuedOK
<1>5. \E j \in got' : row' = issued[j]
  BY <1>1 DEF IInv, RowIsNewest
<1>6. \A j \in got' : issued[j].seq <= row'.seq
  BY <1>1, <1>2 DEF IInv, RowIsNewest
<1>7. RowIsNewest'
  BY <1>1, <1>3, <1>5, <1>6 DEF RowIsNewest
<1> QED
  BY <1>1, <1>4, <1>7 DEF IInv, ClockOK, HoldingOK

\* The clock moves either way without touching a beacon.
LEMMA ClockInv == ASSUME IInv, Tick \/ SetBack PROVE IInv'
<1>1. ClockOK' /\ UNCHANGED <<holding, issued, got, row>>
  BY BoundsAssumption DEF IInv, ClockOK, Tick, SetBack
<1> QED
  BY <1>1 DEF IInv, HoldingOK, IssuedOK, RowIsNewest

\* The invariant holds before the first beacon.
LEMMA InitInv == Init => IInv
<1> SUFFICES ASSUME Init PROVE IInv
  OBVIOUS
<1>1. ClockOK
  BY BoundsAssumption DEF Init, ClockOK
<1>2. HoldingOK
  BY DEF Init, HoldingOK, NoBeacon
<1>3. IssuedOK /\ RowIsNewest
  BY BoundsAssumption DEF Init, IssuedOK, RowIsNewest
<1> QED
  BY <1>1, <1>2, <1>3 DEF IInv

\* Every step keeps it.
LEMMA NextInv == IInv /\ [Next]_vars => IInv'
<1> SUFFICES ASSUME IInv, [Next]_vars PROVE IInv'
  OBVIOUS
<1>0. clock \in 0..MaxTime
  BY DEF IInv, ClockOK
<1>1. CASE UNCHANGED vars
  BY <1>1 DEF IInv, vars, ClockOK, HoldingOK, IssuedOK, RowIsNewest
<1>2. CASE Heartbeat
  BY <1>0, <1>2, BeaconTypes, HoldInv DEF Heartbeat, Threads
<1>3. ASSUME NEW s \in States, NEW ttl \in Ttls, SetPresence(s, ttl) PROVE IInv'
  BY <1>0, <1>3, BeaconTypes, HoldInv DEF SetPresence, Threads
<1>4. ASSUME NEW t \in Threads, EnqueuePresence(t) PROVE IInv'
  BY <1>4, EnqueueInv
<1>5. ASSUME NEW i \in DOMAIN issued, BeaconArrives(i) PROVE IInv'
  BY <1>5, ArrivesInv
<1>6. CASE Tick \/ SetBack
  BY <1>6, ClockInv
<1> QED
  BY <1>1, <1>2, <1>3, <1>4, <1>5, <1>6 DEF Next

\* Type correctness: heartbeats speak for the daemon and requests for the agent.
THEOREM TypeCorrect == Spec => []TypeOK
<1>1. IInv => TypeOK
  BY TypeParts DEF IInv
<1> QED
  BY <1>1, InitInv, NextInv, PTL DEF Spec

\* upsert_presence keeps the highest-numbered beacon that arrived, whatever the
\* order and repetition of deliveries, the interleaving of the two issuing
\* threads and the movement of the wall clock.
THEOREM NewestBeaconKept == Spec => []RowIsNewest
<1>1. IInv => RowIsNewest
  BY DEF IInv
<1> QED
  BY <1>1, InitInv, NextInv, PTL DEF Spec

=============================================================================
