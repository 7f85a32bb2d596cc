------------------------------ MODULE Presence ------------------------------
(***************************************************************************)
(* Presence beacons of one agent, from the two threads that issue them     *)
(* (the heartbeat and the one that serves a Presence request) to the row   *)
(* a peer keeps for the agent and lists.  A beacon is numbered with the    *)
(* wall clock in seconds, before it is signed and put into the outbox; it  *)
(* is published at QoS 1 and, unlike a message, not deduplicated, so it    *)
(* may arrive in any order and several times.                              *)
(***************************************************************************)
EXTENDS Integers, Sequences

CONSTANTS
    States,         \* inputs: the states an agent may set
    Ttls,           \* inputs: the ttl_secs it may give
    HeartbeatSecs,  \* config heartbeat_secs, not 0
    NoRow,
    MaxTime,        \* bound: the wall clock
    MaxBeacons,     \* bound: beacons issued
    MaxBack         \* bound: times the wall clock is set back

ASSUME BoundsAssumption ==
    /\ HeartbeatSecs \in Nat \ {0} /\ Ttls \subseteq Nat
    /\ MaxTime \in Nat /\ MaxBeacons \in Nat /\ MaxBack \in Nat

Threads == {"heartbeat", "request"}
NoBeacon == [source |-> "none"]

VARIABLES
    clock,      \* wall clock, the same on both hosts
    back,       \* how often it was set back
    holding,    \* thread -> the beacon it builds
    issued,     \* beacons put into the outbox, in this order
    got,        \* indices of issued that arrived
    row         \* the peer's row for the agent, or NoRow

vars == <<clock, back, holding, issued, got, row>>

Init ==
    /\ clock = 0 /\ back = 0
    /\ holding = [t \in Threads |-> NoBeacon]
    /\ issued = <<>> /\ got = {} /\ row = NoRow

-----------------------------------------------------------------------------
Beacon(source, state, ttl) ==
    [source |-> source, state |-> state, ttl |-> ttl, seq |-> clock]

\* A beacon as it is published and stored.
Signed(b, ts) ==
    [source |-> b.source, state |-> b.state, ttl |-> b.ttl, seq |-> b.seq, ts |-> ts]

Hold(t, b) ==
    /\ holding[t] = NoBeacon
    /\ holding' = [holding EXCEPT ![t] = b]
    /\ UNCHANGED <<clock, back, issued, got, row>>

\* The heartbeat wakes up.
Heartbeat == Hold("heartbeat", Beacon("daemon", "online", 3 * HeartbeatSecs))

\* Mutation of SetPresence: the request is issued under the daemon's name.
SetPresence_AsDaemon(state, ttl) == Hold("request", Beacon("daemon", state, ttl))

\* presence set: a ttl that is not given is 0.
SetPresence(state, ttl) == Hold("request", Beacon("agent", state, ttl))

\* enqueue_presence: signed (its ts is the time now) and put into the outbox.
EnqueuePresence(t) ==
    /\ holding[t] # NoBeacon
    /\ Len(issued) < MaxBeacons
    /\ issued' = Append(issued, Signed(holding[t], clock))
    /\ holding' = [holding EXCEPT ![t] = NoBeacon]
    /\ UNCHANGED <<clock, back, got, row>>

\* Mutation of UpsertPresence: no guard.
UpsertPresence_Always(b) == b

\* ON CONFLICT(agent) DO UPDATE ... WHERE excluded.seq >= presence.seq.
UpsertPresence(b) == IF row = NoRow \/ b.seq >= row.seq THEN b ELSE row

\* A beacon passes verify_incoming at the peer.
BeaconArrives(i) ==
    /\ row' = UpsertPresence(issued[i])
    /\ got' = got \cup {i}
    /\ UNCHANGED <<clock, back, holding, issued>>

\* Time passes, or the clock is set back.
Tick ==
    /\ clock < MaxTime
    /\ clock' = clock + 1
    /\ UNCHANGED <<back, holding, issued, got, row>>

SetBack ==
    /\ back < MaxBack /\ clock > 0
    /\ clock' = clock - 1
    /\ back' = back + 1
    /\ UNCHANGED <<holding, issued, got, row>>

Next ==
    \/ Heartbeat
    \/ \E s \in States, ttl \in Ttls : SetPresence(s, ttl)
    \/ \E t \in Threads : EnqueuePresence(t)
    \/ \E i \in DOMAIN issued : BeaconArrives(i)
    \/ Tick \/ SetBack

Spec == Init /\ [][Next]_vars

-----------------------------------------------------------------------------
(* Properties.                                                             *)

BeaconType ==
    [source : {"daemon"}, state : {"online"}, ttl : {3 * HeartbeatSecs}, seq : 0..MaxTime]
      \cup [source : {"agent"}, state : States, ttl : Ttls, seq : 0..MaxTime]
SignedType == {Signed(b, ts) : b \in BeaconType, ts \in 0..MaxTime}
ASSUME NoRowAssumption == NoRow \notin SignedType

\* Types of the variables: the heartbeat speaks for the daemon and a request for the
\* agent, and so does every row.
TypeOK ==
    /\ clock \in 0..MaxTime /\ back \in 0..MaxBack
    /\ holding \in [Threads -> BeaconType \cup {NoBeacon}]
    /\ \A t \in Threads : holding[t].source \in {"none", IF t = "heartbeat" THEN "daemon" ELSE "agent"}
    /\ issued \in Seq(SignedType) /\ Len(issued) <= MaxBeacons
    /\ got \subseteq DOMAIN issued
    /\ row \in SignedType \cup {NoRow}

\* upsert_presence, "keeping only the highest-seq beacon per agent": the row is a
\* beacon that arrived, and none that arrived has a higher number, in whatever
\* order two threads issued them and the network brought and repeated them.
RowIsNewest ==
    /\ row = NoRow <=> got = {}
    /\ row # NoRow =>
          /\ \E i \in got : row = issued[i]
          /\ \A i \in got : issued[i].seq <= row.seq

=============================================================================
