------------------------------- MODULE Handoff ------------------------------
(***************************************************************************)
(* What the outgoing path of the daemon promises to whoever submits a      *)
(* message, with none of the threads, tables and sessions it takes:        *)
(* a message that was queued stays queued until a broker client has        *)
(* accepted it, and the delivery state shown for it (`receipts`) only      *)
(* advances, and only once the message has been handed over.               *)
(***************************************************************************)
EXTENDS Integers

CONSTANT Id

VARIABLES
    phase,      \* "new", "queued" in the durable outbox, "handed" to a client
    state       \* the delivery state of the message's log row

hvars == <<phase, state>>

Rank == [absent |-> 0, pending |-> 1, sent |-> 2, delivered |-> 3, read |-> 4]

Init ==
    /\ phase = [i \in Id |-> "new"]
    /\ state = [i \in Id |-> "absent"]

Log(i) ==
    /\ phase[i] = "new" /\ state[i] = "absent"
    /\ state' = [state EXCEPT ![i] = "pending"]
    /\ UNCHANGED phase

Queue(i) ==
    /\ phase[i] = "new"
    /\ phase' = [phase EXCEPT ![i] = "queued"]
    /\ UNCHANGED state

HandOver(i) ==
    /\ phase[i] = "queued"
    /\ phase' = [phase EXCEPT ![i] = "handed"]
    /\ UNCHANGED state

Advance(i) ==
    /\ phase[i] = "handed" /\ state[i] # "absent"
    /\ \E to \in {"sent", "delivered", "read"} :
         /\ Rank[to] > Rank[state[i]]
         /\ state' = [state EXCEPT ![i] = to]
    /\ UNCHANGED phase

\* Retention may forget a settled row, never one that awaits its receipt.
Forget(i) ==
    /\ state[i] \in {"delivered", "read"}
    /\ state' = [state EXCEPT ![i] = "absent"]
    /\ UNCHANGED phase

Next == \E i \in Id : Log(i) \/ Queue(i) \/ HandOver(i) \/ Advance(i) \/ Forget(i)

Spec == Init /\ [][Next]_hvars
=============================================================================
