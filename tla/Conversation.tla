---------------------------- MODULE Conversation ----------------------------
(***************************************************************************)
(* What two agents may rely on about a direct message, with none of the    *)
(* daemons, sessions and brokers in between: how far the message really    *)
(* came, and what its sender is shown (`receipts`, messages.delivery_state)*)
(* The sender may know less than the truth, never more.                    *)
(***************************************************************************)
CONSTANT Msgs

VARIABLES
    phase,      \* "new", "submitted", "stored" by the recipient, "passed" by its reader
    shown       \* "absent", "pending", "sent", "delivered", "read"

cvars == <<phase, shown>>

Init ==
    /\ phase = [m \in Msgs |-> "new"]
    /\ shown = [m \in Msgs |-> "absent"]

Submit(m) ==
    /\ phase[m] = "new"
    /\ phase' = [phase EXCEPT ![m] = "submitted"]
    /\ shown' = [shown EXCEPT ![m] = "pending"]

Store(m) ==
    /\ phase[m] = "submitted"
    /\ phase' = [phase EXCEPT ![m] = "stored"]
    /\ UNCHANGED shown

\* One acknowledgement passes every message up to the one it names.
Pass(S) ==
    /\ S # {} /\ \A m \in S : phase[m] = "stored"
    /\ phase' = [m \in Msgs |-> IF m \in S THEN "passed" ELSE phase[m]]
    /\ UNCHANGED shown

ShowSent(m) ==
    /\ shown[m] = "pending"
    /\ shown' = [shown EXCEPT ![m] = "sent"]
    /\ UNCHANGED phase

ShowDelivered(m) ==
    /\ phase[m] \in {"stored", "passed"} /\ shown[m] \in {"pending", "sent"}
    /\ shown' = [shown EXCEPT ![m] = "delivered"]
    /\ UNCHANGED phase

ShowRead(m) ==
    /\ phase[m] = "passed"
    /\ shown' = [shown EXCEPT ![m] = "read"]
    /\ UNCHANGED phase

Next ==
    \/ \E m \in Msgs : \/ Submit(m) \/ Store(m)
                       \/ ShowSent(m) \/ ShowDelivered(m) \/ ShowRead(m)
    \/ \E S \in SUBSET Msgs : Pass(S)

Spec == Init /\ [][Next]_cvars
=============================================================================
