------------------------------- MODULE MCInbox ------------------------------
(* Inbox for TLC.                                                          *)
EXTENDS Inbox, TLC

CONSTANTS
    m1, m2, m3, m4, \* messages
    g1              \* a grant

\* Two messages with the same grant, the others without.
SharedGrant == [m \in Msgs |-> IF m \in {m1, m2} THEN g1 ELSE NoGrant]

\* m1 is larger than the others.
Sizes == [m \in Msgs |-> IF m = m1 THEN 2 ELSE 1]
=============================================================================
