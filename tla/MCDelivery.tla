----------------------------- MODULE MCDelivery -----------------------------
(* Messages from a to b; their receipts travel from b to a.                  *)
EXTENDS Delivery

CONSTANTS a, b

MCFrom == [m \in Msgs |-> a]
MCTo == [m \in Msgs |-> b]
\* Two faults around one message, one around two (an Ack then passes a batch).
MCFaults == [k \in 0..2 |-> IF k = 2 THEN 1 ELSE 2]
=============================================================================
