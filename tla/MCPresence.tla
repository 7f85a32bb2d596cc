----------------------------- MODULE MCPresence -----------------------------
(* Presence for TLC: the agent sets one state of its own beside the heartbeat. *)
EXTENDS Presence
=============================================================================
