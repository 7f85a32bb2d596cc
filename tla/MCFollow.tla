------------------------------ MODULE MCFollow ------------------------------
(* Follow for TLC.                                                         *)
EXTENDS Follow
=============================================================================
