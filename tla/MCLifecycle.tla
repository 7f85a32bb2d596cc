---------------------------- MODULE MCLifecycle -----------------------------
(* Three of the six tables, one of them new in version 2, and two of the     *)
(* eleven columns, in two tables; the settings are in the .cfg.              *)
EXTENDS Lifecycle

MCSchema == <<"messages", "cursors", "presence">>
MCMigrate == <<<<"messages", "kind">>, <<"cursors", "updated_at">>>>
\* Key commands only; starts and stops around one key command; three starts and
\* two faults; a daemon started among config commands.
MCBounds == {[keys |-> 3, edits |-> 0, runs |-> 0, faults |-> 1],
             [keys |-> 1, edits |-> 0, runs |-> 2, faults |-> 1],
             [keys |-> 0, edits |-> 0, runs |-> 3, faults |-> 2],
             [keys |-> 0, edits |-> 3, runs |-> 1, faults |-> 1]}
MCV1Tables == {"messages", "cursors"}
=============================================================================
