------------------------------- MODULE Schema -------------------------------
(***************************************************************************)
(* The store's schema and its migration (Store::migrate, src/src/store.rs):*)
(* what each statement does to a database, as functions of it.  Every      *)
(* statement commits by itself.                                            *)
(***************************************************************************)
EXTENDS Integers, Sequences, SequencesExt

CONSTANTS
    SCHEMA,         \* the tables of the CREATE TABLE IF NOT EXISTS statements, in order
    MIGRATE_V2,     \* the <<table, column>> of the ALTER TABLE statements, in order
    V1Tables        \* tables of a version 1 database

ASSUME SchemaAssumption ==
    /\ SCHEMA \in Seq(STRING)
    /\ "messages" \in V1Tables /\ V1Tables \subseteq Range(SCHEMA)
    /\ MIGRATE_V2 \in Seq(V1Tables \X STRING) /\ MIGRATE_V2 # <<>>

\* A database: user_version, its tables, and which columns of version 2 they have.
FreshDb == [version |-> 0, tables |-> {}, columns |-> {}]
V1Db == [version |-> 0, tables |-> V1Tables, columns |-> {}]

ColumnsOf(t) == {c \in Range(MIGRATE_V2) : c[1] = t}
HasMessages(d) == "messages" \in d.tables

\* CREATE TABLE IF NOT EXISTS: a new table has all its columns, an old one is left alone.
Create(d, t) ==
    IF t \in d.tables THEN d
    ELSE [d EXCEPT !.tables = @ \cup {t}, !.columns = @ \cup ColumnsOf(t)]

\* ALTER TABLE ADD COLUMN is an error on a column that exists, and without the table.
AlterFails(d, c) == c \in d.columns \/ c[1] \notin d.tables
IsDuplicate(d, c) == c \in d.columns
Alter(d, c) == [d EXCEPT !.columns = @ \cup {c}]

Complete(d) == d.tables = Range(SCHEMA) /\ d.columns = Range(MIGRATE_V2)
=============================================================================
