--------------------------- MODULE LifecycleProofs --------------------------
(***************************************************************************)
(* Proofs about Lifecycle, for any schema, any number of daemon processes, *)
(* operators, names and settings and any bounds.                           *)
(***************************************************************************)
EXTENDS Lifecycle, TLAPS, FiniteSetTheorems

-----------------------------------------------------------------------------
(* The inductive invariants, one for each part of the data directory.      *)

\* Every table the database has, it has with all its columns.
Native == \A t \in db.tables : ColumnsOf(t) \subseteq db.columns

\* How far the migration of process p has certainly brought the database.
Reached(p) ==
    /\ proc[p].at = "create" =>
         /\ proc[p].step \in 1..Len(SCHEMA)
         /\ \A j \in 1..(proc[p].step - 1) : SCHEMA[j] \in db.tables
    /\ proc[p].at = "alter" =>
         /\ proc[p].step \in 1..Len(MIGRATE_V2)
         /\ Range(SCHEMA) \subseteq db.tables
         /\ \A j \in 1..(proc[p].step - 1) : MIGRATE_V2[j] \in db.columns
    /\ proc[p].at = "create" /\ ~proc[p].had => Native
    /\ proc[p].at = "stamp" => Complete(db)
    /\ proc[p].at \in {"bind", "serving", "exiting"} => db.version = 2

\* A database without a messages table is not one of version 1.
SchemaInv ==
    /\ "messages" \notin db.tables => Native
    /\ db.version = 2 => Complete(db)
    /\ \A p \in Daemons : Reached(p)

\* Names: a process serves under a name the identity file has held, and no two
\* under the same.
NamesInv ==
    /\ IsFiniteSet(names)
    /\ file["identity"].state = "whole" => file["identity"].name \in names
    /\ \A p \in Daemons : proc[p].at # "off" => proc[p].name \in names
    /\ \A p, q \in Daemons : \A n : Binds(p, n) /\ Binds(q, n) => p = q

\* A generate command is under way.
Active(o) == cmd[o].at \in {"fp", "copy", "truncate", "write"}

\* What the one command at work on a file knows of it.
Knows(o) ==
    LET f == file[cmd[o].kind] IN
    /\ cmd[o].at = "copy" => cmd[o].fp = f.key
    /\ cmd[o].at = "truncate" => f.key = 0 \/ backup[cmd[o].kind][f.key] = f.key
    /\ cmd[o].at = "write" => f = Cut
    /\ f.state = "whole" => cmd[o].force

\* Keys: as long as no two commands worked on a file at the same time, every backup is
\* of the key it is named after.
KeysInv ==
    /\ \A kind \in Kind : file[kind].state # "whole" => file[kind].key = 0
    /\ \A kind \in Kind \ overlap :
         /\ \A fp \in Key \cup {0} : backup[kind][fp] \in {0, fp}
         /\ \A o, q \in Operators :
              Active(o) /\ Active(q) /\ cmd[o].kind = kind /\ cmd[q].kind = kind => o = q
    /\ \A o \in Operators : Active(o) /\ cmd[o].kind \notin overlap => Knows(o)
    /\ KeysKept

\* Settings: unless they were spoiled there is one config command at a time, and what it
\* is going to write is what was saved, with its own change.
SettingsInv ==
    /\ ~spoiled =>
         /\ \A o, q \in Operators : edit[o].at # "idle" /\ edit[q].at # "idle" => o = q
         /\ (\A o \in Operators : edit[o].at # "write") => LoadConfig = saved
         /\ \A o \in Operators : edit[o].at # "idle" =>
              edit[o].value = [saved EXCEPT ![edit[o].setting] = edit[o].number]
    /\ \A p \in Daemons : proc[p].expect # 0 => proc[p].topics = proc[p].expect

\* The types of the variables and what keeps key numbers within their bound.
TypeInv ==
    /\ TypeOK
    /\ keys + left["keys"] <= MaxKeys
    /\ \A o \in Operators : Active(o) => cmd[o].name \in Names /\ cmd[o].key \in Key

-----------------------------------------------------------------------------
(* Type correctness.                                                       *)

ProcState ==
    [at : {"off", "version", "probe", "create", "alter", "stamp", "bind", "serving", "exiting"},
     step : Nat, had : BOOLEAN, name : Names \cup {"none"}, topics : Nat, expect : Nat,
     why : {"", "identity", "refused", "schema", "fault", "stopped"}]
CmdState ==
    [at : {"idle", "poll", "fp", "copy", "truncate", "write"}, kind : Kind,
     name : Names \cup {"none"}, force : BOOLEAN, key : Key \cup {0}, fp : Key \cup {0}]
Command(o) == cmd[o] \in CmdState /\ (Active(o) => cmd[o].name \in Names /\ cmd[o].key \in Key)

(* TypeInv in parts, which different actions disturb.                       *)
DbOK == db \in [version : {0, 2}, tables : SUBSET Range(SCHEMA), columns : SUBSET Range(MIGRATE_V2)]
ProcOK == proc \in [Daemons -> ProcState]
CmdOK == cmd \in [Operators -> CmdState] /\ \A o \in Operators : Command(o)
FilesOK ==
    /\ file \in [Kind -> [state : {"absent", "cut", "whole"}, name : Names \cup {"none"},
                          key : Key \cup {0}]]
    /\ backup \in [Kind -> [Key \cup {0} -> Key \cup {0}]]
    /\ reported \in [Kind -> SUBSET Key] /\ overlap \subseteq Kind /\ names \subseteq Names
BoundOK ==
    /\ keys \in Key \cup {0} /\ left \in [{"keys", "edits", "runs", "faults"} -> Nat]
    /\ keys + left["keys"] <= MaxKeys

\* The parts together are TypeInv.
LEMMA TypeParts ==
    TypeInv <=> DbOK /\ ProcOK /\ CmdOK /\ FilesOK /\ BoundOK /\ SettingsTypeOK
BY DEF TypeInv, TypeOK, DbOK, ProcOK, CmdOK, Command, FilesOK, BoundOK, ProcState, CmdState

\* A bound is only ever used up.
LEMMA UseType ==
    ASSUME BoundOK, NEW what \in {"keys", "edits", "runs", "faults"}, Use(what)
    PROVE  /\ left' \in [{"keys", "edits", "runs", "faults"} -> Nat]
           /\ left'["keys"] = IF what = "keys" THEN left["keys"] - 1 ELSE left["keys"]
           /\ left["keys"] \in Nat
BY DEF BoundOK, Use

\* The initial states are well typed.
LEMMA InitType == Init => TypeInv
<1> SUFFICES ASSUME Init PROVE DbOK /\ ProcOK /\ CmdOK /\ FilesOK /\ BoundOK /\ SettingsTypeOK
  BY TypeParts
<1>1. DbOK
  <2>1. V1Tables \in SUBSET Range(SCHEMA)
    BY SchemaAssumption
  <2>2. db = [version |-> 0, tables |-> {}, columns |-> {}] \/ db = [version |-> 0, tables |-> V1Tables, columns |-> {}]
    BY DEF Init, FreshDb, V1Db
  <2> QED
    BY <2>1, <2>2 DEF DbOK
<1>2. ProcOK
  BY DEF Init, ProcOK, ProcState, Off
<1>3. CmdOK
  BY LifecycleBoundsAssumption DEF Init, CmdOK, CmdState, Command, Active, Idle, Kind
<1>4. PICK f \in {Missing} \cup {Whole(n, 1) : n \in Names} :
         /\ file = [k \in Kind |-> IF k = "identity" THEN f ELSE Missing]
         /\ keys = f.key
         /\ reported = [k \in Kind |-> IF k = "identity" THEN {f.key} \ {0} ELSE {}]
         /\ names = IF f = Missing THEN {} ELSE {f.name}
  BY DEF Init
<1>5. 1 \in Key
  BY LifecycleBoundsAssumption DEF Key
<1>6. /\ f \in [state : {"absent", "cut", "whole"}, name : Names \cup {"none"}, key : Key \cup {0}]
      /\ Missing \in [state : {"absent", "cut", "whole"}, name : Names \cup {"none"}, key : Key \cup {0}]
      /\ f = Missing \/ f.name \in Names
      /\ f.key \in {0, 1}
  BY <1>4, <1>5 DEF Missing, Whole
<1>7. FilesOK
  BY <1>4, <1>5, <1>6 DEF Init, FilesOK, NoBackup
<1>8. BoundOK
  <2>1. left \in [keys : 0..MaxKeys - 1, edits : Nat, runs : Nat, faults : Nat]
    BY LifecycleBoundsAssumption DEF Init
  <2>2. left \in [{"keys", "edits", "runs", "faults"} -> Nat] /\ left["keys"] <= MaxKeys - 1
    BY <2>1, LifecycleBoundsAssumption
  <2> QED
    BY <1>4, <1>5, <1>6, <2>2, LifecycleBoundsAssumption DEF BoundOK, Key
<1>9. SettingsTypeOK
  BY SettingAssumption DEF Init, SettingsInit, SettingsTypeOK, NoEdit, Defaults
<1> QED
  BY <1>1, <1>2, <1>3, <1>7, <1>8, <1>9

(* Who takes a step, and what each leaves alone.                            *)
DaemonStep(p) == RunDaemon(p) \/ Startup(p) \/ ProcessFails(p) \/ Exit(p) \/ Stop(p)
GenerateStep(o) ==
    \E kind \in Kind, name \in Names, force \in BOOLEAN : Generate(o, kind, name, force)
KeyStep(o) ==
    \/ PollEnds(o) \/ GenerateStep(o)
    \/ Fingerprint(o) \/ Copy(o) \/ Truncate(o) \/ Write(o) \/ CommandFails(o)

\* A step is one of a daemon process, of daemon start, of a key command or of a config
\* command, and these share little state.
LEMMA Actors ==
    ASSUME [Next]_vars
    PROVE  \/ \E p \in Daemons : DaemonStep(p) /\ UNCHANGED <<files, cmd>>
           \/ \E o \in Operators : Start(o) /\ UNCHANGED <<db, files>>
           \/ \E o \in Operators : KeyStep(o) /\ UNCHANGED <<db, proc, settings>>
           \/ \E o \in Operators : /\ Configure(o)
                                   /\ UNCHANGED <<db, file, backup, keys, reported, overlap, names, proc, cmd>>
           \/ UNCHANGED vars
<1> USE DEF files
<1>1. ASSUME NEW p \in Daemons, DaemonStep(p) PROVE UNCHANGED <<files, cmd>>
  BY <1>1 DEF DaemonStep, RunDaemon, Startup, ReadVersion, Probe, CreateNext, AlterNext, Stamp, Bind,
              ProcessFails, Exit, Stop
<1>2. ASSUME NEW o \in Operators, Start(o) PROVE UNCHANGED <<db, files>>
  BY <1>2 DEF Start
<1>3. ASSUME NEW o \in Operators, KeyStep(o) PROVE UNCHANGED <<db, proc, settings>>
  BY <1>3 DEF KeyStep, PollEnds, GenerateStep, Generate, Fingerprint, Copy, Truncate, Write, CommandFails
<1>4. ASSUME NEW o \in Operators, Configure(o)
      PROVE  UNCHANGED <<db, file, backup, keys, reported, overlap, names, proc, cmd>>
  BY <1>4 DEF Configure
<1> QED
  BY <1>1, <1>2, <1>3, <1>4 DEF Next, DaemonStep, KeyStep, GenerateStep

\* The fields of a process.
LEMMA StepType ==
    ASSUME ProcOK, NEW p \in Daemons PROVE proc[p].step \in Nat /\ proc[p].step + 1 \in Nat
<1>1. proc[p] \in ProcState
  BY DEF ProcOK
<1>2. proc[p].step \in Nat
  BY <1>1 DEF ProcState
<1> QED
  BY <1>2

\* Only one process moves at a time, and what it may become.
LEMMA MoveEffect ==
    ASSUME ProcOK, NEW p \in Daemons, NEW step \in Nat,
           NEW at \in {"off", "version", "probe", "create", "alter", "stamp", "bind", "serving", "exiting"},
           Move(p, at, step)
    PROVE  /\ proc'[p] \in ProcState /\ proc'[p].at = at /\ proc'[p].step = step
           /\ proc'[p].had = proc[p].had /\ proc'[p].name = proc[p].name
           /\ proc'[p].topics = proc[p].topics /\ proc'[p].expect = proc[p].expect
           /\ ProcOK' /\ \A q \in Daemons : q # p => proc'[q] = proc[q]
BY ZenonT(60) DEF ProcOK, ProcState, Move

\* A process that ends leaves its slot and its endpoint.
LEMMA EndEffect ==
    ASSUME ProcOK, NEW p \in Daemons,
           NEW why \in {"", "identity", "refused", "schema", "fault", "stopped"}, End(p, why)
    PROVE  /\ proc'[p].at = "off" /\ proc'[p].expect = 0
           /\ ProcOK' /\ \A q \in Daemons : q # p => proc'[q] = proc[q]
BY DEF ProcOK, ProcState, End, Off

\* A process that starts runs under the name in the identity file, or ends at once.
LEMMA LaunchEffect ==
    ASSUME ProcOK, FilesOK, NEW p \in Daemons, Launch(p)
    PROVE  /\ proc[p].at = "off" /\ proc'[p].at \in {"off", "version"} /\ proc'[p].expect = 0
           /\ proc'[p].at = "version" => /\ file["identity"].state = "whole"
                                         /\ proc'[p].name = file["identity"].name
           /\ ProcOK' /\ \A q \in Daemons : q # p => proc'[q] = proc[q]
<1>1. file["identity"].name \in Names \cup {"none"}
  BY DEF FilesOK, Kind
<1> QED
  BY <1>1 DEF ProcOK, ProcState, Launch, Off

\* The probe remembers whether there was a messages table.
LEMMA ProbeEffect ==
    ASSUME ProcOK, NEW p \in Daemons, Probe(p)
    PROVE  /\ proc'[p].at = "create" /\ proc'[p].step = 1 /\ proc'[p].had = HasMessages(db)
           /\ proc'[p].name = proc[p].name /\ proc'[p].expect = proc[p].expect
           /\ proc'[p].topics = proc[p].topics
           /\ ProcOK' /\ \A q \in Daemons : q # p => proc'[q] = proc[q]
<1>1. ASSUME NEW h \in BOOLEAN,
             proc' = [proc EXCEPT ![p].at = "create", ![p].step = 1, ![p].had = h]
      PROVE  /\ proc'[p].at = "create" /\ proc'[p].step = 1 /\ proc'[p].had = h
             /\ proc'[p].name = proc[p].name /\ proc'[p].expect = proc[p].expect
             /\ proc'[p].topics = proc[p].topics
             /\ ProcOK' /\ \A q \in Daemons : q # p => proc'[q] = proc[q]
  <2> DEFINE r == [proc[p] EXCEPT !.at = "create", !.step = 1, !.had = h]
  <2>1. proc[p] \in ProcState
    BY DEF ProcOK
  <2>2. r \in ProcState
    BY <2>1 DEF ProcState
  <2>3. proc' = [proc EXCEPT ![p] = r]
    BY <1>1
  <2>4. proc'[p] = r /\ ProcOK' /\ \A q \in Daemons : q # p => proc'[q] = proc[q]
    BY <2>2, <2>3 DEF ProcOK
  <2> QED
    BY <2>1, <2>4 DEF ProcState
<1>2. HasMessages(db) \in BOOLEAN
  BY DEF HasMessages
<1>3. proc' = [proc EXCEPT ![p].at = "create", ![p].step = 1, ![p].had = HasMessages(db)]
  BY DEF Probe
<1> QED
  BY <1>1, <1>2, <1>3, Zenon

\* A process that finds its endpoint free serves, with the topics of its configuration.
LEMMA BindEffect ==
    ASSUME ProcOK, SettingsTypeOK, NEW p \in Daemons, Bind(p), ~Bound(proc[p].name)
    PROVE  /\ proc'[p].at = "serving" /\ proc'[p].name = proc[p].name /\ proc'[p].expect = Expected
           /\ proc'[p].topics = IF Connectable(LoadConfig) THEN LoadConfig["topics"] ELSE 0
           /\ ProcOK' /\ \A q \in Daemons : q # p => proc'[q] = proc[q]
<1>1. "topics" \in Setting
  BY SettingAssumption
<1>2. Expected \in Nat
  BY <1>1 DEF Expected, SettingsTypeOK
<1>3. LoadConfig["topics"] \in Nat
  BY <1>1 DEF LoadConfig, SettingsTypeOK, Defaults
<1>4. ASSUME NEW e \in Nat, NEW t \in Nat,
             proc' = [proc EXCEPT ![p].at = "serving", ![p].step = 0, ![p].expect = e, ![p].topics = t]
      PROVE  /\ proc'[p].at = "serving" /\ proc'[p].name = proc[p].name
             /\ proc'[p].expect = e /\ proc'[p].topics = t
             /\ ProcOK' /\ \A q \in Daemons : q # p => proc'[q] = proc[q]
  <2> DEFINE r == [proc[p] EXCEPT !.at = "serving", !.step = 0, !.expect = e, !.topics = t]
  <2>1. proc[p] \in ProcState
    BY DEF ProcOK
  <2>2. r \in ProcState
    BY <2>1 DEF ProcState
  <2>3. proc' = [proc EXCEPT ![p] = r]
    BY <1>4
  <2>4. proc'[p] = r /\ ProcOK' /\ \A q \in Daemons : q # p => proc'[q] = proc[q]
    BY <2>2, <2>3 DEF ProcOK
  <2> QED
    BY <2>1, <2>4 DEF ProcState
<1> DEFINE t == IF Connectable(LoadConfig) THEN LoadConfig["topics"] ELSE 0
<1>5. t \in Nat
  BY <1>3
<1>6. proc' = [proc EXCEPT ![p].at = "serving", ![p].step = 0, ![p].expect = Expected, ![p].topics = t]
  BY DEF Bind
<1> HIDE DEF t
<1>7. /\ proc'[p].at = "serving" /\ proc'[p].name = proc[p].name
      /\ proc'[p].expect = Expected /\ proc'[p].topics = t
      /\ ProcOK' /\ \A q \in Daemons : q # p => proc'[q] = proc[q]
  BY <1>2, <1>4, <1>5, <1>6, Zenon
<1> QED
  BY <1>7 DEF t

\* A step moves one process at most.
LEMMA OneProcess ==
    ASSUME TypeInv, [Next]_vars, NEW q \in Daemons
    PROVE  proc'[q] = proc[q] \/ DaemonStep(q) \/ Launch(q)
<1>1. ProcOK /\ FilesOK /\ SettingsTypeOK
  BY TypeParts
<1>2. ASSUME NEW p \in Daemons, DaemonStep(p), p # q PROVE proc'[q] = proc[q]
  <2>1. PICK r : proc' = [proc EXCEPT ![p] = r]
    <3>1. CASE RunDaemon(p) \/ ProcessFails(p) \/ Exit(p) \/ Stop(p)
      BY <3>1 DEF RunDaemon, Launch, ProcessFails, Exit, End, Stop, Move
    <3>2. CASE ReadVersion(p) \/ CreateNext(p) \/ AlterNext(p) \/ Stamp(p)
      BY <3>2 DEF ReadVersion, CreateNext, AlterNext, Stamp, End, Move
    <3>3. CASE Probe(p) \/ Bind(p)
      BY <3>3 DEF Probe, Bind, End
    <3> QED
      BY <1>2, <3>1, <3>2, <3>3 DEF DaemonStep, Startup
  <2> QED
    BY <1>1, <1>2, <2>1 DEF ProcOK
<1>3. ASSUME NEW p \in Daemons, Launch(p), p # q PROVE proc'[q] = proc[q]
  BY <1>1, <1>3, LaunchEffect
<1> QED
  BY <1>2, <1>3, Actors DEF Start, vars

\* Every step keeps the processes well typed.
LEMMA NextProc ==
    ASSUME TypeInv, [Next]_vars
    PROVE  ProcOK'
<1>1. ProcOK /\ FilesOK /\ SettingsTypeOK
  BY TypeParts
<1>2. ASSUME NEW p \in Daemons, DaemonStep(p) PROVE ProcOK'
  <2>1. CASE RunDaemon(p)
    BY <1>1, <2>1, LaunchEffect DEF RunDaemon
  <2>2. CASE ReadVersion(p)
    BY <1>1, <2>2, MoveEffect DEF ReadVersion
  <2>3. CASE Probe(p)
    BY <1>1, <2>3, ProbeEffect
  <2>4. CASE CreateNext(p)
    <3>1. proc[p].step + 1 \in Nat
      BY <1>1, StepType
    <3> QED
      BY <1>1, <2>4, <3>1, MoveEffect DEF CreateNext
  <2>5. CASE AlterNext(p)
    <3>1. proc[p].step + 1 \in Nat
      BY <1>1, StepType
    <3> QED
      BY <1>1, <2>5, <3>1, MoveEffect, EndEffect DEF AlterNext
  <2>6. CASE Stamp(p) \/ Stop(p)
    BY <1>1, <2>6, MoveEffect DEF Stamp, Stop
  <2>7. CASE Bind(p)
    BY <1>1, <2>7, BindEffect, EndEffect DEF Bind
  <2>8. CASE ProcessFails(p) \/ Exit(p)
    BY <1>1, <2>8, EndEffect DEF ProcessFails, Exit
  <2> QED
    BY <1>2, <2>1, <2>2, <2>3, <2>4, <2>5, <2>6, <2>7, <2>8 DEF DaemonStep, Startup
<1>3. ASSUME NEW o \in Operators, Start(o) PROVE ProcOK'
  BY <1>1, <1>3, LaunchEffect DEF Start
<1>4. CASE UNCHANGED proc
  BY <1>1, <1>4 DEF ProcOK
<1> QED
  BY <1>2, <1>3, <1>4, Actors DEF vars

\* The statements of a migration are numbered from 1.
LEMMA StatementOf ==
    /\ \A k \in 1..Len(SCHEMA) : SCHEMA[k] \in Range(SCHEMA)
    /\ \A k \in 1..Len(MIGRATE_V2) : MIGRATE_V2[k] \in Range(MIGRATE_V2)
    /\ \A t \in Range(SCHEMA) : \E k \in 1..Len(SCHEMA) : t = SCHEMA[k]
    /\ \A c \in Range(MIGRATE_V2) : \E k \in 1..Len(MIGRATE_V2) : c = MIGRATE_V2[k]
    /\ Len(SCHEMA) \in Nat \ {0} /\ Len(MIGRATE_V2) \in Nat \ {0}
<1>1. /\ SCHEMA \in Seq(STRING) /\ MIGRATE_V2 \in Seq(V1Tables \X STRING)
      /\ MIGRATE_V2 # <<>>
  BY SchemaAssumption
<1>2. DOMAIN SCHEMA = 1..Len(SCHEMA) /\ DOMAIN MIGRATE_V2 = 1..Len(MIGRATE_V2)
      /\ Len(SCHEMA) \in Nat /\ Len(MIGRATE_V2) \in Nat
  BY <1>1
<1>3. Len(MIGRATE_V2) # 0
  BY <1>1
<1>4. "messages" \in Range(SCHEMA)
  BY SchemaAssumption
<1>5. Len(SCHEMA) # 0
  BY <1>2, <1>4 DEF Range
<1> QED
  BY <1>2, <1>3, <1>5 DEF Range

\* What the statements of a migration do to the database: tables and columns are only
\* ever added, and only those of the schema.
LEMMA DbStep ==
    ASSUME TypeInv, SchemaInv, [Next]_vars
    PROVE  /\ DbOK' /\ db.tables \subseteq db'.tables /\ db.columns \subseteq db'.columns
           /\ db'.version = db.version \/ \E p \in Daemons : Stamp(p)
           /\ Native => Native'
           /\ "messages" \notin db'.tables => "messages" \notin db.tables
<1>1. DbOK /\ ProcOK
  BY TypeParts
<1>2. ASSUME NEW p \in Daemons, CreateNext(p)
      PROVE  /\ DbOK' /\ db.tables \subseteq db'.tables /\ db.columns \subseteq db'.columns
             /\ db'.version = db.version /\ (Native => Native')
  <2> DEFINE t == SCHEMA[proc[p].step]
  <2>1. t \in Range(SCHEMA)
    <3>1. Reached(p) /\ proc[p].at = "create"
      BY <1>2 DEF SchemaInv, CreateNext
    <3>2. proc[p].step \in 1..Len(SCHEMA)
      BY <3>1 DEF Reached
    <3> QED
      BY <3>2, StatementOf
  <2>2. ColumnsOf(t) \subseteq Range(MIGRATE_V2)
    BY DEF ColumnsOf
  <2>3. db' = Create(db, t)
    BY <1>2 DEF CreateNext
  <2> HIDE DEF t
  <2>4. CASE t \in db.tables
    BY <1>1, <2>3, <2>4 DEF Create, DbOK, Native
  <2>5. CASE t \notin db.tables
    <3>1. /\ db' = [db EXCEPT !.tables = db.tables \cup {t}, !.columns = db.columns \cup ColumnsOf(t)]
      BY <2>3, <2>5 DEF Create
    <3>2. DbOK' /\ db'.version = db.version /\ db'.tables = db.tables \cup {t}
          /\ db'.columns = db.columns \cup ColumnsOf(t)
      BY <1>1, <2>1, <2>2, <3>1 DEF DbOK
    <3> QED
      BY <3>2 DEF Native
  <2> QED
    BY <2>4, <2>5
<1>3. ASSUME NEW p \in Daemons, AlterNext(p)
      PROVE  /\ DbOK' /\ db.tables = db'.tables /\ db.columns \subseteq db'.columns
             /\ db'.version = db.version /\ (Native => Native')
  <2> DEFINE c == MIGRATE_V2[proc[p].step]
  <2>1. c \in Range(MIGRATE_V2)
    <3>1. Reached(p) /\ proc[p].at = "alter"
      BY <1>3 DEF SchemaInv, AlterNext
    <3>2. proc[p].step \in 1..Len(MIGRATE_V2)
      BY <3>1 DEF Reached
    <3> QED
      BY <3>2, StatementOf
  <2>2. db' = db \/ db' = Alter(db, c)
    BY <1>3 DEF AlterNext
  <2> HIDE DEF c
  <2>3. CASE db' = db
    BY <1>1, <2>3 DEF DbOK, Native
  <2>4. CASE db' = Alter(db, c)
    <3>1. DbOK' /\ db'.version = db.version /\ db'.tables = db.tables
          /\ db'.columns = db.columns \cup {c}
      BY <1>1, <2>1, <2>4 DEF DbOK, Alter
    <3> QED
      BY <3>1 DEF Native
  <2> QED
    BY <2>2, <2>3, <2>4
<1>4. ASSUME NEW p \in Daemons, Stamp(p)
      PROVE  DbOK' /\ db.tables = db'.tables /\ db.columns = db'.columns /\ (Native => Native')
  <2>1. DbOK' /\ db.tables = db'.tables /\ db.columns = db'.columns
    BY <1>1, <1>4 DEF DbOK, Stamp
  <2> QED
    BY <2>1 DEF Native
<1>5. CASE UNCHANGED db
  BY <1>1, <1>5 DEF DbOK, Native
<1>6. ASSUME NEW p \in Daemons, DaemonStep(p)
      PROVE  UNCHANGED db \/ CreateNext(p) \/ AlterNext(p) \/ Stamp(p)
  BY <1>6 DEF DaemonStep, Startup, RunDaemon, ReadVersion, Probe, Bind, ProcessFails, Exit, Stop
<1> QED
  BY <1>2, <1>3, <1>4, <1>5, <1>6, Actors DEF vars

\* Every step keeps the bounds, and with them the numbers of key pairs.
LEMMA NextBound == ASSUME TypeInv, [Next]_vars PROVE BoundOK'
<1>1. BoundOK
  BY TypeParts
<1>2. CASE UNCHANGED <<keys, left>>
  BY <1>1, <1>2 DEF BoundOK
<1>3. ASSUME UNCHANGED keys, NEW what \in {"runs", "faults", "edits"}, Use(what) PROVE BoundOK'
  BY <1>1, <1>3, UseType DEF BoundOK
<1>4. ASSUME keys' = keys + 1, Use("keys") PROVE BoundOK'
  <2>1. left' \in [{"keys", "edits", "runs", "faults"} -> Nat] /\ left'["keys"] = left["keys"] - 1
        /\ left["keys"] \in Nat
    BY <1>1, <1>4, UseType
  <2> QED
    BY <1>1, <1>4, <2>1, LifecycleBoundsAssumption DEF BoundOK, Key
<1>5. ASSUME NEW p \in Daemons, DaemonStep(p), UNCHANGED keys
      PROVE  UNCHANGED left \/ Use("runs") \/ Use("faults")
  BY <1>5 DEF DaemonStep, Startup, RunDaemon, Launch, ReadVersion, Probe, CreateNext, AlterNext, Stamp, Bind,
              ProcessFails, Exit, Stop
<1>6. ASSUME NEW o \in Operators, Start(o) PROVE Use("runs")
  BY <1>6 DEF Start, Launch
<1>7. ASSUME NEW o \in Operators, KeyStep(o)
      PROVE  UNCHANGED <<keys, left>> \/ (UNCHANGED keys /\ Use("faults")) \/ (keys' = keys + 1 /\ Use("keys"))
  BY <1>7 DEF KeyStep, PollEnds, GenerateStep, Generate, Fingerprint, Copy, Truncate, Write, CommandFails, files
<1>8. ASSUME NEW o \in Operators, Configure(o) PROVE UNCHANGED left \/ Use("edits") \/ Use("faults")
  BY <1>8 DEF Configure
<1> QED
  BY <1>2, <1>3, <1>4, <1>5, <1>6, <1>7, <1>8, Actors DEF vars, files

\* A command that ends leaves its operator idle.
LEMMA IdleEffect ==
    ASSUME CmdOK, NEW o \in Operators, cmd' = [cmd EXCEPT ![o] = Idle]
    PROVE  CmdOK' /\ ~Active(o)' /\ \A q \in Operators : q # o => cmd'[q] = cmd[q]
<1>1. Idle \in CmdState /\ Idle.at = "idle"
  BY DEF CmdState, Idle, Kind
<1> QED
  BY <1>1 DEF CmdOK, Command, Active

\* A command that goes on keeps what it was given.
LEMMA AtEffect ==
    ASSUME CmdOK, NEW o \in Operators, Active(o),
           NEW a \in {"copy", "truncate", "write"}, NEW f \in Key \cup {0},
           \/ cmd' = [cmd EXCEPT ![o].at = a] /\ f = cmd[o].fp
           \/ cmd' = [cmd EXCEPT ![o].at = a, ![o].fp = f]
    PROVE  /\ CmdOK' /\ cmd'[o].at = a /\ cmd'[o].fp = f
           /\ cmd'[o].kind = cmd[o].kind /\ cmd'[o].force = cmd[o].force
           /\ cmd'[o].key = cmd[o].key /\ cmd'[o].name = cmd[o].name
           /\ \A q \in Operators : q # o => cmd'[q] = cmd[q]
<1>1. cmd[o] \in CmdState /\ cmd[o].name \in Names /\ cmd[o].key \in Key
  BY DEF CmdOK, Command
<1> DEFINE r == [cmd[o] EXCEPT !.at = a, !.fp = f]
<1>2. /\ r \in CmdState /\ r.at = a /\ r.fp = f /\ r.kind = cmd[o].kind /\ r.force = cmd[o].force
      /\ r.key = cmd[o].key /\ r.name = cmd[o].name
  BY <1>1 DEF CmdState
<1>3. cmd' = [cmd EXCEPT ![o] = r]
  <2>1. CASE cmd' = [cmd EXCEPT ![o].at = a] /\ f = cmd[o].fp
    <3>1. [cmd[o] EXCEPT !.at = a] = r
      BY <1>1, <2>1 DEF CmdState
    <3> QED
      BY <2>1, <3>1
  <2>2. CASE cmd' = [cmd EXCEPT ![o].at = a, ![o].fp = f]
    BY <2>2
  <2> QED
    BY <2>1, <2>2
<1> HIDE DEF r
<1>4. cmd'[o] = r /\ \A q \in Operators : q # o => cmd'[q] = cmd[q]
  BY <1>3 DEF CmdOK
<1>5. cmd' \in [Operators -> CmdState]
  BY <1>2, <1>3 DEF CmdOK
<1>6. \A q \in Operators : Command(q)'
  BY <1>1, <1>2, <1>4 DEF CmdOK, Command, Active
<1> QED
  BY <1>2, <1>4, <1>5, <1>6 DEF CmdOK

\* A generate command begins with a new key pair, past its guard.
LEMMA GenerateEffect ==
    ASSUME TypeInv, NEW o \in Operators, NEW kind \in Kind, NEW name \in Names, NEW force \in BOOLEAN,
           Generate(o, kind, name, force)
    PROVE  /\ CmdOK' /\ cmd'[o].at \in {"fp", "truncate"} /\ cmd'[o].kind = kind /\ cmd'[o].force = force
           /\ cmd'[o].at = "truncate" => ~Guarded(kind) /\ kind = "identity"
           /\ Guarded(kind) => force
           /\ \A q \in Operators : q # o => cmd'[q] = cmd[q]
<1>1. CmdOK /\ BoundOK
  BY TypeParts
<1>2. keys + 1 \in Key
  BY <1>1, UseType, LifecycleBoundsAssumption DEF Generate, BoundOK, Use, Key
<1> DEFINE a == IF kind = "authority" \/ Guarded(kind) THEN "fp" ELSE "truncate"
           r == [at |-> a, kind |-> kind, name |-> name, force |-> force, key |-> keys + 1, fp |-> 0]
<1>3. a \in {"fp", "truncate"} /\ (a = "truncate" => ~Guarded(kind) /\ kind = "identity")
  BY DEF Kind
<1>4. cmd' = [cmd EXCEPT ![o] = r] /\ (Guarded(kind) => force)
  BY DEF Generate
<1> HIDE DEF a
<1>5. r \in CmdState
  BY <1>2, <1>3 DEF CmdState
<1>6. cmd'[o] = r /\ cmd' \in [Operators -> CmdState] /\ \A q \in Operators : q # o => cmd'[q] = cmd[q]
  BY <1>1, <1>4, <1>5 DEF CmdOK
<1>7. \A q \in Operators : Command(q)'
  BY <1>1, <1>2, <1>5, <1>6 DEF CmdOK, Command, Active
<1> QED
  BY <1>3, <1>4, <1>6, <1>7 DEF CmdOK

\* Every step keeps the commands well typed.
LEMMA NextCmd == ASSUME TypeInv, [Next]_vars PROVE CmdOK'
<1>1. CmdOK /\ FilesOK
  BY TypeParts
<1>2. CASE UNCHANGED cmd
  BY <1>1, <1>2 DEF CmdOK, Command, Active
<1>3. ASSUME NEW o \in Operators, PollEnds(o) \/ Write(o) \/ CommandFails(o) PROVE CmdOK'
  BY <1>1, <1>3, IdleEffect DEF PollEnds, Write, CommandFails
<1>4. ASSUME NEW o \in Operators, GenerateStep(o) PROVE CmdOK'
  BY <1>4, GenerateEffect DEF GenerateStep
<1>5. ASSUME NEW o \in Operators, Fingerprint(o) PROVE CmdOK'
  <2>1. Active(o) /\ cmd[o].kind \in Kind
    BY <1>1, <1>5 DEF Fingerprint, Active, CmdOK, CmdState
  <2>2. file[cmd[o].kind].key \in Key \cup {0}
    BY <1>1, <2>1 DEF FilesOK
  <2> QED
    BY <1>1, <1>5, <2>1, <2>2, AtEffect DEF Fingerprint
<1>6. ASSUME NEW o \in Operators, Copy(o) \/ Truncate(o) PROVE CmdOK'
  <2>1. Active(o) /\ cmd[o].fp \in Key \cup {0}
    BY <1>1, <1>6 DEF Copy, Truncate, Active, CmdOK, CmdState
  <2> QED
    BY <1>1, <1>6, <2>1, AtEffect DEF Copy, Truncate
<1>7. ASSUME NEW o \in Operators, Start(o) PROVE CmdOK'
  <2>1. file["identity"].name \in Names \cup {"none"}
    BY <1>1 DEF FilesOK, Kind
  <2> DEFINE r == [Idle EXCEPT !.at = "poll", !.name = Addressee]
  <2>2. r \in CmdState /\ r.at = "poll"
    BY <2>1 DEF CmdState, Idle, Kind, Addressee
  <2>3. cmd' = [cmd EXCEPT ![o] = r]
    BY <1>7 DEF Start, Free
  <2> QED
    BY <1>1, <2>2, <2>3 DEF CmdOK, Command, Active
<1> QED
  BY <1>2, <1>3, <1>4, <1>5, <1>6, <1>7, Actors DEF KeyStep, vars

\* Which key command writes which file.
LEMMA FilesStep ==
    ASSUME TypeInv, [Next]_vars
    PROVE  \/ UNCHANGED <<file, backup, reported, overlap, names>>
           \/ \E o \in Operators : GenerateStep(o) /\ UNCHANGED <<file, backup, reported, names>>
           \/ \E o \in Operators : Copy(o) /\ UNCHANGED <<file, reported, overlap, names>>
           \/ \E o \in Operators : Truncate(o) /\ UNCHANGED <<backup, reported, overlap, names>>
           \/ \E o \in Operators : Write(o) /\ UNCHANGED <<backup, overlap>>
<1>1. ASSUME NEW o \in Operators, KeyStep(o)
      PROVE  \/ UNCHANGED <<file, backup, reported, overlap, names>>
             \/ GenerateStep(o) /\ UNCHANGED <<file, backup, reported, names>>
             \/ Copy(o) /\ UNCHANGED <<file, reported, overlap, names>>
             \/ Truncate(o) /\ UNCHANGED <<backup, reported, overlap, names>>
             \/ Write(o) /\ UNCHANGED <<backup, overlap>>
  BY <1>1 DEF KeyStep, PollEnds, Fingerprint, CommandFails, GenerateStep, Generate, Copy, Truncate, Write, files
<1> QED
  BY <1>1, Actors DEF files, vars

\* Every step keeps the key files and their histories well typed.
LEMMA NextFiles == ASSUME TypeInv, [Next]_vars PROVE FilesOK'
<1>1. FilesOK /\ CmdOK
  BY TypeParts
<1>2. CASE UNCHANGED <<file, backup, reported, overlap, names>>
  BY <1>1, <1>2 DEF FilesOK
<1>3. ASSUME NEW o \in Operators, GenerateStep(o), UNCHANGED <<file, backup, reported, names>> PROVE FilesOK'
  <2>1. overlap' \subseteq overlap \cup Kind
    BY <1>3 DEF GenerateStep, Generate
  <2> QED
    BY <1>1, <1>3, <2>1 DEF FilesOK
<1>4. ASSUME NEW o \in Operators, Copy(o), UNCHANGED <<file, reported, overlap, names>> PROVE FilesOK'
  <2>1. cmd[o].kind \in Kind /\ cmd[o].fp \in Key \cup {0}
    BY <1>1 DEF CmdOK, CmdState
  <2>2. file[cmd[o].kind].key \in Key \cup {0}
    BY <1>1, <2>1 DEF FilesOK
  <2>3. backup' = [backup EXCEPT ![cmd[o].kind] = [backup[cmd[o].kind] EXCEPT ![cmd[o].fp] = file[cmd[o].kind].key]]
    BY <1>4 DEF Copy
  <2>4. [backup[cmd[o].kind] EXCEPT ![cmd[o].fp] = file[cmd[o].kind].key] \in [Key \cup {0} -> Key \cup {0}]
    BY <1>1, <2>1, <2>2 DEF FilesOK
  <2>5. backup' \in [Kind -> [Key \cup {0} -> Key \cup {0}]]
    BY <1>1, <2>1, <2>3, <2>4 DEF FilesOK
  <2> QED
    BY <1>1, <1>4, <2>5 DEF FilesOK
<1>5. ASSUME NEW o \in Operators, Truncate(o), UNCHANGED <<backup, reported, overlap, names>> PROVE FilesOK'
  BY <1>1, <1>5 DEF FilesOK, Truncate, Cut
<1>6. ASSUME NEW o \in Operators, Write(o), UNCHANGED <<backup, overlap>> PROVE FilesOK'
  <2>1. cmd[o].kind \in Kind /\ cmd[o].name \in Names /\ cmd[o].key \in Key
    BY <1>1, <1>6 DEF CmdOK, CmdState, Command, Active, Write
  <2>2. file' = [file EXCEPT ![cmd[o].kind] = Whole(cmd[o].name, cmd[o].key)]
    BY <1>6 DEF Write
  <2>3. file' \in [Kind -> [state : {"absent", "cut", "whole"}, name : Names \cup {"none"}, key : Key \cup {0}]]
    BY <1>1, <2>1, <2>2 DEF FilesOK, Whole
  <2>4. reported' \in [Kind -> SUBSET Key] /\ names' \subseteq Names
    BY <1>1, <1>6, <2>1 DEF FilesOK, Write
  <2> QED
    BY <1>1, <1>6, <2>3, <2>4 DEF FilesOK
<1> QED
  BY <1>2, <1>3, <1>4, <1>5, <1>6, FilesStep

\* A config command is one of the steps of Settings; nothing else touches config.toml.
LEMMA SettingsStep ==
    ASSUME [Next]_vars
    PROVE  \/ UNCHANGED settings
           \/ \E o \in Operators, s \in Setting : SetConfig(o, s)
           \/ \E o \in Operators : TruncateConfig(o) \/ WriteConfig(o) \/ EditFails(o)
<1>1. ASSUME NEW o \in Operators, Configure(o)
      PROVE  \/ \E s \in Setting : SetConfig(o, s)
             \/ TruncateConfig(o) \/ WriteConfig(o) \/ EditFails(o)
  BY <1>1 DEF Configure
<1> QED
  BY <1>1, Actors DEF files, vars, settings

\* What config.toml is read as has every setting.
LEMMA LoadType == ASSUME SettingsTypeOK PROVE LoadConfig \in [Setting -> Nat]
BY DEF SettingsTypeOK, LoadConfig, Defaults

\* Every step keeps the configuration well typed.
LEMMA NextSettings == ASSUME TypeInv, [Next]_vars PROVE SettingsTypeOK'
<1>1. SettingsTypeOK
  BY TypeParts
<1>2. CASE UNCHANGED settings
  BY <1>1, <1>2 DEF settings, SettingsTypeOK
<1>3. ASSUME NEW o \in Operators, NEW s \in Setting, SetConfig(o, s) PROVE SettingsTypeOK'
  <2> DEFINE v == [LoadConfig EXCEPT ![s] = edits + 1]
             r == [at |-> "truncate", setting |-> s, number |-> edits + 1, value |-> v]
  <2>1. edits + 1 \in Nat
    BY <1>1 DEF SettingsTypeOK
  <2>2. v \in [Setting -> Nat]
    BY <1>1, <2>1, LoadType
  <2>3. edit' = [edit EXCEPT ![o] = r] /\ edits' = edits + 1 /\ conf' = conf /\ saved' = saved
        /\ spoiled' \in BOOLEAN
    BY <1>3 DEF SetConfig
  <2> HIDE DEF v
  <2>4. r \in [at : {"idle", "truncate", "write"}, setting : Setting, number : Nat, value : [Setting -> Nat]]
    BY <2>1, <2>2
  <2> HIDE DEF r
  <2> QED
    BY <1>1, <2>1, <2>3, <2>4 DEF SettingsTypeOK
<1>4. ASSUME NEW o \in Operators, TruncateConfig(o) PROVE SettingsTypeOK'
  BY <1>1, <1>4 DEF TruncateConfig, SettingsTypeOK, Defaults
<1>5. NoEdit \in [at : {"idle", "truncate", "write"}, setting : Setting, number : Nat, value : [Setting -> Nat]]
  BY SettingAssumption DEF NoEdit, Defaults
<1>6. ASSUME NEW o \in Operators, WriteConfig(o) PROVE SettingsTypeOK'
  <2>1. edit[o].value \in [Setting -> Nat] /\ edit[o].setting \in Setting /\ edit[o].number \in Nat
    BY <1>1 DEF SettingsTypeOK
  <2>2. /\ conf' = [state |-> "whole", value |-> edit[o].value]
        /\ saved' = [saved EXCEPT ![edit[o].setting] = edit[o].number]
        /\ edit' = [edit EXCEPT ![o] = NoEdit] /\ edits' = edits /\ spoiled' = spoiled
    BY <1>6 DEF WriteConfig
  <2> QED
    BY <1>1, <1>5, <2>1, <2>2 DEF SettingsTypeOK
<1>7. ASSUME NEW o \in Operators, EditFails(o) PROVE SettingsTypeOK'
  BY <1>1, <1>5, <1>7 DEF EditFails, SettingsTypeOK
<1> QED
  BY <1>2, <1>3, <1>4, <1>6, <1>7, SettingsStep

\* Every step keeps the data directory, its processes and its commands well typed.
LEMMA NextType == ASSUME TypeInv, SchemaInv, [Next]_vars PROVE TypeInv'
<1>1. DbOK' /\ ProcOK' /\ CmdOK' /\ FilesOK' /\ BoundOK' /\ SettingsTypeOK'
  BY DbStep, NextProc, NextCmd, NextFiles, NextBound, NextSettings
<1> QED
  BY <1>1 DEF TypeInv, TypeOK, DbOK, ProcOK, CmdOK, Command, FilesOK, BoundOK, ProcState, CmdState

-----------------------------------------------------------------------------
(* The schema.                                                             *)

\* A database that was complete stays complete.
LEMMA CompleteStays ==
    ASSUME TypeInv, SchemaInv, [Next]_vars, Complete(db)
    PROVE  Complete(db)' /\ Range(SCHEMA) \subseteq db'.tables
<1>1. /\ db.tables \subseteq db'.tables /\ db.columns \subseteq db'.columns
      /\ db'.tables \subseteq Range(SCHEMA) /\ db'.columns \subseteq Range(MIGRATE_V2)
  BY DbStep DEF DbOK
<1> QED
  BY <1>1 DEF Complete

\* user_version is 2 from the first completed migration on.
LEMMA VersionStays ==
    ASSUME TypeInv, SchemaInv, [Next]_vars, db.version = 2
    PROVE  db'.version = 2
<1>1. ASSUME NEW p \in Daemons, Stamp(p) PROVE db'.version = 2
  BY <1>1, TypeParts DEF Stamp, DbOK
<1> QED
  BY <1>1, DbStep

\* What a migration has reached no other process takes back.
LEMMA ReachedStays ==
    ASSUME TypeInv, SchemaInv, [Next]_vars, NEW p \in Daemons, proc'[p] = proc[p]
    PROVE  Reached(p)'
<1>1. Reached(p)
  BY DEF SchemaInv
<1>2. db.tables \subseteq db'.tables /\ db.columns \subseteq db'.columns /\ (Native => Native')
  BY DbStep
<1>3. Complete(db) => Complete(db)'
  BY CompleteStays
<1>4. db.version = 2 => db'.version = 2
  BY VersionStays
<1> QED
  BY <1>1, <1>2, <1>3, <1>4 DEF Reached

\* A native database that has got its last table has every column.
LEMMA NativeComplete ==
    ASSUME DbOK', Native', Range(SCHEMA) \subseteq db'.tables
    PROVE  Complete(db)'
<1>1. ASSUME NEW c \in Range(MIGRATE_V2) PROVE c \in db'.columns
  <2>1. PICK k \in 1..Len(MIGRATE_V2) : c = MIGRATE_V2[k]
    BY StatementOf
  <2>2. c[1] \in V1Tables
    BY <2>1, SchemaAssumption
  <2>3. c[1] \in db'.tables /\ c \in ColumnsOf(c[1])
    BY <2>2, SchemaAssumption DEF ColumnsOf
  <2> QED
    BY <2>3 DEF Native
<1> QED
  BY <1>1 DEF Complete, DbOK

\* A statement of SCHEMA: the tables up to it exist; after the last one the migration
\* goes on to the ALTERs, unless the database was native.
LEMMA CreateReaches ==
    ASSUME TypeInv, SchemaInv, [Next]_vars, NEW p \in Daemons, CreateNext(p)
    PROVE  Reached(p)'
<1>1. ProcOK /\ DbOK /\ DbOK'
  BY TypeParts, DbStep
<1>2. /\ proc[p].at = "create" /\ proc[p].step \in 1..Len(SCHEMA)
      /\ \A j \in 1..(proc[p].step - 1) : SCHEMA[j] \in db.tables
      /\ ~proc[p].had => Native
  BY DEF CreateNext, SchemaInv, Reached
<1>3. db.tables \subseteq db'.tables /\ (Native => Native')
  BY DbStep
<1>4. SCHEMA[proc[p].step] \in db'.tables
  BY <1>1 DEF CreateNext, Create, DbOK
<1>5. \A j \in 1..proc[p].step : SCHEMA[j] \in db'.tables
  BY <1>2, <1>3, <1>4
<1>6. proc[p].step \in Nat /\ Len(SCHEMA) \in Nat /\ Len(MIGRATE_V2) \in Nat \ {0}
  BY <1>1, StepType, StatementOf
<1>7. CASE proc[p].step < Len(SCHEMA)
  <2>1. /\ proc'[p].at = "create" /\ proc'[p].step = proc[p].step + 1
        /\ proc'[p].had = proc[p].had
    BY <1>1, <1>6, <1>7, MoveEffect, StepType DEF CreateNext
  <2>2. (~proc'[p].had => Native') /\ proc'[p].step \in 1..Len(SCHEMA)
    BY <1>2, <1>3, <1>6, <1>7, <2>1
  <2>3. \A j \in 1..(proc'[p].step - 1) : SCHEMA[j] \in db'.tables
    BY <1>5, <1>6, <2>1
  <2> QED
    BY <2>1, <2>2, <2>3 DEF Reached
<1>8. CASE ~(proc[p].step < Len(SCHEMA))
  <2>1. proc[p].step = Len(SCHEMA)
    BY <1>2, <1>6, <1>8
  <2>2. Range(SCHEMA) \subseteq db'.tables
    BY <1>5, <2>1, StatementOf
  <2>3. CASE proc[p].had
    <3>1. proc'[p].at = "alter" /\ proc'[p].step = 1
      BY <1>1, <1>8, <2>3, MoveEffect DEF CreateNext
    <3> QED
      BY <1>6, <2>2, <3>1 DEF Reached
  <2>4. CASE ~proc[p].had
    <3>1. proc'[p].at = "stamp"
      BY <1>1, <1>8, <2>4, MoveEffect DEF CreateNext
    <3>2. Native'
      BY <1>2, <1>3, <2>4
    <3>3. Complete(db)'
      BY <1>1, <2>2, <3>2, NativeComplete
    <3> QED
      BY <3>1, <3>3 DEF Reached
  <2> QED
    BY <2>3, <2>4
<1> QED
  BY <1>7, <1>8

\* An ALTER: the columns up to it exist, whoever added them.
LEMMA AlterReaches ==
    ASSUME TypeInv, SchemaInv, [Next]_vars, NEW p \in Daemons, AlterNext(p)
    PROVE  Reached(p)'
<1> DEFINE c == MIGRATE_V2[proc[p].step]
<1>1. ProcOK /\ DbOK /\ DbOK'
  BY TypeParts, DbStep
<1>2. /\ proc[p].at = "alter" /\ proc[p].step \in 1..Len(MIGRATE_V2)
      /\ Range(SCHEMA) \subseteq db.tables
      /\ \A j \in 1..(proc[p].step - 1) : MIGRATE_V2[j] \in db.columns
  BY DEF AlterNext, SchemaInv, Reached
<1>3. db.tables \subseteq db'.tables /\ db.columns \subseteq db'.columns
  BY DbStep
<1>4. CASE End(p, "schema")
  <2>1. proc'[p].at = "off"
    BY <1>1, <1>4, EndEffect
  <2> QED
    BY <2>1 DEF Reached
<1>5. CASE ~End(p, "schema")
  <2>1. db' = Alter(db, c)
    BY <1>5 DEF AlterNext
  <2>2. c \in db'.columns
    BY <1>1, <2>1 DEF Alter, DbOK
  <2>3. \A j \in 1..proc[p].step : MIGRATE_V2[j] \in db'.columns
    BY <1>2, <1>3, <2>2
  <2>4. proc[p].step \in Nat /\ Len(MIGRATE_V2) \in Nat
    BY <1>1, StepType, StatementOf
  <2>5. CASE proc[p].step < Len(MIGRATE_V2)
    <3>1. proc'[p].at = "alter" /\ proc'[p].step = proc[p].step + 1
      BY <1>1, <1>5, <2>5, MoveEffect, StepType DEF AlterNext
    <3>2. \A j \in 1..(proc'[p].step - 1) : MIGRATE_V2[j] \in db'.columns
      BY <2>3, <2>4, <3>1
    <3>3. proc'[p].step \in 1..Len(MIGRATE_V2) /\ Range(SCHEMA) \subseteq db'.tables
      BY <1>2, <1>3, <2>4, <2>5, <3>1
    <3> QED
      BY <3>1, <3>2, <3>3 DEF Reached
  <2>6. CASE ~(proc[p].step < Len(MIGRATE_V2))
    <3>1. proc'[p].at = "stamp"
      BY <1>1, <1>5, <2>6, MoveEffect DEF AlterNext
    <3>2. proc[p].step = Len(MIGRATE_V2)
      BY <1>2, <2>4, <2>6
    <3>3. Range(MIGRATE_V2) \subseteq db'.columns
      BY <2>3, <3>2, StatementOf
    <3>4. Complete(db)'
      BY <1>1, <1>2, <1>3, <3>3 DEF Complete, DbOK
    <3> QED
      BY <3>1, <3>4 DEF Reached
  <2> QED
    BY <2>5, <2>6
<1> QED
  BY <1>4, <1>5

\* Two migrations at once, with failures between any two statements, keep the schema
\* invariant.
LEMMA NextSchema == ASSUME TypeInv, SchemaInv, [Next]_vars PROVE SchemaInv'
<1>1. ProcOK /\ DbOK /\ FilesOK /\ SettingsTypeOK
  BY TypeParts
<1>2. "messages" \notin db'.tables => Native'
  BY DbStep DEF SchemaInv
<1>3. db'.version = 2 => Complete(db)'
  <2>1. ASSUME NEW p \in Daemons, Stamp(p) PROVE Complete(db)
    BY <2>1 DEF Stamp, SchemaInv, Reached
  <2> QED
    BY <2>1, DbStep, CompleteStays DEF SchemaInv
<1>4. ASSUME NEW p \in Daemons, DaemonStep(p) PROVE Reached(p)'
  <2>1. CASE RunDaemon(p)
    BY <1>1, <2>1, LaunchEffect DEF RunDaemon, Reached
  <2>2. CASE ReadVersion(p)
    <3>1. CASE db.version >= 2
      <4>1. db.version = 2 /\ db' = db /\ Move(p, "bind", 0)
        BY <1>1, <2>2, <3>1 DEF DbOK, ReadVersion
      <4> QED
        BY <1>1, <4>1, MoveEffect DEF Reached
    <3>2. CASE ~(db.version >= 2)
      BY <1>1, <2>2, <3>2, MoveEffect DEF ReadVersion, Reached
    <3> QED
      BY <3>1, <3>2
  <2>3. CASE Probe(p)
    <3>1. proc'[p].at = "create" /\ proc'[p].step = 1 /\ proc'[p].had = HasMessages(db)
      BY <1>1, <2>3, ProbeEffect
    <3>2. ~proc'[p].had => Native'
      BY <3>1, DbStep DEF HasMessages, SchemaInv
    <3>3. proc'[p].step \in 1..Len(SCHEMA)
      BY <3>1, StatementOf
    <3> QED
      BY <3>1, <3>2, <3>3 DEF Reached
  <2>4. CASE CreateNext(p)
    BY <2>4, CreateReaches
  <2>5. CASE AlterNext(p)
    BY <2>5, AlterReaches
  <2>6. CASE Stamp(p)
    <3>1. proc'[p].at = "bind" /\ db'.version = 2
      BY <1>1, <2>6, MoveEffect DEF Stamp, DbOK
    <3> QED
      BY <3>1 DEF Reached
  <2>7. CASE Bind(p)
    <3>1. Reached(p) /\ proc[p].at = "bind"
      BY <2>7 DEF Bind, SchemaInv
    <3>2. db'.version = 2
      BY <3>1, VersionStays DEF Reached
    <3>3. proc'[p].at \in {"off", "serving"}
      BY <1>1, <2>7, BindEffect, EndEffect DEF Bind
    <3> QED
      BY <3>2, <3>3 DEF Reached
  <2>8. CASE Stop(p)
    <3>1. Reached(p) /\ proc[p].at = "serving"
      BY <2>8 DEF Stop, SchemaInv
    <3>2. db'.version = 2
      BY <3>1, VersionStays DEF Reached
    <3>3. proc'[p].at = "exiting"
      BY <1>1, <2>8, MoveEffect DEF Stop
    <3> QED
      BY <3>2, <3>3 DEF Reached
  <2>9. CASE ProcessFails(p) \/ Exit(p)
    BY <1>1, <2>9, EndEffect DEF ProcessFails, Exit, Reached
  <2> QED
    BY <1>4, <2>1, <2>2, <2>3, <2>4, <2>5, <2>6, <2>7, <2>8, <2>9 DEF DaemonStep, Startup
<1>5. ASSUME NEW p \in Daemons, Launch(p) PROVE Reached(p)'
  BY <1>1, <1>5, LaunchEffect DEF Reached
<1>6. ASSUME NEW p \in Daemons PROVE Reached(p)'
  BY <1>4, <1>5, OneProcess, ReachedStays
<1> QED
  BY <1>2, <1>3, <1>6 DEF SchemaInv

-----------------------------------------------------------------------------
(* One daemon per identity.                                                *)

\* How a process comes by its name and its endpoint: the name is the one the identity
\* file had when it started, the endpoint one that no process held.
LEMMA NameStep ==
    ASSUME TypeInv, [Next]_vars, NEW p \in Daemons
    PROVE  \/ proc'[p] = proc[p]
           \/ proc'[p].at = "off" /\ proc'[p].expect = 0
           \/ /\ proc'[p].at = "version" /\ proc'[p].expect = 0 /\ file["identity"].state = "whole"
              /\ proc'[p].name = file["identity"].name
           \/ /\ proc[p].at \notin {"off", "serving", "exiting"}
              /\ proc'[p].at \in {"probe", "create", "alter", "stamp", "bind"}
              /\ proc'[p].name = proc[p].name /\ proc'[p].expect = proc[p].expect
              /\ proc'[p].topics = proc[p].topics
           \/ Bind(p) /\ ~Bound(proc[p].name)
           \/ /\ proc[p].at = "serving" /\ proc'[p].at = "exiting"
              /\ proc'[p].name = proc[p].name /\ proc'[p].expect = proc[p].expect
              /\ proc'[p].topics = proc[p].topics
<1>1. ProcOK /\ FilesOK /\ SettingsTypeOK
  BY TypeParts
<1>2. CASE Launch(p)
  BY <1>1, <1>2, LaunchEffect
<1>3. CASE ReadVersion(p)
  BY <1>1, <1>3, MoveEffect DEF ReadVersion
<1>4. CASE Probe(p)
  BY <1>1, <1>4, ProbeEffect DEF Probe
<1>5. CASE CreateNext(p)
  BY <1>1, <1>5, MoveEffect, StepType DEF CreateNext
<1>6. CASE AlterNext(p)
  BY <1>1, <1>6, MoveEffect, EndEffect, StepType DEF AlterNext
<1>7. CASE Stamp(p)
  BY <1>1, <1>7, MoveEffect DEF Stamp
<1>8. CASE Bind(p) /\ Bound(proc[p].name)
  BY <1>1, <1>8, EndEffect DEF Bind
<1>9. CASE Stop(p)
  BY <1>1, <1>9, MoveEffect DEF Stop
<1>10. CASE ProcessFails(p) \/ Exit(p)
  BY <1>1, <1>10, EndEffect DEF ProcessFails, Exit
<1> QED
  BY <1>2, <1>3, <1>4, <1>5, <1>6, <1>7, <1>8, <1>9, <1>10, OneProcess DEF DaemonStep, Startup, RunDaemon

\* The endpoint is the guard: whatever starts race, no two processes hold the same name.
LEMMA NextNames == ASSUME TypeInv, NamesInv, [Next]_vars PROVE NamesInv'
<1>1. ProcOK /\ FilesOK /\ SettingsTypeOK /\ CmdOK /\ ProcOK'
  BY TypeParts, NextProc
<1>2. IsFiniteSet(names') /\ names \subseteq names'
      /\ (file'["identity"].state = "whole" => file'["identity"].name \in names')
  <2>1. CASE UNCHANGED <<file, names>>
    BY <2>1 DEF NamesInv
  <2>2. ASSUME NEW o \in Operators, Truncate(o), UNCHANGED names
        PROVE  file'["identity"].state = "whole" => file'["identity"] = file["identity"]
    BY <1>1, <2>2 DEF Truncate, FilesOK, Kind, Cut
  <2>3. ASSUME NEW o \in Operators, Write(o)
        PROVE  /\ IsFiniteSet(names') /\ names \subseteq names'
               /\ file'["identity"].state = "whole" => file'["identity"].name \in names'
    <3>1. CASE cmd[o].kind = "identity"
      <4>1. names' = names \cup {cmd[o].name} /\ file'["identity"] = Whole(cmd[o].name, cmd[o].key)
        BY <1>1, <2>3, <3>1 DEF Write, FilesOK, Kind
      <4>2. IsFiniteSet(names')
        BY <4>1, FS_AddElement DEF NamesInv
      <4> QED
        BY <4>1, <4>2 DEF Whole
    <3>2. CASE cmd[o].kind # "identity"
      <4>1. names' = names /\ file'["identity"] = file["identity"]
        BY <1>1, <2>3, <3>2 DEF Write, FilesOK, Kind
      <4> QED
        BY <4>1 DEF NamesInv
    <3> QED
      BY <3>1, <3>2
  <2> QED
    BY <2>1, <2>2, <2>3, FilesStep DEF NamesInv
<1>3. ASSUME NEW p \in Daemons, proc'[p].at # "off" PROVE proc'[p].name \in names'
  <2>1. CASE Bind(p) /\ ~Bound(proc[p].name)
    BY <1>1, <1>2, <2>1, BindEffect DEF NamesInv, Bind
  <2> QED
    BY <1>2, <1>3, <2>1, NameStep DEF NamesInv
<1>4. ASSUME NEW p \in Daemons, NEW q \in Daemons, NEW n, Binds(p, n)', Binds(q, n)' PROVE p = q
  <2>1. ASSUME NEW r \in Daemons, Binds(r, n)'
        PROVE  Binds(r, n) \/ (Bind(r) /\ ~Bound(n) /\ proc'[r].name = n)
    <3>1. CASE Bind(r) /\ ~Bound(proc[r].name)
      BY <1>1, <2>1, <3>1, BindEffect DEF Binds
    <3> QED
      BY <2>1, <3>1, NameStep DEF Binds
  <2>2. CASE Binds(p, n) /\ Binds(q, n)
    BY <2>2 DEF NamesInv
  <2>3. ASSUME NEW r \in Daemons, NEW s \in Daemons, Bind(r), ~Bound(n), Binds(s, n)', proc[r].at = "bind",
               ~Bound(proc[r].name)
        PROVE  r = s
    <3>1. SUFFICES ASSUME r # s PROVE FALSE
      OBVIOUS
    <3>2. proc'[s] = proc[s]
      BY <1>1, <2>3, <3>1, BindEffect
    <3> QED
      BY <2>3, <3>2 DEF Binds, Bound
  <2>4. ASSUME NEW r \in Daemons, Bind(r), ~Bound(n), proc'[r].name = n, Binds(r, n)'
        PROVE  proc[r].at = "bind" /\ ~Bound(proc[r].name)
    <3>1. CASE Bound(proc[r].name)
      <4>1. proc'[r].at = "off"
        BY <1>1, <2>4, <3>1, EndEffect DEF Bind
      <4> QED
        BY <2>4, <4>1 DEF Binds
    <3> QED
      BY <2>4, <3>1 DEF Bind
  <2> QED
    BY <1>4, <2>1, <2>2, <2>3, <2>4
<1> QED
  BY <1>2, <1>3, <1>4 DEF NamesInv

\* REQ-0049 follows: with a single name, no two processes serve.
LEMMA NamesOneDaemon == NamesInv => OneDaemon
<1> SUFFICES ASSUME NamesInv, Cardinality(names) <= 1, NEW p \in Daemons, NEW q \in Daemons,
                    {proc[p].at, proc[q].at} \subseteq {"serving", "exiting"}
             PROVE  p = q /\ (Readable => Binds(p, Addressee))
  BY DEF OneDaemon
<1>1. \A a, b \in names : a = b
  <2> SUFFICES ASSUME NEW a \in names, NEW b \in names, a # b PROVE FALSE
    OBVIOUS
  <2>1. IsFiniteSet(names)
    BY DEF NamesInv
  <2>2. IsFiniteSet({a}) /\ Cardinality({a}) = 1
    BY FS_Singleton
  <2>3. IsFiniteSet({a} \cup {b}) /\ Cardinality({a} \cup {b}) = 2
    <3>1. /\ IsFiniteSet({a} \cup {b})
          /\ Cardinality({a} \cup {b}) = IF b \in {a} THEN Cardinality({a}) ELSE Cardinality({a}) + 1
      BY <2>2, FS_AddElement, Zenon
    <3>2. b \notin {a}
      OBVIOUS
    <3> QED
      BY <2>2, <3>1, <3>2
  <2>4. Cardinality({a} \cup {b}) <= Cardinality(names)
    BY <2>1, FS_Subset
  <2>5. Cardinality(names) \in Nat
    BY <2>1, FS_CardinalityType
  <2> QED
    BY <2>3, <2>4, <2>5
<1>2. proc[p].name \in names /\ proc[q].name \in names
  BY DEF NamesInv
<1>3. Binds(p, proc[p].name) /\ Binds(q, proc[p].name)
  BY <1>1, <1>2 DEF Binds
<1>4. p = q
  BY <1>3 DEF NamesInv
<1>5. Readable => Binds(p, Addressee)
  BY <1>1, <1>2, <1>3 DEF NamesInv, Readable, Addressee
<1> QED
  BY <1>4, <1>5

-----------------------------------------------------------------------------
(* Keys.                                                                   *)

(* KeysInv in parts.                                                        *)
CutHasNoKey == \A kind \in Kind : file[kind].state # "whole" => file[kind].key = 0
BackupsNamed == \A kind \in Kind \ overlap : \A fp \in Key \cup {0} : backup[kind][fp] \in {0, fp}
OneCommand ==
    \A kind \in Kind \ overlap : \A o, q \in Operators :
        Active(o) /\ Active(q) /\ cmd[o].kind = kind /\ cmd[q].kind = kind => o = q
AllKnow == \A o \in Operators : Active(o) /\ cmd[o].kind \notin overlap => Knows(o)

\* The parts together are KeysInv.
LEMMA KeysParts == KeysInv <=> CutHasNoKey /\ BackupsNamed /\ OneCommand /\ AllKnow /\ KeysKept
BY DEF KeysInv, CutHasNoKey, BackupsNamed, OneCommand, AllKnow

\* daemon start, and commands that end: nothing new is known, and nothing is touched.
LEMMA EndKeepsKeys ==
    ASSUME TypeInv, KeysInv, UNCHANGED <<file, backup, reported, overlap>>, NEW o \in Operators,
           cmd'[o] = cmd[o] \/ ~Active(o)', \A q \in Operators : q # o => cmd'[q] = cmd[q]
    PROVE  KeysInv'
<1>1. CmdOK
  BY TypeParts
<1>2. OneCommand'
  BY KeysParts DEF OneCommand, Active
<1>3. AllKnow'
  BY KeysParts DEF AllKnow, Active, Knows
<1> QED
  BY <1>2, <1>3 DEF KeysInv, OneCommand, AllKnow, KeysKept

\* The step of an active command other than the first keeps the commands apart.
LEMMA StillOne ==
    ASSUME TypeInv, KeysInv, NEW o \in Operators, Active(o), cmd'[o].kind = cmd[o].kind \/ ~Active(o)',
           overlap' = overlap, \A q \in Operators : q # o => cmd'[q] = cmd[q]
    PROVE  OneCommand'
BY KeysParts DEF OneCommand, Active

\* backup_existing's first half: the fingerprint it takes is the file's.
LEMMA FingerprintKeepsKeys ==
    ASSUME TypeInv, KeysInv, NEW o \in Operators, Fingerprint(o), UNCHANGED <<file, backup, reported, overlap>>
    PROVE  KeysInv'
<1>1. CmdOK /\ FilesOK
  BY TypeParts
<1>2. Active(o) /\ cmd[o].kind \in Kind
  BY <1>1 DEF Fingerprint, Active, CmdOK, CmdState
<1> DEFINE f == file[cmd[o].kind]
<1>3. f.key \in Key \cup {0}
  BY <1>1, <1>2 DEF FilesOK
<1>4. /\ cmd'[o].at = IF f.state = "absent" THEN "truncate" ELSE "copy"
      /\ cmd'[o].fp = f.key /\ cmd'[o].kind = cmd[o].kind /\ cmd'[o].force = cmd[o].force
      /\ \A q \in Operators : q # o => cmd'[q] = cmd[q]
  <2> DEFINE a == IF f.state = "absent" THEN "truncate" ELSE "copy"
  <2>1. cmd' = [cmd EXCEPT ![o].at = a, ![o].fp = f.key]
    BY Zenon DEF Fingerprint
  <2>2. a \in {"copy", "truncate", "write"}
    OBVIOUS
  <2> HIDE DEF a, f
  <2>3. /\ cmd'[o].at = a /\ cmd'[o].fp = f.key /\ cmd'[o].kind = cmd[o].kind
        /\ cmd'[o].force = cmd[o].force /\ \A q \in Operators : q # o => cmd'[q] = cmd[q]
    BY <1>1, <1>2, <1>3, <2>1, <2>2, AtEffect, ZenonT(60)
  <2> QED
    BY <2>3 DEF a
<1>5. OneCommand'
  BY <1>2, <1>4, StillOne
<1>6. ASSUME NEW q \in Operators, Active(q)', cmd'[q].kind \notin overlap' PROVE Knows(q)'
  <2>1. CASE q # o
    BY <1>4, <1>6, <2>1, KeysParts DEF AllKnow, Active, Knows
  <2>2. CASE q = o
    <3>1. Knows(o) /\ (f.state = "absent" => f.key = 0)
      BY <1>2, <1>4, <1>6, <2>2, KeysParts DEF AllKnow, CutHasNoKey
    <3> QED
      BY <1>4, <2>2, <3>1 DEF Knows
  <2> QED
    BY <2>1, <2>2
<1> QED
  BY <1>5, <1>6 DEF KeysInv, OneCommand, KeysKept

\* A guarded command that begins either is alone, or marks its file as worked on by two.
LEMMA GenerateKeepsKeys ==
    ASSUME TypeInv, KeysInv, NEW o \in Operators, GenerateStep(o), UNCHANGED <<file, backup, reported>>
    PROVE  KeysInv'
<1>1. CmdOK /\ FilesOK
  BY TypeParts
<1>2. PICK kind \in Kind, name \in Names, force \in BOOLEAN : Generate(o, kind, name, force)
  BY DEF GenerateStep
<1>3. /\ cmd'[o].at \in {"fp", "truncate"} /\ cmd'[o].kind = kind /\ cmd'[o].force = force
      /\ cmd'[o].at = "truncate" => ~Guarded(kind) /\ kind = "identity"
      /\ Guarded(kind) => force
      /\ \A q \in Operators : q # o => cmd'[q] = cmd[q]
  BY <1>2, GenerateEffect
<1>4. /\ overlap \subseteq overlap'
      /\ \A q \in Operators \ {o} : cmd[q].at \notin {"idle", "poll"} /\ cmd[q].kind = kind => kind \in overlap'
  BY <1>2 DEF Generate
<1>5. \A q \in Operators \ {o} : Active(q) /\ cmd[q].kind = kind => kind \in overlap'
  BY <1>4 DEF Active
<1>6. OneCommand'
  BY <1>3, <1>4, <1>5, KeysParts DEF OneCommand, Active
<1>7. ASSUME NEW q \in Operators, Active(q)', cmd'[q].kind \notin overlap' PROVE Knows(q)'
  <2>1. CASE q # o
    BY <1>3, <1>4, <1>7, <2>1, KeysParts DEF AllKnow, Active, Knows
  <2>2. CASE q = o
    <3>1. file[kind].state = "whole" => force
      BY <1>3 DEF Guarded
    <3>2. cmd'[o].at = "truncate" => file[kind].key = 0
      BY <1>3, KeysParts DEF Guarded, CutHasNoKey
    <3> QED
      BY <1>3, <2>2, <3>1, <3>2 DEF Knows
  <2> QED
    BY <2>1, <2>2
<1>8. BackupsNamed' /\ KeysKept'
  BY <1>4, KeysParts DEF BackupsNamed, KeysKept
<1> QED
  BY <1>6, <1>7, <1>8 DEF KeysInv, OneCommand, BackupsNamed

\* backup_existing's copy: the backup of that name is of that key.
LEMMA CopyKeepsKeys ==
    ASSUME TypeInv, KeysInv, NEW o \in Operators, Copy(o), UNCHANGED <<file, reported, overlap>>
    PROVE  KeysInv'
<1>1. CmdOK /\ FilesOK
  BY TypeParts
<1> DEFINE kind == cmd[o].kind
           fp == cmd[o].fp
<1>2. Active(o) /\ kind \in Kind /\ fp \in Key \cup {0}
  BY <1>1 DEF Copy, Active, CmdOK, CmdState
<1>3. /\ cmd'[o].at = "truncate" /\ cmd'[o].kind = kind /\ cmd'[o].force = cmd[o].force
      /\ \A q \in Operators : q # o => cmd'[q] = cmd[q]
  BY <1>1, <1>2, AtEffect DEF Copy
<1>4. /\ \A k \in Kind : k # kind => backup'[k] = backup[k]
      /\ \A g \in Key \cup {0} : backup'[kind][g] = IF g = fp THEN file[kind].key ELSE backup[kind][g]
  <2>1. backup' = [backup EXCEPT ![kind] = [backup[kind] EXCEPT ![fp] = file[kind].key]]
    BY DEF Copy
  <2> QED
    BY <1>1, <1>2, <2>1 DEF FilesOK
<1>5. kind \notin overlap => Knows(o) /\ fp = file[kind].key
  BY <1>2, KeysParts DEF AllKnow, Knows, Copy
<1>6. OneCommand'
  BY <1>2, <1>3, StillOne
<1>7. BackupsNamed'
  BY <1>2, <1>4, <1>5, KeysParts DEF BackupsNamed
<1>8. ASSUME NEW q \in Operators, Active(q)', cmd'[q].kind \notin overlap' PROVE Knows(q)'
  <2>1. CASE q # o
    <3>1. Active(q) /\ cmd'[q] = cmd[q] /\ cmd[q].kind \in Kind \ overlap
      BY <1>1, <1>3, <1>8, <2>1 DEF Active, CmdOK, CmdState
    <3>2. cmd[q].kind # kind
      BY <1>2, <2>1, <3>1, KeysParts DEF OneCommand
    <3>3. Knows(q) /\ backup'[cmd[q].kind] = backup[cmd[q].kind]
      BY <1>4, <3>1, <3>2, KeysParts DEF AllKnow
    <3> QED
      BY <3>1, <3>3 DEF Knows
  <2>2. CASE q = o
    BY <1>2, <1>3, <1>4, <1>5, <1>8, <2>2 DEF Knows
  <2> QED
    BY <2>1, <2>2
<1>9. ASSUME NEW k \in Kind \ overlap, NEW r \in reported[k]
      PROVE  file[k].key = r \/ \E g \in Key \cup {0} : backup'[k][g] = r
  <2>1. r \in Key /\ r # 0
    BY <1>1, LifecycleBoundsAssumption DEF FilesOK, Key
  <2>2. file[k].key = r \/ backup[k][r] = r
    BY <2>1, KeysParts DEF KeysKept, BackupsNamed
  <2> QED
    BY <1>4, <1>5, <2>1, <2>2
<1> QED
  BY <1>6, <1>7, <1>8, <1>9, KeysParts DEF KeysInv, OneCommand, BackupsNamed, KeysKept, CutHasNoKey

\* save's truncation: the key that goes has a backup.
LEMMA TruncateKeepsKeys ==
    ASSUME TypeInv, KeysInv, NEW o \in Operators, Truncate(o), UNCHANGED <<backup, reported, overlap>>
    PROVE  KeysInv'
<1>1. CmdOK /\ FilesOK
  BY TypeParts
<1> DEFINE kind == cmd[o].kind
<1>2. Active(o) /\ kind \in Kind /\ cmd[o].fp \in Key \cup {0}
  BY <1>1 DEF Truncate, Active, CmdOK, CmdState
<1>3. /\ cmd'[o].at = "write" /\ cmd'[o].kind = kind /\ cmd'[o].force = cmd[o].force
      /\ \A q \in Operators : q # o => cmd'[q] = cmd[q]
  BY <1>1, <1>2, AtEffect DEF Truncate
<1>4. file'[kind] = Cut /\ \A k \in Kind : k # kind => file'[k] = file[k]
  BY <1>1, <1>2 DEF Truncate, FilesOK
<1>5. kind \notin overlap => file[kind].key = 0 \/ backup[kind][file[kind].key] = file[kind].key
  BY <1>2, KeysParts DEF AllKnow, Knows, Truncate
<1>6. OneCommand'
  BY <1>2, <1>3, StillOne
<1>7. CutHasNoKey'
  BY <1>4, KeysParts DEF CutHasNoKey, Cut
<1>8. ASSUME NEW q \in Operators, Active(q)', cmd'[q].kind \notin overlap' PROVE Knows(q)'
  <2>1. CASE q # o
    <3>1. Active(q) /\ cmd'[q] = cmd[q] /\ cmd[q].kind \in Kind \ overlap
      BY <1>1, <1>3, <1>8, <2>1 DEF Active, CmdOK, CmdState
    <3>2. cmd[q].kind # kind
      BY <1>2, <2>1, <3>1, KeysParts DEF OneCommand
    <3>3. Knows(q) /\ file'[cmd[q].kind] = file[cmd[q].kind]
      BY <1>4, <3>1, <3>2, KeysParts DEF AllKnow
    <3> QED
      BY <3>1, <3>3 DEF Knows
  <2>2. CASE q = o
    BY <1>3, <1>4, <2>2 DEF Knows, Cut
  <2> QED
    BY <2>1, <2>2
<1>9. ASSUME NEW k \in Kind \ overlap, NEW r \in reported[k]
      PROVE  file'[k].key = r \/ \E g \in Key \cup {0} : backup[k][g] = r
  <2>1. r \in Key /\ r # 0
    BY <1>1, LifecycleBoundsAssumption DEF FilesOK, Key
  <2>2. file[k].key = r \/ \E g \in Key \cup {0} : backup[k][g] = r
    BY KeysParts DEF KeysKept
  <2> QED
    BY <1>4, <1>5, <2>1, <2>2
<1> QED
  BY <1>6, <1>7, <1>8, <1>9, KeysParts DEF KeysInv, OneCommand, BackupsNamed, KeysKept, CutHasNoKey

\* save's write: the new key is in the file when it is printed.
LEMMA WriteKeepsKeys ==
    ASSUME TypeInv, KeysInv, NEW o \in Operators, Write(o), UNCHANGED <<backup, overlap>>
    PROVE  KeysInv'
<1>1. CmdOK /\ FilesOK
  BY TypeParts
<1> DEFINE kind == cmd[o].kind
<1>2. Active(o) /\ kind \in Kind /\ cmd[o].key \in Key
  BY <1>1 DEF Write, Active, CmdOK, CmdState, Command
<1>3. ~Active(o)' /\ \A q \in Operators : q # o => cmd'[q] = cmd[q]
  BY <1>1, IdleEffect DEF Write
<1>4. /\ file'[kind] = Whole(cmd[o].name, cmd[o].key) /\ \A k \in Kind : k # kind => file'[k] = file[k]
      /\ reported'[kind] = reported[kind] \cup {cmd[o].key}
      /\ \A k \in Kind : k # kind => reported'[k] = reported[k]
  BY <1>1, <1>2 DEF Write, FilesOK
<1>5. kind \notin overlap => file[kind].key = 0
  BY <1>2, KeysParts DEF AllKnow, Knows, Write, Cut
<1>6. OneCommand'
  BY <1>2, <1>3, StillOne
<1>7. CutHasNoKey'
  BY <1>4, KeysParts DEF CutHasNoKey, Whole
<1>8. ASSUME NEW q \in Operators, Active(q)', cmd'[q].kind \notin overlap' PROVE Knows(q)'
  <2>1. q # o
    BY <1>3, <1>8
  <2>2. Active(q) /\ cmd'[q] = cmd[q] /\ cmd[q].kind \in Kind \ overlap
    BY <1>1, <1>3, <1>8, <2>1 DEF Active, CmdOK, CmdState
  <2>3. cmd[q].kind # kind
    BY <1>2, <2>1, <2>2, KeysParts DEF OneCommand
  <2>4. Knows(q) /\ file'[cmd[q].kind] = file[cmd[q].kind]
    BY <1>4, <2>2, <2>3, KeysParts DEF AllKnow
  <2> QED
    BY <2>2, <2>4 DEF Knows
<1>9. ASSUME NEW k \in Kind \ overlap, NEW r \in reported'[k]
      PROVE  file'[k].key = r \/ \E g \in Key \cup {0} : backup[k][g] = r
  <2>1. CASE k = kind /\ r = cmd[o].key
    BY <1>4, <2>1 DEF Whole
  <2>2. CASE r \in reported[k]
    <3>1. r \in Key /\ r # 0
      BY <1>1, <2>2, LifecycleBoundsAssumption DEF FilesOK, Key
    <3>2. file[k].key = r \/ \E g \in Key \cup {0} : backup[k][g] = r
      BY <2>2, KeysParts DEF KeysKept
    <3> QED
      BY <1>4, <1>5, <3>1, <3>2
  <2> QED
    BY <1>4, <2>1, <2>2
<1> QED
  BY <1>6, <1>7, <1>8, <1>9, KeysParts DEF KeysInv, OneCommand, BackupsNamed, KeysKept, CutHasNoKey

\* Commands that interleave, fail and are killed keep the keys.
LEMMA NextKeys == ASSUME TypeInv, KeysInv, [Next]_vars PROVE KeysInv'
<1>1. CmdOK
  BY TypeParts
<1>2. CASE UNCHANGED <<file, backup, reported, overlap, cmd>>
  BY <1>2 DEF KeysInv, KeysKept, Active, Knows
<1>3. ASSUME NEW o \in Operators, Start(o) PROVE KeysInv'
  <2>1. UNCHANGED <<file, backup, reported, overlap>>
    BY <1>3 DEF Start, files
  <2>2. ~Active(o)' /\ \A q \in Operators : q # o => cmd'[q] = cmd[q]
    <3> DEFINE r == [Idle EXCEPT !.at = "poll", !.name = Addressee]
    <3>1. cmd' = [cmd EXCEPT ![o] = r] /\ r.at = "poll"
      BY <1>3 DEF Start, Free, Idle
    <3> QED
      BY <1>1, <3>1 DEF CmdOK, Active
  <2> QED
    BY <2>1, <2>2, EndKeepsKeys
<1>4. ASSUME NEW o \in Operators, PollEnds(o) \/ CommandFails(o) PROVE KeysInv'
  <2>1. UNCHANGED <<file, backup, reported, overlap>> /\ cmd' = [cmd EXCEPT ![o] = Idle]
    BY <1>4 DEF PollEnds, CommandFails, files
  <2>2. ~Active(o)' /\ \A q \in Operators : q # o => cmd'[q] = cmd[q]
    BY <1>1, <2>1, IdleEffect
  <2> QED
    BY <2>1, <2>2, EndKeepsKeys
<1>5. ASSUME NEW o \in Operators, Fingerprint(o) PROVE KeysInv'
  BY <1>5, FingerprintKeepsKeys DEF Fingerprint, files
<1>6. ASSUME NEW o \in Operators, GenerateStep(o) PROVE KeysInv'
  BY <1>6, GenerateKeepsKeys DEF GenerateStep, Generate
<1>7. ASSUME NEW o \in Operators, Copy(o) PROVE KeysInv'
  BY <1>7, CopyKeepsKeys DEF Copy
<1>8. ASSUME NEW o \in Operators, Truncate(o) PROVE KeysInv'
  BY <1>8, TruncateKeepsKeys DEF Truncate
<1>9. ASSUME NEW o \in Operators, Write(o) PROVE KeysInv'
  BY <1>9, WriteKeepsKeys DEF Write
<1> QED
  BY <1>2, <1>3, <1>4, <1>5, <1>6, <1>7, <1>8, <1>9, Actors DEF KeyStep, vars, files

-----------------------------------------------------------------------------
(* Settings.                                                               *)

\* The last successful edit of every setting is in the file, and a daemon binds with it.
LEMMA NextSettingsInv == ASSUME TypeInv, SettingsInv, [Next]_vars PROVE SettingsInv'
<1>1. SettingsTypeOK /\ ProcOK
  BY TypeParts
<1> DEFINE Alone == /\ \A o, q \in Operators : edit[o].at # "idle" /\ edit[q].at # "idle" => o = q
                    /\ (\A o \in Operators : edit[o].at # "write") => LoadConfig = saved
                    /\ \A o \in Operators : edit[o].at # "idle" =>
                         edit[o].value = [saved EXCEPT ![edit[o].setting] = edit[o].number]
<1>2. ~spoiled => Alone
  BY DEF SettingsInv
<1>3. ~spoiled' => Alone'
  <2>1. CASE UNCHANGED settings
    BY <1>2, <2>1 DEF settings, LoadConfig
  <2>2. ASSUME NEW o \in Operators, NEW s \in Setting, SetConfig(o, s), ~spoiled' PROVE Alone'
    <3>1. ~spoiled /\ ~Editing /\ spoiled' = (spoiled \/ Editing)
      BY <2>2 DEF SetConfig
    <3>2. LoadConfig = saved /\ \A q \in Operators : edit[q].at = "idle"
      BY <1>2, <3>1 DEF Editing
    <3>3. /\ edit'[o] = [at |-> "truncate", setting |-> s, number |-> edits + 1,
                         value |-> [LoadConfig EXCEPT ![s] = edits + 1]]
          /\ \A q \in Operators : q # o => edit'[q] = edit[q]
          /\ saved' = saved /\ LoadConfig' = LoadConfig
      BY <1>1, <2>2 DEF SetConfig, SettingsTypeOK, LoadConfig
    <3>4. /\ edit'[o].at = "truncate" /\ edit'[o].setting = s /\ edit'[o].number = edits + 1
          /\ edit'[o].value = [saved EXCEPT ![s] = edits + 1]
      BY <3>2, <3>3
    <3> QED
      BY <3>2, <3>3, <3>4
  <2>3. ASSUME NEW o \in Operators, TruncateConfig(o), ~spoiled' PROVE Alone'
    <3>1. Alone
      BY <1>2, <2>3 DEF TruncateConfig
    <3>2. /\ edit'[o].at = "write" /\ edit'[o].value = edit[o].value /\ edit'[o].setting = edit[o].setting
          /\ edit'[o].number = edit[o].number /\ \A q \in Operators : q # o => edit'[q] = edit[q]
      BY <1>1, <2>3 DEF TruncateConfig, SettingsTypeOK
    <3>3. edit[o].at # "idle" /\ saved' = saved
      BY <2>3 DEF TruncateConfig
    <3> QED
      BY <3>1, <3>2, <3>3
  <2>4. ASSUME NEW o \in Operators, WriteConfig(o), ~spoiled' PROVE Alone'
    <3>1. Alone /\ edit[o].at = "write"
      BY <1>2, <2>4 DEF WriteConfig
    <3>2. edit'[o].at = "idle" /\ \A q \in Operators : q # o => edit'[q] = edit[q]
      BY <1>1, <2>4 DEF WriteConfig, SettingsTypeOK, NoEdit
    <3>3. \A q \in Operators : edit'[q].at = "idle"
      BY <3>1, <3>2
    <3>4. LoadConfig' = edit[o].value /\ saved' = [saved EXCEPT ![edit[o].setting] = edit[o].number]
      BY <2>4 DEF WriteConfig, LoadConfig
    <3> QED
      BY <3>1, <3>3, <3>4
  <2>5. ASSUME NEW o \in Operators, EditFails(o), ~spoiled' PROVE Alone'
    <3>1. Alone /\ edit[o].at # "write" /\ edit[o].at # "idle"
      BY <1>2, <2>5 DEF EditFails
    <3>2. edit'[o].at = "idle" /\ \A q \in Operators : q # o => edit'[q] = edit[q]
      BY <1>1, <2>5 DEF EditFails, SettingsTypeOK, NoEdit
    <3>3. \A q \in Operators : edit[q].at # "write" /\ edit'[q].at = "idle"
      BY <3>1, <3>2
    <3>4. LoadConfig' = LoadConfig /\ saved' = saved
      BY <2>5 DEF EditFails, LoadConfig
    <3> QED
      BY <3>1, <3>3, <3>4
  <2> QED
    BY <2>1, <2>2, <2>3, <2>4, <2>5, SettingsStep
<1>4. ASSUME NEW p \in Daemons, proc'[p].expect # 0 PROVE proc'[p].topics = proc'[p].expect
  <2>1. CASE Bind(p) /\ ~Bound(proc[p].name)
    <3>1. /\ proc'[p].expect = Expected
          /\ proc'[p].topics = IF Connectable(LoadConfig) THEN LoadConfig["topics"] ELSE 0
      BY <1>1, <2>1, BindEffect
    <3>2. Connectable(saved) /\ ~Editing /\ ~spoiled /\ Expected = saved["topics"]
      BY <1>4, <3>1 DEF Expected
    <3>3. LoadConfig = saved
      BY <1>2, <3>2 DEF Editing
    <3> QED
      BY <3>1, <3>2, <3>3
  <2> QED
    BY <1>4, <2>1, NameStep DEF SettingsInv
<1> HIDE DEF Alone
<1> QED
  BY <1>3, <1>4 DEF SettingsInv, Alone

\* What daemons and config commands rely on.
LEMMA SettingsInvKept == SettingsInv => SettingsKept
BY DEF SettingsInv, SettingsKept, Editing

-----------------------------------------------------------------------------
(* The theorems.                                                           *)

IInv == TypeInv /\ SchemaInv /\ NamesInv /\ KeysInv /\ SettingsInv

\* A new data directory, one with a version 1 database and one with an identity satisfy
\* the inductive invariant.
LEMMA InitInv == Init => IInv
<1> SUFFICES ASSUME Init PROVE SchemaInv /\ NamesInv /\ KeysInv /\ SettingsInv
  BY InitType DEF IInv
<1>1. \A p \in Daemons : proc[p].at = "off" /\ proc[p].expect = 0
  BY DEF Init, Off
<1>2. \A o \in Operators : ~Active(o)
  BY DEF Init, Idle, Active
<1>3. SchemaInv
  <2>1. db = FreshDb \/ db = V1Db
    BY DEF Init
  <2>2. db.version = 0 /\ ("messages" \notin db.tables => db.tables = {})
    BY <2>1, SchemaAssumption DEF FreshDb, V1Db
  <2> QED
    BY <1>1, <2>2 DEF SchemaInv, Native, Reached
<1>4. PICK f \in {Missing} \cup {Whole(n, 1) : n \in Names} :
         /\ file = [k \in Kind |-> IF k = "identity" THEN f ELSE Missing]
         /\ reported = [k \in Kind |-> IF k = "identity" THEN {f.key} \ {0} ELSE {}]
         /\ names = IF f = Missing THEN {} ELSE {f.name}
  BY DEF Init
<1>5. NamesInv
  <2>1. IsFiniteSet(names)
    BY <1>4, FS_EmptySet, FS_Singleton
  <2>2. file["identity"].state = "whole" => file["identity"].name \in names
    BY <1>4 DEF Missing, Whole, Kind
  <2> QED
    BY <1>1, <2>1, <2>2 DEF NamesInv, Binds
<1>6. KeysInv
  <2>1. CutHasNoKey
    BY <1>4 DEF CutHasNoKey, Missing, Whole
  <2>2. BackupsNamed
    BY DEF Init, BackupsNamed, NoBackup
  <2>3. KeysKept
    BY <1>4 DEF KeysKept, Kind
  <2> QED
    BY <1>2, <2>1, <2>2, <2>3, KeysParts DEF OneCommand, AllKnow
<1>7. SettingsInv
  BY <1>1 DEF Init, SettingsInit, SettingsInv, NoEdit, LoadConfig
<1> QED
  BY <1>3, <1>5, <1>6, <1>7

\* Every step of a daemon, an operator or a fault keeps the inductive invariant.
LEMMA NextInv == IInv /\ [Next]_vars => IInv'
BY NextType, NextSchema, NextNames, NextKeys, NextSettingsInv DEF IInv

\* Invariance: a data directory and the processes over it keep the inductive invariant.
THEOREM Invariance == Spec => []IInv
BY InitInv, NextInv, PTL DEF Spec

\* Type correctness: every reachable state of a data directory is well typed, and
\* user_version is never anything but 0 or 2.
THEOREM TypeCorrect == Spec => []TypeOK
BY Invariance, PTL DEF IInv, TypeInv

\* migrate converges: whatever migrations ran at once and wherever they died, a database
\* of version 2 has every table and column, and no daemon serves without one.
THEOREM SchemaConverges == Spec => []SchemaComplete
<1>1. IInv => SchemaComplete
  BY DEF IInv, SchemaInv, Reached, SchemaComplete
<1> QED
  BY <1>1, Invariance, PTL

\* REQ-0049: the endpoint admits one daemon for an identity, however many start at once.
THEOREM SingleDaemon == Spec => []OneDaemon
<1>1. IInv => OneDaemon
  BY NamesOneDaemon DEF IInv
<1> QED
  BY <1>1, Invariance, PTL

\* backup_existing and save keep every key that was printed, in the file or in a backup.
THEOREM KeysSurvive == Spec => []KeysKept
BY Invariance, PTL DEF IInv, KeysInv

\* Config::save keeps every setting that was reported as saved, and Daemon::run starts
\* with it.
THEOREM SettingsSurvive == Spec => []SettingsKept
<1>1. IInv => SettingsKept
  BY SettingsInvKept DEF IInv
<1> QED
  BY <1>1, Invariance, PTL

\* A step that changes a whole key file is the truncation of a command given --force.
LEMMA ForceStep ==
    ASSUME IInv, [Next]_vars, NEW kind \in Kind \ overlap', file[kind].state = "whole",
           file'[kind] # file[kind]
    PROVE  \E o \in Operators : cmd[o].kind = kind /\ cmd[o].at = "truncate" /\ cmd[o].force
<1>1. TypeInv /\ KeysInv /\ FilesOK /\ CmdOK
  BY TypeParts DEF IInv
<1>2. ASSUME NEW o \in Operators, Truncate(o), UNCHANGED overlap
      PROVE  cmd[o].kind = kind /\ cmd[o].at = "truncate" /\ cmd[o].force
  <2>1. cmd[o].kind = kind /\ Active(o) /\ cmd[o].at = "truncate"
    BY <1>1, <1>2 DEF Truncate, FilesOK, Active
  <2>2. Knows(o)
    BY <1>1, <1>2, <2>1, KeysParts DEF AllKnow
  <2> QED
    BY <2>1, <2>2 DEF Knows
<1>3. ASSUME NEW o \in Operators, Write(o), UNCHANGED overlap PROVE FALSE
  <2>1. cmd[o].kind = kind /\ Active(o) /\ cmd[o].at = "write"
    BY <1>1, <1>3 DEF Write, FilesOK, Active
  <2>2. Knows(o)
    BY <1>1, <1>3, <2>1, KeysParts DEF AllKnow
  <2> QED
    BY <2>1, <2>2 DEF Knows, Cut
<1> QED
  BY <1>1, <1>2, <1>3, FilesStep

\* "refuse ... unless --force": a key in its file goes only to a command given --force.
THEOREM OnlyForceReplaces == Spec => ReplacedByForce
<1>1. IInv /\ [Next]_vars =>
        [\A kind \in Kind \ overlap' :
           file[kind].state = "whole" /\ file'[kind] # file[kind] =>
             \E o \in Operators : cmd[o].kind = kind /\ cmd[o].at = "truncate" /\ cmd[o].force]_vars
  BY ForceStep
<1> QED
  BY <1>1, Invariance, PTL DEF Spec, ReplacedByForce

=============================================================================
