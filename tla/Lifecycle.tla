----------------------------- MODULE Lifecycle ------------------------------
(***************************************************************************)
(* One data directory: its store, its configuration (module Settings), its *)
(* identity and authority key files, the daemon processes started over it  *)
(* and the operators who start and stop daemons, configure them and        *)
(* generate keys (src/src/daemon.rs run; src/src/cli.rs daemon_cmd, id_cmd,*)
(* authority_cmd, config_cmd).                                             *)
(*                                                                         *)
(* `daemon run` loads the identity, opens and migrates the store, and only *)
(* then binds its endpoint, which is named after the identity and is the   *)
(* only guard against a second daemon.  Statements of two migrations, and  *)
(* the file operations of two commands, interleave; a process may die      *)
(* between any two of them.                                                *)
(***************************************************************************)
EXTENDS Schema, Settings, FiniteSets

CONSTANTS
    Daemons,        \* daemon processes (a slot is used again after the process ended)
    Names,          \* identity names
    MaxKeys,        \* bound: key pairs ever generated
    Bounds          \* bounds to explore, each on: key pairs generated, config commands, daemon
                    \* processes started, and processes that die or statements that fail

ASSUME LifecycleBoundsAssumption ==
    /\ MaxKeys \in Nat \ {0}
    /\ Bounds \subseteq [keys : 0..MaxKeys - 1, edits : Nat, runs : Nat, faults : Nat]

Kind == {"identity", "authority"}
Key == 1..MaxKeys       \* 0: no key

VARIABLES
    db,         \* messages.db
    file,       \* each key file: state "absent", "cut" (truncated) or "whole"
    backup,     \* <file>.bak-<fp>: fingerprint (0: "unknown") to the key it holds
    proc,       \* daemon processes
    cmd,        \* the command each operator has under way
    keys,       \* key pairs generated so far
    reported,   \* history: keys a generate command printed
    overlap,    \* history: files two generate commands worked on at the same time
    names,      \* history: names the identity file has held
    left        \* what is left of the bounds of this behaviour

vars == <<db, file, backup, proc, cmd, keys, reported, overlap, names, settings, left>>
files == <<file, backup, keys, reported, overlap, names, settings>>

Missing == [state |-> "absent", name |-> "none", key |-> 0]
Cut == [state |-> "cut", name |-> "none", key |-> 0]
Whole(name, key) == [state |-> "whole", name |-> name, key |-> key]
NoBackup == [fp \in Key \cup {0} |-> 0]

Off(why) == [at |-> "off", step |-> 0, had |-> FALSE, name |-> "none",
             topics |-> 0, expect |-> 0, why |-> why]
Idle == [at |-> "idle", kind |-> "identity", name |-> "none", force |-> FALSE, key |-> 0, fp |-> 0]

Init ==
    /\ db \in {FreshDb, V1Db}
    /\ \E f \in {Missing} \cup {Whole(n, 1) : n \in Names} :
         /\ file = [k \in Kind |-> IF k = "identity" THEN f ELSE Missing]
         /\ keys = f.key
         /\ reported = [k \in Kind |-> IF k = "identity" THEN {f.key} \ {0} ELSE {}]
         /\ names = IF f = Missing THEN {} ELSE {f.name}
    /\ backup = [k \in Kind |-> NoBackup]
    /\ proc = [p \in Daemons |-> Off("")]
    /\ cmd = [o \in Operators |-> Idle]
    /\ SettingsInit
    /\ overlap = {} /\ left \in Bounds

Use(what) == left[what] > 0 /\ left' = [left EXCEPT ![what] = @ - 1]

-----------------------------------------------------------------------------
(* The daemon process: Daemon::run.                                        *)

Move(p, at, step) == proc' = [proc EXCEPT ![p].at = at, ![p].step = step]
End(p, why) == proc' = [proc EXCEPT ![p] = Off(why)]

\* A process holds its endpoint from the bind until it has ended.
Binds(p, n) == proc[p].at \in {"serving", "exiting"} /\ proc[p].name = n
Bound(n) == \E p \in Daemons : Binds(p, n)

\* The process starts (daemon run, or spawned by daemon start): Identity::load.
Launch(p) ==
    /\ proc[p].at = "off" /\ Use("runs")
    /\ proc' = [proc EXCEPT ![p] =
                  IF file["identity"].state = "whole"
                  THEN [Off("") EXCEPT !.at = "version", !.name = file["identity"].name]
                  ELSE Off("identity")]

RunDaemon(p) == Launch(p) /\ UNCHANGED <<db, files, cmd>>

\* migrate: PRAGMA user_version ...
ReadVersion(p) ==
    /\ proc[p].at = "version"
    /\ IF db.version >= 2 THEN Move(p, "bind", 0) ELSE Move(p, "probe", 0)
    /\ UNCHANGED <<db, files, cmd, left>>

\* ... is there a messages table? ...
Probe(p) ==
    /\ proc[p].at = "probe"
    /\ proc' = [proc EXCEPT ![p].at = "create", ![p].step = 1, ![p].had = HasMessages(db)]
    /\ UNCHANGED <<db, files, cmd, left>>

\* Mutation of CreateNext: the version is recorded before the ALTERs.
CreateNext_Stamps(p) ==
    /\ proc[p].at = "create"
    /\ db' = [Create(db, SCHEMA[proc[p].step]) EXCEPT
                !.version = IF proc[p].step < Len(SCHEMA) THEN @ ELSE 2]
    /\ IF proc[p].step < Len(SCHEMA) THEN Move(p, "create", proc[p].step + 1)
       ELSE IF proc[p].had THEN Move(p, "alter", 1) ELSE Move(p, "stamp", 0)
    /\ UNCHANGED <<files, cmd, left>>

\* ... the statements of SCHEMA, one after the other ...
CreateNext(p) ==
    /\ proc[p].at = "create"
    /\ db' = Create(db, SCHEMA[proc[p].step])
    /\ IF proc[p].step < Len(SCHEMA) THEN Move(p, "create", proc[p].step + 1)
       ELSE IF proc[p].had THEN Move(p, "alter", 1) ELSE Move(p, "stamp", 0)
    /\ UNCHANGED <<files, cmd, left>>

\* Mutation of AlterNext: a duplicate column is an error like any other.
AlterNext_Strict(p) ==
    /\ proc[p].at = "alter"
    /\ LET c == MIGRATE_V2[proc[p].step] IN
         IF AlterFails(db, c) THEN End(p, "schema") /\ UNCHANGED db
         ELSE /\ db' = Alter(db, c)
              /\ IF proc[p].step < Len(MIGRATE_V2) THEN Move(p, "alter", proc[p].step + 1)
                 ELSE Move(p, "stamp", 0)
    /\ UNCHANGED <<files, cmd, left>>

\* ... the ALTERs, where only "duplicate column" is forgiven ...
AlterNext(p) ==
    /\ proc[p].at = "alter"
    /\ LET c == MIGRATE_V2[proc[p].step] IN
         IF AlterFails(db, c) /\ ~IsDuplicate(db, c)
         THEN End(p, "schema") /\ UNCHANGED db
         ELSE /\ db' = Alter(db, c)
              /\ IF proc[p].step < Len(MIGRATE_V2) THEN Move(p, "alter", proc[p].step + 1)
                 ELSE Move(p, "stamp", 0)
    /\ UNCHANGED <<files, cmd, left>>

\* Mutation of Stamp: the version goes up by one.
Stamp_Increments(p) ==
    /\ proc[p].at = "stamp"
    /\ db' = [db EXCEPT !.version = @ + 1]
    /\ Move(p, "bind", 0)
    /\ UNCHANGED <<files, cmd, left>>

\* ... and PRAGMA user_version = 2.
Stamp(p) ==
    /\ proc[p].at = "stamp"
    /\ db' = [db EXCEPT !.version = 2]
    /\ Move(p, "bind", 0)
    /\ UNCHANGED <<files, cmd, left>>

\* Mutation of Bind: a name in use is taken over.
Bind_TakesOver(p) ==
    /\ proc[p].at = "bind"
    /\ Move(p, "serving", 0)
    /\ UNCHANGED <<db, files, cmd, left>>

\* What a daemon should find in config.toml: the topics last set, once all it
\* needs is set; 0 (no claim) before that, during a config command and after spoiling.
Expected == IF Connectable(saved) /\ ~Editing /\ ~spoiled THEN saved["topics"] ELSE 0

\* The endpoint: AddrInUse is DaemonAlreadyRunning; otherwise the daemon connects
\* if the configuration is complete, to the topics it has now, and serves.
Bind(p) ==
    /\ proc[p].at = "bind"
    /\ IF Bound(proc[p].name) THEN End(p, "refused")
       ELSE proc' = [proc EXCEPT ![p].at = "serving", ![p].step = 0, ![p].expect = Expected,
                       ![p].topics = IF Connectable(LoadConfig) THEN LoadConfig["topics"] ELSE 0]
    /\ UNCHANGED <<db, files, cmd, left>>

\* A statement of the migration fails and run returns its error, or the
\* process dies where it is.
ProcessFails(p) ==
    /\ proc[p].at # "off" /\ Use("faults")
    /\ End(p, "fault")
    /\ UNCHANGED <<db, files, cmd>>

\* Shutdown was answered; process::exit(0) follows.
Exit(p) ==
    /\ proc[p].at = "exiting"
    /\ End(p, "stopped")
    /\ UNCHANGED <<db, files, cmd, left>>

-----------------------------------------------------------------------------
(* Operators: daemon start and daemon stop.                                *)

\* A CLI process runs one command.
Free(o) == cmd[o] = Idle /\ edit[o] = NoEdit
Readable == file["identity"].state = "whole"
Addressee == file["identity"].name

\* daemon start: no Pong from the identity's endpoint, so spawn a process ...
Start(o) ==
    /\ Free(o) /\ Readable /\ ~Bound(Addressee)
    /\ \E p \in Daemons : Launch(p)
    /\ cmd' = [cmd EXCEPT ![o].at = "poll", ![o].name = Addressee]
    /\ UNCHANGED <<db, files>>

\* ... and Ping until Pong, whichever process answers, or the deadline.
PollEnds(o) ==
    /\ cmd[o].at = "poll"
    /\ cmd' = [cmd EXCEPT ![o] = Idle]
    /\ UNCHANGED <<db, files, proc, left>>

\* daemon stop: a process that answers Shutdown is about to exit, and answers
\* other requests until it does.
Stop(p) ==
    /\ Readable /\ Binds(p, Addressee) /\ proc[p].at = "serving"
    /\ Move(p, "exiting", 0)
    /\ UNCHANGED <<db, files, cmd, left>>

-----------------------------------------------------------------------------
(* Operators: id generate and authority generate.                          *)

\* What the guard of each command looks at: load_name_fp takes a damaged
\* identity for none, Authority::exists does not.
Guarded(kind) ==
    IF kind = "identity" THEN file[kind].state = "whole" ELSE file[kind].state # "absent"

\* Mutation of Generate: the name decides, and --force is not asked for.
Generate_SameName(o, kind, name, force) ==
    /\ Free(o) /\ Use("keys")
    /\ Guarded(kind) => force \/ file[kind].name = name
    /\ keys' = keys + 1
    /\ cmd' = [cmd EXCEPT ![o] = [at |-> IF kind = "authority" \/ Guarded(kind) THEN "fp" ELSE "truncate",
                                  kind |-> kind, name |-> name, force |-> force,
                                  key |-> keys + 1, fp |-> 0]]
    /\ overlap' = overlap \cup
         (IF \E q \in Operators \ {o} : cmd[q].at \notin {"idle", "poll"} /\ cmd[q].kind = kind
          THEN {kind} ELSE {})
    /\ UNCHANGED <<db, file, backup, proc, reported, names, settings>>

\* The guard, the key pair; a refusal changes nothing and is not a step.
Generate(o, kind, name, force) ==
    /\ Free(o) /\ Use("keys")
    /\ Guarded(kind) => force
    /\ keys' = keys + 1
    /\ cmd' = [cmd EXCEPT ![o] = [at |-> IF kind = "authority" \/ Guarded(kind) THEN "fp" ELSE "truncate",
                                  kind |-> kind, name |-> name, force |-> force,
                                  key |-> keys + 1, fp |-> 0]]
    /\ overlap' = overlap \cup
         (IF \E q \in Operators \ {o} : cmd[q].at \notin {"idle", "poll"} /\ cmd[q].kind = kind
          THEN {kind} ELSE {})
    /\ UNCHANGED <<db, file, backup, proc, reported, names, settings>>

\* backup_existing: the fingerprint, from a reading of its own ...
Fingerprint(o) ==
    /\ cmd[o].at = "fp"
    /\ LET f == file[cmd[o].kind] IN
         cmd' = [cmd EXCEPT ![o].at = IF f.state = "absent" THEN "truncate" ELSE "copy",
                            ![o].fp = f.key]
    /\ UNCHANGED <<db, files, proc, left>>

\* Mutation of Copy: one backup file, whatever the key.
Copy_OneName(o) ==
    /\ cmd[o].at = "copy"
    /\ backup' = [backup EXCEPT ![cmd[o].kind] = [NoBackup EXCEPT ![0] = file[cmd[o].kind].key]]
    /\ cmd' = [cmd EXCEPT ![o].at = "truncate"]
    /\ UNCHANGED <<db, file, keys, reported, overlap, names, proc, settings, left>>

\* ... then fs::copy of what the file holds by now, over any backup of that name.
Copy(o) ==
    /\ cmd[o].at = "copy"
    /\ backup' = [backup EXCEPT ![cmd[o].kind][cmd[o].fp] = file[cmd[o].kind].key]
    /\ cmd' = [cmd EXCEPT ![o].at = "truncate"]
    /\ UNCHANGED <<db, file, keys, reported, overlap, names, proc, settings, left>>

\* save: fs::write truncates the file ...
Truncate(o) ==
    /\ cmd[o].at = "truncate"
    /\ file' = [file EXCEPT ![cmd[o].kind] = Cut]
    /\ cmd' = [cmd EXCEPT ![o].at = "write"]
    /\ UNCHANGED <<db, backup, keys, reported, overlap, names, proc, settings, left>>

\* ... and writes it; the command prints the new key's token.
Write(o) ==
    /\ cmd[o].at = "write"
    /\ file' = [file EXCEPT ![cmd[o].kind] = Whole(cmd[o].name, cmd[o].key)]
    /\ reported' = [reported EXCEPT ![cmd[o].kind] = @ \cup {cmd[o].key}]
    /\ names' = IF cmd[o].kind = "identity" THEN names \cup {cmd[o].name} ELSE names
    /\ cmd' = [cmd EXCEPT ![o] = Idle]
    /\ UNCHANGED <<db, backup, keys, overlap, proc, settings, left>>

\* A file operation fails or the process is killed: the command ends there.
CommandFails(o) ==
    /\ cmd[o].at \notin {"idle", "poll"} /\ Use("faults")
    /\ cmd' = [cmd EXCEPT ![o] = Idle]
    /\ UNCHANGED <<db, files, proc>>

-----------------------------------------------------------------------------
(* Operators: config.  The steps are those of Settings.                     *)

Configure(o) ==
    /\ \/ Free(o) /\ Use("edits") /\ \E s \in Setting : SetConfig(o, s)
       \/ (TruncateConfig(o) \/ WriteConfig(o)) /\ UNCHANGED left
       \/ Use("faults") /\ EditFails(o)
    /\ UNCHANGED <<db, file, backup, keys, reported, overlap, names, proc, cmd>>

-----------------------------------------------------------------------------
Startup(p) ==
    ReadVersion(p) \/ Probe(p) \/ CreateNext(p) \/ AlterNext(p) \/ Stamp(p) \/ Bind(p)

Next ==
    \/ \E p \in Daemons : RunDaemon(p) \/ Startup(p) \/ ProcessFails(p) \/ Exit(p) \/ Stop(p)
    \/ \E o \in Operators :
         \/ Start(o) \/ PollEnds(o) \/ Configure(o)
         \/ \E kind \in Kind, name \in Names, force \in BOOLEAN : Generate(o, kind, name, force)
         \/ Fingerprint(o) \/ Copy(o) \/ Truncate(o) \/ Write(o) \/ CommandFails(o)

Spec == Init /\ [][Next]_vars

\* A process that runs is scheduled; nobody has to start one.
FairSpec == Spec /\ \A p \in Daemons : WF_vars(Startup(p)) /\ WF_vars(Exit(p))

-----------------------------------------------------------------------------
(* Properties.                                                             *)

\* Types of the variables; user_version is one of the two the code knows.
TypeOK ==
    /\ db \in [version : {0, 2}, tables : SUBSET Range(SCHEMA), columns : SUBSET Range(MIGRATE_V2)]
    /\ file \in [Kind -> [state : {"absent", "cut", "whole"}, name : Names \cup {"none"},
                          key : Key \cup {0}]]
    /\ backup \in [Kind -> [Key \cup {0} -> Key \cup {0}]]
    /\ proc \in [Daemons -> [at : {"off", "version", "probe", "create", "alter", "stamp", "bind",
                                   "serving", "exiting"},
                             step : Nat, had : BOOLEAN, name : Names \cup {"none"},
                             topics : Nat, expect : Nat,
                             why : {"", "identity", "refused", "schema", "fault", "stopped"}]]
    /\ cmd \in [Operators -> [at : {"idle", "poll", "fp", "copy", "truncate", "write"},
                              kind : Kind, name : Names \cup {"none"}, force : BOOLEAN,
                              key : Key \cup {0}, fp : Key \cup {0}]]
    /\ keys \in Key \cup {0} /\ reported \in [Kind -> SUBSET Key]
    /\ overlap \subseteq Kind /\ names \subseteq Names
    /\ left \in [{"keys", "edits", "runs", "faults"} -> Nat] /\ SettingsTypeOK

\* "a partially-migrated database converges cleanly" (migrate): whatever two
\* migrations at once, failing statements and deaths between statements left,
\* a database marked as version 2 has every table and column, and no daemon
\* gets past opening the store without that.
SchemaComplete ==
    /\ db.version = 2 => Complete(db)
    /\ \A p \in Daemons : proc[p].at \in {"bind", "serving", "exiting"} => db.version = 2

\* A start ends: the daemon serves, or it finds another one serving, or it was
\* itself hit by a fault.  A database some earlier start left half migrated is
\* never a reason.
StartComesUp ==
    \A p \in Daemons :
        proc[p].at = "version" ~>
            proc[p].at = "serving" \/ proc[p].why \in {"refused", "fault"}

\* REQ-0049, one daemon per identity, so that one store has one daemon: as long
\* as the identity file has only ever held one name, at most one process serves,
\* and it is the one commands are sent to.
OneDaemon ==
    Cardinality(names) <= 1 =>
        \A p, q \in Daemons :
            {proc[p].at, proc[q].at} \subseteq {"serving", "exiting"} =>
                p = q /\ (Readable => Binds(p, Addressee))

\* "back up the prior identity file before any overwrite": every key a generate
\* command printed is in its file or in a backup, whatever commands were cut
\* short, unless two commands worked on the file at the same time.
KeysKept ==
    \A kind \in Kind \ overlap : \A k \in reported[kind] :
        file[kind].key = k \/ \E fp \in Key \cup {0} : backup[kind][fp] = k

\* "refuse ... unless --force": a key in its file is only replaced by a command
\* that was given --force, unless two commands overlapped.
ReplacedByForce ==
    [][\A kind \in Kind \ overlap' :
          file[kind].state = "whole" /\ file'[kind] # file[kind] =>
              \E o \in Operators : cmd[o].kind = kind /\ cmd[o].at = "truncate" /\ cmd[o].force]_vars

\* Settings reported as saved stay saved, and a daemon started when they are
\* complete connects with them (Config::save, Daemon::run): every setting has
\* the value its last successful command gave it, unless two config commands
\* overlapped or one was cut short in save - then even settings it did not
\* touch may silently be back at their defaults.
SettingsKept ==
    /\ ~Editing /\ ~spoiled => \A s \in Setting : LoadConfig[s] = saved[s]
    /\ \A p \in Daemons : proc[p].expect # 0 => proc[p].topics = proc[p].expect
=============================================================================
