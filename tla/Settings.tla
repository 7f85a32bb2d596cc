------------------------------ MODULE Settings ------------------------------
(***************************************************************************)
(* config.toml and the `config` commands (src/src/config.rs, config_cmd in *)
(* src/src/cli.rs): each loads the file, changes one group of fields and   *)
(* writes the whole file back, with no lock.  Every field has a serde      *)
(* default, so an empty file parses, as a configuration nobody made.       *)
(***************************************************************************)
EXTENDS Integers

CONSTANTS
    Operators,      \* CLI processes
    Setting,        \* groups of fields a command sets: broker, creds, topics, security
    Required        \* those is_connectable asks for: broker, creds, topics

ASSUME SettingAssumption == Required \subseteq Setting /\ "topics" \in Required

\* A value is the number of the edit that set it, 0 is the default.
Defaults == [s \in Setting |-> 0]

VARIABLES
    conf,       \* the file: state "absent", "empty" (truncated) or "whole", and its values
    edit,       \* the config command each operator has under way
    edits,      \* number of config commands so far
    saved,      \* history: the last edit of each setting that reported success
    spoiled     \* history: two commands overlapped, or one was cut short in save

settings == <<conf, edit, edits, saved, spoiled>>

NoEdit == [at |-> "idle", setting |-> "topics", number |-> 0, value |-> Defaults]

SettingsInit ==
    /\ conf = [state |-> "absent", value |-> Defaults]
    /\ edit = [o \in Operators |-> NoEdit]
    /\ edits = 0 /\ saved = Defaults /\ spoiled = FALSE

Editing == \E o \in Operators : edit[o].at # "idle"

\* Config::load.
LoadConfig == IF conf.state = "whole" THEN conf.value ELSE Defaults

\* is_connectable: broker host, user name and at least one topic.
Connectable(c) == \A s \in Required : c[s] # 0

\* Mutation of SetConfig: the command starts from a default configuration.
SetConfig_FromDefault(o, s) ==
    /\ edit[o].at = "idle"
    /\ edits' = edits + 1
    /\ edit' = [edit EXCEPT ![o] = [at |-> "truncate", setting |-> s, number |-> edits + 1,
                                    value |-> [Defaults EXCEPT ![s] = edits + 1]]]
    /\ spoiled' = (spoiled \/ Editing)
    /\ UNCHANGED <<conf, saved>>

\* config set-broker, set-creds, set-topic, add-topic, set-security: load and change ...
SetConfig(o, s) ==
    /\ edit[o].at = "idle"
    /\ edits' = edits + 1
    /\ edit' = [edit EXCEPT ![o] = [at |-> "truncate", setting |-> s, number |-> edits + 1,
                                    value |-> [LoadConfig EXCEPT ![s] = edits + 1]]]
    /\ spoiled' = (spoiled \/ Editing)
    /\ UNCHANGED <<conf, saved>>

\* ... save: fs::write truncates ...
TruncateConfig(o) ==
    /\ edit[o].at = "truncate"
    /\ conf' = [state |-> "empty", value |-> Defaults]
    /\ edit' = [edit EXCEPT ![o].at = "write"]
    /\ UNCHANGED <<edits, saved, spoiled>>

\* ... and writes; the command reports success.
WriteConfig(o) ==
    /\ edit[o].at = "write"
    /\ conf' = [state |-> "whole", value |-> edit[o].value]
    /\ saved' = [saved EXCEPT ![edit[o].setting] = edit[o].number]
    /\ edit' = [edit EXCEPT ![o] = NoEdit]
    /\ UNCHANGED <<edits, spoiled>>

\* The command fails or is killed on the way.
EditFails(o) ==
    /\ edit[o].at # "idle"
    /\ spoiled' = (spoiled \/ edit[o].at = "write")
    /\ edit' = [edit EXCEPT ![o] = NoEdit]
    /\ UNCHANGED <<conf, edits, saved>>

SettingsTypeOK ==
    /\ conf \in [state : {"absent", "empty", "whole"}, value : [Setting -> Nat]]
    /\ edit \in [Operators -> [at : {"idle", "truncate", "write"}, setting : Setting,
                               number : Nat, value : [Setting -> Nat]]]
    /\ edits \in Nat /\ saved \in [Setting -> Nat] /\ spoiled \in BOOLEAN
=============================================================================
