-------------------------------- MODULE Trust --------------------------------
(***************************************************************************)
(* trust.json and the pairing that fills it.  Two kinds of writers edit    *)
(* the file, each by TrustStore::load, a change in memory and              *)
(* TrustStore::save: the CLI processes of the agent and authority          *)
(* commands, and the daemon thread that serves PairConfirm.  No lock is    *)
(* held.  save is std::fs::write, which truncates the file when it opens   *)
(* it and then writes the text.  The daemon's callback reads the file for  *)
(* every message that arrives.                                             *)
(*                                                                         *)
(* An operator gives one command at a time; pair confirm only for a name   *)
(* whose code the operator compared in the last pair list.  A key stands   *)
(* for the whole record of a peer, its KEM key included.                   *)
(***************************************************************************)
EXTENDS Naturals

CONSTANTS
    Operators,
    Agents, Anchors,    \* names of agents and of authorities: the two maps of the file
    Keys, NoKey,
    Rotations,          \* inputs of agent add: a subset of BOOLEAN
    MaxRestarts,        \* bound: restarts of the daemon
    MaxFailures         \* bound: saves that fail or are cut short

Names == Agents \cup Anchors

ASSUME NamesAssumption == Agents \cap Anchors = {}
ASSUME KeysAssumption == NoKey \notin Keys /\ Rotations \subseteq BOOLEAN
ASSUME BoundsAssumption == MaxRestarts \in Nat /\ MaxFailures \in Nat

VARIABLES
    file,       \* trust.json: [form, known]; an "empty" or "garbled" file does not parse
    pending,    \* Daemon.pending: agent -> the key of its first hello, or NoKey
    compared,   \* operator -> what the last pair list showed
    pc, cmd,    \* operator -> where its command is, and which it is
    view,       \* operator -> the TrustStore in the memory of the writer
    decided,    \* history: the store as the edits that reported success left it
    last,       \* history: the last of these edits
    overlap,    \* history: two commands have been under way at once
    lapsed,     \* history: operator -> agents whose pending entry was dropped since its pair list
    restarts, failures

vars == <<file, pending, compared, pc, cmd, view, decided, last, overlap, lapsed, restarts,
          failures>>
history == <<decided, last, overlap, lapsed>>
Key == Keys \cup {NoKey}
NoOne == [n \in Names |-> NoKey]
NobodyPending == [n \in Agents |-> NoKey]
NoCmd == [op |-> "none"]

Init ==
    /\ file = [form |-> "whole", known |-> NoOne]
    /\ pending = NobodyPending
    /\ compared = [o \in Operators |-> NobodyPending]
    /\ pc = [o \in Operators |-> "idle"]
    /\ cmd = [o \in Operators |-> NoCmd]
    /\ view = [o \in Operators |-> NoOne]
    /\ decided = NoOne /\ last = NoCmd
    /\ overlap = FALSE /\ lapsed = [o \in Operators |-> {}]
    /\ restarts = 0 /\ failures = 0

-----------------------------------------------------------------------------
(* Loading.                                                                *)

\* TrustStore::load succeeds; a file that is not there loads as an empty store.
Loads == file.form = "whole"

\* TrustStore::load().unwrap_or_default() of the callback.
IngestTrust == IF Loads THEN file.known ELSE NoOne

Stage(o, where, c, store) ==
    /\ pc' = [pc EXCEPT ![o] = where]
    /\ cmd' = [cmd EXCEPT ![o] = c]
    /\ view' = [view EXCEPT ![o] = store]

\* The command answers.
Done(o) == Stage(o, "idle", NoCmd, NoOne)

\* A command about the name and key its token decodes to, or about a pending peer; one
\* whose token does not decode ends before it loads the store.
Edit(op, n, k) == [op |-> op, name |-> n, key |-> k]

\* A command begins, beside others or alone.
Begins(o) == overlap' = (overlap \/ \E p \in Operators \ {o} : pc[p] # "idle")

\* Mutation of StartEdit: an entry that exists is not replaced.
StartEdit_OrInsert(o, c) ==
    /\ pc[o] = "idle"
    /\ Loads
    /\ Stage(o, "loaded", c, [file.known EXCEPT ![c.name] = IF @ = NoKey THEN c.key ELSE @])
    /\ Begins(o)
    /\ UNCHANGED <<file, pending, compared, decided, last, lapsed, restarts, failures>>

\* A CLI command loads the store and changes its copy.
StartEdit(o, c) ==
    /\ pc[o] = "idle"
    /\ Loads
    /\ Stage(o, "loaded", c, [file.known EXCEPT ![c.name] = c.key])
    /\ Begins(o)
    /\ UNCHANGED <<file, pending, compared, decided, last, lapsed, restarts, failures>>

\* agent add: RotationRequired unless the key is new, the same, or --rotate is given.
AddAgent(o, n, k, rotate) ==
    /\ file.known[n] \in {NoKey, k} \/ rotate
    /\ StartEdit(o, Edit("add", n, k))

\* authority add has no such guard.
AddAuthority(o, n, k) == StartEdit(o, Edit("add", n, k))

\* agent remove, authority remove: saved even when there was nothing to remove.
Remove(o, n) == StartEdit(o, Edit("remove", n, NoKey))

-----------------------------------------------------------------------------
(* Pairing.                                                                *)

\* Mutation of Park: the latest hello wins.
Park_Latest(n, k) == [pending EXCEPT ![n] = k]

\* entry(name).or_insert(entry): the first hello of a name stays.
Park(n, k) == IF pending[n] = NoKey THEN [pending EXCEPT ![n] = k] ELSE pending

\* The callback parks a hello that verify_pair accepted.
HelloArrives(n, k) ==
    /\ pending' = Park(n, k)
    /\ UNCHANGED <<file, compared, pc, cmd, view, history, restarts, failures>>

\* pair list; the operator compares the codes with the peers'.
PairList(o) ==
    /\ pc[o] = "idle"
    /\ compared' = [compared EXCEPT ![o] = pending]
    /\ lapsed' = [lapsed EXCEPT ![o] = {}]
    /\ UNCHANGED <<file, pending, pc, cmd, view, decided, last, overlap, restarts, failures>>

\* pair_confirm looks the name up in the pending map ...
ConfirmGet(o, n) ==
    /\ pc[o] = "idle"
    /\ compared[o][n] # NoKey
    /\ pending[n] # NoKey
    /\ Stage(o, "got", Edit("confirm", n, pending[n]), NoOne)
    /\ Begins(o)
    /\ UNCHANGED <<file, pending, compared, decided, last, lapsed, restarts, failures>>

\* Mutation of ConfirmLoad: the load falls back to an empty store, as it does in
\* the callback.
ConfirmLoad_OrDefault(o) ==
    /\ pc[o] = "got"
    /\ Stage(o, "loaded", cmd[o], [IngestTrust EXCEPT ![cmd[o].name] = cmd[o].key])
    /\ UNCHANGED <<file, pending, compared, history, restarts, failures>>

\* Mutation of ConfirmLoad: after a failed load the command is not given up.
ConfirmLoad_Keeps(o) ==
    /\ pc[o] = "got"
    /\ IF Loads
       THEN Stage(o, "loaded", cmd[o], [file.known EXCEPT ![cmd[o].name] = cmd[o].key])
       ELSE Stage(o, "idle", cmd[o], NoOne)
    /\ UNCHANGED <<file, pending, compared, history, restarts, failures>>

\* ... loads the store, giving up if that fails, and adds the peer, whatever key
\* the store holds for it ...
ConfirmLoad(o) ==
    /\ pc[o] = "got"
    /\ IF Loads
       THEN Stage(o, "loaded", cmd[o], [file.known EXCEPT ![cmd[o].name] = cmd[o].key])
       ELSE Done(o)
    /\ UNCHANGED <<file, pending, compared, history, restarts, failures>>

\* ... and, once the store is saved, forgets the pending peer of that name.
Forget(o) ==
    /\ pc[o] = "saved"
    /\ pending' = [pending EXCEPT ![cmd[o].name] = NoKey]
    /\ compared' = [compared EXCEPT ![o][cmd[o].name] = NoKey]
    /\ Done(o)
    /\ lapsed' = [p \in Operators |-> IF p = o THEN lapsed[p] ELSE lapsed[p] \cup {cmd[o].name}]
    /\ UNCHANGED <<file, decided, last, overlap, restarts, failures>>

-----------------------------------------------------------------------------
(* Saving.                                                                 *)

\* fs::write opens the file, which empties it ...
Truncate(o) ==
    /\ pc[o] = "loaded"
    /\ Stage(o, "writing", cmd[o], view[o])
    /\ file' = [form |-> "empty", known |-> NoOne]
    /\ UNCHANGED <<pending, compared, history, restarts, failures>>

\* ... and writes its text from the start.  If another writer's text is there by
\* now, the tail of a longer text stays behind the shorter one.
Write(o) ==
    /\ pc[o] = "writing"
    /\ \/ file' = [form |-> "whole", known |-> view[o]]
       \/ file.form # "empty" /\ file' = [form |-> "garbled", known |-> NoOne]
    /\ decided' = [decided EXCEPT ![cmd[o].name] = cmd[o].key]
    /\ last' = cmd[o]
    /\ IF cmd[o].op = "confirm" THEN Stage(o, "saved", cmd[o], NoOne) ELSE Done(o)
    /\ UNCHANGED <<pending, compared, overlap, lapsed, restarts, failures>>

\* The CLI process is stopped, or save returns an error.
SaveFails(o) ==
    /\ failures < MaxFailures
    /\ pc[o] \in {"loaded", "writing"}
    /\ failures' = failures + 1
    /\ Done(o)
    /\ UNCHANGED <<file, pending, compared, history, restarts>>

\* The daemon stops and starts: the pending map is gone, and so are the threads
\* that serve PairConfirm.
DaemonRestart ==
    LET gone(o) == cmd[o].op = "confirm" IN
    /\ restarts < MaxRestarts
    /\ restarts' = restarts + 1
    /\ pending' = NobodyPending
    /\ pc' = [o \in Operators |-> IF gone(o) THEN "idle" ELSE pc[o]]
    /\ cmd' = [o \in Operators |-> IF gone(o) THEN NoCmd ELSE cmd[o]]
    /\ view' = [o \in Operators |-> IF gone(o) THEN NoOne ELSE view[o]]
    /\ lapsed' = [o \in Operators |-> Agents]
    /\ UNCHANGED <<file, compared, decided, last, overlap, failures>>

Next ==
    \/ \E o \in Operators :
          \/ \E n \in Agents, k \in Keys, rotate \in Rotations : AddAgent(o, n, k, rotate)
          \/ \E n \in Anchors, k \in Keys : AddAuthority(o, n, k)
          \/ \E n \in Names : Remove(o, n)
          \/ \E n \in Agents : ConfirmGet(o, n)
          \/ PairList(o) \/ ConfirmLoad(o) \/ Forget(o)
          \/ Truncate(o) \/ Write(o) \/ SaveFails(o)
    \/ \E n \in Agents, k \in Keys : HelloArrives(n, k)
    \/ DaemonRestart

Spec == Init /\ [][Next]_vars

-----------------------------------------------------------------------------
(* Properties.                                                             *)

Edits ==
    [op : {"add", "remove", "confirm"}, name : Names, key : Key]

\* Types of the variables; a command is known exactly while it runs, and only
\* PairConfirm passes through the pending map.
TypeOK ==
    /\ file \in [form : {"whole", "empty", "garbled"}, known : [Names -> Key]]
    /\ pending \in [Agents -> Key]
    /\ compared \in [Operators -> [Agents -> Key]]
    /\ pc \in [Operators -> {"idle", "got", "loaded", "writing", "saved"}]
    /\ cmd \in [Operators -> Edits \cup {NoCmd}]
    /\ view \in [Operators -> [Names -> Key]]
    /\ decided \in [Names -> Key]
    /\ last \in Edits \cup {NoCmd}
    /\ overlap \in BOOLEAN /\ lapsed \in [Operators -> SUBSET Agents]
    /\ restarts \in 0..MaxRestarts /\ failures \in 0..MaxFailures
    /\ \A o \in Operators :
          /\ pc[o] = "idle" <=> cmd[o] = NoCmd
          /\ pc[o] \in {"got", "saved"} => cmd[o].op = "confirm"

Settled == \A o \in Operators : pc[o] # "writing"

\* As long as no two commands overlap, no edit that reported success is undone and
\* none that failed is applied: while no save is under way the file holds exactly
\* what the successful agent, authority and pair commands decided, or - after a
\* save that was cut short - does not parse (TrustStore::save, pair_confirm); and
\* what the callback verifies messages with is that store.
EditsKept ==
    ~overlap /\ Settled =>
        /\ Loads => file.known = decided
        /\ failures + restarts = 0 => IngestTrust = decided

\* Of commands that overlap, the last to save is kept: the entry it edited is as it
\* left it, whatever the others loaded and wrote in between, and a file that mixes
\* two texts does not parse (TrustStore::save).
LastEditKept ==
    Loads /\ last # NoCmd /\ Settled => file.known[last.name] = last.key

\* REQ-0099, "pair confirm adds the peer to the trust store only after the operator
\* compares the SAS": the key that pair_confirm saved is the one whose code the
\* operator compared, though the request names the peer only and other hellos for
\* the name arrive in between - unless the pending entry was dropped since, by a
\* restart of the daemon or by another operator's confirm.
ConfirmedWasCompared ==
    \A o \in Operators :
        pc[o] = "saved" /\ cmd[o].name \notin lapsed[o]
            => cmd[o].key = compared[o][cmd[o].name]

=============================================================================
