----------------------------- MODULE TrustProofs ----------------------------
(***************************************************************************)
(* Proofs about Trust, for any operators, names and keys and any number of *)
(* restarts and failing saves.                                             *)
(***************************************************************************)
EXTENDS Trust, TLAPS

(* The inductive invariant: TypeOK and the parts below.                    *)

\* pair confirm is about an agent; a writer's copy has its own edit.
CommandsOK ==
    \A o \in Operators :
        /\ cmd[o].op = "confirm" => cmd[o].name \in Agents
        /\ pc[o] \in {"loaded", "writing"} => view[o][cmd[o].name] = cmd[o].key

\* As long as no two commands overlap: what the one writer will leave in the file.
Undisturbed ==
    /\ \A o, p \in Operators : pc[o] # "idle" /\ pc[p] # "idle" => o = p
    /\ file.form # "garbled"
    /\ Settled => /\ Loads => file.known = decided
                  /\ failures + restarts = 0 => Loads
    /\ \A o \in Operators :
         /\ pc[o] = "loaded" => Loads
         /\ pc[o] = "writing" => file.form = "empty"
         /\ pc[o] \in {"loaded", "writing"} =>
              view[o] = [decided EXCEPT ![cmd[o].name] = cmd[o].key]

\* The last command to save is in the file, if that parses.
LastInFile == Loads /\ last # NoCmd => file.known[last.name] = last.key

\* A key that an operator compared and that has not lapsed is still the pending one, and
\* the one its pair confirm is about.
ComparedStays ==
    \A o \in Operators :
        /\ \A n \in Agents \ lapsed[o] : compared[o][n] # NoKey => pending[n] = compared[o][n]
        /\ cmd[o].op = "confirm" /\ cmd[o].name \notin lapsed[o] => cmd[o].key = compared[o][cmd[o].name]

IInv == TypeOK /\ CommandsOK /\ (~overlap => Undisturbed) /\ LastInFile /\ ComparedStays

-----------------------------------------------------------------------------
(* Type correctness.                                                       *)

(* TypeOK in parts, which different actions disturb.                        *)
FileOK ==
    /\ file \in [form : {"whole", "empty", "garbled"}, known : [Names -> Key]]
    /\ decided \in [Names -> Key] /\ last \in Edits \cup {NoCmd}
PairOK ==
    /\ pending \in [Agents -> Key] /\ compared \in [Operators -> [Agents -> Key]]
    /\ lapsed \in [Operators -> SUBSET Agents]
WritersOK ==
    /\ pc \in [Operators -> {"idle", "got", "loaded", "writing", "saved"}]
    /\ cmd \in [Operators -> Edits \cup {NoCmd}]
    /\ view \in [Operators -> [Names -> Key]]
    /\ \A o \in Operators :
          /\ pc[o] = "idle" <=> cmd[o] = NoCmd
          /\ pc[o] \in {"got", "saved"} => cmd[o].op = "confirm"
CountsOK == overlap \in BOOLEAN /\ restarts \in 0..MaxRestarts /\ failures \in 0..MaxFailures

\* The parts together are TypeOK.
LEMMA TypeParts == TypeOK <=> FileOK /\ PairOK /\ WritersOK /\ CountsOK
BY DEF TypeOK, FileOK, PairOK, WritersOK, CountsOK

\* An edit is told from no command by its op.
LEMMA EditFields ==
    /\ NoCmd \notin Edits /\ NoCmd.op = "none"
    /\ \A c \in Edits : c.name \in Names /\ c.key \in Key /\ c # NoCmd /\ c.op \in {"add", "remove", "confirm"}
BY DEF Edits, NoCmd

\* A command about a name and a key is an edit.
LEMMA EditType ==
    ASSUME NEW op \in {"add", "remove", "confirm"}, NEW n \in Names, NEW k \in Key
    PROVE  /\ Edit(op, n, k) \in Edits
           /\ Edit(op, n, k).op = op /\ Edit(op, n, k).name = n /\ Edit(op, n, k).key = k
BY DEF Edit, Edits

\* Stores and keys that stand for nothing are stores and keys.
LEMMA Nothing == NoOne \in [Names -> Key] /\ NoKey \in Key /\ NobodyPending \in [Agents -> Key]
BY DEF NoOne, NobodyPending, Key

\* A command that moves keeps the other writers where they are.
LEMMA StageEffect ==
    ASSUME WritersOK, NEW o \in Operators, NEW where \in {"idle", "got", "loaded", "writing", "saved"},
           NEW c \in Edits \cup {NoCmd}, NEW store \in [Names -> Key], Stage(o, where, c, store),
           where = "idle" <=> c = NoCmd, where \in {"got", "saved"} => c.op = "confirm"
    PROVE  /\ WritersOK' /\ pc'[o] = where /\ cmd'[o] = c /\ view'[o] = store
           /\ \A p \in Operators : p # o => pc'[p] = pc[p] /\ cmd'[p] = cmd[p] /\ view'[p] = view[p]
<1>1. /\ pc'[o] = where /\ cmd'[o] = c /\ view'[o] = store
      /\ \A p \in Operators : p # o => pc'[p] = pc[p] /\ cmd'[p] = cmd[p] /\ view'[p] = view[p]
  BY DEF WritersOK, Stage
<1>2. pc' \in [Operators -> {"idle", "got", "loaded", "writing", "saved"}]
  BY DEF WritersOK, Stage
<1>3. cmd' \in [Operators -> Edits \cup {NoCmd}]
  BY DEF WritersOK, Stage
<1>4. view' \in [Operators -> [Names -> Key]]
  BY DEF WritersOK, Stage
<1> QED
  BY <1>1, <1>2, <1>3, <1>4 DEF WritersOK

\* A command that answers leaves its operator idle.
LEMMA DoneEffect ==
    ASSUME WritersOK, NEW o \in Operators, Done(o)
    PROVE  /\ WritersOK' /\ pc'[o] = "idle" /\ cmd'[o] = NoCmd
           /\ \A p \in Operators : p # o => pc'[p] = pc[p] /\ cmd'[p] = cmd[p] /\ view'[p] = view[p]
BY StageEffect, Nothing, EditFields DEF Done

\* The step of a CLI edit is the same for agents and authorities, adding and removing.
LEMMA Actions ==
    ASSUME [Next]_vars
    PROVE  \/ \E o \in Operators, c \in Edits : c.op # "confirm" /\ StartEdit(o, c)
           \/ \E o \in Operators, n \in Agents : ConfirmGet(o, n)
           \/ \E o \in Operators : \/ PairList(o) \/ ConfirmLoad(o) \/ Forget(o)
                                   \/ Truncate(o) \/ Write(o) \/ SaveFails(o)
           \/ \E n \in Agents, k \in Keys : HelloArrives(n, k)
           \/ DaemonRestart \/ UNCHANGED vars
<1>1. ASSUME NEW o \in Operators, NEW n \in Agents, NEW k \in Keys, NEW rotate \in Rotations, AddAgent(o, n, k, rotate)
      PROVE  \E c \in Edits : c.op # "confirm" /\ StartEdit(o, c)
  BY <1>1, EditType DEF AddAgent, Names, Key
<1>2. ASSUME NEW o \in Operators, NEW n \in Anchors, NEW k \in Keys, AddAuthority(o, n, k)
      PROVE  \E c \in Edits : c.op # "confirm" /\ StartEdit(o, c)
  BY <1>2, EditType DEF AddAuthority, Names, Key
<1>3. ASSUME NEW o \in Operators, NEW n \in Names, Remove(o, n)
      PROVE  \E c \in Edits : c.op # "confirm" /\ StartEdit(o, c)
  BY <1>3, EditType, Nothing DEF Remove
<1> QED
  BY <1>1, <1>2, <1>3 DEF Next

-----------------------------------------------------------------------------
(* The steps of a command.                                                 *)

\* A writer other than o is where it was.
Others(o) ==
    \A p \in Operators : p # o => pc'[p] = pc[p] /\ cmd'[p] = cmd[p] /\ view'[p] = view[p]

\* A command that begins while no other is under way is alone.
LEMMA BeginsAlone ==
    ASSUME NEW o \in Operators, Begins(o), Others(o), ~overlap'
    PROVE  ~overlap /\ \A p \in Operators : p # o => pc[p] = "idle" /\ pc'[p] = "idle"
BY DEF Begins, Others

\* A CLI command loads the store: its copy is what was decided, with its own edit.
LEMMA StartEditInv ==
    ASSUME IInv, NEW o \in Operators, NEW c \in Edits, c.op # "confirm", StartEdit(o, c)
    PROVE  IInv'
<1>1. FileOK /\ PairOK /\ WritersOK /\ CountsOK
  BY TypeParts DEF IInv
<1> DEFINE store == [file.known EXCEPT ![c.name] = c.key]
<1>2. store \in [Names -> Key] /\ store[c.name] = c.key
  BY <1>1, EditFields DEF FileOK
<1>3. /\ pc[o] = "idle" /\ Loads /\ Stage(o, "loaded", c, store) /\ Begins(o)
      /\ UNCHANGED <<file, pending, compared, decided, last, lapsed, restarts, failures>>
  BY DEF StartEdit
<1> HIDE DEF store
<1>4. WritersOK' /\ pc'[o] = "loaded" /\ cmd'[o] = c /\ view'[o] = store /\ Others(o)
  BY <1>1, <1>2, <1>3, StageEffect, EditFields DEF Others
<1>5. TypeOK'
  <2>1. CountsOK'
    BY <1>1, <1>3 DEF CountsOK, Begins
  <2> QED
    BY <1>1, <1>3, <1>4, <2>1 DEF TypeOK, FileOK, PairOK, WritersOK, CountsOK
<1>6. CommandsOK'
  BY <1>2, <1>4 DEF IInv, CommandsOK, Others
<1>7. ASSUME ~overlap' PROVE Undisturbed'
  <2>1. ~overlap /\ \A p \in Operators : p # o => pc[p] = "idle" /\ pc'[p] = "idle"
    BY <1>3, <1>4, <1>7, BeginsAlone
  <2>2. Settled /\ Undisturbed
    BY <1>3, <2>1 DEF Settled, IInv
  <2>3. file.known = decided
    BY <1>3, <2>2 DEF Undisturbed
  <2> QED
    BY <1>3, <1>4, <2>1, <2>2, <2>3 DEF Undisturbed, Settled, Loads, store
<1>8. LastInFile'
  BY <1>3 DEF IInv, LastInFile, Loads
<1>9. ComparedStays'
  BY <1>3, <1>4 DEF IInv, ComparedStays, Others
<1> QED
  BY <1>5, <1>6, <1>7, <1>8, <1>9 DEF IInv

\* PairConfirm finds the pending key, which is the compared one unless it has lapsed.
LEMMA ConfirmGetInv ==
    ASSUME IInv, NEW o \in Operators, NEW n \in Agents, ConfirmGet(o, n)
    PROVE  IInv'
<1>1. FileOK /\ PairOK /\ WritersOK /\ CountsOK
  BY TypeParts DEF IInv
<1> DEFINE c == Edit("confirm", n, pending[n])
<1>2. c \in Edits /\ c.op = "confirm" /\ c.name = n /\ c.key = pending[n]
  BY <1>1, EditType DEF PairOK, Names
<1>3. /\ pc[o] = "idle" /\ compared[o][n] # NoKey /\ Stage(o, "got", c, NoOne) /\ Begins(o)
      /\ UNCHANGED <<file, pending, compared, decided, last, lapsed, restarts, failures>>
  BY DEF ConfirmGet
<1> HIDE DEF c
<1>4. WritersOK' /\ pc'[o] = "got" /\ cmd'[o] = c /\ Others(o)
  BY <1>1, <1>2, <1>3, StageEffect, EditFields, Nothing DEF Others
<1>5. TypeOK'
  <2>1. CountsOK'
    BY <1>1, <1>3 DEF CountsOK, Begins
  <2> QED
    BY <1>1, <1>3, <1>4, <2>1 DEF TypeOK, FileOK, PairOK, WritersOK, CountsOK
<1>6. CommandsOK'
  BY <1>2, <1>4 DEF IInv, CommandsOK, Others
<1>7. ASSUME ~overlap' PROVE Undisturbed'
  <2>1. ~overlap /\ \A p \in Operators : p # o => pc[p] = "idle" /\ pc'[p] = "idle"
    BY <1>3, <1>4, <1>7, BeginsAlone
  <2>2. Settled /\ Undisturbed
    BY <1>3, <2>1 DEF Settled, IInv
  <2> QED
    BY <1>3, <1>4, <2>1, <2>2 DEF Undisturbed, Settled, Loads
<1>8. LastInFile'
  BY <1>3 DEF IInv, LastInFile, Loads
<1>9. ComparedStays'
  <2>1. n \notin lapsed[o] => pending[n] = compared[o][n]
    BY <1>3 DEF IInv, ComparedStays
  <2> QED
    BY <1>2, <1>3, <1>4, <2>1 DEF IInv, ComparedStays, Others
<1> QED
  BY <1>5, <1>6, <1>7, <1>8, <1>9 DEF IInv

\* PairConfirm loads the store, or gives up.
LEMMA ConfirmLoadInv == ASSUME IInv, NEW o \in Operators, ConfirmLoad(o) PROVE IInv'
<1>1. FileOK /\ PairOK /\ WritersOK /\ CountsOK
  BY TypeParts DEF IInv
<1>2. cmd[o] \in Edits /\ cmd[o].op = "confirm" /\ cmd[o].name \in Agents /\ pc[o] = "got"
  BY <1>1, EditFields DEF ConfirmLoad, WritersOK, IInv, CommandsOK
<1> DEFINE store == [file.known EXCEPT ![cmd[o].name] = cmd[o].key]
<1>3. store \in [Names -> Key] /\ store[cmd[o].name] = cmd[o].key
  BY <1>1, <1>2, EditFields DEF FileOK
<1>4. /\ Loads => Stage(o, "loaded", cmd[o], store)
      /\ ~Loads => Done(o)
      /\ UNCHANGED <<file, pending, compared, history, restarts, failures>>
  BY DEF ConfirmLoad
<1> HIDE DEF store
<1>5. /\ WritersOK' /\ Others(o)
      /\ \/ Loads /\ pc'[o] = "loaded" /\ cmd'[o] = cmd[o] /\ view'[o] = store
         \/ pc'[o] = "idle" /\ cmd'[o] = NoCmd
  BY <1>1, <1>2, <1>3, <1>4, StageEffect, DoneEffect, EditFields DEF Others
<1>6. TypeOK'
  BY <1>1, <1>4, <1>5 DEF TypeOK, FileOK, PairOK, WritersOK, CountsOK, history
<1>7. CommandsOK'
  BY <1>2, <1>3, <1>5, EditFields DEF IInv, CommandsOK, Others
<1>8. ASSUME ~overlap' PROVE Undisturbed'
  <2>1. Undisturbed /\ \A p \in Operators : p # o => pc[p] = "idle" /\ pc'[p] = "idle"
    BY <1>2, <1>4, <1>5, <1>8 DEF history, IInv, Undisturbed, Others
  <2>2. Settled
    BY <1>2, <2>1 DEF Settled
  <2> QED
    BY <1>4, <1>5, <2>1, <2>2 DEF Undisturbed, Settled, Loads, store, history
<1>9. LastInFile'
  BY <1>4 DEF IInv, LastInFile, Loads, history
<1>10. ComparedStays'
  BY <1>4, <1>5, EditFields DEF IInv, ComparedStays, Others, history
<1> QED
  BY <1>6, <1>7, <1>8, <1>9, <1>10 DEF IInv

\* save empties the file; until it is written nothing can be loaded from it.
LEMMA TruncateInv == ASSUME IInv, NEW o \in Operators, Truncate(o) PROVE IInv'
<1>1. FileOK /\ PairOK /\ WritersOK /\ CountsOK
  BY TypeParts DEF IInv
<1>2. cmd[o] \in Edits /\ pc[o] = "loaded" /\ view[o] \in [Names -> Key]
  BY <1>1 DEF Truncate, WritersOK
<1>3. /\ Stage(o, "writing", cmd[o], view[o]) /\ file' = [form |-> "empty", known |-> NoOne]
      /\ UNCHANGED <<pending, compared, history, restarts, failures>>
  BY DEF Truncate
<1>4. WritersOK' /\ pc'[o] = "writing" /\ cmd'[o] = cmd[o] /\ view'[o] = view[o] /\ Others(o)
  BY <1>1, <1>2, <1>3, StageEffect, EditFields DEF Others
<1>5. TypeOK'
  <2>1. FileOK'
    BY <1>1, <1>3, Nothing DEF FileOK, history
  <2> QED
    BY <1>1, <1>3, <1>4, <2>1 DEF TypeOK, FileOK, PairOK, WritersOK, CountsOK, history
<1>6. CommandsOK'
  BY <1>2, <1>4 DEF IInv, CommandsOK, Others
<1>7. ASSUME ~overlap' PROVE Undisturbed'
  <2>1. Undisturbed /\ \A p \in Operators : p # o => pc[p] = "idle" /\ pc'[p] = "idle"
    BY <1>2, <1>3, <1>4, <1>7 DEF history, IInv, Undisturbed, Others
  <2> QED
    BY <1>2, <1>3, <1>4, <2>1 DEF Undisturbed, Settled, Loads, history
<1>8. LastInFile'
  BY <1>3 DEF LastInFile, Loads
<1>9. ComparedStays'
  BY <1>3, <1>4 DEF IInv, ComparedStays, Others, history
<1> QED
  BY <1>5, <1>6, <1>7, <1>8, <1>9 DEF IInv

\* save writes: the file holds the writer's copy, or two texts at once.
LEMMA WriteInv == ASSUME IInv, NEW o \in Operators, Write(o) PROVE IInv'
<1>1. FileOK /\ PairOK /\ WritersOK /\ CountsOK
  BY TypeParts DEF IInv
<1> DEFINE c == cmd[o]
<1>2. c \in Edits /\ pc[o] = "writing" /\ view[o] \in [Names -> Key] /\ view[o][c.name] = c.key
  BY <1>1 DEF Write, WritersOK, IInv, CommandsOK
<1>3. /\ \/ file' = [form |-> "whole", known |-> view[o]]
         \/ file.form # "empty" /\ file' = [form |-> "garbled", known |-> NoOne]
      /\ decided' = [decided EXCEPT ![c.name] = c.key] /\ last' = c
      /\ UNCHANGED <<pending, compared, overlap, lapsed, restarts, failures>>
  BY DEF Write
<1>4. /\ c.op = "confirm" => Stage(o, "saved", c, NoOne)
      /\ c.op # "confirm" => Done(o)
  BY DEF Write
<1>5. /\ WritersOK' /\ Others(o)
      /\ \/ pc'[o] = "saved" /\ cmd'[o] = c /\ c.op = "confirm"
         \/ pc'[o] = "idle" /\ cmd'[o] = NoCmd
  BY <1>1, <1>2, <1>4, StageEffect, DoneEffect, EditFields, Nothing DEF Others
<1>6. TypeOK'
  <2>1. FileOK'
    BY <1>1, <1>2, <1>3, EditFields, Nothing DEF FileOK
  <2> QED
    BY <1>1, <1>3, <1>5, <2>1 DEF TypeOK, FileOK, PairOK, WritersOK, CountsOK
<1>7. CommandsOK'
  BY <1>2, <1>5, EditFields DEF IInv, CommandsOK, Others
<1>8. ASSUME ~overlap' PROVE Undisturbed'
  <2>1. Undisturbed /\ \A p \in Operators : p # o => pc[p] = "idle" /\ pc'[p] = "idle"
    BY <1>2, <1>3, <1>5, <1>8 DEF IInv, Undisturbed, Others
  <2>2. file' = [form |-> "whole", known |-> view[o]] /\ view[o] = decided'
    BY <1>2, <1>3, <2>1 DEF Undisturbed
  <2> QED
    BY <1>5, <2>1, <2>2 DEF Undisturbed, Settled, Loads
<1>9. LastInFile'
  BY <1>2, <1>3 DEF LastInFile, Loads
<1>10. ComparedStays'
  BY <1>3, <1>5, EditFields DEF IInv, ComparedStays, Others
<1> QED
  BY <1>6, <1>7, <1>8, <1>9, <1>10 DEF IInv

\* A save that fails or is cut short has decided nothing.
LEMMA SaveFailsInv == ASSUME IInv, NEW o \in Operators, SaveFails(o) PROVE IInv'
<1>1. FileOK /\ PairOK /\ WritersOK /\ CountsOK
  BY TypeParts DEF IInv
<1>2. /\ pc[o] \in {"loaded", "writing"} /\ failures' = failures + 1 /\ failures < MaxFailures /\ Done(o)
      /\ UNCHANGED <<file, pending, compared, history, restarts>>
  BY DEF SaveFails
<1>3. WritersOK' /\ pc'[o] = "idle" /\ cmd'[o] = NoCmd /\ Others(o)
  BY <1>1, <1>2, DoneEffect DEF Others
<1>4. restarts \in Nat /\ failures \in Nat /\ failures' + restarts # 0
  BY <1>1, <1>2, BoundsAssumption DEF CountsOK
<1>5. TypeOK'
  <2>1. CountsOK'
    BY <1>1, <1>2, BoundsAssumption DEF CountsOK, history
  <2> QED
    BY <1>1, <1>2, <1>3, <2>1 DEF TypeOK, FileOK, PairOK, WritersOK, CountsOK, history
<1>6. CommandsOK'
  BY <1>3, EditFields DEF IInv, CommandsOK, Others
<1>7. ASSUME ~overlap' PROVE Undisturbed'
  <2>1. Undisturbed /\ \A p \in Operators : p # o => pc[p] = "idle" /\ pc'[p] = "idle"
    BY <1>2, <1>3, <1>7 DEF history, IInv, Undisturbed, Others
  <2>2. Loads => file.known = decided
    BY <1>2, <2>1 DEF Undisturbed, Loads, Settled
  <2> QED
    BY <1>2, <1>3, <1>4, <2>1, <2>2 DEF Undisturbed, Settled, Loads, history
<1>8. LastInFile'
  BY <1>2 DEF IInv, LastInFile, Loads, history
<1>9. ComparedStays'
  BY <1>2, <1>3, EditFields DEF IInv, ComparedStays, Others, history
<1> QED
  BY <1>5, <1>6, <1>7, <1>8, <1>9 DEF IInv

\* PairConfirm drops the pending entry; for the other operators the name has lapsed.
LEMMA ForgetInv == ASSUME IInv, NEW o \in Operators, Forget(o) PROVE IInv'
<1>1. FileOK /\ PairOK /\ WritersOK /\ CountsOK
  BY TypeParts DEF IInv
<1> DEFINE n == cmd[o].name
<1>2. pc[o] = "saved" /\ n \in Agents
  BY <1>1 DEF Forget, WritersOK, IInv, CommandsOK
<1>3. /\ pending' = [pending EXCEPT ![n] = NoKey]
      /\ compared' = [compared EXCEPT ![o] = [compared[o] EXCEPT ![n] = NoKey]]
      /\ lapsed' = [p \in Operators |-> IF p = o THEN lapsed[p] ELSE lapsed[p] \cup {n}]
      /\ Done(o) /\ UNCHANGED <<file, decided, last, overlap, restarts, failures>>
  BY DEF Forget
<1>4. WritersOK' /\ pc'[o] = "idle" /\ cmd'[o] = NoCmd /\ Others(o)
  BY <1>1, <1>3, DoneEffect DEF Others
<1> HIDE DEF n
<1>5. PairOK'
  <2>1. [compared[o] EXCEPT ![n] = NoKey] \in [Agents -> Key]
    BY <1>1, <1>2, Nothing DEF PairOK
  <2>2. compared' \in [Operators -> [Agents -> Key]]
    BY <1>1, <1>3, <2>1 DEF PairOK
  <2>3. pending' \in [Agents -> Key]
    BY <1>1, <1>2, <1>3, Nothing DEF PairOK
  <2>4. lapsed' \in [Operators -> SUBSET Agents]
    BY <1>1, <1>2, <1>3 DEF PairOK
  <2> QED
    BY <2>2, <2>3, <2>4 DEF PairOK
<1>6. TypeOK'
  BY <1>1, <1>3, <1>4, <1>5 DEF TypeOK, FileOK, PairOK, WritersOK, CountsOK
<1>7. CommandsOK'
  BY <1>4, EditFields DEF IInv, CommandsOK, Others
<1>8. ASSUME ~overlap' PROVE Undisturbed'
  <2>1. Undisturbed /\ \A p \in Operators : p # o => pc[p] = "idle" /\ pc'[p] = "idle"
    BY <1>2, <1>3, <1>4, <1>8 DEF IInv, Undisturbed, Others
  <2>2. Settled
    BY <1>2, <2>1 DEF Settled
  <2> QED
    BY <1>3, <1>4, <2>1, <2>2 DEF Undisturbed, Settled, Loads
<1>9. LastInFile'
  BY <1>3 DEF IInv, LastInFile, Loads
<1>10. ComparedStays'
  <2>1. ASSUME NEW p \in Operators, NEW a \in Agents \ lapsed'[p], compared'[p][a] # NoKey
        PROVE  pending'[a] = compared'[p][a]
    <3>1. a \notin lapsed[p] /\ (p # o => a # n)
      BY <1>3, <2>1
    <3>2. a # n /\ compared'[p][a] = compared[p][a]
      BY <1>1, <1>2, <1>3, <2>1, <3>1 DEF PairOK
    <3> QED
      BY <1>1, <1>3, <2>1, <3>1, <3>2 DEF PairOK, IInv, ComparedStays
  <2>2. ASSUME NEW p \in Operators, cmd'[p].op = "confirm", cmd'[p].name \notin lapsed'[p]
        PROVE  cmd'[p].key = compared'[p][cmd'[p].name]
    <3>1. p # o /\ cmd'[p] = cmd[p]
      BY <1>4, <2>2, EditFields DEF Others
    <3>2. cmd[p].name \notin lapsed[p] /\ compared'[p] = compared[p]
      BY <1>1, <1>3, <2>2, <3>1 DEF PairOK
    <3> QED
      BY <2>2, <3>1, <3>2 DEF IInv, ComparedStays
  <2> QED
    BY <2>1, <2>2 DEF ComparedStays
<1> QED
  BY <1>6, <1>7, <1>8, <1>9, <1>10 DEF IInv

\* Steps that change neither the file nor a writer keep what is said of them.
LEMMA WritersStay ==
    ASSUME IInv, UNCHANGED <<file, pc, cmd, view, decided, last, overlap, restarts, failures>>, PairOK'
    PROVE  TypeOK' /\ CommandsOK' /\ (~overlap' => Undisturbed') /\ LastInFile'
<1>1. TypeOK'
  BY TypeParts DEF IInv, TypeOK, FileOK, PairOK, WritersOK, CountsOK
<1>2. CommandsOK'
  BY DEF IInv, CommandsOK
<1>3. ~overlap' => Undisturbed'
  BY DEF IInv, Undisturbed, Settled, Loads
<1>4. LastInFile'
  BY DEF IInv, LastInFile, Loads
<1> QED
  BY <1>1, <1>2, <1>3, <1>4

\* pair list: the operator has compared what is pending now.
LEMMA PairListInv == ASSUME IInv, NEW o \in Operators, PairList(o) PROVE IInv'
<1>1. FileOK /\ PairOK /\ WritersOK /\ CountsOK
  BY TypeParts DEF IInv
<1>2. /\ pc[o] = "idle" /\ compared' = [compared EXCEPT ![o] = pending] /\ lapsed' = [lapsed EXCEPT ![o] = {}]
      /\ UNCHANGED <<file, pending, pc, cmd, view, decided, last, overlap, restarts, failures>>
  BY DEF PairList
<1>3. PairOK'
  BY <1>1, <1>2 DEF PairOK
<1>4. TypeOK' /\ CommandsOK' /\ (~overlap' => Undisturbed') /\ LastInFile'
  BY <1>2, <1>3, WritersStay
<1>5. cmd[o].op # "confirm"
  BY <1>1, <1>2, EditFields DEF WritersOK
<1>6. ComparedStays'
  BY <1>1, <1>2, <1>5 DEF PairOK, IInv, ComparedStays
<1> QED
  BY <1>4, <1>6 DEF IInv

\* A hello parks a key only where none is pending.
LEMMA HelloInv ==
    ASSUME IInv, NEW n \in Agents, NEW k \in Keys, HelloArrives(n, k)
    PROVE  IInv'
<1>1. FileOK /\ PairOK /\ WritersOK /\ CountsOK
  BY TypeParts DEF IInv
<1>2. /\ pending' = Park(n, k)
      /\ UNCHANGED <<file, compared, pc, cmd, view, history, restarts, failures>>
  BY DEF HelloArrives
<1>3. pending' \in [Agents -> Key] /\ \A a \in Agents : pending[a] # NoKey => pending'[a] = pending[a]
  BY <1>1, <1>2 DEF Park, PairOK, Key
<1>4. PairOK'
  BY <1>1, <1>2, <1>3 DEF PairOK, history
<1>5. TypeOK' /\ CommandsOK' /\ (~overlap' => Undisturbed') /\ LastInFile'
  BY <1>2, <1>4, WritersStay DEF history
<1>6. ComparedStays'
  BY <1>2, <1>3 DEF IInv, ComparedStays, history
<1> QED
  BY <1>5, <1>6 DEF IInv

\* A restart forgets what is pending and ends the threads of PairConfirm, wherever they are.
LEMMA RestartInv == ASSUME IInv, DaemonRestart PROVE IInv'
<1>1. FileOK /\ PairOK /\ WritersOK /\ CountsOK
  BY TypeParts DEF IInv
<1>2. /\ restarts < MaxRestarts /\ restarts' = restarts + 1 /\ pending' = NobodyPending
      /\ lapsed' = [o \in Operators |-> Agents]
      /\ UNCHANGED <<file, compared, decided, last, overlap, failures>>
  BY DEF DaemonRestart
<1>3. /\ pc' = [o \in Operators |-> IF cmd[o].op = "confirm" THEN "idle" ELSE pc[o]]
      /\ cmd' = [o \in Operators |-> IF cmd[o].op = "confirm" THEN NoCmd ELSE cmd[o]]
      /\ view' = [o \in Operators |-> IF cmd[o].op = "confirm" THEN NoOne ELSE view[o]]
  BY DEF DaemonRestart
<1>4. ASSUME NEW o \in Operators
      PROVE  \/ pc'[o] = "idle" /\ cmd'[o] = NoCmd /\ cmd[o].op = "confirm"
             \/ pc'[o] = pc[o] /\ cmd'[o] = cmd[o] /\ view'[o] = view[o] /\ cmd[o].op # "confirm"
  BY <1>3
<1>5. WritersOK'
  <2>1. pc' \in [Operators -> {"idle", "got", "loaded", "writing", "saved"}]
    BY <1>1, <1>3 DEF WritersOK
  <2>2. cmd' \in [Operators -> Edits \cup {NoCmd}]
    BY <1>1, <1>3 DEF WritersOK
  <2>3. view' \in [Operators -> [Names -> Key]]
    BY <1>1, <1>3, Nothing DEF WritersOK
  <2> QED
    BY <1>1, <1>4, <2>1, <2>2, <2>3 DEF WritersOK
<1>6. restarts \in Nat /\ failures \in Nat /\ restarts' \in 0..MaxRestarts /\ failures + restarts' # 0
  BY <1>1, <1>2, BoundsAssumption DEF CountsOK
<1>7. PairOK'
  BY <1>1, <1>2, Nothing DEF PairOK
<1>8. TypeOK'
  BY <1>1, <1>2, <1>5, <1>6, <1>7 DEF TypeOK, FileOK, PairOK, WritersOK, CountsOK
<1>9. CommandsOK'
  BY <1>4, EditFields DEF IInv, CommandsOK
<1>10. ASSUME ~overlap' PROVE Undisturbed'
  <2>1. Undisturbed
    BY <1>2, <1>10 DEF IInv
  <2>2. \A o \in Operators : pc'[o] # "idle" => pc'[o] = pc[o] /\ cmd'[o] = cmd[o] /\ view'[o] = view[o]
    BY <1>4
  <2>3. \A o, p \in Operators : pc'[o] # "idle" /\ pc'[p] # "idle" => o = p
    BY <2>1, <2>2 DEF Undisturbed
  <2>4. Loads => file.known = decided
    BY <2>1 DEF Undisturbed, Settled, Loads
  <2> QED
    BY <1>2, <1>6, <2>1, <2>2, <2>3, <2>4 DEF Undisturbed, Settled, Loads
<1>11. LastInFile'
  BY <1>2 DEF IInv, LastInFile, Loads
<1>12. ComparedStays'
  BY <1>2, <1>4, EditFields DEF ComparedStays
<1> QED
  BY <1>8, <1>9, <1>10, <1>11, <1>12 DEF IInv

-----------------------------------------------------------------------------
(* The theorems.                                                           *)

\* An empty trust store with nobody pending satisfies the inductive invariant.
LEMMA InitInv == Init => IInv
<1> SUFFICES ASSUME Init PROVE IInv
  OBVIOUS
<1>1. FileOK /\ PairOK /\ WritersOK
  BY Nothing, EditFields DEF Init, FileOK, PairOK, WritersOK
<1>2. CountsOK
  <2>1. overlap \in BOOLEAN
    BY Zenon DEF Init
  <2>2. restarts \in 0..MaxRestarts /\ failures \in 0..MaxFailures
    BY BoundsAssumption DEF Init
  <2> QED
    BY <2>1, <2>2, Zenon DEF CountsOK
<1>3. CommandsOK /\ LastInFile /\ ComparedStays
  BY EditFields DEF Init, CommandsOK, LastInFile, ComparedStays, NobodyPending
<1>4. Undisturbed
  BY DEF Init, Undisturbed, Settled, Loads
<1> QED
  BY <1>1, <1>2, <1>3, <1>4, TypeParts DEF IInv

\* Every step of an operator, a peer or the daemon keeps the inductive invariant.
LEMMA NextInv == IInv /\ [Next]_vars => IInv'
<1> SUFFICES ASSUME IInv, [Next]_vars PROVE IInv'
  OBVIOUS
<1>1. CASE UNCHANGED vars
  <2>1. PairOK'
    BY <1>1, TypeParts DEF vars, IInv, PairOK
  <2>2. TypeOK' /\ CommandsOK' /\ (~overlap' => Undisturbed') /\ LastInFile'
    BY <1>1, <2>1, WritersStay DEF vars
  <2> QED
    BY <1>1, <2>2 DEF vars, IInv, ComparedStays
<1> QED
  BY <1>1, Actions, StartEditInv, ConfirmGetInv, ConfirmLoadInv, TruncateInv, WriteInv, SaveFailsInv,
     ForgetInv, PairListInv, HelloInv, RestartInv

\* Invariance: the trust store, its writers and the pending map keep the inductive
\* invariant.
THEOREM Invariance == Spec => []IInv
BY InitInv, NextInv, PTL DEF Spec

\* Type correctness: every reachable state is well typed, and a command is known exactly
\* while it runs.
THEOREM TypeCorrect == Spec => []TypeOK
BY Invariance, PTL DEF IInv

\* TrustStore::save, pair_confirm: commands that do not overlap lose no edit and apply
\* none that failed.
THEOREM EditsSurvive == Spec => []EditsKept
<1>1. IInv => EditsKept
  BY DEF IInv, Undisturbed, EditsKept, IngestTrust
<1> QED
  BY <1>1, Invariance, PTL

\* TrustStore::save: of any commands, overlapping or not, the last to save is kept.
THEOREM LastSurvives == Spec => []LastEditKept
<1>1. IInv => LastEditKept
  BY DEF IInv, LastInFile, LastEditKept
<1> QED
  BY <1>1, Invariance, PTL

\* REQ-0099: pair_confirm trusts the key whose code the operator compared, for any
\* operators, hellos and restarts.
THEOREM ComparedIsTrusted == Spec => []ConfirmedWasCompared
<1>1. IInv => ConfirmedWasCompared
  BY DEF IInv, TypeOK, ComparedStays, ConfirmedWasCompared
<1> QED
  BY <1>1, Invariance, PTL

=============================================================================
