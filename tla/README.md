# A verification model of agentmsg

agentmsg lets agents exchange signed messages over one shared MQTT topic. Each
agent runs a daemon that owns the broker session and a SQLite store; the CLI
talks to it over a local socket. This directory models the daemon, the store and
the parts of the CLI that share state with them in TLA+, checks the models with
TLC and proves every safety property that holds with TLAPS. Source paths are relative to
the repository (`src/daemon.rs` is `src/src/daemon.rs` in `PROJECT.json`).

## The system

| Part | State | Operations | Talks to |
|---|---|---|---|
| Outgoing path (`daemon.rs` send, enqueue_receipt, enqueue_presence, pair_start, pump; `store.rs` outbox) | `messages` rows with direction `out` and their delivery_state, `outbox` rows | insert_outbound_log, enqueue_outbound, publish_on, mark_delivered, pending_outbound | IPC request threads, pump thread, broker session |
| Broker session (`mqtt.rs`, connect and disconnect) | the `Mutex<Option<Mqtt>>`, connected and stop flags, the client's request channel (64) | connect, disconnect, event loop, subscribe on ConnAck, backoff | broker |
| Ingest (`daemon.rs` callback, `store.rs`) | `messages`, `seen_grants`, `rejections` | verify, replay guard, insert_inbound, enforce_bounds, push, receipt | outgoing path, readers |
| Readers (`store.rs` cursor; `daemon.rs` serve_subscribe, push_to_subscribers; `cli.rs` read_cmd, follow_stream) | `cursors`, the subscriber registry, one channel (256) per follower | Read, Ack (also of any SEQ: `ack`), Subscribe, push | ingest |
| Verification (`message.rs`, `grant.rs`, `wire.rs`) | none | build, verify_incoming, verify_pair, grant::verify | trust store, config |
| Trust store and pairing (`trust.rs`, `daemon.rs` pair_*, `cli.rs` agent, authority, pair) | `trust.json`, the pending map in memory | add, remove, hello, pair list, pair confirm | CLI processes, daemon threads, ingest |
| Presence (`daemon.rs`, `store.rs` presence) | `presence` rows | heartbeat, presence set, upsert, list | outgoing path, ingest |
| Two daemons and the broker (`mqtt.rs`, `daemon.rs` client id, callback and ack) | the broker's session of each client id and its queue; what a client has sent and read | PUBLISH, PUBACK, reconnect, resume | outgoing path, ingest |
| Life cycle (`daemon.rs` run, `cli.rs` daemon) | the endpoint, the processes | run, start and its readiness poll, stop | store, identity, configuration |
| Schema (`store.rs` migrate) | user_version, tables, columns | open, migrate | every daemon process |
| Key files (`identity.rs`, `authority.rs`, `cli.rs` id, authority) | `identity.json`, `authority.json` and their backups | generate, back up, save, load | life cycle |
| Configuration (`config.rs`, `cli.rs` config) | `config.toml` | load, set, save | daemon, CLI processes |
| IPC framing, cryptography, tokens, paths, output | - | frame, sign, seal, print | - |

What is hard here: one thread per IPC request, a pump thread, a heartbeat thread
and an event-loop thread per session share a store whose single statements are
atomic and whose sequences of statements are not; the process may die (Shutdown is
`process::exit`) between any two; the broker delivers at least once and several
sessions may ingest at the same time; CLI processes edit `trust.json`,
`config.toml` and the key files without a lock while daemons read them, and a
daemon migrates the store before it knows whether another one runs; bounded channels connect threads of different
speed. `PROJECT.json` lists these hazards line by line, with the properties that
look at each.

## Modules

| Module | Models | Composition |
|---|---|---|
| `Handoff` | what the outgoing path promises of one message: new, queued, handed to a client; a delivery state that only advances | abstract specification |
| `Outbox` | the outgoing path and the broker sessions | implements `Handoff` |
| `OutboxProofs` | proofs about `Outbox` | extends `Outbox` |
| `Retention` | enforce_bounds as a function of the table | used by `Inbox` |
| `Inbox` | the ingest callback, statement by statement, on several threads | extends `Retention` |
| `InboxProofs` | proofs about `Inbox` and `Retention` | extends `Inbox` |
| `Follow` | readers, followers, cursor, lag notices | rows come from `Inbox` (InsertInbound) |
| `FollowProofs` | proofs about `Follow` | extends `Follow` |
| `Verify` | what Send builds and what the callback makes of any envelope | its verdict is `Invalid` of `Inbox` |
| `VerifyProofs` | proofs about `Verify` | extends `Verify` |
| `Trust` | trust.json and pairing | its file is the constant `Trust` of `Verify` |
| `TrustProofs` | proofs about `Trust` | extends `Trust` |
| `Presence` | beacons and the presence row | beacons travel as `Beacons` of `Outbox` |
| `PresenceProofs` | proofs about `Presence` | extends `Presence` |
| `Conversation` | what two agents may rely on about a direct message: how far it came and what its sender is shown | abstract specification |
| `Delivery` | two daemons and the broker, with sessions, redelivery and every loss on the way | composes what `Handoff` promises of an outgoing path with the ingest of `Inbox`; implements `Conversation` |
| `DeliveryProofs` | proofs about `Delivery` | extends `Delivery` |
| `Schema` | the statements of the migration as functions of a database | used by `Lifecycle` |
| `Settings` | config.toml and the config commands | used by `Lifecycle` |
| `Lifecycle` | the processes over one data directory: daemons starting and stopping, key and config commands | extends `Schema` and `Settings` |
| `LifecycleProofs` | proofs about `Lifecycle`, `Schema` and `Settings` | extends `Lifecycle` |
| `MC*` | constants for TLC | extend the module they are named for |

### State and actions

**Outbox.** `log` and `outbox` are the two tables, per message id; `pc` and
`handle` the thread of each request and the client it cloned; `pump` the pump
thread with its snapshot; `current`, `loop`, `stopping`, `chan`, `inflight` the
sessions. A message is a model value of one of four kinds, which follow
different paths in the code: a Send is logged, queued and published by its own
thread; a receipt is logged and queued; a beacon is queued; a hello is queued and
published by its own thread and again by the pump. `handed` and `broker` record
what a client accepted and what the broker acknowledged. `mark_delivered` is one
action with the number of its two statements that take effect; fewer than two is
an error (all callers discard it) or what a crash leaves. The channel of a client
is a set: the order of requests in it decides nothing the properties look at.
The client library (rumqttc) is modelled from its use: publishing fails once the
event loop is gone and blocks while the channel is full; on a lost connection it
keeps what was not acknowledged. The pump's query may fail, and then it publishes
nothing (`unwrap_or_default`). The callback applies a receipt for any id the store
has; that one comes only after the broker has the message is an assumption about
the peers, and the second half of StateHonest rests on it. All topics are one SUBSCRIBE, and the slot that
`disconnect()` takes in the channel is left out.

**Inbox.** `rows` is the messages table, each worker an event-loop thread inside
the callback (a session that is being stopped may overlap with its successor).
Each statement is an action, and one of them may fail. The counters of
insertions, evictions, pushes and receipts per message are history.
`auto_receipts` is on. The verdict of verification is a constant, except the
expiry of a grant, which the code checks twice.

**Retention.** EnforceBounds is written as the sequence of the DELETEs: the
count first, then rounds of TrimStep (64 in the code) rows while over the byte
budget.

**Follow.** The ingest thread inserts a row and pushes it to each registered
follower with two try_sends under the registry lock; a forwarding thread per
follower takes frames, writes them and acknowledges them; a read takes the store's
lock twice. All readers use the default consumer, so they share a cursor. `read
--wait` is a read repeated until it returns a row. `ack SEQ` acknowledges any number,
of a row or not, which the code does not look at; `named` records them, and `got`
the rows some process was given.

**Verify.** One envelope at a time: Send with some options, or any envelope of a
given set, is put on the wire, waits, and is delivered. A request of Send has its
topic, length, kind, content type, grant and encryption, with the refusals of
`send`; the callback peeks at the content type on the wire, verifies, and then goes
by the kind and the content type that decryption leaves. A gate of the code is a
pair of its failing condition and its reason, and a verdict the first that fails.
Keys are atoms; a signature is the key that made it and whether it covers the
bytes; a sealed body the key it was sealed to and whether it opens. Lengths are
kept, with the base64 expansion and the AES-GCM tag, since a limit is compared with them.

**Trust.** `file` is trust.json with the outcome of parsing it; each operator has
one command under way: load, change, truncate, write. `pending` is the daemon's
map of hellos and `compared` what an operator saw in the last pair list. The rest
is history: `decided` and `last` record the edits that reported success,
`overlap` that a command began while another ran, and `lapsed` the names whose
pending entry was dropped since the operator's last pair list. The conditions of
EditsKept and ConfirmedWasCompared are stated with them.

**Presence.** Two threads number a beacon with the clock, then sign and queue it;
beacons arrive in any order and any number of times.

**Delivery.** An item is a message or one of its two receipts; it is in the
`outbox` of its sender, in the sender's `client`, in the `queue` of the
recipient's session at the broker, in the `events` the recipient's client has read,
or gone. `table` is messages.delivery_state at the sender, `rows` and `cursor` the
inbound rows and the cursor at the recipient. What Outbox and Inbox look at inside
one daemon is one step here: log and outbox row, publish_on and mark_delivered
(with a failure of either of its statements), insert_inbound and its receipt; an
outbox row may be lost to an error or a death before enqueue_outbound. `chan` is the
bounded channel of a client (64 in the code, `ClientCap` here) and `client` what its
event loop has taken from it. `link` is that loop: on a ConnAck it is "acked", in the
call of subscribe, which blocks it while the channel is full; only in "subscribing"
and "up" does it poll. Retention is left to Inbox. Sets stand for queues because
republishing reorders anyway. The callback applies a receipt of any trusted sender
without comparing it with the recipient (`daemon.rs:251`); here every agent is
honest, and only the recipient of a message answers for it. The broker is modelled from how the code uses
it: `clean_session(false)`, one client id `name-pid` per process, QoS 1. rumqttc
answers a PUBLISH with a PUBACK when it reads it; after an error it sends what was
not acknowledged again, unless the broker reports a new session. An agent's own
messages come back to it on the shared topic and are ignored by the callback, so
Route leaves them out. `lost` is history: each action that may lose an item adds it,
and no other does.

**Lifecycle, Schema, Settings.** `proc` are the daemon processes with the place in
`run` and `migrate` they have reached; every SQL statement is an action and commits
by itself. `cmd` and `edit` are the commands of the operators: a guard, a reading of
the fingerprint, a copy, a truncation and a write for a key file; load and change,
truncation and write for config.toml. A key is a number, a setting the number of the
command that set it, a schema a sequence of tables and added columns. `reported`,
`saved`, `names`, `overlap` and `spoiled` are history: what commands reported, the
names the identity file has held, and whether two commands worked on one file or
one was cut short in the middle of a save. The mixed text two overlapping writers may
leave is left out: once they overlap, `spoiled` excuses what follows. `left` counts down the bounds chosen at the
start of a behaviour, so that one run explores several scenarios without their
product. `daemon start` reads the identity and spawns a process in one step; a
process may be launched at any other moment by `daemon run`.

## What is checked

Runs that pass:

| Run | Properties | Bounds |
|---|---|---|
| OutboxSafety | TypeOK, OutboxDurable, StateHonest, PendingIsQueued, ImplementsHandoff | a Send and a beacon, 2 sessions, channel of 1, 1 crash, 1 failing statement |
| OutboxDrains | OutboxDrains | a receipt and a hello, a channel that holds the whole backlog, 1 lost connection, 1 failing statement |
| FollowStream | TypeOK, LagExact, AckedWasGivenOrNamed, SkippedForCause, CursorNeverBack, IngestNeverStalls | 2 followers, one of them acking, and a reader that also runs `ack 2`, before or after that row exists; channel of 1, reads of 2, 3 messages |
| InboxIngest | TypeOK, GrantUsedOnce, DedupeWhileRetained, ReceiptPerRow, BoundsEnforced, OldestEvictedFirst | 4 messages of which one is invalid, two sharing a grant that may expire, 2 threads, 4 arrivals, max_messages 2, 2 bytes, 1 crash, 1 failing statement |
| VerifyEnvelopes | TypeOK, VerdictExact, ReasonTellsAuthentic, ParkedIsSelfSigned, CleartextArrives | all combinations of wrapper fields; in a sound wrapper, of version 1 or 2, all sizes, ages, sealings and grants around their limits; all hellos; receipts by kind and by content type; Send at and around the limit, with every kind, content type and grant |
| TrustStore | TypeOK, EditsKept, LastEditKept, ConfirmedWasCompared | 2 operators, an agent and an authority, 2 keys, 1 failed save, 1 restart of the daemon; operators and keys are symmetric |
| PresenceOrder | TypeOK, RowIsNewest | 3 beacons, a clock set back once |
| DeliveryConversation | TypeOK, AccountedFor, ImplementsConversation, EventuallyConfirmed | one message and 2 faults, or two messages and 1 fault; 2 agents, client channels of 1; a fault is a crash, a Disconnect, a lost connection or PUBACK, a discarded session, a failing statement or an item grown stale |
| LifecycleStart | TypeOK, SchemaComplete, OneDaemon, KeysKept, SettingsKept, ReplacedByForce, StartComesUp | 2 daemon processes, 2 operators, 2 names, a new and a version 1 database of 3 tables and 2 added columns; 3 key commands, or 3 starts and 2 faults, or 1 key command and 2 starts, or 3 config commands and 1 start |

What they show:

- *OutboxSafety*: a message that was queued keeps its outbox row until some
  client accepted it; neither a delivery state nor the answer to Send claims more
  than happened; a row shown as pending is retried; every message goes through
  the life cycle of `Handoff`. A stale handle, cloned before a disconnect and used
  after it, is among the cases.
- *OutboxDrains*: while the daemon stays connected every row leaves the outbox.
  Its condition is a channel the backlog fits in; OutboxBackpressure shows why.
- *FollowStream*: the lag count is exact at any moment; a push ends although no
  follower reads. Cursor and read receipts stay on rows some process was given or an
  `ack` named, and a receipt is for a row the cursor has passed; a row is passed
  without being given only because an `ack` named it or a later one, or an
  acknowledging follower had not registered when it was stored, or was told that it
  lags; the cursor never goes back. So plain reads skip nothing, in any interleaving.
- *InboxIngest*: a grant that passes the replay guard is used by one message; a
  message is stored again only after its row was evicted; receipts match rows;
  retention does all it may, oldest row first.
- *VerifyEnvelopes*: the chain of gates accepts exactly what a flat statement of
  the conditions accepts (a version 1 envelope with what only version 2 has is
  accepted only if it would be as version 2); a rejection is
  recorded with a reason about the contents exactly when the sender was established;
  only self-signed hellos are parked; and signed cleartext that Send takes is stored
  by a receiver that trusts the sender, while it is fresh, exactly when its kind and
  content type are ordinary and its grant, if any, holds there.
- *TrustStore*: commands that do not overlap are all kept; of those that do, the
  last to save is; pair confirm saves the key that was compared, unless the
  pending entry was dropped in between.
- *PresenceOrder*: the row is the highest-numbered beacon that arrived, whatever
  the order and the repetitions.
- *DeliveryConversation*: the sender is shown `delivered` only for a message the
  recipient has stored, and `read` only for one its cursor has passed, although
  receipts are repeated, reordered and lost and one ack passes a batch. A message or
  receipt that has not arrived is on its way or met one of the losses listed with
  AccountedFor; losing a connection, at any moment and in either direction, is not one.
  While both daemons keep a session and neither event loop has blocked itself in
  subscribe, what met no loss is in the end shown as delivered.
- *LifecycleStart*: migrations that interleave, fail and die between any two
  statements converge: a database marked version 2 is complete, and a half migrated
  one never stops a later start. While the identity keeps its name at most one daemon
  serves, and it is the one commands reach. Every key a command printed is in its
  file or a backup and is replaced only by `--force`; settings reported as saved stay and are the ones
  a daemon connects with. The last three hold unless commands overlap on a file (and,
  for settings, unless one is cut short in save).

The bounds are the smallest at which these cases happen: two of everything that
can race, a channel that fills, a limit that is exceeded, one crash, one lost
connection and one failing statement. Faults are independent of one another in the
code (no retry counts, no escalation), and the safety properties of these runs are
proved without bounds. OutboxSafety has no lost connection
(`MaxDrops = 0`): a disconnect and a crash already end a session with requests in
its channel, and OutboxDrains and the proofs have it. In DeliveryConversation two
faults are a PUBACK lost on each side, or a lost connection and a session
discarded while it is down; a second message is needed only for an ack that passes a
batch, and a channel of one request is full with one, so that the event loop does
block itself (an item published again between the ConnAck and subscribe). Three tables and two columns are an old table, one
with a column to add, and a new one, in either order of two migrations.

Runs whose property the code does not satisfy; the property is what a
requirement, a comment or the README of the repository says, quoted under
`findings`:

| Run | Property | What happens |
|---|---|---|
| OutboxBackpressure | OutboxDrains | the event loop blocks on its own subscribe when the pump filled the channel |
| FollowGap | NothingSkipped | a message between drain and Subscribe is passed by the cursor |
| VerifySealed | EncryptedArrives | limits on plaintext and on ciphertext |

The runs disable the deadlock check: nobody has to send, connect or run a command,
so these systems may come to rest.

### Met while modelling

Smaller disagreements between the code and its requirements or comments, which the
models contain (they are why some properties carry a condition) and which have no
run of their own:

- A message is marked `sent`, and its outbox row deleted, when the client's channel
  takes it (`daemon.rs:367` and 900); a crash, a Shutdown or a Disconnect before the
  PUBACK loses it, where `project.req:772` says "retry delivery at MQTT QoS 1 until
  the broker confirms receipt". Hence `lost` in AccountedFor.
- When all older rows are outbound and not evictable, enforce_bounds deletes the
  row just inserted, and the delivery receipt is sent all the same (`daemon.rs:284`;
  `project.req:3433`: "accepts and surfaces").
- The client id contains the process id (`daemon.rs:179`), so the session the broker
  keeps for "while the daemon is briefly disconnected" (`project.req:1509`) is not
  resumed by a restarted daemon, and what it queued is not delivered.
- rumqttc acknowledges what it reads; Disconnect breaks out of the loop before the
  next event (`mqtt.rs:77`), so messages read and acknowledged are dropped, and a
  crash, a panic or a failing insert drops one in the same way.
- `id generate --force` with another name leaves a running daemon on the old
  endpoint with the old key; `daemon start` then starts a second one over the same
  store, and no command reaches the first (`daemon.rs:126`; `project.req:2172`, "at
  most one daemon instance runs per host for a given agent identity"). Hence
  the condition of OneDaemon. `paths.rs:94` (`lock_path`) is not used.
- A daemon answers Ping between the answer to Shutdown and its exit
  (`daemon.rs:419`), so `daemon stop` followed by `daemon start` may report that it is
  already running.
- A damaged identity file counts as none (`identity.rs:181`), and `id generate`
  replaces it without `--force` and without a backup; two generate commands
  at the same time may lose a key that one of them printed.
- A config.toml cut short while it is saved parses as the defaults
  (`config.rs:122`), and the next config command writes them back.
- The transcript query, which `browse --all` uses too, takes the oldest rows up to its
  limit (`store.rs:456`), where `cli.rs:144` says "Browse recent messages";
  `consumer_warning` is always `None` (`daemon.rs:511`), where `README.md:132`
  says that read warns.
- The lag notice is sent before the message that follows the gap (comment at
  `daemon.rs:1007`), but a follower that makes room between the two `try_send`s
  receives that message first and the notice with the next (`daemon.rs:1016`); and
  a count is flushed only by a further push (`daemon.rs:1010`), so without one the
  follower is never told.
- Ack of a batch sends a read receipt for the row it names only
  (`daemon.rs:518`; `project.req:3433`).
- The log rows of automatic receipts and of unacknowledged messages are not
  evictable, so the table may exceed `max_messages` (`store.rs:713`;
  `project.req:2220`). BoundsEnforced says what holds instead.
- The replay guard is skipped when the grant expires between verification and
  the guard, or its statement fails (`daemon.rs:267`; comment at 264).
  GrantUsedOnce excludes such messages by `unguarded`.
- Send takes kind `receipt` and the content types `pair`, `presence` and `receipt`
  (`daemon.rs:929`) and answers as for any message; the receiver applies, parks or
  rejects it and stores nothing. Hence Ordinary in CleartextArrives.
- A version 1 envelope goes through the same gates as version 2 (`message.rs:281`), so
  an unsigned one (where unsigned is allowed), a sealed one and one with a grant are
  accepted; the comment at `message.rs:278` says "v1 takes the legacy signed path (no
  enc/grant/unsigned)", and `DESIGN_V2.md:206` "else legacy signed path". Hence the
  exception in VerdictExact.
- `ack SEQ` moves the cursor to any number (`daemon.rs:516`), beyond the newest row
  too, so that messages still to come count as read for this consumer
  (`project.req:226`, "read all messages it missed"). Hence `named` in SkippedForCause.
- Overlapping commands load, change and save without a lock, so the earlier edit
  can be lost (`trust.rs:61`; `project.req:1799`), hence `overlap` in EditsKept;
  between truncate and write the callback verifies against an empty store
  (`daemon.rs:220`; `project.req:284`), hence `Settled`.
- pair confirm replaces a known key without the rotation flag that agent add asks
  for (`daemon.rs:777`; `project.req:3559`).
- pair confirm names the peer only; if the daemon restarts, or another operator
  confirms, after pair list, it takes whichever key announced itself next
  (`daemon.rs:764`; `project.req:3730`), hence `lapsed` in ConfirmedWasCompared.
- The ttl of a beacon is stored and never compared (`cli.rs:1745`;
  `project.req:3447`), and `require_encryption` (`config.rs:79`) is read by nothing
  on the send or receive path.

### Fairness

`Outbox!Fairness` asks that accepted requests run on, that the pump (a loop with
a one second sleep) and the event loop (an iterator that polls) take their steps,
and that a reachable broker answers. It does not ask anybody to connect or to
send, and OutboxDrains is conditional on the daemon staying connected.
`Follow!IngestFairSpec` asks for the ingest thread only and nothing of the
followers, since the property is that they do not matter.
`Delivery!Fairness` asks the pump, the event loops (which reconnect by themselves,
with a bounded backoff) and the broker to go on; it does not ask anybody to
send, read or connect, and a loop that waits for a slot in its channel (Hand,
QueueSubscribe) is not asked to get one. EventuallyConfirmed is conditional on both
daemons keeping a session (`link` not off) and on neither event loop staying blocked in
its own subscribe, which OutboxBackpressure shows to happen. In `Lifecycle` a process that runs is scheduled;
nobody has to start one. All other runs check safety and assume no fairness.

## What is proved

Every invariant, action property and refinement of the passing runs is a theorem
for all values of the constants, under the assumptions the modules name. Each proof
module states an inductive invariant, checked by TLC on the instance of the run
before it was proved, proves that Init implies it and that each action keeps it
(one step or lemma per action), and derives the properties from it. What
the invariants add to the properties, and why:

**OutboxProofs** - TypeCorrect; Durability, Honesty, PendingRetried; Refinement
(`ImplementsHandoff`). The three invariants are not inductive alone: a thread about
to call mark_delivered might do so for a message nobody took. IInv adds
`MarkersHonest` (whoever marks holds a successful publish_on), `FreshIsNew` (before
enqueue_outbound a message is in no snapshot and no channel, so the pump cannot
publish it) and `WireHonest` (what is in a channel, in flight or with the broker was
handed over). In the refinement most steps are invisible (`Invisible`); those that
change the log advance it (`LogAdvances`, `MarkAdvances`), which needs IInv.

**InboxProofs** - TypeCorrect, with finiteness of the table.
- RetentionOrder (`OldestEvictedFirst`) and RetentionSuffices (`BoundsEnforced`), for
  all limits. `VictimsOldest` and `VictimsEnough` say of one DELETE that it takes the
  oldest rows, and at least as many as its LIMIT or all it may (the oldest row it
  keeps has that many below it); `TrimRoundsStop` that the byte loop ends, and where;
  `TrimmedOldest` and `EnforceEnough` put the DELETEs together.
- GrantSafety (`GrantUsedOnce`). The invariant adds `GrantHeldAlone` (a thread between
  guard and insert holds its grant alone) and `GrantRecorded`.
- Deduplication (`DedupeWhileRetained`) and ReceiptsMatchRows (`ReceiptPerRow`). The
  invariant counts: every insert is a row or an eviction (`RowPerInsert`), and every
  push, receipt and worker that has one to do has an insert of its own
  (`OnePerInsert`). Each action moves at most one worker in or out of a set
  (`OneMoves`); a crash moves all of them, which is what `crashes * |Workers|` pays for.

**FollowProofs** - TypeCorrect, LagIsExact (`LagExact`), AcksFollowReads
(`AckedWasGivenOrNamed`), SkipsHaveCause (`SkippedForCause`), CursorMonotone
(`CursorNeverBack`), for any number of processes, any limit and any capacity. LagExact needs `PushInv` (a push that holds the lock visits
each registered follower once, so nobody is counted twice) and `RegistryInv` (a stream
starts empty and is counted from its registration); AckedWasGivenOrNamed needs `GivenInv` (what
a process is about to acknowledge it was given, or its command named). SkippedForCause has a second invariant on top: a batch was given
without a gap and starts at or before the cursor (`BatchInv`), a stream without a lag
notice has no gap (`StreamInv`), and nobody is given a row that is not stored
(`GotStored`). What a run of frames accounts for
is the cardinality of the set of messages it tells of, so that appending and
taking a frame are facts about disjoint unions instead of an induction.

**VerifyProofs** - TypeCorrect, VerdictIsExact (`VerdictExact`), ParkedProves
(`ParkedIsSelfSigned`), ReasonsTell (`ReasonTellsAuthentic`), CleartextIsStored
(`CleartextArrives`), for any trust store,
switches, limits and envelopes. `FirstFailureOk` says that a chain of early returns
answers ok exactly when no gate fails, `Chained` that chains compose; one lemma per
chain of the code says what it lets through, and `IncomingOk` and `PairOk` put them
together. The invariant adds that an envelope on the wire is well formed and that
one of Send is what build made of a request it did not refuse, grown older.

**TrustProofs** - TypeCorrect, EditsSurvive (`EditsKept`), LastSurvives
(`LastEditKept`), ComparedIsTrusted (`ConfirmedWasCompared`), for any operators, names
and keys. `Undisturbed` says what the one command under way is going to leave in the
file; `LastInFile` needs that a second text over a first does not parse;
`ComparedStays` that a pending key is not replaced by a later hello.

**PresenceProofs** - TypeCorrect, NewestBeaconKept (`RowIsNewest`), which is
inductive with the types of the beacons.

**DeliveryProofs** - TypeCorrect, NothingUnaccounted (`AccountedFor`), Refinement
(`ImplementsConversation`), for any agents, messages and numbers of faults. Both need
`Causality`: a receipt anywhere on its way, or shown, implies the row or the cursor
it is about; and `RowsAddressed`. A step of Delivery changes the abstract progress of one
message, of the batch an ack passes, or of none.

**LifecycleProofs** - TypeCorrect, SchemaConverges (`SchemaComplete`), SingleDaemon
(`OneDaemon`), KeysSurvive (`KeysKept`), SettingsSurvive (`SettingsKept`),
OnlyForceReplaces (`ReplacedByForce`), for any schema, any processes and operators.
`SchemaInv` says how far each process has brought the database for certain, whatever
others do: tables and columns are only added, and a process that found no messages
table creates every table with all its columns. `NamesInv` ties processes to
the names the identity file has held, `KeysInv` says that a generate command
knows what it replaces and has backed it up before it truncates, and `SettingsInv` that the
one config command under way holds what was saved with its own change.

The assumptions: kinds of messages, agents and authorities are disjoint; capacities,
limits and bounds are natural numbers, positive where the code's are; the sets of
readers, workers and messages are finite; a placeholder (no key, no row, no message)
is none of the things it stands in for; SCHEMA is a sequence of tables that contains
those of version 1, and MIGRATE_V2 a sequence, not empty, of columns of those; requests and
envelopes have the types that parsing gives them. TLC evaluates them in every run.

Model-checked only: liveness (OutboxDrains, IngestNeverStalls, EventuallyConfirmed,
StartComesUp), since the proof system has no rules for fairness here, and the
counterexamples of the runs that fail, which are facts about one instance.

## Not modelled

IPC framing, cryptographic primitives, the encodings of tokens and keys, paths and
file modes, command-line parsing and output: I/O and encodings without shared state.
Queries (browse, transcript, receipts, consumers, status) change nothing; reply is a
query followed by a Send. A process that dies after `read --ack` acknowledged a batch
and before it printed it has lost it for its consumer: the output of a CLI process is
not part of Follow. TLS, credentials and packet sizes of the broker session.

## Plan

1. Done: Outbox with Handoff, Inbox with Retention, Follow, Verify, Trust,
   Presence, Delivery with Conversation, Lifecycle with Schema and Settings; a run or
   more for each; proofs of all their safety properties.
2. Next: the corrected forms of the statements the code does not satisfy, as
   properties with their conditions (a sealed body whose expansion fits the limit
   arrives; rows are not lost between channel and PUBACK without a crash or a
   disconnect), checked and proved; the refinement of Delivery's single steps by
   Outbox and Inbox.
