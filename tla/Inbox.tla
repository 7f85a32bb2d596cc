-------------------------------- MODULE Inbox -------------------------------
(***************************************************************************)
(* The ingest path of the daemon: what the on_msg callback of              *)
(* Daemon::connect (src/src/daemon.rs) does with a message from the broker *)
(* once it is parsed - verification outcome, grant replay guard,           *)
(* insert_inbound, enforce_bounds, push_to_subscribers and the automatic   *)
(* delivery receipt - statement by statement, on the event-loop threads of *)
(* one or more sessions (a session that is stopping may still be inside    *)
(* the callback while the next one runs it too).                           *)
(*                                                                         *)
(* The broker delivers at least once and senders publish a message more    *)
(* than once, so any message may arrive again at any time.                 *)
(***************************************************************************)
EXTENDS Retention

CONSTANTS
    Msgs,           \* message ids peers send
    Direct,         \* those addressed to this agent (the others: to "*" or a third agent)
    Invalid,        \* those verify_incoming rejects
    GrantOf,        \* the grant id each message carries, or NoGrant
    NoGrant,
    Expiring,       \* grants that may expire while the daemon runs
    NoMsg,          \* no message
    SizeOf,         \* LENGTH(body) of each message
    Workers,        \* event-loop threads
    MaxArrivals,    \* bound: deliveries by the broker
    MaxCrashes,     \* bound: deaths of the process
    MaxFaults       \* bound: SQLite statements that fail

ASSUME MessagesAssumption ==
    /\ NoMsg \notin Msgs /\ Direct \subseteq Msgs /\ Invalid \subseteq Msgs
    /\ DOMAIN GrantOf = Msgs /\ SizeOf \in [Msgs -> Nat] /\ NoGrant \notin Expiring
ASSUME WorkersAssumption == IsFiniteSet(Workers)
ASSUME InboxBoundsAssumption ==
    MaxArrivals \in Nat /\ MaxCrashes \in Nat /\ MaxFaults \in Nat

VARIABLES
    rows,       \* the messages table
    lastSeq,    \* its AUTOINCREMENT counter
    seen,       \* seen_grants
    rejected,   \* rejections: [msg, reason]
    expired,    \* grants whose expiry the clock has passed
    pc,         \* each worker's place in the callback
    job,        \* the message it handles and the seq it got
    unguarded,  \* history: messages let through without their grant being recorded
    inserted,   \* history: how often a row was inserted for each message
    evicted,    \* history: how often such a row was evicted
    pushes,     \* history: how often it was pushed to subscribers
    receipts,   \* history: delivery receipts put into the outbox for it
    arrivals, crashes, faults

vars == <<rows, lastSeq, seen, rejected, expired, pc, job, unguarded, inserted, evicted,
          pushes, receipts, arrivals, crashes, faults>>
history == <<unguarded, inserted, evicted, pushes, receipts>>
guards == <<seen, rejected, expired>>
counters == <<arrivals, crashes, faults>>

NoJob == [msg |-> NoMsg, seq |-> 0]
InRow(m, q) == [seq |-> q, dir |-> "in", state |-> "none", msg |-> m, size |-> SizeOf[m]]
\* Mutation of ReceiptRow: logged as sent before anybody sent it.
ReceiptRow_Sent(m, q) == [seq |-> q, dir |-> "out", state |-> "sent", msg |-> m, size |-> 0]

\* The log row of an automatic receipt; its body is empty.  It goes from
\* 'pending' to 'sent' and stays there: nobody receipts a receipt.
ReceiptRow(m, q) == [seq |-> q, dir |-> "out", state |-> "pending", msg |-> m, size |-> 0]

Stored(m) == \E r \in rows : r.dir = "in" /\ r.msg = m
HasGrant(m) == GrantOf[m] # NoGrant

Init ==
    /\ rows = {} /\ lastSeq = 0 /\ seen = {} /\ rejected = {} /\ expired = {} /\ unguarded = {}
    /\ pc = [w \in Workers |-> "idle"]
    /\ job = [w \in Workers |-> NoJob]
    /\ inserted = [m \in Msgs |-> 0] /\ evicted = [m \in Msgs |-> 0]
    /\ pushes = [m \in Msgs |-> 0] /\ receipts = [m \in Msgs |-> 0]
    /\ arrivals = 0 /\ crashes = 0 /\ faults = 0

-----------------------------------------------------------------------------
\* The clock passes the expiry of a grant.
Expire(g) ==
    /\ g \in Expiring \ expired
    /\ expired' = expired \cup {g}
    /\ UNCHANGED <<rows, lastSeq, seen, rejected, pc, job, history, counters>>

Reject(m, reason) == rejected' = rejected \cup {[msg |-> m, reason |-> reason]}

\* A message arrives and goes through verify_incoming, which checks its grant's
\* expiry (the other checks are Invalid, see the module Verify).
Arrive(w, m) ==
    /\ pc[w] = "idle" /\ arrivals < MaxArrivals
    /\ arrivals' = arrivals + 1
    /\ IF m \in Invalid \/ GrantOf[m] \in expired
       THEN /\ Reject(m, IF m \in Invalid THEN "invalid" ELSE "grant_expired")
            /\ UNCHANGED <<pc, job>>
       ELSE /\ pc' = [pc EXCEPT ![w] = IF HasGrant(m) THEN "guard" ELSE "insert"]
            /\ job' = [job EXCEPT ![w] = [msg |-> m, seq |-> 0]]
            /\ UNCHANGED rejected
    /\ UNCHANGED <<rows, lastSeq, seen, expired, history, crashes, faults>>

Finish(w) ==
    /\ pc' = [pc EXCEPT ![w] = "idle"]
    /\ job' = [job EXCEPT ![w] = NoJob]

\* Mutation of GrantGuard: the grant is looked up and its recording left to a
\* later statement that never comes.
GrantGuard_LookupOnly(w) ==
    /\ pc[w] = "guard" /\ GrantOf[job[w].msg] \notin expired
    /\ IF GrantOf[job[w].msg] \in seen
       THEN Reject(job[w].msg, "replayed_grant") /\ Finish(w)
       ELSE pc' = [pc EXCEPT ![w] = "insert"] /\ UNCHANGED <<job, rejected>>
    /\ UNCHANGED <<rows, lastSeq, seen, expired, history, counters>>

\* The grant replay guard: seen_grant, one INSERT OR IGNORE, looks the grant up
\* and records it before anything is stored.
GrantGuard(w) ==
    /\ pc[w] = "guard" /\ GrantOf[job[w].msg] \notin expired
    /\ LET m == job[w].msg IN
         IF GrantOf[m] \in seen
         THEN Reject(m, "replayed_grant") /\ Finish(w) /\ UNCHANGED seen
         ELSE /\ seen' = seen \cup {GrantOf[m]}
              /\ pc' = [pc EXCEPT ![w] = "insert"]
              /\ UNCHANGED <<job, rejected>>
    /\ UNCHANGED <<rows, lastSeq, expired, history, counters>>

\* The guard is skipped: grant::verify runs a second time and the grant has
\* expired since verify_incoming (the `if let Ok` has no else), or seen_grant
\* fails (unwrap_or(false)).
GuardSkipped(w) ==
    /\ pc[w] = "guard"
    /\ \/ GrantOf[job[w].msg] \in expired /\ UNCHANGED faults
       \/ GrantOf[job[w].msg] \notin expired /\ faults < MaxFaults /\ faults' = faults + 1
    /\ unguarded' = unguarded \cup {job[w].msg}
    /\ pc' = [pc EXCEPT ![w] = "insert"]
    /\ UNCHANGED <<rows, lastSeq, guards, job, inserted, evicted, pushes, receipts,
                   arrivals, crashes>>

\* Mutation of InsertInbound: the number of changed rows is not looked at.
InsertInbound_ReportsRow(w) ==
    /\ pc[w] = "insert"
    /\ LET m == job[w].msg IN
         /\ pc' = [pc EXCEPT ![w] = "bounds"]
         /\ IF Stored(m)
            THEN /\ job' = [job EXCEPT ![w].seq = lastSeq]
                 /\ UNCHANGED <<rows, lastSeq, inserted>>
            ELSE /\ rows' = rows \cup {InRow(m, lastSeq + 1)}
                 /\ lastSeq' = lastSeq + 1
                 /\ inserted' = [inserted EXCEPT ![m] = @ + 1]
                 /\ job' = [job EXCEPT ![w].seq = lastSeq + 1]
    /\ UNCHANGED <<guards, unguarded, evicted, pushes, receipts, counters>>

\* Mutation of InsertInbound: no UNIQUE constraint on the id.
InsertInbound_NotUnique(w) ==
    /\ pc[w] = "insert"
    /\ LET m == job[w].msg IN
         /\ rows' = rows \cup {InRow(m, lastSeq + 1)}
         /\ lastSeq' = lastSeq + 1
         /\ inserted' = [inserted EXCEPT ![m] = @ + 1]
         /\ pc' = [pc EXCEPT ![w] = "bounds"]
         /\ job' = [job EXCEPT ![w].seq = lastSeq + 1]
    /\ UNCHANGED <<guards, unguarded, evicted, pushes, receipts, counters>>

\* insert_inbound: INSERT OR IGNORE on the UNIQUE id; a duplicate ends here.
InsertInbound(w) ==
    /\ pc[w] = "insert"
    /\ LET m == job[w].msg IN
         IF Stored(m)
         THEN Finish(w) /\ UNCHANGED <<rows, lastSeq, inserted>>
         ELSE /\ rows' = rows \cup {InRow(m, lastSeq + 1)}
              /\ lastSeq' = lastSeq + 1
              /\ inserted' = [inserted EXCEPT ![m] = @ + 1]
              /\ pc' = [pc EXCEPT ![w] = "bounds"]
              /\ job' = [job EXCEPT ![w].seq = lastSeq + 1]
    /\ UNCHANGED <<guards, unguarded, evicted, pushes, receipts, counters>>

\* The statement fails: a warning, and the message is gone.
InsertFails(w) ==
    /\ pc[w] = "insert" /\ faults < MaxFaults
    /\ faults' = faults + 1
    /\ Finish(w)
    /\ UNCHANGED <<rows, lastSeq, guards, history, arrivals, crashes>>

\* What a deletion means for the history.
CountEvicted ==
    evicted' = [m \in Msgs |->
                  evicted[m] + Cardinality({r \in rows \ rows' : r.dir = "in" /\ r.msg = m})]

\* enforce_bounds, under one lock of the store.
Bound(w) ==
    /\ pc[w] = "bounds"
    /\ rows' = EnforceBounds(rows)
    /\ CountEvicted
    /\ pc' = [pc EXCEPT ![w] = "push"]
    /\ UNCHANGED <<lastSeq, guards, job, unguarded, inserted, pushes, receipts, counters>>

\* A statement of enforce_bounds fails: before the DELETE that brings the count
\* down, or after it and some rounds of the byte loop.  The callback goes on.
BoundFails(w) ==
    /\ pc[w] = "bounds" /\ faults < MaxFaults
    /\ faults' = faults + 1
    /\ rows' \in {rows} \cup {Trimmed(rows, k) : k \in 0..TrimRounds(Counted(rows))}
    /\ CountEvicted
    /\ pc' = [pc EXCEPT ![w] = "push"]
    /\ UNCHANGED <<lastSeq, guards, job, unguarded, inserted, pushes, receipts, arrivals, crashes>>

\* Mutation of PushOut: the callback stops when the row is not found.
PushOut_OrStop(w) ==
    /\ pc[w] = "push"
    /\ IF \E r \in rows : r.seq = job[w].seq /\ job[w].msg \in Direct
       THEN pc' = [pc EXCEPT ![w] = "receipt"] /\ UNCHANGED job
       ELSE Finish(w)
    /\ UNCHANGED <<rows, lastSeq, guards, history, counters>>

\* message_by_seq, and push_to_subscribers if the row is (still) there; then
\* the receipt for a direct message, whether it is or not.
PushOut(w) ==
    /\ pc[w] = "push"
    /\ LET m == job[w].msg IN
         /\ pushes' = IF \E r \in rows : r.seq = job[w].seq
                      THEN [pushes EXCEPT ![m] = @ + 1] ELSE pushes
         /\ IF m \in Direct
            THEN pc' = [pc EXCEPT ![w] = "receipt"] /\ UNCHANGED job
            ELSE Finish(w)
    /\ UNCHANGED <<rows, lastSeq, guards, unguarded, inserted, evicted, receipts, counters>>

\* enqueue_receipt: insert_outbound_log ...
LogReceipt(w) ==
    /\ pc[w] = "receipt"
    /\ rows' = rows \cup {ReceiptRow(job[w].msg, lastSeq + 1)}
    /\ lastSeq' = lastSeq + 1
    /\ pc' = [pc EXCEPT ![w] = "enqueue"]
    /\ UNCHANGED <<guards, job, history, counters>>

\* ... then enqueue_outbound; the pump (module Outbox) sends it.
EnqueueReceipt(w) ==
    /\ pc[w] = "enqueue"
    /\ receipts' = [receipts EXCEPT ![job[w].msg] = @ + 1]
    /\ Finish(w)
    /\ UNCHANGED <<rows, lastSeq, guards, unguarded, inserted, evicted, pushes, counters>>

\* message_by_seq, insert_outbound_log or enqueue_outbound fails and is ignored:
\* the callback goes on without its effect.
TailFails(w) ==
    /\ faults < MaxFaults
    /\ faults' = faults + 1
    /\ \/ pc[w] = "push" /\ job[w].msg \in Direct
          /\ pc' = [pc EXCEPT ![w] = "receipt"] /\ UNCHANGED job
       \/ pc[w] = "push" /\ job[w].msg \notin Direct /\ Finish(w)
       \/ pc[w] = "receipt" /\ pc' = [pc EXCEPT ![w] = "enqueue"] /\ UNCHANGED job
       \/ pc[w] = "enqueue" /\ Finish(w)
    /\ UNCHANGED <<rows, lastSeq, guards, history, arrivals, crashes>>

\* The process dies and is restarted; the tables stay.
Crash ==
    /\ crashes < MaxCrashes
    /\ crashes' = crashes + 1
    /\ pc' = [w \in Workers |-> "idle"]
    /\ job' = [w \in Workers |-> NoJob]
    /\ UNCHANGED <<rows, lastSeq, guards, history, arrivals, faults>>

Step(w) ==
    \/ GrantGuard(w) \/ GuardSkipped(w)
    \/ InsertInbound(w) \/ InsertFails(w)
    \/ Bound(w) \/ BoundFails(w)
    \/ PushOut(w) \/ LogReceipt(w) \/ EnqueueReceipt(w) \/ TailFails(w)

Next ==
    \/ \E w \in Workers : Step(w) \/ \E m \in Msgs : Arrive(w, m)
    \/ \E g \in Expiring : Expire(g)
    \/ Crash

Spec == Init /\ [][Next]_vars

-----------------------------------------------------------------------------
(* Properties.                                                             *)

Grants == {GrantOf[m] : m \in Msgs} \ {NoGrant}
Row == [seq : Nat, dir : {"in", "out"}, state : {"none", "pending"}, msg : Msgs, size : Nat]

\* Types of the variables; a log row written by ingest awaits its publication, and a
\* callback under way has a message.
TypeOK ==
    /\ rows \in SUBSET Row /\ lastSeq \in Nat
    /\ seen \in SUBSET Grants
    /\ rejected \in SUBSET [msg : Msgs, reason : {"invalid", "grant_expired", "replayed_grant"}]
    /\ expired \in SUBSET Expiring /\ unguarded \in SUBSET Msgs
    /\ pc \in [Workers -> {"idle", "guard", "insert", "bounds", "push", "receipt", "enqueue"}]
    /\ job \in [Workers -> [msg : Msgs, seq : Nat] \cup {NoJob}]
    /\ \A w \in Workers : pc[w] # "idle" => job[w].msg \in Msgs
    /\ inserted \in [Msgs -> Nat] /\ evicted \in [Msgs -> Nat]
    /\ pushes \in [Msgs -> Nat] /\ receipts \in [Msgs -> Nat]
    /\ arrivals \in Nat /\ crashes \in Nat /\ faults \in Nat

\* Every grant that reaches the replay guard is used once: at most one message
\* that passed the guard with it is ever stored, once - although the same
\* message, or another with the same grant, arrives again, concurrently on a
\* second session, after a crash, a failed insert, or the eviction of its row.
GrantUsedOnce ==
    \A m, n \in Msgs \ unguarded :
        HasGrant(m) /\ GrantOf[m] = GrantOf[n] /\ inserted[m] > 0 /\ inserted[n] > 0
            => m = n /\ inserted[m] = 1

\* De-duplication (REQ-0013, insert_inbound): a message that arrives again
\* surfaces again only if retention has deleted its row in between, and
\* subscribers are shown a message at most once per stored row.
DedupeWhileRetained ==
    \A m \in Msgs :
        /\ inserted[m] <= evicted[m] + 1
        /\ pushes[m] <= inserted[m]

\* Workers between the insert of a row for m and the receipt for it.
OnTheWay(m) ==
    {w \in Workers : job[w].msg = m /\ pc[w] \in {"bounds", "push", "receipt", "enqueue"}}

\* Receipts match rows (the tail of the callback, enqueue_receipt): at most one per
\* stored row, none for a duplicate, a rejected message or one addressed to
\* somebody else; and every row of a direct message has one, or a worker is about
\* to send it, or a failing statement or a crash has stopped a worker - even when
\* another worker's enforce_bounds deletes the row meanwhile.
ReceiptPerRow ==
    \A m \in Msgs :
        /\ receipts[m] <= inserted[m]
        /\ receipts[m] > 0 => m \in Direct \ Invalid
        /\ m \in Direct =>
              inserted[m] <= receipts[m] + Cardinality(OnTheWay(m)) + faults
                               + crashes * Cardinality(Workers)

\* enforce_bounds does all it may: after it ran without an error, the table is within both
\* bounds or holds nothing that may be evicted.
BoundsEnforced ==
    [][\A w \in Workers : pc[w] = "bounds" /\ pc'[w] = "push" /\ faults' = faults =>
          \/ Cardinality(rows') <= MaxMessages /\ Bytes(rows') <= MaxBytes
          \/ \A r \in rows' : ~Evictable(r)]_vars

\* Retention deletes in order of age and never a row that awaits a receipt: a
\* deleted row was evictable and older than every evictable row that stays.
OldestEvictedFirst ==
    [][\A r \in rows \ rows' :
          /\ Evictable(r)
          /\ \A q \in rows \cap rows' : Evictable(q) => r.seq < q.seq]_vars

=============================================================================
