------------------------------- MODULE Follow -------------------------------
(***************************************************************************)
(* The reading side of the daemon: `read`, `read --ack`, `read --follow`   *)
(* and `ack SEQ` processes (src/src/cli.rs) against the store's cursor, the*)
(* subscriber registry (push_to_subscribers) and one forwarding thread per *)
(* subscription (serve_subscribe).  Inbound rows are direct messages with  *)
(* consecutive seq; how they get into the store is the module Inbox.       *)
(*                                                                         *)
(* Every reader uses the default consumer (the identity's name), so they   *)
(* share one cursor.                                                       *)
(***************************************************************************)
EXTENDS Integers, Sequences, SequencesExt, FiniteSetsExt

CONSTANTS
    Readers,        \* CLI processes
    Acking,         \* those run with --ack
    Following,      \* those run with --follow
    Naming,         \* those that may also be run as `ack SEQ`
    Acks,           \* inputs: the SEQs given to it, rows or not
    Limit,          \* --limit of a read
    Cap,            \* sync_channel::<StreamFrame>(256)
    MaxSeq          \* bound: inbound messages

ASSUME ReadersAssumption ==
    /\ IsFiniteSet(Readers) /\ Acking \subseteq Readers /\ Following \subseteq Readers
    /\ Naming \subseteq Readers /\ Acks \subseteq Int
ASSUME SizesAssumption == Limit \in Nat \ {0} /\ Cap \in Nat \ {0} /\ MaxSeq \in Nat

VARIABLES
    stored,     \* seq of the newest inbound row
    pushed,     \* seq of the newest row whose push has taken the registry lock
    ingest,     \* the ingest thread: "idle", "stored", "flush" or "send"
    todo,       \* subscribers the running push has still to visit
    cursor,     \* cursors.last_seq of the consumer, 0 for none and for a negative one
                \* (rows are numbered from 1, so they read alike)
    receipted,  \* rows a read receipt was emitted for
    got,        \* rows some CLI process was given
    named,      \* history: SEQs acknowledged by an ack command
    pc,         \* each CLI process and, once subscribed, its forwarding thread
    batch,      \* the rows a process was given by Read, or the SEQ it names: [after, last]
    hung,       \* subscribed processes that have gone away
    dropped,    \* Subscriber.dropped
    chan,       \* frames in the subscription's channel
    out,        \* history: frames written to the socket
    base        \* history: value of pushed at registration

vars == <<stored, pushed, ingest, todo, cursor, receipted, got, named, pc, batch, hung,
          dropped, chan, out, base>>
cli == <<cursor, receipted, got, named, pc, batch, hung, base>>
streams == <<dropped, chan, out>>

\* StreamFrame::Message and StreamFrame::Lagged.
Message(q) == [seq |-> q, lag |-> 0]
Lagged(n) == [seq |-> 0, lag |-> n]
IsMessage(frame) == frame.seq # 0

Registered(f) == pc[f] \in {"live", "ack", "receipt", "leaving"} /\ base[f] >= 0
Subscribers == {f \in Readers : Registered(f)}
\* push_to_subscribers holds the registry lock while it visits subscribers.
Locked == ingest \in {"flush", "send"}
\* Mutation of Full: an unbounded channel.
Full_Never(f) == FALSE

\* try_send would return Full.
Full(f) == Len(chan[f]) >= Cap

Init ==
    /\ stored = 0 /\ pushed = 0 /\ ingest = "idle" /\ todo = <<>>
    /\ cursor = 0 /\ receipted = {} /\ got = {} /\ named = {}
    /\ pc = [f \in Readers |-> "off"]
    /\ batch = [f \in Readers |-> [after |-> 0, last |-> 0]]
    /\ hung = {}
    /\ dropped = [f \in Readers |-> 0]
    /\ chan = [f \in Readers |-> <<>>]
    /\ out = [f \in Readers |-> <<>>]
    /\ base = [f \in Readers |-> -1]

-----------------------------------------------------------------------------
(* The ingest thread: insert_inbound, then push_to_subscribers.             *)

InsertInbound ==
    /\ ingest = "idle" /\ stored < MaxSeq
    /\ stored' = stored + 1
    /\ ingest' = "stored"
    /\ UNCHANGED <<pushed, todo, cli, streams>>

\* Take the registry lock; subscribers are visited one after the other (in the
\* order they registered, which nothing here depends on).
PushStart ==
    /\ ingest = "stored"
    /\ pushed' = stored
    /\ \E order \in SetToSeqs(Subscribers) :
         /\ todo' = order
         /\ ingest' = IF order = <<>> THEN "idle" ELSE "flush"
    /\ UNCHANGED <<stored, cli, streams>>

\* Mutation of PushFlush: the count is not reset once it was sent.
PushFlush_Keeps ==
    /\ ingest = "flush"
    /\ LET f == Head(todo) IN
         IF dropped[f] > 0 /\ ~Full(f)
         THEN chan' = [chan EXCEPT ![f] = Append(@, Lagged(dropped[f]))]
         ELSE UNCHANGED chan
    /\ ingest' = "send"
    /\ UNCHANGED <<stored, pushed, todo, cli, dropped, out>>

\* First try_send: the outstanding lag notice, if any.
PushFlush ==
    /\ ingest = "flush"
    /\ LET f == Head(todo) IN
         IF dropped[f] > 0 /\ ~Full(f)
         THEN /\ chan' = [chan EXCEPT ![f] = Append(@, Lagged(dropped[f]))]
              /\ dropped' = [dropped EXCEPT ![f] = 0]
         ELSE UNCHANGED <<chan, dropped>>
    /\ ingest' = "send"
    /\ UNCHANGED <<stored, pushed, todo, cli, out>>

\* Mutation of PushSend: a blocking send.
PushSend_Blocks ==
    /\ ingest = "send"
    /\ ~Full(Head(todo))
    /\ chan' = [chan EXCEPT ![Head(todo)] = Append(@, Message(pushed))]
    /\ todo' = Tail(todo)
    /\ ingest' = IF Tail(todo) = <<>> THEN "idle" ELSE "flush"
    /\ UNCHANGED <<stored, pushed, cli, dropped, out>>

\* Second try_send: the message; the forwarding thread may have made room (or
\* not) since the first.
PushSend ==
    /\ ingest = "send"
    /\ LET f == Head(todo) IN
         IF Full(f)
         THEN dropped' = [dropped EXCEPT ![f] = @ + 1] /\ UNCHANGED chan
         ELSE chan' = [chan EXCEPT ![f] = Append(@, Message(pushed))] /\ UNCHANGED dropped
    /\ todo' = Tail(todo)
    /\ ingest' = IF Tail(todo) = <<>> THEN "idle" ELSE "flush"
    /\ UNCHANGED <<stored, pushed, cli, out>>

-----------------------------------------------------------------------------
(* The store's cursor.                                                     *)

\* Mutation of AckUpTo: a plain upsert.
AckUpTo_Overwrites(seq) == cursor' = seq

\* Store::ack: the cursor never moves back.
AckUpTo(seq) == cursor' = IF seq > cursor THEN seq ELSE cursor

\* maybe_read_receipt: a receipt for exactly the row acknowledged, if there is one.
MaybeReadReceipt(seq) == receipted' = receipted \cup ({seq} \cap 1..stored)

-----------------------------------------------------------------------------
(* A CLI process up to its subscription: read_cmd, Request::Read and ::Ack. *)

\* read_after_cursor, first lock: the cursor.
ReadCursor(f) ==
    /\ pc[f] = "off"
    /\ batch' = [batch EXCEPT ![f] = [after |-> cursor, last |-> cursor]]
    /\ pc' = [pc EXCEPT ![f] = "select"]
    /\ UNCHANGED <<stored, pushed, ingest, todo, cursor, receipted, got, named, hung, base, streams>>

\* Mutation of ReadSelect: the newest rows instead of the oldest.
ReadSelect_Newest(f) ==
    /\ pc[f] = "select"
    /\ LET first == Max({batch[f].after, stored - Limit}) + 1 IN
         /\ batch' = [batch EXCEPT ![f].last = stored]
         /\ got' = got \cup first..stored
         /\ pc' = [pc EXCEPT ![f] = IF f \in Acking /\ stored > batch[f].after
                                    THEN "ack" ELSE "drained"]
    /\ UNCHANGED <<stored, pushed, ingest, todo, cursor, receipted, named, hung, base, streams>>

\* read_after_cursor, second lock: at most Limit rows after it, oldest first.
ReadSelect(f) ==
    /\ pc[f] = "select"
    /\ LET last == Min({stored, batch[f].after + Limit}) IN
         /\ batch' = [batch EXCEPT ![f].last = last]
         /\ got' = got \cup (batch[f].after + 1)..last
         /\ pc' = [pc EXCEPT ![f] = IF f \in Acking /\ last > batch[f].after
                                    THEN "ack" ELSE "drained"]
    /\ UNCHANGED <<stored, pushed, ingest, todo, cursor, receipted, named, hung, base, streams>>

\* Mutation of AckBatch: acknowledge the newest row instead of the last one read.
AckBatch_Newest(f) ==
    /\ pc[f] = "ack" /\ ~Registered(f)
    /\ AckUpTo(stored)
    /\ pc' = [pc EXCEPT ![f] = "receipt"]
    /\ UNCHANGED <<stored, pushed, ingest, todo, receipted, got, named, batch, hung, base, streams>>

\* Request::Ack for the last message of the batch: store.ack ...
AckBatch(f) ==
    /\ pc[f] = "ack" /\ ~Registered(f)
    /\ AckUpTo(batch[f].last)
    /\ pc' = [pc EXCEPT ![f] = "receipt"]
    /\ UNCHANGED <<stored, pushed, ingest, todo, receipted, got, named, batch, hung, base, streams>>

\* ... then maybe_read_receipt.
ReceiptBatch(f) ==
    /\ pc[f] = "receipt" /\ ~Registered(f)
    /\ MaybeReadReceipt(batch[f].last)
    /\ pc' = [pc EXCEPT ![f] = "drained"]
    /\ UNCHANGED <<stored, pushed, ingest, todo, cursor, got, named, batch, hung, base, streams>>

\* Without --follow the process is done; the user may run it again.
ReadEnds(f) ==
    /\ pc[f] = "drained" /\ f \notin Following
    /\ pc' = [pc EXCEPT ![f] = "off"]
    /\ batch' = [batch EXCEPT ![f] = [after |-> 0, last |-> 0]]
    /\ UNCHANGED <<stored, pushed, ingest, todo, cursor, receipted, got, named, hung, base, streams>>

\* ack SEQ: Request::Ack for any number, of a row or not; store.ack ...
AckCommand(f, seq) ==
    /\ pc[f] = "off"
    /\ AckUpTo(seq)
    /\ named' = named \cup {seq}
    /\ batch' = [batch EXCEPT ![f] = [after |-> 0, last |-> seq]]
    /\ pc' = [pc EXCEPT ![f] = "named"]
    /\ UNCHANGED <<stored, pushed, ingest, todo, receipted, got, hung, base, streams>>

\* ... then maybe_read_receipt, and the process is done.
ReceiptNamed(f) ==
    /\ pc[f] = "named"
    /\ MaybeReadReceipt(batch[f].last)
    /\ pc' = [pc EXCEPT ![f] = "off"]
    /\ batch' = [batch EXCEPT ![f] = [after |-> 0, last |-> 0]]
    /\ UNCHANGED <<stored, pushed, ingest, todo, cursor, got, named, hung, base, streams>>

\* follow_stream -> serve_subscribe: register under the lock.
SubscribeFollow(f) ==
    /\ pc[f] = "drained" /\ f \in Following
    /\ ~Locked
    /\ pc' = [pc EXCEPT ![f] = "live"]
    /\ base' = [base EXCEPT ![f] = pushed]
    /\ batch' = [batch EXCEPT ![f] = [after |-> 0, last |-> 0]]
    /\ UNCHANGED <<stored, pushed, ingest, todo, cursor, receipted, got, named, hung, streams>>

-----------------------------------------------------------------------------
(* The forwarding thread of a subscription: serve_subscribe.                *)

\* recv, then write_frame; with ack a message frame is acknowledged next.
Forward(f) ==
    /\ pc[f] = "live" /\ chan[f] # <<>> /\ f \notin hung
    /\ LET frame == Head(chan[f]) IN
         /\ out' = [out EXCEPT ![f] = Append(@, frame)]
         /\ got' = IF IsMessage(frame) THEN got \cup {frame.seq} ELSE got
         /\ pc' = [pc EXCEPT ![f] = IF f \in Acking /\ IsMessage(frame) THEN "ack" ELSE "live"]
    /\ chan' = [chan EXCEPT ![f] = Tail(@)]
    /\ UNCHANGED <<stored, pushed, ingest, todo, cursor, receipted, named, batch, hung, base, dropped>>

StreamAck(f) ==
    /\ pc[f] = "ack" /\ Registered(f)
    /\ AckUpTo(Last(out[f]).seq)
    /\ pc' = [pc EXCEPT ![f] = "receipt"]
    /\ UNCHANGED <<stored, pushed, ingest, todo, receipted, got, named, batch, hung, base, streams>>

StreamReceipt(f) ==
    /\ pc[f] = "receipt" /\ Registered(f)
    /\ MaybeReadReceipt(Last(out[f]).seq)
    /\ pc' = [pc EXCEPT ![f] = "live"]
    /\ UNCHANGED <<stored, pushed, ingest, todo, cursor, got, named, batch, hung, base, streams>>

\* The CLI process goes away; the daemon finds out at its next write.
HangUp(f) ==
    /\ Registered(f) /\ f \notin hung
    /\ hung' = hung \cup {f}
    /\ UNCHANGED <<stored, pushed, ingest, todo, cursor, receipted, got, named, pc, batch, base, streams>>

WriteFails(f) ==
    /\ pc[f] = "live" /\ chan[f] # <<>> /\ f \in hung
    /\ chan' = [chan EXCEPT ![f] = Tail(@)]
    /\ pc' = [pc EXCEPT ![f] = "leaving"]
    /\ UNCHANGED <<stored, pushed, ingest, todo, cursor, receipted, got, named, batch, hung, base,
                   dropped, out>>

\* Leave the registry under the lock; the channel goes with the thread.
Deregister(f) ==
    /\ pc[f] = "leaving" /\ ~Locked
    /\ pc' = [pc EXCEPT ![f] = "closed"]
    /\ chan' = [chan EXCEPT ![f] = <<>>]
    /\ UNCHANGED <<stored, pushed, ingest, todo, cursor, receipted, got, named, batch, hung, base,
                   dropped, out>>

-----------------------------------------------------------------------------
Push == PushStart \/ PushFlush \/ PushSend
Forwarder(f) == Forward(f) \/ StreamAck(f) \/ StreamReceipt(f) \/ WriteFails(f) \/ Deregister(f)
Reader(f) ==
    ReadCursor(f) \/ ReadSelect(f) \/ AckBatch(f) \/ ReceiptBatch(f) \/ ReadEnds(f)
      \/ SubscribeFollow(f) \/ ReceiptNamed(f)

Next ==
    \/ InsertInbound \/ Push
    \/ \E f \in Readers : Reader(f) \/ Forwarder(f) \/ HangUp(f)
    \/ \E f \in Naming : \E seq \in Acks : AckCommand(f, seq)

Spec == Init /\ [][Next]_vars

\* The ingest thread is scheduled; nothing is assumed of the CLI processes.
IngestFairSpec == Spec /\ WF_vars(Push)

-----------------------------------------------------------------------------
(* Properties.                                                             *)

Frame == [seq : 0..MaxSeq, lag : 0..MaxSeq]

\* Types of the variables; a subscription's channel never holds more than Cap frames.
TypeOK ==
    /\ stored \in 0..MaxSeq /\ pushed \in 0..MaxSeq
    /\ ingest \in {"idle", "stored", "flush", "send"}
    /\ todo \in Seq(Readers)
    /\ cursor \in Nat /\ receipted \subseteq 1..MaxSeq /\ got \subseteq 1..MaxSeq
    /\ named \subseteq Acks
    /\ pc \in [Readers -> {"off", "select", "ack", "receipt", "named", "drained", "live",
                           "leaving", "closed"}]
    /\ batch \in [Readers -> [after : Nat, last : Int]]
    /\ hung \subseteq Readers
    /\ dropped \in [Readers -> 0..MaxSeq]
    /\ chan \in [Readers -> Seq(Frame)] /\ \A f \in Readers : Len(chan[f]) <= Cap
    /\ out \in [Readers -> Seq(Frame)]
    /\ base \in [Readers -> -1..MaxSeq]

\* How many messages a run of frames tells the follower about: the k-th frame
\* tells of its message, or of as many as its count says.
Weight(frame) == IF IsMessage(frame) THEN 1 ELSE frame.lag
Told(frames) == UNION {{k} \X (1..Weight(frames[k])) : k \in 1..Len(frames)}
Accounted(frames) == Cardinality(Told(frames))

\* REQ-0107: the lag count is accurate.  Of every message pushed since a
\* follower registered, each is written to it, in its channel, counted in a
\* Lagged frame or in its running total - exactly once, at any moment of any
\* interleaving of push_to_subscribers and serve_subscribe.
LagExact ==
    \A f \in Subscribers :
        f \notin hung =>
            Accounted(out[f]) + Accounted(chan[f]) + dropped[f] =
                pushed - base[f] - (IF f \in Range(todo) THEN 1 ELSE 0)

\* "Only advance the cursor once the frame is actually delivered"
\* (serve_subscribe) and "Does NOT advance the cursor (ack does that)"
\* (read_after_cursor): the shared cursor stays on rows some process was given
\* or on a SEQ some ack command named, and a read receipt answers only for such
\* a row, which no later read of the consumer returns again.
AckedWasGivenOrNamed ==
    /\ cursor > 0 => cursor \in got \cup named
    /\ receipted \subseteq (got \cup named) \cap 1..cursor

\* Of follower f some message was counted instead of queued, and the count is
\* kept, queued or written; or it went away before it could be told.
ToldToLag(f) ==
    \/ dropped[f] > 0 \/ f \in hung
    \/ \E k \in 1..Len(out[f]) : ~IsMessage(out[f][k])
    \/ \E k \in 1..Len(chan[f]) : ~IsMessage(chan[f][k])

\* What NothingSkipped (below) asks for, with all that the code needs for it: a
\* stored row that the cursor has passed was given to a reader, unless an ack
\* command named a row at or after it, or an acknowledging follower missed it:
\* it was stored before the follower had registered, or counted in a lag notice.
\* Plain reads skip nothing, however their two locks, their acks and the
\* streams of others interleave.
SkippedForCause ==
    \A q \in 1..stored :
        q <= cursor /\ q \notin got =>
            \/ \E n \in named : q <= n
            \/ \E f \in Following \cap Acking :
                  base[f] >= 0 /\ (q <= base[f] \/ ToldToLag(f))

\* ON CONFLICT ... WHERE excluded.last_seq > cursors.last_seq: however the acks
\* of several readers of one consumer interleave, the cursor never goes back
\* and so no acknowledged message is handed out again by a read that starts
\* later.
CursorNeverBack == [][cursor' >= cursor]_vars

\* A slow or dead follower never stalls ingest: push_to_subscribers finishes
\* although no forwarding thread ever runs (try_send, not send).
IngestNeverStalls == ingest # "idle" ~> ingest = "idle"

\* REQ-0004, "so an agent can later read all messages it missed": what the
\* cursor has passed was given to a reader, or a follower was told (or is
\* about to be told) that it lagged.
NothingSkipped ==
    \A q \in 1..cursor :
        \/ q \in got
        \/ \E f \in Readers : \/ base[f] >= 0 /\ q > base[f] /\ dropped[f] > 0
                              \/ \E k \in 1..Len(out[f]) : out[f][k].lag > 0
                              \/ \E k \in 1..Len(chan[f]) : chan[f][k].lag > 0

=============================================================================
