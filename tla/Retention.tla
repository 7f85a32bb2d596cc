------------------------------ MODULE Retention -----------------------------
(***************************************************************************)
(* Store::enforce_bounds (src/src/store.rs): which rows of the messages    *)
(* table one call deletes, as a function of the table.  A row is a record  *)
(* with at least the fields seq, dir, state and size.                      *)
(***************************************************************************)
EXTENDS Integers, FiniteSets, FiniteSetsExt

CONSTANTS
    MaxMessages,    \* config max_messages
    MaxBytes,       \* config max_bytes, in the unit of size
    TrimStep        \* rows deleted per round of the byte loop: LIMIT 64

ASSUME LimitsAssumption ==
    MaxMessages \in Nat /\ MaxBytes \in Nat /\ TrimStep \in Nat \ {0}

\* EVICTABLE: not an outbound row that still awaits a receipt.
Evictable(r) ==
    ~(r.dir = "out" /\ r.state \notin {"delivered", "read", "failed", "none"})

Bytes(rows) == MapThenSumSet(LAMBDA r : r.size, rows)

\* ORDER BY seq ASC LIMIT n.
Oldest(rows, n) == {r \in rows : Cardinality({q \in rows : q.seq < r.seq}) < n}

\* Mutation of OverCount: one row short of the excess.
OverCount_OffByOne(rows) ==
    IF Cardinality(rows) > MaxMessages + 1 THEN Cardinality(rows) - MaxMessages - 1 ELSE 0

\* count.saturating_sub(max_messages).
OverCount(rows) ==
    IF Cardinality(rows) > MaxMessages THEN Cardinality(rows) - MaxMessages ELSE 0

\* Mutation of Victims: the newest rows go first.
Victims_Newest(rows, n) ==
    LET pool == {r \in rows : Evictable(r)} IN
    {r \in pool : Cardinality({q \in pool : q.seq > r.seq}) < n}

\* The rows one DELETE ... LIMIT n removes.
Victims(rows, n) == Oldest({r \in rows : Evictable(r)}, n)

\* The byte loop: rounds of TrimStep victims until the rest is within the
\* budget or a round would delete nothing.
TrimRounds(rows) ==
    LET After(k) == rows \ Victims(rows, k * TrimStep) IN
    Min({k \in 0..Cardinality(rows) :
            Bytes(After(k)) <= MaxBytes \/ Victims(After(k), TrimStep) = {}})

\* The table after the DELETE by count, and after k rounds of the byte loop.
Counted(rows) == rows \ Victims(rows, OverCount(rows))
Trimmed(rows, k) == Counted(rows) \ Victims(Counted(rows), k * TrimStep)

\* The table after enforce_bounds.
EnforceBounds(rows) == Trimmed(rows, TrimRounds(Counted(rows)))

=============================================================================
