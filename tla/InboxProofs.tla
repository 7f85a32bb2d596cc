----------------------------- MODULE InboxProofs ----------------------------
(***************************************************************************)
(* Proofs about Inbox and Retention, for any messages, grants, workers,    *)
(* limits and bounds.                                                      *)
(***************************************************************************)
EXTENDS Inbox, FiniteSetTheorems, WellFoundedInduction, TLAPS

(* Retention.                                                              *)

\* A DELETE ... ORDER BY seq LIMIT n removes evictable rows only, and only rows
\* older than every evictable row it leaves.
LEMMA VictimsOldest ==
    ASSUME NEW R, IsFiniteSet(R), \A r \in R : r.seq \in Int, NEW n \in Int,
           NEW r \in Victims(R, n), NEW q \in R \ Victims(R, n), Evictable(q)
    PROVE  r \in R /\ Evictable(r) /\ r.seq < q.seq
<1> DEFINE E == {x \in R : Evictable(x)}
           Below(y) == {x \in E : x.seq < y.seq}
<1>1. r \in E /\ Cardinality(Below(r)) < n
  BY DEF Victims, Oldest
<1>2. q \in E /\ ~(Cardinality(Below(q)) < n)
  BY DEF Victims, Oldest
<1>3. IsFiniteSet(E)
  BY FS_Subset
<1>4. IsFiniteSet(Below(r)) /\ IsFiniteSet(Below(q))
  BY <1>3, FS_Subset
<1>5. SUFFICES ASSUME q.seq <= r.seq PROVE FALSE
  BY <1>1, <1>2
<1>6. Below(q) \subseteq Below(r)
  BY <1>1, <1>2, <1>5
<1>7. Cardinality(Below(q)) <= Cardinality(Below(r))
  BY <1>4, <1>6, FS_Subset
<1>8. Cardinality(Below(q)) \in Nat /\ Cardinality(Below(r)) \in Nat
  BY <1>4, FS_CardinalityType
<1> QED
  BY <1>1, <1>2, <1>7, <1>8

\* enforce_bounds only deletes.
LEMMA TrimShrinks == \A R, k : Trimmed(R, k) \subseteq R
BY DEF Trimmed, Counted

\* A set of natural numbers that is not empty has its Min among its members,
\* and no member is less.
LEMMA NatMin ==
    ASSUME NEW S \in SUBSET Nat, S # {}
    PROVE  Min(S) \in S /\ \A k \in S : Min(S) <= k
<1> DEFINE Less == {p \in Nat \X Nat : p[1] < p[2]}
<1>0. IsWellFoundedOn(Less, Nat)
  BY NatLessThanWellFounded DEF OpToRel
<1>1. PICK x \in S : \A y \in S : ~(<<y, x>> \in Less)
  <2> HIDE DEF Less
  <2> QED
    BY <1>0, WFMin
<1>2. \A y \in S : x <= y
  <2> TAKE y \in S
  <2>1. x \in Nat /\ y \in Nat
    OBVIOUS
  <2>2. ASSUME y < x PROVE <<y, x>> \in Less
    BY <2>1, <2>2
  <2> HIDE DEF Less
  <2>3. ~(y < x)
    BY <1>1, <2>2
  <2> QED
    BY <2>1, <2>3
<1> QED
  BY <1>2 DEF Min

\* The byte loop ends: some number of rounds is the first that suffices.
LEMMA TrimRoundsStop ==
    ASSUME NEW R, IsFiniteSet(R), \A r \in R : r.seq \in Int
    PROVE  /\ TrimRounds(R) \in Nat
           /\ LET After == R \ Victims(R, TrimRounds(R) * TrimStep) IN
              Bytes(After) <= MaxBytes \/ Victims(After, TrimStep) = {}
<1> DEFINE N == Cardinality(R)
           After(k) == R \ Victims(R, k * TrimStep)
           Good == {k \in 0..N : Bytes(After(k)) <= MaxBytes \/ Victims(After(k), TrimStep) = {}}
<1>1. N \in Nat
  BY FS_CardinalityType
<1>2. ASSUME NEW r \in R, Evictable(r) PROVE r \in Victims(R, N * TrimStep)
  <2> DEFINE E == {x \in R : Evictable(x)}
             Below == {x \in E : x.seq < r.seq}
  <2>1. Below \in SUBSET R /\ r \notin Below
    OBVIOUS
  <2>2. IsFiniteSet(Below) /\ Cardinality(Below) <= N /\ Cardinality(Below) # N
    BY <2>1, FS_Subset
  <2>3. Cardinality(Below) \in Nat
    BY <2>2, FS_CardinalityType
  <2>4. N * TrimStep >= N
    BY <1>1, LimitsAssumption
  <2>5. N * TrimStep \in Nat
    BY <1>1, LimitsAssumption
  <2>6. Cardinality(Below) < N * TrimStep
    BY <1>1, <2>2, <2>3, <2>4, <2>5
  <2> QED
    BY <1>2, <2>6 DEF Victims, Oldest
<1>3. Victims(After(N), TrimStep) = {}
  BY <1>2 DEF Victims, Oldest
<1>4. N \in Good
  BY <1>1, <1>3
<1>5. Good \in SUBSET Nat /\ Good # {}
  <2>1. Good \subseteq 0..N
    OBVIOUS
  <2> HIDE DEF Good
  <2> QED
    BY <1>1, <1>4, <2>1
<1>6. Min(Good) \in Nat /\ Min(Good) \in Good
  BY <1>5, NatMin
<1>7. TrimRounds(R) = Min(Good)
  BY DEF TrimRounds
<1>8. \A k \in Good : Bytes(After(k)) <= MaxBytes \/ Victims(After(k), TrimStep) = {}
  OBVIOUS
<1> HIDE DEF Good
<1> QED
  BY <1>6, <1>7, <1>8

\* A DELETE ... LIMIT n removes at least n rows, or leaves none that is evictable.
LEMMA VictimsEnough ==
    ASSUME NEW R, IsFiniteSet(R), \A r \in R : r.seq \in Nat, NEW n \in Nat,
           NEW q \in R \ Victims(R, n), Evictable(q)
    PROVE  Cardinality(Victims(R, n)) >= n
<1> DEFINE E == {x \in R : Evictable(x)}
           Kept == {x \in E : x \notin Victims(R, n)}
           Seqs == {x.seq : x \in Kept}
           Below(y) == {x \in E : x.seq < y.seq}
<1>1. Seqs \in SUBSET Nat /\ Seqs # {}
  OBVIOUS
<1>2. Min(Seqs) \in Seqs /\ \A k \in Seqs : Min(Seqs) <= k
  BY <1>1, NatMin
<1>3. PICK y \in Kept : y.seq = Min(Seqs)
  BY <1>2
<1>4. Below(y) \subseteq Victims(R, n)
  <2> SUFFICES ASSUME NEW x \in Below(y), x \notin Victims(R, n) PROVE FALSE
    OBVIOUS
  <2>1. x \in Kept /\ x.seq \in Nat /\ y.seq \in Nat /\ x.seq < y.seq
    OBVIOUS
  <2>2. x.seq \in Seqs
    BY <2>1
  <2> HIDE DEF Seqs, Kept
  <2> QED
    BY <1>2, <1>3, <2>1, <2>2
<1>5. ~(Cardinality(Below(y)) < n)
  BY <1>3 DEF Victims, Oldest
<1>6. Victims(R, n) \subseteq R /\ IsFiniteSet(Victims(R, n))
  <2>1. Victims(R, n) \subseteq R
    BY DEF Victims, Oldest
  <2> QED
    BY <2>1, FS_Subset
<1>7. IsFiniteSet(Below(y)) /\ Cardinality(Below(y)) <= Cardinality(Victims(R, n))
  BY <1>4, <1>6, FS_Subset
<1>8. Cardinality(Below(y)) \in Nat /\ Cardinality(Victims(R, n)) \in Nat
  BY <1>6, <1>7, FS_CardinalityType
<1> QED
  BY <1>5, <1>7, <1>8

\* The DELETE that brings the count down: the table is within max_messages, or
\* nothing evictable is left.
LEMMA CountedDown ==
    ASSUME NEW R, IsFiniteSet(R), \A r \in R : r.seq \in Nat,
           NEW q \in R \ Victims(R, OverCount(R)), Evictable(q)
    PROVE  Cardinality(R \ Victims(R, OverCount(R))) <= MaxMessages
<1> DEFINE V == Victims(R, OverCount(R))
<1>1. Cardinality(R) \in Nat /\ MaxMessages \in Nat
  BY FS_CardinalityType, LimitsAssumption
<1>2. OverCount(R) \in Nat /\ OverCount(R) >= Cardinality(R) - MaxMessages
  BY <1>1 DEF OverCount
<1>3. Cardinality(V) >= OverCount(R)
  BY <1>2, VictimsEnough
<1>4. V \subseteq R
  BY DEF Victims, Oldest
<1> HIDE DEF V
<1>5. IsFiniteSet(V) /\ Cardinality(V) \in Nat
  BY <1>4, FS_Subset, FS_CardinalityType
<1>6. R \cap V = V
  BY <1>4
<1>7. Cardinality(R \ V) = Cardinality(R) - Cardinality(V)
  BY <1>6, FS_Difference
<1> QED
  BY <1>1, <1>2, <1>3, <1>5, <1>7 DEF V

\* enforce_bounds as a whole: within both bounds, or nothing evictable is left.
LEMMA EnforceEnough ==
    ASSUME NEW R, IsFiniteSet(R), \A r \in R : r.seq \in Nat,
           NEW q \in EnforceBounds(R), Evictable(q)
    PROVE  Cardinality(EnforceBounds(R)) <= MaxMessages /\ Bytes(EnforceBounds(R)) <= MaxBytes
<1> DEFINE counted == R \ Victims(R, OverCount(R))
           n == TrimRounds(counted) * TrimStep
           After == counted \ Victims(counted, n)
<1>1. EnforceBounds(R) = After
  BY DEF EnforceBounds, Trimmed, Counted
<1>2. After \subseteq counted /\ counted \subseteq R /\ q \in After
  BY <1>1
<1>3. IsFiniteSet(counted) /\ IsFiniteSet(After)
  BY <1>2, FS_Subset
<1>4. \A r \in counted : r.seq \in Nat
  BY <1>2
<1>5. Cardinality(counted) <= MaxMessages
  <2>1. q \in R \ Victims(R, OverCount(R))
    BY <1>2
  <2> QED
    BY <2>1, CountedDown
<1>6. Bytes(After) <= MaxBytes \/ Victims(After, TrimStep) = {}
  <2> HIDE DEF counted
  <2> QED
    BY <1>3, <1>4, TrimRoundsStop
<1> HIDE DEF counted, After
<1>7. Cardinality(After) <= MaxMessages
  <2>1. Cardinality(After) <= Cardinality(counted)
    BY <1>2, <1>3, FS_Subset
  <2>2. Cardinality(After) \in Nat /\ Cardinality(counted) \in Nat
    BY <1>3, FS_CardinalityType
  <2> QED
    BY <1>5, <2>1, <2>2, LimitsAssumption
<1>8. Victims(After, TrimStep) # {}
  <2> SUFFICES ASSUME Victims(After, TrimStep) = {} PROVE FALSE
    OBVIOUS
  <2>1. TrimStep \in Nat /\ TrimStep > 0
    BY LimitsAssumption
  <2>2. q \in After \ Victims(After, TrimStep) /\ \A r \in After : r.seq \in Nat
    BY <1>2, <1>4
  <2>3. Cardinality(Victims(After, TrimStep)) >= TrimStep
    BY <1>3, <2>1, <2>2, VictimsEnough
  <2>4. Cardinality({}) = 0
    BY FS_EmptySet
  <2> QED
    BY <2>1, <2>3, <2>4
<1> QED
  BY <1>1, <1>6, <1>7, <1>8

\* The DELETE by count and any number of rounds of the byte loop delete in order of
\* age: what they delete is older than any evictable row they keep.
LEMMA TrimmedOldest ==
    ASSUME NEW R, IsFiniteSet(R), \A r \in R : r.seq \in Int, NEW k \in Nat,
           NEW r \in R \ Trimmed(R, k), NEW q \in Trimmed(R, k), Evictable(q)
    PROVE  r.seq < q.seq
<1> DEFINE first == Victims(R, OverCount(R))
           second == Victims(Counted(R), k * TrimStep)
<1>1. Counted(R) = R \ first /\ Trimmed(R, k) = Counted(R) \ second
  BY DEF Trimmed, Counted
<1>2. IsFiniteSet(Counted(R)) /\ \A x \in Counted(R) : x.seq \in Int
  BY <1>1, FS_Subset
<1>3. OverCount(R) \in Int /\ k * TrimStep \in Int
  BY FS_CardinalityType, LimitsAssumption DEF OverCount
<1>4. q \in Counted(R) /\ q \notin first /\ q \notin second
  BY <1>1
<1>5. CASE r \in first
  BY <1>1, <1>3, <1>4, <1>5, VictimsOldest
<1>6. CASE r \notin first
  <2>1. r \in second
    BY <1>1, <1>6
  <2> HIDE DEF second
  <2> QED
    BY <1>2, <1>3, <1>4, <2>1, VictimsOldest DEF second
<1> QED
  BY <1>5, <1>6

\* Only evictable rows are ever deleted.
LEMMA TrimmedEvictable ==
    ASSUME NEW R, NEW k, NEW r \in R \ Trimmed(R, k)
    PROVE  Evictable(r)
BY DEF Trimmed, Counted, Victims, Oldest

-----------------------------------------------------------------------------
(* Type correctness; the table is finite, and only a message with a grant   *)
(* is at the guard.                                                        *)

GuardHasGrant == \A w \in Workers : pc[w] = "guard" => HasGrant(job[w].msg)
TypeInv == TypeOK /\ IsFiniteSet(rows) /\ GuardHasGrant

\* An empty table is well typed and finite.
LEMMA InitType == Init => TypeInv
BY FS_EmptySet DEF Init, TypeInv, TypeOK, GuardHasGrant, NoJob, Row

\* Every statement of the callback keeps the tables well typed.
LEMMA NextType == TypeInv /\ [Next]_vars => TypeInv'
<1> SUFFICES ASSUME TypeInv, [Next]_vars PROVE TypeInv'
  OBVIOUS
<1>g. TypeOK /\ IsFiniteSet(rows) /\ GuardHasGrant
  BY DEF TypeInv
<1> DEFINE Typed == TypeOK /\ IsFiniteSet(rows)
<1> USE MessagesAssumption, <1>g DEF TypeOK, history, guards, counters, Finish, NoJob
<1>1. ASSUME NEW w \in Workers, NEW m \in Msgs, Arrive(w, m) PROVE Typed'
  BY <1>1 DEF Arrive, Reject
<1>a. ASSUME NEW w \in Workers, GrantGuard(w) PROVE Typed'
  <2>1. job[w].msg \in Msgs
    BY <1>a DEF GrantGuard
  <2>2. pc[w] = "guard" => HasGrant(job[w].msg)
    BY DEF GuardHasGrant
  <2>3. GrantOf[job[w].msg] \in Grants
    BY <1>a, <2>1, <2>2 DEF GrantGuard, Grants, HasGrant
  <2> QED
    BY <1>a, <2>1, <2>3 DEF GrantGuard, Reject
<1>b. ASSUME NEW w \in Workers, GuardSkipped(w) PROVE Typed'
  BY <1>b DEF GuardSkipped
<1>c. ASSUME NEW w \in Workers, TailFails(w) PROVE Typed'
  BY <1>c DEF TailFails
<1>d. ASSUME NEW g \in Expiring, Expire(g) PROVE Typed'
  BY <1>d DEF Expire
<1>2. ASSUME NEW w \in Workers, InsertInbound(w) PROVE Typed'
  <2>1. job[w].msg \in Msgs
    BY <1>2 DEF InsertInbound
  <2>2. InRow(job[w].msg, lastSeq + 1) \in Row
    BY <2>1 DEF InRow, Row
  <2>3. rows' \in SUBSET Row /\ IsFiniteSet(rows')
    <3>1. rows' = rows \cup {InRow(job[w].msg, lastSeq + 1)} \/ rows' = rows
      BY <1>2, Zenon DEF InsertInbound
    <3>2. rows \subseteq Row /\ IsFiniteSet(rows)
      OBVIOUS
    <3> HIDE DEF Typed
    <3> QED
      BY <2>2, <3>1, <3>2, FS_AddElement
  <2> QED
    BY <1>2, <2>1, <2>3 DEF InsertInbound
<1>3. ASSUME NEW w \in Workers, InsertFails(w) PROVE Typed'
  BY <1>3 DEF InsertFails
<1>4. ASSUME NEW w \in Workers, Bound(w) \/ BoundFails(w) PROVE Typed'
  <2>1. rows' \subseteq rows
    BY <1>4, TrimShrinks DEF Bound, BoundFails, EnforceBounds
  <2>2. rows' \in SUBSET Row /\ IsFiniteSet(rows')
    BY <2>1, FS_Subset
  <2>3. ASSUME NEW m \in Msgs
        PROVE  Cardinality({r \in rows \ rows' : r.dir = "in" /\ r.msg = m}) \in Nat
    BY FS_Subset, FS_CardinalityType
  <2>4. evicted' \in [Msgs -> Nat]
    <3> DEFINE gone(m) == Cardinality({r \in rows \ rows' : r.dir = "in" /\ r.msg = m})
    <3>1. \A m \in Msgs : gone(m) \in Nat
      BY <2>3
    <3>2. evicted' = [m \in Msgs |-> evicted[m] + gone(m)]
      BY <1>4 DEF Bound, BoundFails, CountEvicted
    <3> HIDE DEF gone
    <3> QED
      BY <3>1, <3>2
  <2> QED
    BY <1>4, <2>2, <2>4 DEF Bound, BoundFails
<1>5. ASSUME NEW w \in Workers, PushOut(w) PROVE Typed'
  BY <1>5 DEF PushOut
<1>6. ASSUME NEW w \in Workers, LogReceipt(w) PROVE Typed'
  <2>1. job[w].msg \in Msgs
    BY <1>6 DEF LogReceipt
  <2>2. ReceiptRow(job[w].msg, lastSeq + 1) \in Row
    BY <2>1 DEF ReceiptRow, Row
  <2>3. rows' \in SUBSET Row /\ IsFiniteSet(rows')
    BY <1>6, <2>2, FS_AddElement DEF LogReceipt
  <2> QED
    BY <1>6, <2>3 DEF LogReceipt
<1>7. ASSUME NEW w \in Workers, EnqueueReceipt(w) PROVE Typed'
  BY <1>7 DEF EnqueueReceipt
<1>8. ASSUME Crash PROVE Typed'
  BY <1>8 DEF Crash
<1>9. ASSUME UNCHANGED vars PROVE Typed'
  BY <1>9 DEF vars
<1>10. Typed'
  <2> HIDE DEF Typed, TypeOK
  <2> QED
    BY <1>1, <1>a, <1>b, <1>c, <1>d, <1>2, <1>3, <1>4, <1>5, <1>6, <1>7, <1>8, <1>9
       DEF Next, Step
<1>11. GuardHasGrant'
  <2>1. CASE \E w \in Workers, m \in Msgs : Arrive(w, m)
    BY <2>1 DEF Arrive, GuardHasGrant
  <2>2. CASE \E w \in Workers : Step(w)
    BY <2>2 DEF GuardHasGrant, Step, GrantGuard, GuardSkipped, InsertInbound, InsertFails,
                Bound, BoundFails, PushOut, LogReceipt, EnqueueReceipt, TailFails
  <2>3. CASE \E g \in Expiring : Expire(g)
    BY <2>3 DEF Expire, GuardHasGrant
  <2>4. CASE Crash \/ UNCHANGED vars
    BY <2>4 DEF Crash, vars, GuardHasGrant
  <2> QED
    BY <2>1, <2>2, <2>3, <2>4 DEF Next
<1> QED
  BY <1>10, <1>11 DEF TypeInv

\* Type correctness: every reachable state of the ingest path is well typed.
THEOREM TypeCorrect == Spec => []TypeOK
<1>1. TypeInv => TypeOK
  BY DEF TypeInv
<1> QED
  BY <1>1, InitType, NextType, PTL DEF Spec

-----------------------------------------------------------------------------
(* Retention in the running system.                                        *)

\* Whatever runs, rows disappear from the table in order of age, and a row
\* that awaits its receipt never does.
THEOREM RetentionOrder == Spec => OldestEvictedFirst
<1> DEFINE Ordered ==
      \A r \in rows \ rows' :
          /\ Evictable(r)
          /\ \A q \in rows \cap rows' : Evictable(q) => r.seq < q.seq
<1>1. ASSUME TypeInv, [Next]_vars PROVE Ordered
  <2> DEFINE rounds == TrimRounds(Counted(rows))
  <2>1. /\ IsFiniteSet(rows) /\ \A r \in rows : r.seq \in Int
        /\ rounds \in Nat
    <3>1. IsFiniteSet(rows) /\ \A r \in rows : r.seq \in Int
      BY <1>1 DEF TypeInv, TypeOK, Row
    <3>2. IsFiniteSet(Counted(rows)) /\ \A x \in Counted(rows) : x.seq \in Int
      BY <3>1, FS_Subset DEF Counted
    <3> QED
      BY <3>1, <3>2, TrimRoundsStop
  <2> HIDE DEF rounds
  <2>2. CASE \E w \in Workers : Bound(w) \/ BoundFails(w)
    <3>1. rows' = rows \/ \E k \in Nat : rows' = Trimmed(rows, k)
      BY <2>1, <2>2 DEF Bound, BoundFails, EnforceBounds, rounds
    <3>2. ASSUME NEW k \in Nat, rows' = Trimmed(rows, k) PROVE Ordered
      <4>1. ASSUME NEW r \in rows \ rows', NEW q \in rows \cap rows', Evictable(q)
            PROVE  r.seq < q.seq
        BY <2>1, <3>2, <4>1, TrimmedOldest
      <4>2. ASSUME NEW r \in rows \ rows' PROVE Evictable(r)
        BY <3>2, TrimmedEvictable
      <4> QED
        BY <4>1, <4>2
    <3> QED
      BY <3>1, <3>2
  <2>3. CASE ~\E w \in Workers : Bound(w) \/ BoundFails(w)
    <3>1. rows \subseteq rows'
      BY <1>1, <2>3
         DEF Next, Step, Expire, Arrive, GrantGuard, GuardSkipped, InsertInbound, InsertFails,
             PushOut, LogReceipt, EnqueueReceipt, TailFails, Crash, vars
    <3> QED
      BY <3>1
  <2> QED
    BY <2>2, <2>3
<1>2. TypeInv /\ [Next]_vars => [Ordered]_vars
  BY <1>1
<1> QED
  BY <1>2, InitType, NextType, PTL DEF Spec, OldestEvictedFirst

\* enforce_bounds, called after each insert, does all it may for any limits: unless
\* a statement of it failed, the table is within max_messages and max_bytes or holds
\* no evictable row when the callback goes on.
THEOREM RetentionSuffices == Spec => BoundsEnforced
<1> DEFINE Bounded ==
      \A w \in Workers : pc[w] = "bounds" /\ pc'[w] = "push" /\ faults' = faults =>
          \/ Cardinality(rows') <= MaxMessages /\ Bytes(rows') <= MaxBytes
          \/ \A r \in rows' : ~Evictable(r)
<1>1. ASSUME TypeInv, [Next]_vars PROVE Bounded
  <2> SUFFICES ASSUME NEW w \in Workers, pc[w] = "bounds", pc'[w] = "push", faults' = faults
               PROVE  \/ Cardinality(rows') <= MaxMessages /\ Bytes(rows') <= MaxBytes
                      \/ \A r \in rows' : ~Evictable(r)
    OBVIOUS
  <2>1. \E v \in Workers : Bound(v)
    <3> SUFFICES ASSUME ~\E v \in Workers : Bound(v) PROVE FALSE
      OBVIOUS
    <3>1. /\ pc \in [Workers -> {"idle", "guard", "insert", "bounds", "push", "receipt", "enqueue"}]
          /\ faults \in Nat
      BY <1>1 DEF TypeInv, TypeOK
    <3>2. ASSUME NEW v \in Workers, Step(v) PROVE FALSE
      BY <1>1, <3>1, <3>2
         DEF Step, GrantGuard, GuardSkipped, InsertInbound, InsertFails, BoundFails,
             PushOut, LogReceipt, EnqueueReceipt, TailFails, Finish
    <3>3. ASSUME NEW v \in Workers, NEW m \in Msgs, Arrive(v, m) PROVE FALSE
      BY <3>1, <3>3 DEF Arrive
    <3> QED
      BY <1>1, <3>1, <3>2, <3>3 DEF Next, Crash, Expire, vars
  <2>2. rows' = EnforceBounds(rows)
    BY <2>1 DEF Bound
  <2>3. IsFiniteSet(rows) /\ \A r \in rows : r.seq \in Nat
    BY <1>1 DEF TypeInv, TypeOK, Row
  <2> QED
    BY <2>2, <2>3, EnforceEnough
<1>2. TypeInv /\ [Next]_vars => [Bounded]_vars
  BY <1>1
<1> QED
  BY <1>2, InitType, NextType, PTL DEF Spec, BoundsEnforced

-----------------------------------------------------------------------------
(* The grant replay guard.                                                 *)

\* A worker between the guard and insert_inbound with a guarded message m.
Holds(w, m) == pc[w] = "insert" /\ job[w].msg = m /\ HasGrant(m) /\ m \notin unguarded

\* Whoever is about to store a guarded message holds its grant alone: it is
\* recorded, nobody else that passed the guard is about to use it and no
\* guarded message with it is stored.
GrantHeldAlone ==
    \A w \in Workers, m \in Msgs :
        Holds(w, m) =>
            /\ GrantOf[m] \in seen
            /\ \A n \in Msgs \ unguarded : GrantOf[n] = GrantOf[m] => inserted[n] = 0
            /\ \A v \in Workers, n \in Msgs : Holds(v, n) /\ GrantOf[n] = GrantOf[m] => v = w

\* The grant of a stored guarded message is recorded.
GrantRecorded ==
    \A m \in Msgs \ unguarded : HasGrant(m) /\ inserted[m] > 0 => GrantOf[m] \in seen

GrantInv == TypeInv /\ GrantUsedOnce /\ GrantHeldAlone /\ GrantRecorded

\* No grant is used when the daemon starts.
LEMMA InitGrant == Init => GrantInv
<1> SUFFICES ASSUME Init PROVE GrantInv
  OBVIOUS
<1>1. TypeInv
  BY InitType
<1> QED
  BY <1>1 DEF Init, GrantInv, GrantUsedOnce, GrantHeldAlone, GrantRecorded, Holds

\* The invariant is inductive.
LEMMA NextGrant == GrantInv /\ [Next]_vars => GrantInv'
<1> SUFFICES ASSUME GrantInv, [Next]_vars PROVE GrantInv'
  OBVIOUS
<1>0. TypeInv /\ TypeInv'
  BY NextType DEF GrantInv
<1>t. TypeOK
  BY <1>0 DEF TypeInv
<1> DEFINE Guard == GrantUsedOnce /\ GrantHeldAlone /\ GrantRecorded
<1> SUFFICES Guard'
  BY <1>0 DEF GrantInv
<1>g. Guard
  BY DEF GrantInv
<1> USE DEF GrantUsedOnce, GrantHeldAlone, GrantRecorded, Holds, HasGrant, history, guards, counters
<1>a. ASSUME NEW w \in Workers, NEW m \in Msgs, Arrive(w, m) PROVE Guard'
  <2>1. seen' = seen /\ inserted' = inserted /\ unguarded' = unguarded
    BY <1>a DEF Arrive
  <2>2. \A v \in Workers, n \in Msgs : Holds(v, n)' => Holds(v, n)
    BY <1>a, <1>t DEF Arrive, TypeOK
  <2> HIDE DEF Holds
  <2> QED
    BY <1>g, <2>1, <2>2
<1>1. ASSUME NEW w \in Workers, GrantGuard(w) PROVE Guard'
  <2> DEFINE m == job[w].msg
  <2>m. m \in Msgs /\ HasGrant(m)
    BY <1>1, <1>t, <1>0 DEF GrantGuard, TypeOK, TypeInv, GuardHasGrant
  <2>0. inserted' = inserted /\ unguarded' = unguarded
    BY <1>1 DEF GrantGuard
  <2>1. CASE GrantOf[m] \in seen
    <3>1. seen' = seen
      BY <1>1, <2>1 DEF GrantGuard
    <3>2. \A v \in Workers, n \in Msgs : Holds(v, n)' => Holds(v, n)
      BY <1>1, <1>t, <2>1 DEF GrantGuard, Finish, TypeOK
    <3> HIDE DEF Holds
    <3> QED
      BY <1>g, <2>0, <3>1, <3>2
  <2>2. CASE GrantOf[m] \notin seen
    <3>1. /\ seen' = seen \cup {GrantOf[m]} /\ job' = job
          /\ pc' = [pc EXCEPT ![w] = "insert"]
      BY <1>1, <2>2 DEF GrantGuard
    <3>2. GrantUsedOnce' /\ GrantRecorded'
      BY <1>g, <2>0, <3>1
    <3>3. \A v \in Workers, n \in Msgs : v # w => (Holds(v, n)' <=> Holds(v, n))
      BY <1>t, <2>0, <3>1 DEF TypeOK
    <3>4. \A n \in Msgs : Holds(w, n)' => n = m
      BY <1>t, <3>1 DEF TypeOK
    <3>5. /\ \A n \in Msgs \ unguarded : GrantOf[n] = GrantOf[m] => inserted[n] = 0
          /\ \A v \in Workers, n \in Msgs : Holds(v, n) => GrantOf[n] # GrantOf[m]
      BY <1>g, <1>t, <2>2, <2>m DEF TypeOK
    <3>6. GrantHeldAlone'
      <4> SUFFICES ASSUME NEW v \in Workers, NEW n \in Msgs, Holds(v, n)'
                   PROVE  /\ GrantOf[n] \in seen'
                          /\ \A k \in Msgs \ unguarded' :
                               GrantOf[k] = GrantOf[n] => inserted'[k] = 0
                          /\ \A u \in Workers, k \in Msgs :
                               Holds(u, k)' /\ GrantOf[k] = GrantOf[n] => u = v
        OBVIOUS
      <4> HIDE DEF Holds, m
      <4>1. CASE v = w
        BY <2>0, <3>1, <3>3, <3>4, <3>5, <4>1
      <4>2. CASE v # w
        BY <1>g, <2>0, <3>1, <3>3, <3>4, <3>5, <4>2
      <4> QED
        BY <4>1, <4>2
    <3> QED
      BY <3>2, <3>6
  <2> QED
    BY <2>1, <2>2
<1>b. ASSUME NEW w \in Workers, GuardSkipped(w) PROVE Guard'
  <2>1. seen' = seen /\ inserted' = inserted /\ unguarded \subseteq unguarded'
    BY <1>b DEF GuardSkipped
  <2>2. \A v \in Workers, n \in Msgs : Holds(v, n)' => Holds(v, n)
    BY <1>b, <1>t DEF GuardSkipped, TypeOK
  <2> HIDE DEF Holds
  <2> QED
    BY <1>g, <2>1, <2>2
<1>2. ASSUME NEW w \in Workers, InsertInbound(w) PROVE Guard'
  <2>1. \A v \in Workers, n \in Msgs : Holds(v, n)' => v # w /\ Holds(v, n)
    BY <1>2, <1>t DEF InsertInbound, Finish, TypeOK
  <2>2. job[w].msg \in Msgs
    BY <1>2, <1>t DEF InsertInbound, TypeOK
  <2>3. seen' = seen /\ unguarded' = unguarded
    BY <1>2 DEF InsertInbound
  <2>4. CASE inserted' = inserted
    BY <1>g, <2>1, <2>3, <2>4
  <2>5. CASE inserted' = [inserted EXCEPT ![job[w].msg] = @ + 1]
    <3>1. HasGrant(job[w].msg) /\ job[w].msg \notin unguarded => Holds(w, job[w].msg)
      BY <1>2 DEF InsertInbound
    <3>2. /\ \A n \in Msgs : n # job[w].msg => inserted'[n] = inserted[n]
          /\ inserted'[job[w].msg] = inserted[job[w].msg] + 1
          /\ \A n \in Msgs : inserted[n] \in Nat
      BY <1>t, <2>2, <2>5 DEF TypeOK
    <3>3. HasGrant(job[w].msg) /\ job[w].msg \notin unguarded =>
              /\ GrantOf[job[w].msg] \in seen
              /\ \A n \in Msgs \ unguarded : GrantOf[n] = GrantOf[job[w].msg] => inserted[n] = 0
      BY <1>g, <2>2, <3>1
    <3>4. GrantRecorded'
      BY <1>g, <2>2, <2>3, <3>2, <3>3
    <3>5. GrantUsedOnce'
      <4> SUFFICES ASSUME NEW m \in Msgs \ unguarded, NEW n \in Msgs \ unguarded,
                          HasGrant(m), GrantOf[m] = GrantOf[n],
                          inserted'[m] > 0, inserted'[n] > 0
                   PROVE  m = n /\ inserted'[m] = 1
        BY <2>3
      <4>1. CASE m # job[w].msg /\ n # job[w].msg
        BY <1>g, <3>2, <4>1
      <4>2. CASE m = job[w].msg \/ n = job[w].msg
        BY <3>2, <3>3, <4>2
      <4> QED
        BY <4>1, <4>2
    <3>6. GrantHeldAlone'
      <4> SUFFICES ASSUME NEW v \in Workers, NEW n \in Msgs, Holds(v, n)'
                   PROVE  /\ GrantOf[n] \in seen'
                          /\ \A k \in Msgs \ unguarded' :
                               GrantOf[k] = GrantOf[n] => inserted'[k] = 0
                          /\ \A u \in Workers, k \in Msgs :
                               Holds(u, k)' /\ GrantOf[k] = GrantOf[n] => u = v
        OBVIOUS
      <4>1. v # w /\ Holds(v, n)
        BY <2>1
      <4>2. job[w].msg \in unguarded \/ GrantOf[job[w].msg] # GrantOf[n]
        BY <1>g, <2>2, <3>1, <4>1
      <4> HIDE DEF Holds
      <4> QED
        BY <1>g, <2>1, <2>2, <2>3, <3>2, <4>1, <4>2
    <3> QED
      BY <3>4, <3>5, <3>6
  <2> QED
    BY <1>2, <2>4, <2>5 DEF InsertInbound
<1>3. ASSUME NEW w \in Workers,
             \/ InsertFails(w) \/ Bound(w) \/ BoundFails(w)
             \/ PushOut(w) \/ LogReceipt(w) \/ EnqueueReceipt(w) \/ TailFails(w)
      PROVE Guard'
  <2> USE DEF InsertFails, Bound, BoundFails, PushOut, LogReceipt, EnqueueReceipt, TailFails
  <2>1. seen' = seen /\ inserted' = inserted /\ unguarded' = unguarded
    BY <1>3 DEF guards
  <2>2. \A v \in Workers, n \in Msgs : Holds(v, n)' => Holds(v, n)
    BY <1>3, <1>t DEF Finish, TypeOK
  <2> HIDE DEF Holds
  <2> QED
    BY <1>g, <2>1, <2>2
<1>c. ASSUME NEW g \in Expiring, Expire(g) PROVE Guard'
  BY <1>c, <1>g DEF Expire
<1>4. ASSUME Crash PROVE Guard'
  BY <1>4, <1>g DEF Crash
<1>5. CASE UNCHANGED vars
  BY <1>5, <1>g DEF vars
<1> QED
  BY <1>a, <1>1, <1>b, <1>2, <1>3, <1>c, <1>4, <1>5 DEF Next, Step

\* A grant that the guard sees authorizes one message: however often messages
\* that carry it arrive, on however many sessions, across crashes, failing
\* statements, expiry and evictions, at most one that passed the guard is
\* stored, once.
THEOREM GrantSafety == Spec => []GrantUsedOnce
<1>1. GrantInv => GrantUsedOnce
  BY DEF GrantInv
<1> QED
  BY <1>1, InitGrant, NextGrant, PTL DEF Spec

-----------------------------------------------------------------------------
(* De-duplication and receipts: what is counted per message.               *)

\* The rows of a message, and the workers between its insert and its push.
InRows(m) == {r \in rows : r.dir = "in" /\ r.msg = m}
Pushing(m) == {w \in Workers : job[w].msg = m /\ pc[w] \in {"bounds", "push"}}

\* What failing statements and crashes may have stopped.
Lost == faults + crashes * Cardinality(Workers)

\* A message has one row at most, and every insert is a row or an eviction.
RowPerInsert ==
    \A m \in Msgs : /\ Cardinality(InRows(m)) <= 1
                    /\ inserted[m] = evicted[m] + Cardinality(InRows(m))

\* Every push and every receipt has an insert of its own, and so has every worker
\* that has yet to do either; no insert of a direct message is without.
OnePerInsert ==
    \A m \in Msgs :
        /\ pushes[m] + Cardinality(Pushing(m)) <= inserted[m]
        /\ receipts[m] + Cardinality(OnTheWay(m)) <= inserted[m]
        /\ m \in Direct => inserted[m] <= receipts[m] + Cardinality(OnTheWay(m)) + Lost

\* Only what verify_incoming let through is worked on, and receipted if direct.
OnlyDirect ==
    /\ \A w \in Workers : /\ pc[w] # "idle" => job[w].msg \notin Invalid
                          /\ pc[w] \in {"receipt", "enqueue"} => job[w].msg \in Direct
    /\ \A m \in Msgs : receipts[m] > 0 => m \in Direct \ Invalid

CountInv == TypeInv /\ RowPerInsert /\ OnePerInsert /\ OnlyDirect

\* How the size of a finite set changes when one element comes or goes.
LEMMA OneMoves ==
    ASSUME NEW A, NEW B, NEW w, IsFiniteSet(A), \A x : x # w => (x \in A <=> x \in B)
    PROVE  /\ IsFiniteSet(B) /\ Cardinality(A) \in Nat /\ Cardinality(B) \in Nat
           /\ w \in A /\ w \in B => Cardinality(B) = Cardinality(A)
           /\ w \notin A /\ w \notin B => Cardinality(B) = Cardinality(A)
           /\ w \in A /\ w \notin B => Cardinality(B) = Cardinality(A) - 1
           /\ w \notin A /\ w \in B => Cardinality(B) = Cardinality(A) + 1
<1>0. Cardinality(A) \in Nat
  BY FS_CardinalityType
<1>1. CASE w \in A <=> w \in B
  <2>1. A = B
    BY <1>1
  <2> QED
    BY <1>0, <1>1, <2>1
<1>2. CASE w \in A /\ w \notin B
  <2>1. B = A \ {w}
    BY <1>2
  <2>2. IsFiniteSet(B) /\ Cardinality(B) = Cardinality(A) - 1
    BY <1>2, <2>1, FS_RemoveElement
  <2>3. Cardinality(B) \in Nat
    BY <2>2, FS_CardinalityType
  <2> QED
    BY <1>0, <1>2, <2>2, <2>3
<1>3. CASE w \notin A /\ w \in B
  <2>1. B = A \cup {w}
    BY <1>3
  <2>2. IsFiniteSet(B) /\ Cardinality(B) = Cardinality(A) + 1
    BY <1>3, <2>1, FS_AddElement
  <2> QED
    BY <1>0, <1>3, <2>2
<1> QED
  BY <1>1, <1>2, <1>3

\* Sets of workers are finite, and no larger than all of them.
LEMMA WorkerSets ==
    \A m : /\ IsFiniteSet(Pushing(m)) /\ IsFiniteSet(OnTheWay(m))
           /\ Cardinality(Pushing(m)) \in Nat /\ Cardinality(OnTheWay(m)) \in Nat
           /\ Cardinality(OnTheWay(m)) <= Cardinality(Workers)
           /\ Cardinality(Workers) \in Nat
<1> SUFFICES ASSUME NEW m
             PROVE  /\ IsFiniteSet(Pushing(m)) /\ IsFiniteSet(OnTheWay(m))
                    /\ Cardinality(Pushing(m)) \in Nat /\ Cardinality(OnTheWay(m)) \in Nat
                    /\ Cardinality(OnTheWay(m)) <= Cardinality(Workers)
                    /\ Cardinality(Workers) \in Nat
  OBVIOUS
<1>1. Pushing(m) \in SUBSET Workers /\ OnTheWay(m) \in SUBSET Workers
  BY DEF Pushing, OnTheWay
<1> QED
  BY <1>1, WorkersAssumption, FS_Subset, FS_CardinalityType

\* One worker moves: how that changes the workers that have yet to push, and
\* those that have yet to send a receipt, for a message.
LEMMA WorkerMoves ==
    ASSUME NEW w \in Workers, NEW m,
           \A x \in Workers : x # w => pc'[x] = pc[x] /\ job'[x] = job[x]
    PROVE  /\ Cardinality(Pushing(m)) \in Nat /\ Cardinality(Pushing(m)') \in Nat
           /\ Cardinality(OnTheWay(m)) \in Nat /\ Cardinality(OnTheWay(m)') \in Nat
           /\ (w \in Pushing(m) <=> w \in Pushing(m)')
                => Cardinality(Pushing(m)') = Cardinality(Pushing(m))
           /\ w \in Pushing(m) /\ w \notin Pushing(m)'
                => Cardinality(Pushing(m)') = Cardinality(Pushing(m)) - 1
           /\ w \notin Pushing(m) /\ w \in Pushing(m)'
                => Cardinality(Pushing(m)') = Cardinality(Pushing(m)) + 1
           /\ (w \in OnTheWay(m) <=> w \in OnTheWay(m)')
                => Cardinality(OnTheWay(m)') = Cardinality(OnTheWay(m))
           /\ w \in OnTheWay(m) /\ w \notin OnTheWay(m)'
                => Cardinality(OnTheWay(m)') = Cardinality(OnTheWay(m)) - 1
           /\ w \notin OnTheWay(m) /\ w \in OnTheWay(m)'
                => Cardinality(OnTheWay(m)') = Cardinality(OnTheWay(m)) + 1
<1>1. \A x : x # w => (x \in Pushing(m) <=> x \in Pushing(m)')
  BY DEF Pushing
<1>2. \A x : x # w => (x \in OnTheWay(m) <=> x \in OnTheWay(m)')
  BY DEF OnTheWay
<1>3. IsFiniteSet(Pushing(m)) /\ IsFiniteSet(OnTheWay(m))
  BY WorkerSets
<1> DEFINE A == Pushing(m)  B == Pushing(m)'  C == OnTheWay(m)  D == OnTheWay(m)'
<1> HIDE DEF A, B, C, D
<1>4. \A x : x # w => (x \in A <=> x \in B)
  BY <1>1 DEF A, B
<1>5. \A x : x # w => (x \in C <=> x \in D)
  BY <1>2 DEF C, D
<1>6. IsFiniteSet(A) /\ IsFiniteSet(C)
  BY <1>3 DEF A, C
<1>7. /\ Cardinality(A) \in Nat /\ Cardinality(B) \in Nat
      /\ (w \in A <=> w \in B) => Cardinality(B) = Cardinality(A)
      /\ w \in A /\ w \notin B => Cardinality(B) = Cardinality(A) - 1
      /\ w \notin A /\ w \in B => Cardinality(B) = Cardinality(A) + 1
  BY <1>4, <1>6, OneMoves
<1>8. /\ Cardinality(C) \in Nat /\ Cardinality(D) \in Nat
      /\ (w \in C <=> w \in D) => Cardinality(D) = Cardinality(C)
      /\ w \in C /\ w \notin D => Cardinality(D) = Cardinality(C) - 1
      /\ w \notin C /\ w \in D => Cardinality(D) = Cardinality(C) + 1
  BY <1>5, <1>6, OneMoves
<1> QED
  BY <1>7, <1>8 DEF A, B, C, D


\* Inserts, receipts' log rows and evictions keep one row per message, and the
\* count of the inserts.
LEMMA RowStep == ASSUME TypeInv, RowPerInsert, [Next]_vars PROVE RowPerInsert'
<1>0. /\ IsFiniteSet(rows) /\ rows \subseteq Row
      /\ inserted \in [Msgs -> Nat] /\ evicted \in [Msgs -> Nat]
  BY DEF TypeInv, TypeOK
<1>1. CASE UNCHANGED <<rows, inserted, evicted>>
  BY <1>1 DEF RowPerInsert, InRows
<1>2. ASSUME NEW w \in Workers, InsertInbound(w), ~UNCHANGED <<rows, inserted, evicted>>
      PROVE  RowPerInsert'
  <2>3. PICK n \in Msgs : n = job[w].msg
    BY <1>2 DEF InsertInbound, TypeInv, TypeOK
  <2>0. PICK new : new = InRow(n, lastSeq + 1)
    OBVIOUS
  <2>1. /\ ~Stored(n) /\ rows' = rows \cup {new}
        /\ inserted' = [inserted EXCEPT ![n] = @ + 1] /\ evicted' = evicted
    BY <1>2, <2>0, <2>3 DEF InsertInbound, Finish
  <2>2. new.dir = "in" /\ new.msg = n
    BY <2>0 DEF InRow
  <2>4. InRows(n) = {} /\ InRows(n)' = {new}
    BY <2>1, <2>2 DEF InRows, Stored
  <2>5. \A m \in Msgs : m # n => InRows(m)' = InRows(m) /\ inserted'[m] = inserted[m]
    BY <1>0, <2>1, <2>2 DEF InRows
  <2>6. inserted'[n] = inserted[n] + 1
    BY <1>0, <2>1, <2>3
  <2>7. Cardinality(InRows(n)) = 0 /\ Cardinality(InRows(n)') = 1
    BY <2>4, FS_EmptySet, FS_Singleton
  <2>8. ASSUME NEW m \in Msgs
        PROVE Cardinality(InRows(m)') <= 1 /\ inserted'[m] = evicted'[m] + Cardinality(InRows(m)')
    <3>1. CASE m = n
      BY <1>0, <2>1, <2>3, <2>6, <2>7, <3>1 DEF RowPerInsert
    <3>2. CASE m # n
      BY <2>1, <2>5, <3>2 DEF RowPerInsert
    <3> QED
      BY <3>1, <3>2
  <2> QED
    BY <2>8 DEF RowPerInsert
<1>3. ASSUME NEW w \in Workers, Bound(w) \/ BoundFails(w) PROVE RowPerInsert'
  <2>1. rows' \subseteq rows
    BY <1>3, TrimShrinks DEF Bound, BoundFails, EnforceBounds
  <2>2. inserted' = inserted
    BY <1>3 DEF Bound, BoundFails
  <2> DEFINE gone(m) == {r \in rows \ rows' : r.dir = "in" /\ r.msg = m}
  <2>3. \A m \in Msgs : evicted'[m] = evicted[m] + Cardinality(gone(m))
    BY <1>3 DEF Bound, BoundFails, CountEvicted
  <2>4. ASSUME NEW m \in Msgs
        PROVE Cardinality(InRows(m)') <= 1 /\ inserted'[m] = evicted'[m] + Cardinality(InRows(m)')
    <3> DEFINE S == InRows(m)
               T == InRows(m)'
    <3>1. T \subseteq S /\ S \ T = gone(m) /\ S \cap T = T /\ S \in SUBSET rows
      BY <2>1 DEF InRows
    <3> HIDE DEF S, T, gone
    <3>2. IsFiniteSet(S) /\ IsFiniteSet(T)
      BY <1>0, <3>1, FS_Subset
    <3>3. Cardinality(S \ T) = Cardinality(S) - Cardinality(S \cap T)
      BY <3>2, FS_Difference
    <3>4. Cardinality(S) \in Nat /\ Cardinality(T) \in Nat /\ Cardinality(gone(m)) \in Nat
      BY <3>1, <3>2, FS_CardinalityType, FS_Subset
    <3>5. Cardinality(gone(m)) = Cardinality(S) - Cardinality(T)
      BY <3>1, <3>3
    <3>6. Cardinality(S) <= 1 /\ inserted[m] = evicted[m] + Cardinality(S)
      BY DEF RowPerInsert, S
    <3>7. Cardinality(T) <= 1 /\ inserted'[m] = evicted'[m] + Cardinality(T)
      BY <1>0, <2>2, <2>3, <3>4, <3>5, <3>6
    <3> QED
      BY <3>7 DEF T
  <2> QED
    BY <2>4 DEF RowPerInsert
<1>4. ASSUME NEW w \in Workers, LogReceipt(w) PROVE RowPerInsert'
  <2>1. rows' = rows \cup {ReceiptRow(job[w].msg, lastSeq + 1)} /\ inserted' = inserted /\ evicted' = evicted
    BY <1>4 DEF LogReceipt, history
  <2>2. ReceiptRow(job[w].msg, lastSeq + 1).dir = "out"
    BY DEF ReceiptRow
  <2>3. \A m \in Msgs : InRows(m)' = InRows(m)
    BY <2>1, <2>2 DEF InRows
  <2> QED
    BY <2>1, <2>3 DEF RowPerInsert
<1>5. ASSUME NEW w \in Workers, Step(w), ~InsertInbound(w), ~Bound(w), ~BoundFails(w), ~LogReceipt(w)
      PROVE  UNCHANGED <<rows, inserted, evicted>>
  BY <1>5 DEF Step, GrantGuard, GuardSkipped, InsertFails, PushOut, EnqueueReceipt, TailFails, history
<1>6. (\E w \in Workers, m \in Msgs : Arrive(w, m)) => UNCHANGED <<rows, inserted, evicted>>
  BY DEF Arrive, history
<1>7. (\E g \in Expiring : Expire(g)) \/ Crash \/ UNCHANGED vars => UNCHANGED <<rows, inserted, evicted>>
  BY DEF Expire, Crash, vars, history
<1> QED
  BY <1>1, <1>2, <1>3, <1>4, <1>5, <1>6, <1>7 DEF Next

\* insert_inbound touches one worker's job, and not its message.
LEMMA InsertJob ==
    ASSUME TypeInv, NEW w \in Workers, InsertInbound(w)
    PROVE  /\ \A x \in Workers : x # w => pc'[x] = pc[x] /\ job'[x] = job[x]
           /\ pc[w] = "insert"
           /\ pc'[w] = "idle" \/ (pc'[w] = "bounds" /\ job'[w].msg = job[w].msg)
<1> DEFINE j == [job[w] EXCEPT !.seq = lastSeq + 1]
<1>1. /\ job \in [Workers -> [msg : Msgs, seq : Nat] \cup {NoJob}]
      /\ pc \in [Workers -> {"idle", "guard", "insert", "bounds", "push", "receipt", "enqueue"}]
      /\ pc[w] # "idle" => job[w].msg \in Msgs
  BY DEF TypeInv, TypeOK
<1>2. pc[w] = "insert"
  BY DEF InsertInbound
<1>3. job[w] \in [msg : Msgs, seq : Nat]
  BY <1>1, <1>2, MessagesAssumption DEF NoJob
<1>4. j.msg = job[w].msg
  BY <1>3
<1>5. CASE pc' = [pc EXCEPT ![w] = "idle"] /\ job' = [job EXCEPT ![w] = NoJob]
  BY <1>1, <1>2, <1>5
<1>6. CASE pc' = [pc EXCEPT ![w] = "bounds"] /\ job' = [job EXCEPT ![w] = j]
  <2> HIDE DEF j
  <2> QED
    BY <1>1, <1>2, <1>4, <1>6
<1> QED
  BY <1>5, <1>6 DEF InsertInbound, Finish

\* The callback keeps its direct messages apart from the others and never works
\* on what verify_incoming rejects.
LEMMA DirectStep == ASSUME TypeInv, OnlyDirect, [Next]_vars PROVE OnlyDirect'
<1>0. /\ pc \in [Workers -> {"idle", "guard", "insert", "bounds", "push", "receipt", "enqueue"}]
      /\ job \in [Workers -> [msg : Msgs, seq : Nat] \cup {NoJob}]
      /\ receipts \in [Msgs -> Nat]
      /\ \A w \in Workers : pc[w] # "idle" => job[w].msg \in Msgs
  BY DEF TypeInv, TypeOK
<1>1. CASE UNCHANGED vars \/ \E g \in Expiring : Expire(g)
  BY <1>1 DEF OnlyDirect, vars, Expire, history
<1>2. CASE Crash
  BY <1>2 DEF OnlyDirect, Crash, history
<1>3. ASSUME NEW w \in Workers, NEW m \in Msgs, Arrive(w, m) PROVE OnlyDirect'
  <2>1. receipts' = receipts
    BY <1>3 DEF Arrive, history
  <2>2. \A x \in Workers : x # w => pc'[x] = pc[x] /\ job'[x] = job[x]
    BY <1>0, <1>3 DEF Arrive
  <2>3. \/ pc'[w] = pc[w] /\ job'[w] = job[w]
        \/ m \notin Invalid /\ pc'[w] \in {"guard", "insert"} /\ job'[w].msg = m
    BY <1>0, <1>3 DEF Arrive
  <2> QED
    BY <2>1, <2>2, <2>3 DEF OnlyDirect
<1>4. ASSUME NEW w \in Workers, EnqueueReceipt(w) PROVE OnlyDirect'
  <2>1. pc[w] = "enqueue" /\ job[w].msg \in Msgs /\ job[w].msg \in Direct \ Invalid
    BY <1>0, <1>4 DEF EnqueueReceipt, OnlyDirect
  <2>2. \A x \in Workers : x # w => pc'[x] = pc[x] /\ job'[x] = job[x]
    BY <1>0, <1>4 DEF EnqueueReceipt, Finish
  <2>3. pc'[w] = "idle"
    BY <1>0, <1>4 DEF EnqueueReceipt, Finish
  <2>4. \A m \in Msgs : m # job[w].msg => receipts'[m] = receipts[m]
    BY <1>0, <1>4 DEF EnqueueReceipt
  <2> QED
    BY <2>1, <2>2, <2>3, <2>4 DEF OnlyDirect
<1>5. ASSUME NEW w \in Workers, Step(w), ~EnqueueReceipt(w) PROVE OnlyDirect'
  <2>1. receipts' = receipts
    BY <1>5 DEF Step, GrantGuard, GuardSkipped, InsertInbound, InsertFails, Bound, BoundFails,
                PushOut, LogReceipt, TailFails, history
  <2>2. /\ \A x \in Workers : x # w => pc'[x] = pc[x] /\ job'[x] = job[x]
        /\ \/ pc'[w] = "idle"
           \/ /\ pc[w] # "idle" /\ job'[w].msg = job[w].msg
              /\ \/ pc'[w] \notin {"receipt", "enqueue"}
                 \/ pc[w] \in {"receipt", "enqueue"}
                 \/ job[w].msg \in Direct
    <3> USE <1>0
    <3>1. CASE GrantGuard(w) \/ GuardSkipped(w)
      BY <3>1 DEF GrantGuard, GuardSkipped, Finish
    <3>2. CASE InsertInbound(w) \/ InsertFails(w)
      BY <3>2, InsertJob DEF InsertFails, Finish
    <3>3. CASE Bound(w) \/ BoundFails(w)
      BY <3>3 DEF Bound, BoundFails
    <3>4. CASE PushOut(w) \/ LogReceipt(w)
      BY <3>4 DEF PushOut, LogReceipt, Finish
    <3>5. CASE TailFails(w)
      BY <3>5 DEF TailFails, Finish
    <3> QED
      BY <1>5, <3>1, <3>2, <3>3, <3>4, <3>5 DEF Step
  <2> QED
    BY <2>1, <2>2 DEF OnlyDirect
<1> QED
  BY <1>1, <1>2, <1>3, <1>4, <1>5 DEF Next


\* One message's share of OnePerInsert, in terms of what a step does to the counts.
Tally(m) ==
    /\ pushes[m] + Cardinality(Pushing(m)) <= inserted[m]
    /\ receipts[m] + Cardinality(OnTheWay(m)) <= inserted[m]
    /\ m \in Direct => inserted[m] <= receipts[m] + Cardinality(OnTheWay(m)) + Lost

\* What is lost is a number; it grows with faults and by all workers at a crash.
LEMMA LostType ==
    ASSUME TypeInv
    PROVE  /\ Lost \in Nat
           /\ UNCHANGED <<faults, crashes>> => Lost' = Lost
           /\ faults' = faults + 1 /\ UNCHANGED crashes => Lost' = Lost + 1
           /\ crashes' = crashes + 1 /\ UNCHANGED faults => Lost' = Lost + Cardinality(Workers)
<1> DEFINE K == Cardinality(Workers)
<1>1. K \in Nat /\ faults \in Nat /\ crashes \in Nat
  BY WorkersAssumption, FS_CardinalityType DEF TypeInv, TypeOK
<1> HIDE DEF K
<1>2. crashes * K \in Nat /\ (crashes + 1) * K = crashes * K + K
  BY <1>1
<1>3. Lost = faults + crashes * K /\ Lost' = faults' + crashes' * K
  BY DEF Lost, K
<1> DEFINE P == crashes * K
<1>4. /\ P \in Nat /\ Lost = faults + P
      /\ UNCHANGED crashes => Lost' = faults' + P
      /\ crashes' = crashes + 1 => Lost' = faults' + (P + K)
  BY <1>2, <1>3
<1> HIDE DEF P
<1>5. /\ Lost \in Nat
      /\ UNCHANGED <<faults, crashes>> => Lost' = Lost
      /\ faults' = faults + 1 /\ UNCHANGED crashes => Lost' = Lost + 1
      /\ crashes' = crashes + 1 /\ UNCHANGED faults => Lost' = Lost + K
  BY <1>1, <1>4
<1> QED
  BY <1>5 DEF K

\* The counters are numbers.
LEMMA CountTypes ==
    ASSUME TypeInv
    PROVE  /\ inserted \in [Msgs -> Nat] /\ pushes \in [Msgs -> Nat] /\ receipts \in [Msgs -> Nat]
           /\ pc \in [Workers -> {"idle", "guard", "insert", "bounds", "push", "receipt", "enqueue"}]
           /\ job \in [Workers -> [msg : Msgs, seq : Nat] \cup {NoJob}]
           /\ \A w \in Workers : pc[w] # "idle" => job[w].msg \in Msgs
BY DEF TypeInv, TypeOK

\* A worker that moves without counting anything: neither a row, nor a push or
\* a receipt, and no later in the callback than it has been.
LEMMA QuietStep ==
    ASSUME TypeInv, OnePerInsert, NEW w \in Workers,
           UNCHANGED <<inserted, pushes, receipts, crashes>>,
           faults' = faults \/ faults' = faults + 1,
           \A x \in Workers : x # w => pc'[x] = pc[x] /\ job'[x] = job[x],
           \/ pc[w] \notin {"bounds", "push", "receipt", "enqueue"}
              /\ pc'[w] \notin {"bounds", "push", "receipt", "enqueue"}
           \/ pc[w] = "bounds" /\ pc'[w] = "push" /\ job'[w].msg = job[w].msg
           \/ pc[w] = "receipt" /\ pc'[w] = "enqueue" /\ job'[w].msg = job[w].msg
    PROVE  OnePerInsert'
<1> SUFFICES ASSUME NEW m \in Msgs PROVE Tally(m)'
  BY DEF OnePerInsert, Tally
<1>1. (w \in Pushing(m) <=> w \in Pushing(m)') /\ (w \in OnTheWay(m) <=> w \in OnTheWay(m)')
  BY DEF Pushing, OnTheWay
<1>2. Cardinality(Pushing(m)') = Cardinality(Pushing(m)) /\ Cardinality(OnTheWay(m)') = Cardinality(OnTheWay(m))
  BY <1>1, WorkerMoves
<1>3. Lost \in Nat /\ Lost' \in {Lost, Lost + 1}
  BY LostType
<1>4. /\ inserted[m] \in Nat /\ receipts[m] \in Nat /\ pushes[m] \in Nat
      /\ Cardinality(OnTheWay(m)) \in Nat /\ Cardinality(Pushing(m)) \in Nat
  BY CountTypes, WorkerSets
<1>5. Tally(m)
  BY DEF OnePerInsert, Tally
<1>6. inserted'[m] = inserted[m] /\ pushes'[m] = pushes[m] /\ receipts'[m] = receipts[m]
  OBVIOUS
<1> QED
  BY <1>2, <1>3, <1>4, <1>5, <1>6 DEF Tally

\* insert_inbound of a new row: the worker owes it a push and a receipt.
LEMMA InsertStep ==
    ASSUME TypeInv, OnePerInsert, NEW w \in Workers, InsertInbound(w), pc'[w] = "bounds"
    PROVE  OnePerInsert'
<1> DEFINE n == job[w].msg
<1>0. pc[w] = "insert" /\ n \in Msgs
  BY CountTypes DEF InsertInbound
<1>1. /\ inserted' = [inserted EXCEPT ![n] = @ + 1] /\ job'[w].msg = n
      /\ UNCHANGED <<pushes, receipts, faults, crashes>>
      /\ \A x \in Workers : x # w => pc'[x] = pc[x] /\ job'[x] = job[x]
  <2>1. job'[w].msg = n /\ \A x \in Workers : x # w => pc'[x] = pc[x] /\ job'[x] = job[x]
    BY InsertJob
  <2>2. pc' # [pc EXCEPT ![w] = "idle"]
    BY CountTypes
  <2>3. inserted' = [inserted EXCEPT ![n] = @ + 1] /\ UNCHANGED <<pushes, receipts, faults, crashes>>
    BY <2>2 DEF InsertInbound, Finish, counters
  <2> QED
    BY <2>1, <2>3
<1> HIDE DEF n
<1> SUFFICES ASSUME NEW m \in Msgs PROVE Tally(m)'
  BY DEF OnePerInsert, Tally
<1>2. /\ w \notin Pushing(m) /\ w \notin OnTheWay(m)
      /\ w \in Pushing(m)' <=> m = n
      /\ w \in OnTheWay(m)' <=> m = n
  BY <1>0, <1>1 DEF Pushing, OnTheWay
<1>3. Lost \in Nat /\ Lost' = Lost
  BY <1>1, LostType
<1>4. /\ inserted[m] \in Nat /\ receipts[m] \in Nat /\ pushes[m] \in Nat
      /\ Cardinality(OnTheWay(m)) \in Nat /\ Cardinality(Pushing(m)) \in Nat
  BY CountTypes, WorkerSets
<1>5. Tally(m)
  BY DEF OnePerInsert, Tally
<1>6. pushes'[m] = pushes[m] /\ receipts'[m] = receipts[m]
  BY <1>1
<1>7. inserted'[m] = IF m = n THEN inserted[m] + 1 ELSE inserted[m]
  BY <1>1, CountTypes
<1>8. CASE m = n
  <2>1. Cardinality(Pushing(m)') = Cardinality(Pushing(m)) + 1
        /\ Cardinality(OnTheWay(m)') = Cardinality(OnTheWay(m)) + 1
    BY <1>1, <1>2, <1>8, WorkerMoves
  <2> QED
    BY <1>3, <1>4, <1>5, <1>6, <1>7, <1>8, <2>1 DEF Tally
<1>9. CASE m # n
  <2>1. Cardinality(Pushing(m)') = Cardinality(Pushing(m))
        /\ Cardinality(OnTheWay(m)') = Cardinality(OnTheWay(m))
    BY <1>1, <1>2, <1>9, WorkerMoves
  <2> QED
    BY <1>3, <1>4, <1>5, <1>6, <1>7, <1>9, <2>1 DEF Tally
<1> QED
  BY <1>8, <1>9

\* A push, done or failed: the worker no longer owes it, and still owes the
\* receipt of a direct message.
LEMMA PushStep ==
    ASSUME TypeInv, OnePerInsert, NEW w \in Workers, pc[w] = "push",
           PushOut(w) \/ TailFails(w)
    PROVE  OnePerInsert'
<1> DEFINE n == job[w].msg
<1>0. n \in Msgs
  BY CountTypes
<1>1. /\ UNCHANGED <<inserted, receipts, crashes>>
      /\ faults' = faults \/ faults' = faults + 1
      /\ pushes' = pushes \/ pushes' = [pushes EXCEPT ![n] = @ + 1]
      /\ \A x \in Workers : x # w => pc'[x] = pc[x] /\ job'[x] = job[x]
      /\ IF n \in Direct THEN pc'[w] = "receipt" /\ job'[w].msg = n ELSE pc'[w] = "idle"
  BY CountTypes DEF PushOut, TailFails, Finish, counters, history
<1> HIDE DEF n
<1> SUFFICES ASSUME NEW m \in Msgs PROVE Tally(m)'
  BY DEF OnePerInsert, Tally
<1>2. /\ w \in Pushing(m) <=> m = n
      /\ w \notin Pushing(m)'
      /\ w \in OnTheWay(m) <=> m = n
      /\ w \in OnTheWay(m)' <=> m = n /\ n \in Direct
  BY <1>1 DEF Pushing, OnTheWay, n
<1>3. Lost \in Nat /\ Lost' \in {Lost, Lost + 1}
  BY <1>1, LostType
<1>4. /\ inserted[m] \in Nat /\ receipts[m] \in Nat /\ pushes[m] \in Nat
      /\ Cardinality(OnTheWay(m)) \in Nat /\ Cardinality(Pushing(m)) \in Nat
  BY CountTypes, WorkerSets
<1>5. Tally(m)
  BY DEF OnePerInsert, Tally
<1>6. inserted'[m] = inserted[m] /\ receipts'[m] = receipts[m]
  BY <1>1
<1>7. pushes'[m] = pushes[m] \/ (m = n /\ pushes'[m] = pushes[m] + 1)
  BY <1>1, CountTypes
<1>8. CASE m = n
  <2>1. Cardinality(Pushing(m)') = Cardinality(Pushing(m)) - 1
    BY <1>1, <1>2, <1>8, WorkerMoves
  <2>2. m \in Direct => Cardinality(OnTheWay(m)') = Cardinality(OnTheWay(m))
    BY <1>1, <1>2, <1>8, WorkerMoves
  <2>3. m \notin Direct => Cardinality(OnTheWay(m)') = Cardinality(OnTheWay(m)) - 1
    BY <1>1, <1>2, <1>8, WorkerMoves
  <2> QED
    BY <1>3, <1>4, <1>5, <1>6, <1>7, <2>1, <2>2, <2>3 DEF Tally
<1>9. CASE m # n
  <2>1. Cardinality(Pushing(m)') = Cardinality(Pushing(m))
        /\ Cardinality(OnTheWay(m)') = Cardinality(OnTheWay(m))
    BY <1>1, <1>2, <1>9, WorkerMoves
  <2> QED
    BY <1>3, <1>4, <1>5, <1>6, <1>7, <1>9, <2>1 DEF Tally
<1> QED
  BY <1>8, <1>9

\* enqueue_outbound of a receipt, done or failed: the receipt the worker owed is
\* counted, or lost.
LEMMA ReceiptStep ==
    ASSUME TypeInv, OnePerInsert, NEW w \in Workers, pc[w] = "enqueue",
           EnqueueReceipt(w) \/ TailFails(w)
    PROVE  OnePerInsert'
<1> DEFINE n == job[w].msg
<1>0. n \in Msgs
  BY CountTypes
<1>1. /\ UNCHANGED <<inserted, pushes, crashes>>
      /\ \/ faults' = faults /\ receipts' = [receipts EXCEPT ![n] = @ + 1]
         \/ faults' = faults + 1 /\ receipts' = receipts
      /\ \A x \in Workers : x # w => pc'[x] = pc[x] /\ job'[x] = job[x]
      /\ pc'[w] = "idle"
  BY CountTypes DEF EnqueueReceipt, TailFails, Finish, counters, history
<1> HIDE DEF n
<1> SUFFICES ASSUME NEW m \in Msgs PROVE Tally(m)'
  BY DEF OnePerInsert, Tally
<1>2. /\ w \notin Pushing(m) /\ w \notin Pushing(m)'
      /\ w \in OnTheWay(m) <=> m = n
      /\ w \notin OnTheWay(m)'
  BY <1>1 DEF Pushing, OnTheWay, n
<1>3. Lost \in Nat /\ (faults' = faults => Lost' = Lost) /\ (faults' = faults + 1 => Lost' = Lost + 1)
  BY <1>1, LostType
<1>4. /\ inserted[m] \in Nat /\ receipts[m] \in Nat /\ pushes[m] \in Nat
      /\ Cardinality(OnTheWay(m)) \in Nat /\ Cardinality(Pushing(m)) \in Nat
  BY CountTypes, WorkerSets
<1>5. Tally(m)
  BY DEF OnePerInsert, Tally
<1>6. inserted'[m] = inserted[m] /\ pushes'[m] = pushes[m]
  BY <1>1
<1>7. Cardinality(Pushing(m)') = Cardinality(Pushing(m))
  BY <1>1, <1>2, WorkerMoves
<1>8. CASE m = n
  <2>1. Cardinality(OnTheWay(m)') = Cardinality(OnTheWay(m)) - 1
    BY <1>1, <1>2, <1>8, WorkerMoves
  <2>2. \/ Lost' = Lost /\ receipts'[m] = receipts[m] + 1
        \/ Lost' = Lost + 1 /\ receipts'[m] = receipts[m]
    BY <1>1, <1>3, <1>8, CountTypes
  <2> QED
    BY <1>3, <1>4, <1>5, <1>6, <1>7, <2>1, <2>2 DEF Tally
<1>9. CASE m # n
  <2>1. Cardinality(OnTheWay(m)') = Cardinality(OnTheWay(m))
    BY <1>1, <1>2, <1>9, WorkerMoves
  <2>2. receipts'[m] = receipts[m] /\ Lost' \in {Lost, Lost + 1}
    BY <1>1, <1>3, <1>9, CountTypes
  <2> QED
    BY <1>3, <1>4, <1>5, <1>6, <1>7, <2>1, <2>2 DEF Tally
<1> QED
  BY <1>8, <1>9

\* A crash takes all workers' debts with it, one each at most.
LEMMA CrashStep == ASSUME TypeInv, OnePerInsert, Crash PROVE OnePerInsert'
<1>1. /\ crashes' = crashes + 1 /\ UNCHANGED <<inserted, pushes, receipts, faults>>
      /\ \A w \in Workers : pc'[w] = "idle"
  BY DEF Crash, history
<1> SUFFICES ASSUME NEW m \in Msgs PROVE Tally(m)'
  BY DEF OnePerInsert, Tally
<1>2. Pushing(m)' = {} /\ OnTheWay(m)' = {}
  BY <1>1 DEF Pushing, OnTheWay
<1>3. Cardinality(Pushing(m)') = 0 /\ Cardinality(OnTheWay(m)') = 0
  BY <1>2, FS_EmptySet
<1>4. /\ inserted[m] \in Nat /\ receipts[m] \in Nat /\ pushes[m] \in Nat
      /\ Cardinality(OnTheWay(m)) \in Nat /\ Cardinality(Pushing(m)) \in Nat
      /\ Cardinality(OnTheWay(m)) <= Cardinality(Workers) /\ Cardinality(Workers) \in Nat
  BY CountTypes, WorkerSets
<1>5. Tally(m)
  BY DEF OnePerInsert, Tally
<1>6. Lost \in Nat /\ Lost' = Lost + Cardinality(Workers)
  BY <1>1, LostType
<1>7. inserted'[m] = inserted[m] /\ pushes'[m] = pushes[m] /\ receipts'[m] = receipts[m]
  BY <1>1
<1> QED
  BY <1>3, <1>4, <1>5, <1>6, <1>7 DEF Tally

\* Every step keeps the tally of inserts, pushes and receipts.
LEMMA TallyStep == ASSUME TypeInv, OnePerInsert, [Next]_vars PROVE OnePerInsert'
<1>1. CASE UNCHANGED vars \/ \E g \in Expiring : Expire(g)
  BY <1>1 DEF OnePerInsert, Pushing, OnTheWay, Lost, vars, Expire, history, counters
<1>2. CASE Crash
  BY <1>2, CrashStep
<1>3. ASSUME NEW w \in Workers, NEW m \in Msgs, Arrive(w, m) PROVE OnePerInsert'
  <2>1. /\ UNCHANGED <<inserted, pushes, receipts, crashes, faults>>
        /\ \A x \in Workers : x # w => pc'[x] = pc[x] /\ job'[x] = job[x]
        /\ pc[w] = "idle" /\ pc'[w] \in {"idle", "guard", "insert"}
    BY <1>3, CountTypes DEF Arrive, history
  <2> QED
    BY <2>1, QuietStep
<1>4. ASSUME NEW w \in Workers, GrantGuard(w) \/ GuardSkipped(w) PROVE OnePerInsert'
  <2>1. /\ UNCHANGED <<inserted, pushes, receipts, crashes>> /\ faults' \in {faults, faults + 1}
        /\ \A x \in Workers : x # w => pc'[x] = pc[x] /\ job'[x] = job[x]
        /\ pc[w] = "guard" /\ pc'[w] \in {"idle", "insert"}
    BY <1>4, CountTypes DEF GrantGuard, GuardSkipped, Finish, history, counters
  <2> QED
    BY <2>1, QuietStep
<1>5. ASSUME NEW w \in Workers, InsertInbound(w) \/ InsertFails(w) PROVE OnePerInsert'
  <2>1. CASE InsertInbound(w) /\ pc'[w] = "bounds"
    BY <2>1, InsertStep
  <2>2. CASE ~(InsertInbound(w) /\ pc'[w] = "bounds")
    <3>1. /\ UNCHANGED <<inserted, pushes, receipts, crashes>> /\ faults' \in {faults, faults + 1}
          /\ \A x \in Workers : x # w => pc'[x] = pc[x] /\ job'[x] = job[x]
          /\ pc[w] = "insert" /\ pc'[w] = "idle"
      BY <1>5, <2>2, CountTypes DEF InsertInbound, InsertFails, Finish, history, counters
    <3> QED
      BY <3>1, QuietStep
  <2> QED
    BY <2>1, <2>2
<1>6. ASSUME NEW w \in Workers, Bound(w) \/ BoundFails(w) PROVE OnePerInsert'
  <2>1. /\ UNCHANGED <<inserted, pushes, receipts, crashes>> /\ faults' \in {faults, faults + 1}
        /\ \A x \in Workers : x # w => pc'[x] = pc[x] /\ job'[x] = job[x]
        /\ pc[w] = "bounds" /\ pc'[w] = "push" /\ job' = job
    BY <1>6, CountTypes DEF Bound, BoundFails, counters
  <2> QED
    BY <2>1, QuietStep
<1>7. ASSUME NEW w \in Workers, PushOut(w) \/ EnqueueReceipt(w) PROVE OnePerInsert'
  BY <1>7, PushStep, ReceiptStep DEF PushOut, EnqueueReceipt
<1>8. ASSUME NEW w \in Workers, LogReceipt(w) PROVE OnePerInsert'
  <2>1. /\ UNCHANGED <<inserted, pushes, receipts, crashes, faults>>
        /\ \A x \in Workers : x # w => pc'[x] = pc[x] /\ job'[x] = job[x]
        /\ pc[w] = "receipt" /\ pc'[w] = "enqueue" /\ job' = job
    BY <1>8, CountTypes DEF LogReceipt, history, counters
  <2> QED
    BY <2>1, QuietStep
<1>9. ASSUME NEW w \in Workers, TailFails(w) PROVE OnePerInsert'
  <2>1. CASE pc[w] = "push"
    BY <1>9, <2>1, PushStep
  <2>2. CASE pc[w] = "enqueue"
    BY <1>9, <2>2, ReceiptStep
  <2>3. CASE pc[w] = "receipt"
    <3>1. /\ UNCHANGED <<inserted, pushes, receipts, crashes>> /\ faults' = faults + 1
          /\ \A x \in Workers : x # w => pc'[x] = pc[x] /\ job'[x] = job[x]
          /\ pc'[w] = "enqueue" /\ job' = job
      BY <1>9, <2>3, CountTypes DEF TailFails, history
    <3> QED
      BY <2>3, <3>1, QuietStep
  <2> QED
    BY <1>9, <2>1, <2>2, <2>3 DEF TailFails
<1> QED
  BY <1>1, <1>2, <1>3, <1>4, <1>5, <1>6, <1>7, <1>8, <1>9 DEF Next, Step

\* Nothing is counted when the daemon starts.
LEMMA InitCount == Init => CountInv
<1> SUFFICES ASSUME Init PROVE CountInv
  OBVIOUS
<1>1. \A m : InRows(m) = {} /\ Pushing(m) = {} /\ OnTheWay(m) = {}
  BY DEF Init, InRows, Pushing, OnTheWay
<1>2. \A m : Cardinality(InRows(m)) = 0 /\ Cardinality(Pushing(m)) = 0 /\ Cardinality(OnTheWay(m)) = 0
  BY <1>1, FS_EmptySet
<1>3. TypeInv
  BY InitType
<1>4. RowPerInsert
  BY <1>2 DEF Init, RowPerInsert
<1>5. Lost \in Nat
  BY <1>3, LostType
<1>6. OnePerInsert
  BY <1>2, <1>5 DEF Init, OnePerInsert
<1>7. OnlyDirect
  BY DEF Init, OnlyDirect
<1> QED
  BY <1>3, <1>4, <1>6, <1>7 DEF CountInv

\* Every step keeps the counts.
LEMMA NextCount == CountInv /\ [Next]_vars => CountInv'
BY NextType, RowStep, TallyStep, DirectStep DEF CountInv

\* insert_inbound's de-duplication (REQ-0013): a message surfaces again only
\* after retention has deleted its row, and subscribers are shown it once per
\* stored row, whatever is delivered again, on however many sessions.
THEOREM Deduplication == Spec => []DedupeWhileRetained
<1>1. CountInv => DedupeWhileRetained
  <2> SUFFICES ASSUME CountInv, NEW m \in Msgs
               PROVE  inserted[m] <= evicted[m] + 1 /\ pushes[m] <= inserted[m]
    BY DEF DedupeWhileRetained
  <2>1. /\ inserted[m] \in Nat /\ evicted[m] \in Nat /\ pushes[m] \in Nat
        /\ Cardinality(Pushing(m)) \in Nat
    BY WorkerSets DEF CountInv, TypeInv, TypeOK
  <2>2. Cardinality(InRows(m)) \in Nat
    <3>1. InRows(m) \in SUBSET rows
      BY DEF InRows
    <3> QED
      BY <3>1, FS_Subset, FS_CardinalityType DEF CountInv, TypeInv
  <2> QED
    BY <2>1, <2>2 DEF CountInv, RowPerInsert, OnePerInsert
<1> QED
  BY <1>1, InitCount, NextCount, PTL DEF Spec

\* Receipts match rows (enqueue_receipt at the end of the callback): at most one
\* per stored row, only for direct messages that were let through, and none is
\* missing but for the failing statements and the workers crashes have stopped.
THEOREM ReceiptsMatchRows == Spec => []ReceiptPerRow
<1>1. CountInv => ReceiptPerRow
  <2> SUFFICES ASSUME CountInv, NEW m \in Msgs
               PROVE  /\ receipts[m] <= inserted[m]
                      /\ receipts[m] > 0 => m \in Direct \ Invalid
                      /\ m \in Direct =>
                            inserted[m] <= receipts[m] + Cardinality(OnTheWay(m)) + faults
                                             + crashes * Cardinality(Workers)
    BY DEF ReceiptPerRow
  <2> DEFINE O == Cardinality(OnTheWay(m))
             P == crashes * Cardinality(Workers)
  <2>1. /\ inserted[m] \in Nat /\ receipts[m] \in Nat /\ faults \in Nat /\ crashes \in Nat
        /\ O \in Nat /\ Cardinality(Workers) \in Nat
    BY WorkerSets DEF CountInv, TypeInv, TypeOK
  <2>2. P \in Nat
    BY <2>1
  <2>3. receipts[m] + O <= inserted[m] /\ (m \in Direct => inserted[m] <= receipts[m] + O + (faults + P))
    BY DEF CountInv, OnePerInsert, Lost
  <2>4. receipts[m] > 0 => m \in Direct \ Invalid
    BY DEF CountInv, OnlyDirect
  <2> HIDE DEF O, P
  <2>5. receipts[m] <= inserted[m] /\ (m \in Direct => inserted[m] <= receipts[m] + O + faults + P)
    BY <2>1, <2>2, <2>3
  <2> QED
    BY <2>4, <2>5 DEF O, P
<1> QED
  BY <1>1, InitCount, NextCount, PTL DEF Spec

=============================================================================
