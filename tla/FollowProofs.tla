---------------------------- MODULE FollowProofs ----------------------------
(***************************************************************************)
(* Proofs about Follow: what the readers of one consumer and a subscriber  *)
(* registry with bounded channels keep, for any number of processes, any   *)
(* --limit, any channel capacity and any number of messages.               *)
(***************************************************************************)
EXTENDS Follow, FiniteSetTheorems, SequenceTheorems, TLAPS

-----------------------------------------------------------------------------
(* The inductive invariant.                                                *)

\* The types, in the parts that the steps disturb.
IngestOK ==
    /\ stored \in 0..MaxSeq /\ pushed \in 0..MaxSeq
    /\ ingest \in {"idle", "stored", "flush", "send"}
    /\ todo \in Seq(Readers)
StoreOK ==
    /\ cursor \in Nat /\ receipted \subseteq 1..MaxSeq /\ got \subseteq 1..MaxSeq
    /\ named \subseteq Acks
ReadersOK ==
    /\ pc \in [Readers -> {"off", "select", "ack", "receipt", "named", "drained", "live",
                           "leaving", "closed"}]
    /\ batch \in [Readers -> [after : Nat, last : Int]]
    /\ hung \subseteq Readers
    /\ base \in [Readers -> -1..MaxSeq]
StreamsOK ==
    /\ dropped \in [Readers -> 0..MaxSeq]
    /\ chan \in [Readers -> Seq(Frame)]
    /\ out \in [Readers -> Seq(Frame)]
    /\ \A f \in Readers : Len(chan[f]) <= Cap

\* A push is one behind the store between the insert and the registry lock, and
\* while it holds the lock it visits subscribers of the registry, each once.
PushInv ==
    /\ stored = pushed + (IF ingest = "stored" THEN 1 ELSE 0)
    /\ Locked <=> todo # <<>>
    /\ Locked => pushed > 0
    /\ \A k \in 1..Len(todo) : Registered(todo[k])
    /\ \A k, l \in 1..Len(todo) : todo[k] = todo[l] => k = l

\* A process has a stream exactly from its registration on, and the count of
\* what it was not sent never exceeds what was pushed to it.
RegistryInv ==
    \A f \in Readers :
        /\ pc[f] \in {"off", "select", "named", "drained"} => base[f] = -1
        /\ pc[f] \in {"live", "leaving", "closed"} => base[f] >= 0
        /\ base[f] = -1 => /\ chan[f] = <<>> /\ out[f] = <<>>
                           /\ dropped[f] = 0 /\ f \notin hung
        /\ dropped[f] <= pushed - (IF f \in Range(todo) THEN 1 ELSE 0)

\* The row a process acknowledges: the last of its batch, or of its stream.
AckOf(f) == IF base[f] = -1 THEN batch[f].last ELSE out[f][Len(out[f])].seq

\* What a process is about to acknowledge was given to it, or named by its
\* user, and what it is about to emit a receipt for is acknowledged.
GivenInv ==
    \A f \in Readers :
        /\ pc[f] \in {"ack", "receipt"} =>
              AckOf(f) \in got /\ (base[f] # -1 => out[f] # <<>>)
        /\ pc[f] = "named" => AckOf(f) \in named
        /\ pc[f] \in {"receipt", "named"} => AckOf(f) <= cursor

IInv == /\ IngestOK /\ StoreOK /\ ReadersOK /\ StreamsOK
        /\ PushInv /\ RegistryInv /\ GivenInv /\ AckedWasGivenOrNamed /\ LagExact

-----------------------------------------------------------------------------
(* What a run of frames tells a follower about.                            *)

\* A frame tells of a number of messages, one at least if it is a message.
LEMMA WeightType == \A e \in Frame : Weight(e) \in 0..(MaxSeq + 1)
BY SizesAssumption DEF Frame, Weight, IsMessage

\* The messages that frames tell about, as a subset of a finite rectangle.
LEMMA ToldIs ==
    ASSUME NEW s \in Seq(Frame)
    PROVE  Told(s) = {x \in (1..Len(s)) \X (1..(MaxSeq + 1)) : x[2] <= Weight(s[x[1]])}
<1> DEFINE R == {x \in (1..Len(s)) \X (1..(MaxSeq + 1)) : x[2] <= Weight(s[x[1]])}
<1>1. \A k \in 1..Len(s) : s[k] \in Frame /\ Weight(s[k]) \in 0..(MaxSeq + 1)
  BY WeightType
<1>2. ASSUME NEW x \in Told(s) PROVE x \in R
  <2>1. PICK k \in 1..Len(s) : x \in {k} \X (1..Weight(s[k]))
    BY <1>2 DEF Told
  <2>2. x = <<x[1], x[2]>> /\ x[1] = k /\ x[2] \in 1..Weight(s[k])
    BY <2>1
  <2>3. x[2] \in 1..(MaxSeq + 1) /\ x[2] <= Weight(s[k])
    BY <1>1, <2>1, <2>2, SizesAssumption
  <2> QED
    BY <2>1, <2>2, <2>3
<1>3. ASSUME NEW x \in R PROVE x \in Told(s)
  <2>1. x[1] \in 1..Len(s) /\ x[2] \in 1..(MaxSeq + 1) /\ x[2] <= Weight(s[x[1]]) /\ x = <<x[1], x[2]>>
    BY <1>3
  <2>2. x[2] \in 1..Weight(s[x[1]])
    BY <1>1, <2>1, SizesAssumption
  <2>3. x \in {x[1]} \X (1..Weight(s[x[1]]))
    BY <2>1, <2>2
  <2> QED
    BY <2>1, <2>3 DEF Told
<1> QED
  BY <1>2, <1>3

\* Only finitely many messages are told about.
LEMMA ToldFinite ==
    ASSUME NEW s \in Seq(Frame)
    PROVE  IsFiniteSet(Told(s)) /\ Accounted(s) \in Nat
<1>1. IsFiniteSet(1..Len(s)) /\ IsFiniteSet(1..(MaxSeq + 1))
  BY FS_Interval, SizesAssumption
<1>2. IsFiniteSet((1..Len(s)) \X (1..(MaxSeq + 1)))
  BY <1>1, FS_Product
<1>3. Told(s) \in SUBSET ((1..Len(s)) \X (1..(MaxSeq + 1)))
  BY ToldIs
<1>4. IsFiniteSet(Told(s))
  BY <1>2, <1>3, FS_Subset
<1> QED
  BY <1>4, FS_CardinalityType DEF Accounted

\* An empty channel tells of nothing.
LEMMA AccountedEmpty == Accounted(<<>>) = 0
<1>1. Told(<<>>) = {}
  BY DEF Told
<1> QED
  BY <1>1, FS_EmptySet DEF Accounted

\* One frame tells of as many messages as it weighs, wherever it stands.
LEMMA FrameCount ==
    ASSUME NEW k, NEW n \in Nat
    PROVE  IsFiniteSet({k} \X (1..n)) /\ Cardinality({k} \X (1..n)) = n
<1>1. IsFiniteSet({k}) /\ Cardinality({k}) = 1
  BY FS_Singleton
<1>2. IsFiniteSet(1..n) /\ Cardinality(1..n) = n
  BY FS_Interval
<1>3. IsFiniteSet({k} \X (1..n)) /\ Cardinality({k} \X (1..n)) = Cardinality({k}) * Cardinality(1..n)
  BY <1>1, <1>2, FS_Product, Zenon
<1>4. 1 * n = n
  OBVIOUS
<1> QED
  BY <1>1, <1>2, <1>3, <1>4, Zenon

\* try_send (and write_frame) append a frame: its messages are added.
LEMMA AccountedAppend ==
    ASSUME NEW s \in Seq(Frame), NEW e \in Frame
    PROVE  Accounted(Append(s, e)) = Accounted(s) + Weight(e)
<1> DEFINE t == Append(s, e)
           n == Len(s) + 1
           N == {n} \X (1..Weight(e))
<1>1. t \in Seq(Frame) /\ Len(t) = n /\ t[n] = e /\ \A k \in 1..Len(s) : t[k] = s[k]
  OBVIOUS
<1>2. Told(t) = Told(s) \cup N
  <2> HIDE DEF t
  <2>1. 1..Len(t) = (1..Len(s)) \cup {n}
    BY <1>1
  <2> QED
    BY <1>1, <2>1 DEF Told
<1>3. Told(s) \cap N = {}
  BY ToldIs
<1>4. IsFiniteSet(N) /\ Cardinality(N) = Weight(e)
  <2>1. Weight(e) \in Nat
    BY WeightType, SizesAssumption
  <2> QED
    BY <2>1, FrameCount, Zenon
<1>5. Cardinality(Told(s) \cup N) = Cardinality(Told(s)) + Cardinality(N) - Cardinality(Told(s) \cap N)
  BY <1>4, ToldFinite, FS_Union
<1>6. Cardinality(Told(t)) = Cardinality(Told(s)) + Weight(e) - 0
  BY <1>2, <1>3, <1>4, <1>5, FS_EmptySet, Zenon
<1>7. Accounted(s) \in Nat /\ Weight(e) \in Nat
  BY ToldFinite, WeightType, SizesAssumption
<1>8. Accounted(t) = Accounted(s) + Weight(e) - 0
  BY <1>6, Zenon DEF Accounted
<1> HIDE DEF t
<1>9. Accounted(t) = Accounted(s) + Weight(e)
  BY <1>7, <1>8
<1> QED
  BY <1>9, Zenon DEF t

\* recv takes the first frame: its messages leave the channel.
LEMMA AccountedTail ==
    ASSUME NEW s \in Seq(Frame), s # <<>>
    PROVE  Accounted(s) = Accounted(Tail(s)) + Weight(Head(s))
<1> DEFINE t == Tail(s)
           w == Weight(s[1])
           H == {1} \X (1..w)
           R == Told(s) \ H
           shift == [x \in Told(t) |-> <<x[1] + 1, x[2]>>]
<1>1. t \in Seq(Frame) /\ Len(s) \in Nat \ {0} /\ Len(t) = Len(s) - 1 /\ Head(s) = s[1]
      /\ s[1] \in Frame /\ \A k \in 1..Len(t) : t[k] = s[k + 1]
  OBVIOUS
<1>2. w \in Nat
  BY <1>1, WeightType, SizesAssumption
<1>3. IsFiniteSet(H) /\ Cardinality(H) = w
  BY <1>2, FrameCount
<1>4. Told(s) = {x \in (1..Len(s)) \X (1..(MaxSeq + 1)) : x[2] <= Weight(s[x[1]])}
  BY ToldIs
<1>5. Told(t) = {x \in (1..Len(t)) \X (1..(MaxSeq + 1)) : x[2] <= Weight(t[x[1]])}
  BY <1>1, ToldIs
<1>6. H \subseteq Told(s)
  BY <1>1 DEF Told
<1> HIDE DEF t, w
<1>7. \A x : x \in R <=> x \in Told(s) /\ x[1] # 1
  <2>1. ASSUME NEW x \in Told(s), x[1] = 1 PROVE x \in H
    BY <1>1, <1>2, <1>4, <2>1 DEF w
  <2>2. \A x \in H : x[1] = 1
    OBVIOUS
  <2> QED
    BY <2>1, <2>2
<1>8. ASSUME NEW x \in Told(t) PROVE <<x[1] + 1, x[2]>> \in R
  BY <1>1, <1>4, <1>5, <1>7, <1>8
<1>9. ASSUME NEW y \in R PROVE \E x \in Told(t) : <<x[1] + 1, x[2]>> = y
  <2>1. y[1] \in 2..Len(s) /\ y[2] \in 1..(MaxSeq + 1) /\ y[2] <= Weight(s[y[1]]) /\ y = <<y[1], y[2]>>
    BY <1>1, <1>4, <1>7, <1>9
  <2>2. <<y[1] - 1, y[2]>> \in Told(t)
    BY <1>1, <1>5, <2>1
  <2> QED
    BY <2>1, <2>2
<1>10. shift \in Bijection(Told(t), R)
  <2>1. shift \in [Told(t) -> R]
    BY <1>8
  <2>2. ASSUME NEW x \in Told(t), NEW y \in Told(t), shift[x] = shift[y] PROVE x = y
    <3>1. x[1] \in Int /\ y[1] \in Int /\ x = <<x[1], x[2]>> /\ y = <<y[1], y[2]>>
      BY <1>1, <1>5
    <3>2. <<x[1] + 1, x[2]>> = <<y[1] + 1, y[2]>>
      BY <2>2
    <3>3. x[1] + 1 = y[1] + 1 /\ x[2] = y[2]
      BY <3>2
    <3> QED
      BY <3>1, <3>3
  <2>3. \A y \in R : \E x \in Told(t) : shift[x] = y
    BY <1>9
  <2> QED
    BY <2>1, <2>2, <2>3 DEF Bijection, Injection, Surjection, IsInjective
<1>11. Cardinality(R) = Cardinality(Told(t))
  BY <1>1, <1>10, ToldFinite, FS_Bijection DEF ExistsBijection
<1>12. Cardinality(R) = Cardinality(Told(s)) - Cardinality(Told(s) \cap H)
  BY ToldFinite, FS_Difference
<1>13. Told(s) \cap H = H
  BY <1>6
<1>14. Accounted(t) = Accounted(s) - w
  BY <1>3, <1>11, <1>12, <1>13, Zenon DEF Accounted
<1>15. Accounted(s) \in Nat /\ Accounted(t) \in Nat
  BY <1>1, ToldFinite
<1>16. Accounted(s) = Accounted(t) + w
  BY <1>2, <1>14, <1>15
<1> QED
  BY <1>1, <1>16, Zenon DEF t, w

-----------------------------------------------------------------------------
(* Facts that several steps need.                                          *)

PCs == {"off", "select", "ack", "receipt", "named", "drained", "live", "leaving", "closed"}

\* The parts make up the type invariant.
LEMMA TypeParts == TypeOK <=> IngestOK /\ StoreOK /\ ReadersOK /\ StreamsOK
BY DEF TypeOK, IngestOK, StoreOK, ReadersOK, StreamsOK

\* An order in which a push visits the registry names every subscriber, once.
LEMMA OrderOf ==
    ASSUME NEW S, IsFiniteSet(S), NEW order \in SetToSeqs(S)
    PROVE  /\ order \in Seq(S)
           /\ Range(order) = S
           /\ \A k, l \in 1..Len(order) : order[k] = order[l] => k = l
<1> DEFINE n == Cardinality(S)
<1>1. n \in Nat
  BY FS_CardinalityType
<1>2. order \in [1..n -> S] /\ \A k, l \in 1..n : k # l => order[k] # order[l]
  BY DEF SetToSeqs
<1>3. Cardinality(1..n) = n
  BY <1>1, FS_Interval
<1> HIDE DEF n
<1>4. order \in Injection(1..n, S)
  BY <1>2 DEF Injection, IsInjective
<1>5. order \in Surjection(1..n, S)
  BY <1>3, <1>4, FS_Injection DEF n
<1>6. order \in Seq(S) /\ Len(order) = n
  BY <1>1, <1>2
<1>7. Range(order) = S
  BY <1>2, <1>5 DEF Surjection, Range
<1> QED
  BY <1>2, <1>6, <1>7

\* What is left of a push once its first subscriber has been visited.
LEMMA RestOf ==
    ASSUME NEW S, NEW q \in Seq(S), q # <<>>,
           \A k, l \in 1..Len(q) : q[k] = q[l] => k = l
    PROVE  /\ Head(q) \in S /\ Head(q) \in Range(q) /\ Head(q) = q[1]
           /\ Tail(q) \in Seq(S) /\ Len(q) \in Nat \ {0}
           /\ Head(q) \notin Range(Tail(q))
           /\ \A x : x # Head(q) => (x \in Range(Tail(q)) <=> x \in Range(q))
           /\ \A k, l \in 1..Len(Tail(q)) : Tail(q)[k] = Tail(q)[l] => k = l
           /\ \A k \in 1..Len(Tail(q)) : k + 1 \in 1..Len(q) /\ Tail(q)[k] = q[k + 1]
<1> DEFINE t == Tail(q)
<1>1. t \in Seq(S) /\ Len(q) \in Nat \ {0} /\ Len(t) = Len(q) - 1 /\ Head(q) = q[1] /\ q[1] \in S
      /\ 1 \in 1..Len(q) /\ DOMAIN q = 1..Len(q) /\ DOMAIN t = 1..Len(t)
  OBVIOUS
<1>2. \A k \in 1..Len(t) : k + 1 \in 1..Len(q) /\ t[k] = q[k + 1]
  BY <1>1
<1> HIDE DEF t
<1>3. q[1] \in Range(q)
  BY <1>1 DEF Range
<1>4. q[1] \notin Range(t)
  BY <1>1, <1>2 DEF Range
<1>5. \A k, l \in 1..Len(t) : t[k] = t[l] => k = l
  BY <1>1, <1>2
<1>6. ASSUME NEW x, x # q[1] PROVE x \in Range(t) <=> x \in Range(q)
  <2>1. x \in Range(t) => x \in Range(q)
    BY <1>1, <1>2 DEF Range
  <2>2. ASSUME x \in Range(q) PROVE x \in Range(t)
    <3>1. PICK k \in 1..Len(q) : x = q[k]
      BY <1>1, <2>2 DEF Range
    <3>2. k # 1
      BY <1>6, <3>1
    <3>3. k - 1 \in 1..Len(t) /\ t[k - 1] = q[k]
      BY <1>1, <1>2, <3>1, <3>2
    <3> QED
      BY <1>1, <3>1, <3>3 DEF Range
  <2> QED
    BY <2>1, <2>2
<1> QED
  BY <1>1, <1>2, <1>3, <1>4, <1>5, <1>6 DEF t

\* The smaller of two numbers: LIMIT and the end of the table.
LEMMA MinOfTwo ==
    ASSUME NEW a \in Int, NEW b \in Int
    PROVE  Min({a, b}) = IF a <= b THEN a ELSE b
<1> DEFINE m == IF a <= b THEN a ELSE b
<1>1. m \in {a, b} /\ \A y \in {a, b} : m <= y
  OBVIOUS
<1>2. \A x \in {a, b} : (\A y \in {a, b} : x <= y) => x = m
  OBVIOUS
<1> HIDE DEF m
<1>3. Min({a, b}) = m
  BY <1>1, <1>2 DEF Min
<1> QED
  BY <1>3 DEF m

\* A process moves on, outside the registry or inside it: neither the push nor
\* what the streams account for notices.
LEMMA ReaderMoves ==
    ASSUME IInv, NEW f \in Readers, NEW v \in PCs,
           pc' = [pc EXCEPT ![f] = v],
           UNCHANGED <<stored, pushed, ingest, todo, hung, base, dropped, chan, out>>,
           base[f] = -1 => v \in {"off", "select", "ack", "receipt", "named", "drained"},
           base[f] # -1 => pc[f] \in {"ack", "receipt", "live"} /\ v \in {"ack", "receipt", "live"}
    PROVE  IngestOK' /\ StreamsOK' /\ PushInv' /\ RegistryInv' /\ LagExact'
<1> USE DEF IInv
<1>1. IngestOK' /\ StreamsOK'
  BY DEF IngestOK, StreamsOK
<1>2. \A g \in Readers : base[g] \in -1..MaxSeq /\ (g # f => pc'[g] = pc[g]) /\ pc'[f] = v
  BY DEF ReadersOK
<1>3. \A g \in Readers : Registered(g)' <=> Registered(g)
  BY <1>2 DEF Registered
<1>4. PushInv'
  <2>1. \A k \in 1..Len(todo) : todo[k] \in Readers
    BY DEF IngestOK
  <2> QED
    BY <1>3, <2>1 DEF PushInv, Locked
<1>5. RegistryInv'
  BY <1>2 DEF RegistryInv
<1>6. LagExact'
  BY <1>3 DEF LagExact, Subscribers
<1> QED
  BY <1>1, <1>4, <1>5, <1>6

\* Store::ack of a row that was given, or of a SEQ that was named: the cursor
\* goes there or stays, and what receipts answer for is passed all the same.
LEMMA AckMoves ==
    ASSUME IInv, NEW q \in Int, q \in got \cup named',
           cursor' = (IF q > cursor THEN q ELSE cursor),
           named \subseteq named', named' \subseteq Acks, UNCHANGED <<receipted, got>>
    PROVE  StoreOK' /\ AckedWasGivenOrNamed' /\ cursor' >= cursor /\ q <= cursor'
<1> USE DEF IInv
<1>1. cursor \in Nat
  BY DEF StoreOK
<1>2. cursor' \in Nat /\ cursor' >= cursor /\ q <= cursor'
  BY <1>1
<1>3. StoreOK'
  BY <1>2 DEF StoreOK
<1>4. cursor' > 0 => cursor' \in got \cup named'
  BY <1>1 DEF AckedWasGivenOrNamed
<1>5. 1..cursor \subseteq 1..cursor'
  BY <1>1, <1>2
<1>6. AckedWasGivenOrNamed'
  BY <1>4, <1>5 DEF AckedWasGivenOrNamed
<1> QED
  BY <1>2, <1>3, <1>6

\* maybe_read_receipt for what has been acknowledged.
LEMMA ReceiptMoves ==
    ASSUME IInv, NEW q \in Int, q \in got \cup named, q <= cursor,
           receipted' = receipted \cup ({q} \cap 1..stored),
           UNCHANGED <<cursor, got, named>>
    PROVE  StoreOK' /\ AckedWasGivenOrNamed'
<1> USE DEF IInv
<1>1. cursor \in Nat /\ stored \in 0..MaxSeq
  BY DEF StoreOK, IngestOK
<1>2. {q} \cap 1..stored \subseteq 1..MaxSeq
  BY <1>1, SizesAssumption
<1>3. {q} \cap 1..stored \subseteq (got \cup named) \cap 1..cursor
  BY <1>1
<1> QED
  BY <1>2, <1>3 DEF StoreOK, AckedWasGivenOrNamed

\* What a process acknowledges is a number.
LEMMA AckOfType ==
    ASSUME IInv, NEW f \in Readers, pc[f] \in {"ack", "receipt", "named"}
    PROVE  AckOf(f) \in Int
<1> USE DEF IInv
<1>1. got \subseteq Int
  <2>1. 1..MaxSeq \subseteq Int
    BY SizesAssumption
  <2> QED
    BY <2>1 DEF StoreOK
<1>2. named \subseteq Int
  BY ReadersAssumption DEF StoreOK
<1>3. AckOf(f) \in got \cup named
  BY DEF GivenInv
<1> QED
  BY <1>1, <1>2, <1>3

\* The cursor moves on: what other processes owe a receipt for stays passed.
LEMMA GivenKept ==
    ASSUME IInv, NEW f \in Readers,
           cursor' \in Nat, cursor' >= cursor, named \subseteq named', UNCHANGED <<got, base, out>>,
           \A g \in Readers : g # f => pc'[g] = pc[g] /\ batch'[g] = batch[g],
           pc'[f] \in {"ack", "receipt"} =>
              AckOf(f)' \in got /\ (base[f] # -1 => out[f] # <<>>),
           pc'[f] = "named" => AckOf(f)' \in named',
           pc'[f] \in {"receipt", "named"} => AckOf(f)' <= cursor'
    PROVE  GivenInv'
<1> USE DEF IInv
<1>1. cursor \in Int
  BY DEF StoreOK
<1>2. ASSUME NEW g \in Readers, g # f
      PROVE  AckOf(g)' = AckOf(g) /\ pc'[g] = pc[g] /\ out'[g] = out[g] /\ base'[g] = base[g]
  BY <1>2 DEF AckOf
<1>3. ASSUME NEW g \in Readers, g # f, pc[g] \in {"receipt", "named"}
      PROVE  AckOf(g)' <= cursor'
  <2>1. AckOf(g) \in Int /\ AckOf(g) <= cursor
    BY <1>3, AckOfType DEF GivenInv
  <2> QED
    BY <1>1, <1>2, <1>3, <2>1
<1> QED
  BY <1>2, <1>3 DEF GivenInv

-----------------------------------------------------------------------------
(* A CLI process up to its subscription.                                   *)

\* Reading the cursor keeps the invariant.
LEMMA ReadCursorInv == ASSUME IInv, NEW f \in Readers, ReadCursor(f) PROVE IInv'
<1> USE DEF IInv
<1>1. /\ pc' = [pc EXCEPT ![f] = "select"] /\ pc[f] = "off"
      /\ batch' = [batch EXCEPT ![f] = [after |-> cursor, last |-> cursor]]
      /\ UNCHANGED <<stored, pushed, ingest, todo, cursor, receipted, got, named, hung, base,
                     dropped, chan, out>>
  BY DEF ReadCursor, streams
<1>2. base[f] = -1
  BY <1>1 DEF RegistryInv
<1>3. IngestOK' /\ StreamsOK' /\ PushInv' /\ RegistryInv' /\ LagExact'
  BY <1>1, <1>2, ReaderMoves DEF PCs
<1>4. StoreOK' /\ AckedWasGivenOrNamed'
  BY <1>1 DEF StoreOK, AckedWasGivenOrNamed
<1>5. ReadersOK'
  BY <1>1 DEF ReadersOK, StoreOK
<1>6. GivenInv'
  BY <1>1 DEF GivenInv, AckOf, ReadersOK
<1> QED
  BY <1>3, <1>4, <1>5, <1>6

\* Selecting a batch keeps the invariant: its last row is one the process is given.
LEMMA ReadSelectInv == ASSUME IInv, NEW f \in Readers, ReadSelect(f) PROVE IInv'
<1> USE DEF IInv
<1> DEFINE after == batch[f].after
           last == Min({stored, after + Limit})
           v == IF f \in Acking /\ last > after THEN "ack" ELSE "drained"
<1>1. /\ pc' = [pc EXCEPT ![f] = v] /\ pc[f] = "select"
      /\ batch' = [batch EXCEPT ![f].last = last]
      /\ got' = got \cup (after + 1)..last
      /\ UNCHANGED <<stored, pushed, ingest, todo, cursor, receipted, named, hung, base, dropped,
                     chan, out>>
  BY DEF ReadSelect, streams
<1>2. base[f] = -1
  BY <1>1 DEF RegistryInv
<1>3. after \in Nat /\ stored \in 0..MaxSeq
  BY DEF ReadersOK, IngestOK
<1>4. last \in 0..MaxSeq
  BY <1>3, MinOfTwo, SizesAssumption
<1>5. v \in {"ack", "drained"} /\ (v = "ack" => last > after)
  OBVIOUS
<1> HIDE DEF v, last
<1>6. IngestOK' /\ StreamsOK' /\ PushInv' /\ RegistryInv' /\ LagExact'
  BY <1>1, <1>2, <1>5, ReaderMoves DEF PCs
<1>7. StoreOK' /\ AckedWasGivenOrNamed'
  BY <1>1, <1>3, <1>4, SizesAssumption DEF StoreOK, AckedWasGivenOrNamed
<1>8. ReadersOK'
  BY <1>1, <1>4, <1>5 DEF ReadersOK
<1>9. v = "ack" => last \in got'
  BY <1>1, <1>3, <1>4, <1>5
<1>10. GivenInv'
  <2>1. batch'[f].last = last /\ pc'[f] = v /\ base'[f] = -1
    BY <1>1, <1>2 DEF ReadersOK
  <2>2. \A g \in Readers : g # f => batch'[g] = batch[g] /\ pc'[g] = pc[g]
    BY <1>1 DEF ReadersOK
  <2>3. /\ \A g \in Readers : base'[g] = base[g] /\ out'[g] = out[g]
        /\ got \subseteq got' /\ named' = named /\ cursor' = cursor
    BY <1>1
  <2> QED
    BY <1>5, <1>9, <2>1, <2>2, <2>3 DEF GivenInv, AckOf
<1> QED
  BY <1>6, <1>7, <1>8, <1>10

\* Store::ack of a batch keeps the invariant.
LEMMA AckBatchInv == ASSUME IInv, NEW f \in Readers, AckBatch(f) PROVE IInv'
<1> USE DEF IInv
<1>1. /\ pc' = [pc EXCEPT ![f] = "receipt"] /\ pc[f] = "ack" /\ ~(base[f] >= 0)
      /\ cursor' = (IF batch[f].last > cursor THEN batch[f].last ELSE cursor)
      /\ UNCHANGED <<stored, pushed, ingest, todo, receipted, got, named, batch, hung, base,
                     dropped, chan, out>>
  BY DEF AckBatch, AckUpTo, Registered, streams
<1>2. base[f] = -1 /\ batch[f].last \in got /\ batch[f].last \in Int
  BY <1>1 DEF ReadersOK, GivenInv, AckOf
<1>3. IngestOK' /\ StreamsOK' /\ PushInv' /\ RegistryInv' /\ LagExact'
  BY <1>1, <1>2, ReaderMoves DEF PCs
<1>4. named' \subseteq Acks
  BY <1>1 DEF StoreOK
<1>5. StoreOK' /\ AckedWasGivenOrNamed' /\ cursor' >= cursor /\ batch[f].last <= cursor'
  BY <1>1, <1>2, <1>4, AckMoves
<1>6. ReadersOK'
  BY <1>1 DEF ReadersOK
<1>7. GivenInv'
  <2>1. pc'[f] = "receipt" /\ \A g \in Readers : g # f => pc'[g] = pc[g]
    BY <1>1 DEF ReadersOK
  <2>2. AckOf(f)' = batch[f].last
    BY <1>1, <1>2 DEF AckOf
  <2> QED
    BY <1>1, <1>2, <1>5, <2>1, <2>2, GivenKept DEF StoreOK
<1> QED
  BY <1>3, <1>5, <1>6, <1>7

\* The read receipt of a batch keeps the invariant.
LEMMA ReceiptBatchInv == ASSUME IInv, NEW f \in Readers, ReceiptBatch(f) PROVE IInv'
<1> USE DEF IInv
<1>1. /\ pc' = [pc EXCEPT ![f] = "drained"] /\ pc[f] = "receipt" /\ ~(base[f] >= 0)
      /\ receipted' = receipted \cup ({batch[f].last} \cap 1..stored)
      /\ UNCHANGED <<stored, pushed, ingest, todo, cursor, got, named, batch, hung, base,
                     dropped, chan, out>>
  BY DEF ReceiptBatch, MaybeReadReceipt, Registered, streams
<1>2. base[f] = -1 /\ batch[f].last \in got /\ batch[f].last \in Int /\ batch[f].last <= cursor
  BY <1>1 DEF ReadersOK, GivenInv, AckOf
<1>3. IngestOK' /\ StreamsOK' /\ PushInv' /\ RegistryInv' /\ LagExact'
  BY <1>1, <1>2, ReaderMoves DEF PCs
<1>4. StoreOK' /\ AckedWasGivenOrNamed'
  BY <1>1, <1>2, ReceiptMoves
<1>5. ReadersOK'
  BY <1>1 DEF ReadersOK
<1>6. GivenInv'
  BY <1>1 DEF GivenInv, AckOf, ReadersOK
<1> QED
  BY <1>3, <1>4, <1>5, <1>6

\* The end of a read without --follow keeps the invariant.
LEMMA ReadEndsInv == ASSUME IInv, NEW f \in Readers, ReadEnds(f) PROVE IInv'
<1> USE DEF IInv
<1>1. /\ pc' = [pc EXCEPT ![f] = "off"] /\ pc[f] = "drained"
      /\ batch' = [batch EXCEPT ![f] = [after |-> 0, last |-> 0]]
      /\ UNCHANGED <<stored, pushed, ingest, todo, cursor, receipted, got, named, hung, base,
                     dropped, chan, out>>
  BY DEF ReadEnds, streams
<1>2. base[f] = -1
  BY <1>1 DEF RegistryInv
<1>3. IngestOK' /\ StreamsOK' /\ PushInv' /\ RegistryInv' /\ LagExact'
  BY <1>1, <1>2, ReaderMoves DEF PCs
<1>4. StoreOK' /\ AckedWasGivenOrNamed'
  BY <1>1 DEF StoreOK, AckedWasGivenOrNamed
<1>5. ReadersOK'
  BY <1>1, SizesAssumption DEF ReadersOK
<1>6. GivenInv'
  BY <1>1 DEF GivenInv, AckOf, ReadersOK
<1> QED
  BY <1>3, <1>4, <1>5, <1>6

\* An ack command keeps the invariant, whatever number it names: the cursor is
\* on a SEQ that was named, or stays.
LEMMA AckCommandInv ==
    ASSUME IInv, NEW f \in Readers, NEW seq \in Acks, AckCommand(f, seq) PROVE IInv'
<1> USE DEF IInv
<1>1. /\ pc' = [pc EXCEPT ![f] = "named"] /\ pc[f] = "off"
      /\ cursor' = (IF seq > cursor THEN seq ELSE cursor)
      /\ named' = named \cup {seq}
      /\ batch' = [batch EXCEPT ![f] = [after |-> 0, last |-> seq]]
      /\ UNCHANGED <<stored, pushed, ingest, todo, receipted, got, hung, base, dropped, chan, out>>
  BY DEF AckCommand, AckUpTo, streams
<1>2. base[f] = -1 /\ seq \in Int
  BY <1>1, ReadersAssumption DEF RegistryInv
<1>3. IngestOK' /\ StreamsOK' /\ PushInv' /\ RegistryInv' /\ LagExact'
  BY <1>1, <1>2, ReaderMoves DEF PCs
<1>4. named \subseteq named' /\ named' \subseteq Acks
  BY <1>1 DEF StoreOK
<1>5. StoreOK' /\ AckedWasGivenOrNamed' /\ cursor' >= cursor /\ seq <= cursor'
  BY <1>1, <1>2, <1>4, AckMoves
<1>6. ReadersOK'
  BY <1>1, <1>2 DEF ReadersOK
<1>7. GivenInv'
  <2>1. pc'[f] = "named" /\ batch'[f].last = seq
    BY <1>1 DEF ReadersOK
  <2>2. \A g \in Readers : g # f => pc'[g] = pc[g] /\ batch'[g] = batch[g]
    BY <1>1 DEF ReadersOK
  <2>3. AckOf(f)' = seq
    BY <1>1, <1>2, <2>1 DEF AckOf
  <2> QED
    BY <1>1, <1>4, <1>5, <2>1, <2>2, <2>3, GivenKept DEF StoreOK
<1> QED
  BY <1>3, <1>5, <1>6, <1>7

\* The read receipt of an ack command keeps the invariant.
LEMMA ReceiptNamedInv == ASSUME IInv, NEW f \in Readers, ReceiptNamed(f) PROVE IInv'
<1> USE DEF IInv
<1>1. /\ pc' = [pc EXCEPT ![f] = "off"] /\ pc[f] = "named"
      /\ receipted' = receipted \cup ({batch[f].last} \cap 1..stored)
      /\ batch' = [batch EXCEPT ![f] = [after |-> 0, last |-> 0]]
      /\ UNCHANGED <<stored, pushed, ingest, todo, cursor, got, named, hung, base, dropped, chan,
                     out>>
  BY DEF ReceiptNamed, MaybeReadReceipt, streams
<1>2. base[f] = -1
  BY <1>1 DEF RegistryInv
<1>3. batch[f].last \in named /\ batch[f].last \in Int /\ batch[f].last <= cursor
  BY <1>1, <1>2 DEF ReadersOK, GivenInv, AckOf
<1>4. IngestOK' /\ StreamsOK' /\ PushInv' /\ RegistryInv' /\ LagExact'
  BY <1>1, <1>2, ReaderMoves DEF PCs
<1>5. StoreOK' /\ AckedWasGivenOrNamed'
  BY <1>1, <1>3, ReceiptMoves
<1>6. ReadersOK'
  BY <1>1 DEF ReadersOK
<1>7. GivenInv'
  BY <1>1 DEF GivenInv, AckOf, ReadersOK
<1> QED
  BY <1>4, <1>5, <1>6, <1>7

\* A registration keeps the invariant: the registry lock keeps it out of a
\* running push, so the new subscriber owes and is owed nothing.
LEMMA SubscribeInv == ASSUME IInv, NEW f \in Readers, SubscribeFollow(f) PROVE IInv'
<1> USE DEF IInv
<1>1. /\ pc' = [pc EXCEPT ![f] = "live"] /\ pc[f] = "drained" /\ ~Locked
      /\ base' = [base EXCEPT ![f] = pushed]
      /\ batch' = [batch EXCEPT ![f] = [after |-> 0, last |-> 0]]
      /\ UNCHANGED <<stored, pushed, ingest, todo, cursor, receipted, got, named, hung, dropped,
                     chan, out>>
  BY DEF SubscribeFollow, streams
<1>2. base[f] = -1 /\ chan[f] = <<>> /\ out[f] = <<>> /\ dropped[f] = 0
  BY <1>1 DEF RegistryInv
<1>3. todo = <<>> /\ Range(todo) = {} /\ pushed \in 0..MaxSeq
  BY <1>1 DEF PushInv, Range, IngestOK
<1>4. IngestOK' /\ StreamsOK' /\ StoreOK' /\ AckedWasGivenOrNamed'
  BY <1>1 DEF IngestOK, StreamsOK, StoreOK, AckedWasGivenOrNamed
<1>5. ReadersOK'
  BY <1>1, <1>3, SizesAssumption DEF ReadersOK
<1>6. GivenInv'
  BY <1>1 DEF GivenInv, AckOf, ReadersOK
<1>7. PushInv'
  BY <1>1, <1>3 DEF PushInv, Locked
<1>8. \A g \in Readers : g # f => pc'[g] = pc[g] /\ base'[g] = base[g]
  BY <1>1 DEF ReadersOK
<1>9. pc'[f] = "live" /\ base'[f] = pushed
  BY <1>1 DEF ReadersOK
<1>10. RegistryInv'
  BY <1>1, <1>3, <1>8, <1>9 DEF RegistryInv
<1>11. LagExact'
  <2>1. ASSUME NEW g \in Readers, g # f, Registered(g)', g \notin hung'
        PROVE  Accounted(out'[g]) + Accounted(chan'[g]) + dropped'[g]
                 = pushed' - base'[g] - (IF g \in Range(todo') THEN 1 ELSE 0)
    BY <1>1, <1>8, <2>1 DEF LagExact, Subscribers, Registered
  <2>2. Accounted(out'[f]) + Accounted(chan'[f]) + dropped'[f]
          = pushed' - base'[f] - (IF f \in Range(todo') THEN 1 ELSE 0)
    BY <1>1, <1>2, <1>3, <1>9, AccountedEmpty
  <2> QED
    BY <2>1, <2>2 DEF LagExact, Subscribers
<1> QED
  BY <1>4, <1>5, <1>6, <1>7, <1>10, <1>11

-----------------------------------------------------------------------------
(* The forwarding thread.                                                  *)

\* The head of a non-empty run of frames.
LEMMA FramesHead ==
    ASSUME NEW s \in Seq(Frame), s # <<>>
    PROVE  /\ Head(s) \in Frame /\ Tail(s) \in Seq(Frame)
           /\ Len(s) \in Nat \ {0} /\ Len(Tail(s)) = Len(s) - 1
OBVIOUS

\* A frame at the end of a run of frames.
LEMMA FramesAppend ==
    ASSUME NEW s \in Seq(Frame), NEW e \in Frame
    PROVE  /\ Append(s, e) \in Seq(Frame) /\ Append(s, e) # <<>>
           /\ Len(Append(s, e)) = Len(s) + 1 /\ Len(s) \in Nat
           /\ Append(s, e)[Len(Append(s, e))] = e
OBVIOUS

\* Writing a frame keeps the invariant: what leaves the channel is written.
LEMMA ForwardInv == ASSUME IInv, NEW f \in Readers, Forward(f) PROVE IInv'
<1> USE DEF IInv
<1> DEFINE frame == Head(chan[f])
           rest == Tail(chan[f])
           all == Append(out[f], frame)
           v == IF f \in Acking /\ IsMessage(frame) THEN "ack" ELSE "live"
<1>1. /\ pc' = [pc EXCEPT ![f] = v] /\ pc[f] = "live" /\ chan[f] # <<>>
      /\ out' = [out EXCEPT ![f] = all]
      /\ chan' = [chan EXCEPT ![f] = rest]
      /\ got' = (IF IsMessage(frame) THEN got \cup {frame.seq} ELSE got)
      /\ UNCHANGED <<stored, pushed, ingest, todo, cursor, receipted, named, batch, hung, base,
                     dropped>>
  BY DEF Forward
<1>2. chan[f] \in Seq(Frame) /\ out[f] \in Seq(Frame) /\ dropped[f] \in Nat /\ Len(chan[f]) <= Cap
  BY DEF StreamsOK
<1>3. frame \in Frame /\ rest \in Seq(Frame) /\ Len(rest) <= Cap
  BY <1>1, <1>2, FramesHead, SizesAssumption
<1>4. all \in Seq(Frame) /\ all # <<>> /\ all[Len(all)] = frame
  <2> HIDE DEF frame
  <2> QED
    BY <1>2, <1>3
<1>5. Accounted(all) = Accounted(out[f]) + Weight(frame)
  BY <1>2, <1>3, AccountedAppend
<1>6. Accounted(chan[f]) = Accounted(rest) + Weight(frame)
  BY <1>1, <1>2, AccountedTail
<1>7. Accounted(out[f]) \in Nat /\ Accounted(rest) \in Nat /\ Weight(frame) \in Nat
  <2> HIDE DEF frame, rest
  <2>1. Accounted(out[f]) \in Nat /\ Accounted(rest) \in Nat
    BY <1>2, <1>3, ToldFinite
  <2>2. Weight(frame) \in Nat
    BY <1>3, WeightType, SizesAssumption
  <2> QED
    BY <2>1, <2>2
<1>8. v \in {"ack", "live"} /\ (v = "ack" => frame.seq \in got')
  BY <1>1
<1>9. base[f] >= 0 /\ base[f] \in Int
  BY <1>1 DEF RegistryInv, ReadersOK
<1>10. got' \subseteq got \cup {frame.seq} /\ got \subseteq got' /\ got' \subseteq 1..MaxSeq
  <2> HIDE DEF frame
  <2>1. frame.seq \in 0..MaxSeq
    BY <1>3 DEF Frame
  <2>2. got' = (IF frame.seq # 0 THEN got \cup {frame.seq} ELSE got)
    BY <1>1 DEF IsMessage
  <2>3. got \subseteq 1..MaxSeq
    BY DEF StoreOK
  <2>4. CASE frame.seq = 0
    BY <2>2, <2>3, <2>4
  <2>5. CASE frame.seq # 0
    <3>1. frame.seq \in 1..MaxSeq
      BY <2>1, <2>5
    <3> QED
      BY <2>2, <2>3, <2>5, <3>1
  <2> QED
    BY <2>4, <2>5
<1> HIDE DEF frame, rest, all, v
<1>11. /\ pc'[f] = v /\ out'[f] = all /\ chan'[f] = rest
       /\ \A g \in Readers : g # f => pc'[g] = pc[g] /\ out'[g] = out[g] /\ chan'[g] = chan[g]
  BY <1>1 DEF ReadersOK, StreamsOK
<1>12. IngestOK'
  BY <1>1 DEF IngestOK
<1>13. StoreOK' /\ AckedWasGivenOrNamed'
  BY <1>1, <1>10 DEF StoreOK, AckedWasGivenOrNamed
<1>14. ReadersOK'
  BY <1>1, <1>8 DEF ReadersOK
<1>15. StreamsOK'
  BY <1>1, <1>3, <1>4, <1>11 DEF StreamsOK
<1>16. \A g \in Readers : Registered(g)' <=> Registered(g)
  BY <1>1, <1>8, <1>11 DEF Registered
<1>17. PushInv'
  <2>1. \A k \in 1..Len(todo) : todo[k] \in Readers
    BY DEF IngestOK
  <2> QED
    BY <1>1, <1>16, <2>1 DEF PushInv, Locked
<1>18. RegistryInv'
  BY <1>1, <1>8, <1>9, <1>11 DEF RegistryInv
<1>19. GivenInv'
  <2>1. \A g \in Readers : g # f => AckOf(g)' = AckOf(g) /\ base'[g] = base[g]
    BY <1>1, <1>11 DEF AckOf
  <2>2. base'[f] # -1 /\ AckOf(f)' = frame.seq
    BY <1>1, <1>4, <1>9, <1>11 DEF AckOf
  <2>3. pc'[f] = "ack" \/ pc'[f] = "live"
    BY <1>8, <1>11
  <2>4. pc'[f] = "ack" => AckOf(f)' \in got' /\ out'[f] # <<>>
    BY <1>4, <1>8, <1>11, <2>2
  <2> QED
    BY <1>1, <1>10, <1>11, <2>1, <2>2, <2>3, <2>4 DEF GivenInv
<1>20. LagExact'
  <2>1. ASSUME NEW g \in Readers, g # f, Registered(g)', g \notin hung'
        PROVE  Accounted(out'[g]) + Accounted(chan'[g]) + dropped'[g]
                 = pushed' - base'[g] - (IF g \in Range(todo') THEN 1 ELSE 0)
    BY <1>1, <1>11, <1>16, <2>1 DEF LagExact, Subscribers
  <2>2. ASSUME Registered(f)', f \notin hung'
        PROVE  Accounted(out'[f]) + Accounted(chan'[f]) + dropped'[f]
                 = pushed' - base'[f] - (IF f \in Range(todo') THEN 1 ELSE 0)
    <3>1. Accounted(out[f]) + Accounted(chan[f]) + dropped[f]
            = pushed - base[f] - (IF f \in Range(todo) THEN 1 ELSE 0)
      BY <1>1, <1>16, <2>2 DEF LagExact, Subscribers
    <3>2. Accounted(all) + Accounted(rest) + dropped[f]
            = Accounted(out[f]) + Accounted(chan[f]) + dropped[f]
      BY <1>2, <1>5, <1>6, <1>7
    <3> QED
      BY <1>1, <1>11, <3>1, <3>2
  <2> QED
    BY <2>1, <2>2 DEF LagExact, Subscribers
<1> QED
  BY <1>12, <1>13, <1>14, <1>15, <1>17, <1>18, <1>19, <1>20

\* Store::ack of a written message keeps the invariant.
LEMMA StreamAckInv == ASSUME IInv, NEW f \in Readers, StreamAck(f) PROVE IInv'
<1> USE DEF IInv
<1> DEFINE q == out[f][Len(out[f])].seq
<1>1. /\ pc' = [pc EXCEPT ![f] = "receipt"] /\ pc[f] = "ack" /\ base[f] >= 0
      /\ cursor' = (IF q > cursor THEN q ELSE cursor)
      /\ UNCHANGED <<stored, pushed, ingest, todo, receipted, got, named, batch, hung, base,
                     dropped, chan, out>>
  BY DEF StreamAck, AckUpTo, Registered, streams, Last
<1>2. base[f] # -1 /\ AckOf(f) = q /\ q \in got /\ q \in Int /\ out[f] # <<>>
  <2>1. base[f] # -1
    BY <1>1 DEF ReadersOK
  <2> QED
    BY <1>1, <2>1, AckOfType DEF GivenInv, AckOf
<1>3. AckOf(f)' = q
  BY <1>1, <1>2 DEF AckOf
<1> HIDE DEF q
<1>4. IngestOK' /\ StreamsOK' /\ PushInv' /\ RegistryInv' /\ LagExact'
  BY <1>1, <1>2, ReaderMoves DEF PCs
<1>5. named' \subseteq Acks
  BY <1>1 DEF StoreOK
<1>6. StoreOK' /\ AckedWasGivenOrNamed' /\ cursor' >= cursor /\ q <= cursor'
  BY <1>1, <1>2, <1>5, AckMoves
<1>7. ReadersOK'
  BY <1>1 DEF ReadersOK
<1>8. GivenInv'
  <2>1. pc'[f] = "receipt" /\ \A g \in Readers : g # f => pc'[g] = pc[g]
    BY <1>1 DEF ReadersOK
  <2> QED
    BY <1>1, <1>2, <1>3, <1>6, <2>1, GivenKept DEF StoreOK
<1> QED
  BY <1>4, <1>6, <1>7, <1>8

\* The read receipt of a written message keeps the invariant.
LEMMA StreamReceiptInv == ASSUME IInv, NEW f \in Readers, StreamReceipt(f) PROVE IInv'
<1> USE DEF IInv
<1> DEFINE q == out[f][Len(out[f])].seq
<1>1. /\ pc' = [pc EXCEPT ![f] = "live"] /\ pc[f] = "receipt" /\ base[f] >= 0
      /\ receipted' = receipted \cup ({q} \cap 1..stored)
      /\ UNCHANGED <<stored, pushed, ingest, todo, cursor, got, named, batch, hung, base,
                     dropped, chan, out>>
  BY DEF StreamReceipt, MaybeReadReceipt, Registered, streams, Last
<1>2. base[f] # -1 /\ q \in got /\ q \in Int /\ q <= cursor
  <2>1. base[f] # -1
    BY <1>1 DEF ReadersOK
  <2> QED
    BY <1>1, <2>1, AckOfType DEF GivenInv, AckOf
<1> HIDE DEF q
<1>3. IngestOK' /\ StreamsOK' /\ PushInv' /\ RegistryInv' /\ LagExact'
  BY <1>1, <1>2, ReaderMoves DEF PCs
<1>4. StoreOK' /\ AckedWasGivenOrNamed'
  BY <1>1, <1>2, ReceiptMoves
<1>5. ReadersOK'
  BY <1>1 DEF ReadersOK
<1>6. GivenInv'
  BY <1>1 DEF GivenInv, AckOf, ReadersOK
<1> QED
  BY <1>3, <1>4, <1>5, <1>6

\* A follower that goes away keeps the invariant.
LEMMA HangUpInv == ASSUME IInv, NEW f \in Readers, HangUp(f) PROVE IInv'
<1> USE DEF IInv
<1>1. /\ hung' = hung \cup {f} /\ base[f] >= 0
      /\ UNCHANGED <<stored, pushed, ingest, todo, cursor, receipted, got, named, pc, batch,
                     base, dropped, chan, out>>
  BY DEF HangUp, Registered, streams
<1>2. base[f] # -1
  BY <1>1 DEF ReadersOK
<1>3. IngestOK' /\ StoreOK' /\ StreamsOK' /\ AckedWasGivenOrNamed'
  BY <1>1 DEF IngestOK, StoreOK, StreamsOK, AckedWasGivenOrNamed
<1>4. ReadersOK'
  BY <1>1 DEF ReadersOK
<1>5. PushInv'
  BY <1>1 DEF PushInv, Locked, Registered
<1>6. RegistryInv' /\ GivenInv'
  BY <1>1, <1>2 DEF RegistryInv, GivenInv, AckOf
<1>7. LagExact'
  BY <1>1 DEF LagExact, Subscribers, Registered
<1> QED
  BY <1>3, <1>4, <1>5, <1>6, <1>7

\* A failed write keeps the invariant: the follower it could not reach is gone.
LEMMA WriteFailsInv == ASSUME IInv, NEW f \in Readers, WriteFails(f) PROVE IInv'
<1> USE DEF IInv
<1> DEFINE rest == Tail(chan[f])
<1>1. /\ pc' = [pc EXCEPT ![f] = "leaving"] /\ pc[f] = "live" /\ chan[f] # <<>> /\ f \in hung
      /\ chan' = [chan EXCEPT ![f] = rest]
      /\ UNCHANGED <<stored, pushed, ingest, todo, cursor, receipted, got, named, batch, hung,
                     base, dropped, out>>
  BY DEF WriteFails
<1>2. rest \in Seq(Frame) /\ Len(rest) <= Cap
  BY <1>1, FramesHead, SizesAssumption DEF StreamsOK
<1>3. base[f] >= 0 /\ base[f] \in Int
  BY <1>1 DEF RegistryInv, ReadersOK
<1> HIDE DEF rest
<1>4. /\ pc'[f] = "leaving" /\ chan'[f] = rest
      /\ \A g \in Readers : g # f => pc'[g] = pc[g] /\ chan'[g] = chan[g]
  BY <1>1 DEF ReadersOK, StreamsOK
<1>5. IngestOK' /\ StoreOK' /\ AckedWasGivenOrNamed'
  BY <1>1 DEF IngestOK, StoreOK, AckedWasGivenOrNamed
<1>6. ReadersOK'
  BY <1>1 DEF ReadersOK
<1>7. StreamsOK'
  BY <1>1, <1>2, <1>4 DEF StreamsOK
<1>8. \A g \in Readers : Registered(g)' <=> Registered(g)
  BY <1>1, <1>4 DEF Registered
<1>9. PushInv'
  <2>1. \A k \in 1..Len(todo) : todo[k] \in Readers
    BY DEF IngestOK
  <2> QED
    BY <1>1, <1>8, <2>1 DEF PushInv, Locked
<1>10. RegistryInv' /\ GivenInv'
  BY <1>1, <1>3, <1>4 DEF RegistryInv, GivenInv, AckOf
<1>11. LagExact'
  BY <1>1, <1>4, <1>8 DEF LagExact, Subscribers
<1> QED
  BY <1>5, <1>6, <1>7, <1>9, <1>10, <1>11

\* Leaving the registry keeps the invariant: not while a push visits it.
LEMMA DeregisterInv == ASSUME IInv, NEW f \in Readers, Deregister(f) PROVE IInv'
<1> USE DEF IInv
<1>1. /\ pc' = [pc EXCEPT ![f] = "closed"] /\ pc[f] = "leaving" /\ ~Locked
      /\ chan' = [chan EXCEPT ![f] = <<>>]
      /\ UNCHANGED <<stored, pushed, ingest, todo, cursor, receipted, got, named, batch, hung,
                     base, dropped, out>>
  BY DEF Deregister
<1>2. base[f] >= 0 /\ base[f] \in Int
  BY <1>1 DEF RegistryInv, ReadersOK
<1>3. /\ pc'[f] = "closed" /\ chan'[f] = <<>>
      /\ \A g \in Readers : g # f => pc'[g] = pc[g] /\ chan'[g] = chan[g]
  BY <1>1 DEF ReadersOK, StreamsOK
<1>4. IngestOK' /\ StoreOK' /\ AckedWasGivenOrNamed'
  BY <1>1 DEF IngestOK, StoreOK, AckedWasGivenOrNamed
<1>5. ReadersOK'
  BY <1>1 DEF ReadersOK
<1>6. StreamsOK'
  BY <1>1, <1>3, SizesAssumption DEF StreamsOK
<1>7. PushInv'
  BY <1>1 DEF PushInv, Locked
<1>8. RegistryInv' /\ GivenInv'
  BY <1>1, <1>2, <1>3 DEF RegistryInv, GivenInv, AckOf
<1>9. \A g \in Readers : Registered(g)' => g # f /\ Registered(g)
  BY <1>1, <1>3 DEF Registered
<1>10. LagExact'
  BY <1>1, <1>3, <1>9 DEF LagExact, Subscribers
<1> QED
  BY <1>4, <1>5, <1>6, <1>7, <1>8, <1>10

-----------------------------------------------------------------------------
(* The ingest thread.                                                      *)

\* An insert keeps the invariant: nobody has been told of the row yet.
LEMMA InsertInv == ASSUME IInv, InsertInbound PROVE IInv'
<1> USE DEF IInv
<1>1. /\ ingest = "idle" /\ stored < MaxSeq /\ stored' = stored + 1 /\ ingest' = "stored"
      /\ UNCHANGED <<pushed, todo, cursor, receipted, got, named, pc, batch, hung, base, dropped,
                     chan, out>>
  BY DEF InsertInbound, cli, streams
<1>2. IngestOK'
  BY <1>1, SizesAssumption DEF IngestOK
<1>3. StoreOK' /\ ReadersOK' /\ StreamsOK' /\ AckedWasGivenOrNamed'
  BY <1>1 DEF StoreOK, ReadersOK, StreamsOK, AckedWasGivenOrNamed
<1>4. PushInv'
  BY <1>1 DEF PushInv, Locked, Registered, IngestOK
<1>5. RegistryInv' /\ GivenInv'
  BY <1>1 DEF RegistryInv, GivenInv, AckOf
<1>6. LagExact'
  BY <1>1 DEF LagExact, Subscribers, Registered
<1> QED
  BY <1>2, <1>3, <1>4, <1>5, <1>6

\* Taking the registry lock keeps the invariant: everybody registered is owed the row.
LEMMA PushStartInv == ASSUME IInv, PushStart PROVE IInv'
<1> USE DEF IInv
<1>1. PICK order \in SetToSeqs(Subscribers) :
        /\ todo' = order
        /\ ingest' = IF order = <<>> THEN "idle" ELSE "flush"
  BY DEF PushStart
<1>2. /\ ingest = "stored" /\ pushed' = stored
      /\ UNCHANGED <<stored, cursor, receipted, got, named, pc, batch, hung, base, dropped, chan,
                     out>>
  BY DEF PushStart, cli, streams
<1>3. stored = pushed + 1 /\ todo = <<>> /\ Range(todo) = {} /\ pushed \in Nat
  BY <1>2 DEF PushInv, Locked, Range, IngestOK
<1>4. IsFiniteSet(Subscribers)
  <2>1. Subscribers \in SUBSET Readers
    BY DEF Subscribers
  <2> QED
    BY <2>1, ReadersAssumption, FS_Subset
<1>5. /\ order \in Seq(Subscribers)
      /\ Range(order) = Subscribers
      /\ \A k, l \in 1..Len(order) : order[k] = order[l] => k = l
  BY <1>1, <1>4, OrderOf
<1>6. order \in Seq(Readers) /\ \A k \in 1..Len(order) : order[k] \in Subscribers
  BY <1>5 DEF Subscribers
<1>7. \A g \in Readers : Registered(g)' <=> Registered(g)
  BY <1>2 DEF Registered
<1>8. IngestOK'
  BY <1>1, <1>2, <1>6 DEF IngestOK
<1>9. StoreOK' /\ ReadersOK' /\ StreamsOK' /\ AckedWasGivenOrNamed'
  BY <1>2 DEF StoreOK, ReadersOK, StreamsOK, AckedWasGivenOrNamed
<1>10. PushInv'
  <2>1. \A k \in 1..Len(todo') : Registered(todo[k])'
    BY <1>1, <1>6, <1>7 DEF Subscribers
  <2>2. stored' = pushed' + (IF ingest' = "stored" THEN 1 ELSE 0)
    BY <1>1, <1>2, <1>3
  <2>3. (ingest' \in {"flush", "send"} <=> todo' # <<>>) /\ pushed' > 0
    BY <1>1, <1>2, <1>3
  <2> QED
    BY <1>1, <1>5, <2>1, <2>2, <2>3 DEF PushInv, Locked
<1>11. RegistryInv'
  <2>1. ASSUME NEW g \in Readers
        PROVE dropped'[g] <= pushed' - (IF g \in Range(todo') THEN 1 ELSE 0)
    <3>1. dropped[g] <= pushed /\ dropped[g] \in Nat
      BY <1>3 DEF RegistryInv, StreamsOK
    <3> QED
      BY <1>2, <1>3, <3>1
  <2> QED
    BY <1>2, <2>1 DEF RegistryInv
<1>12. GivenInv'
  BY <1>2 DEF GivenInv, AckOf
<1>13. LagExact'
  <2>1. ASSUME NEW g \in Readers, Registered(g)', g \notin hung'
        PROVE  Accounted(out'[g]) + Accounted(chan'[g]) + dropped'[g]
                 = pushed' - base'[g] - (IF g \in Range(todo') THEN 1 ELSE 0)
    <3>1. g \in Subscribers
      BY <1>7, <2>1 DEF Subscribers
    <3>2. g \in Range(todo')
      BY <1>1, <1>5, <3>1
    <3>3. Accounted(out[g]) + Accounted(chan[g]) + dropped[g] = pushed - base[g] - 0
      BY <1>2, <1>3, <2>1, <3>1 DEF LagExact
    <3>4. base[g] \in Int
      BY DEF ReadersOK
    <3> QED
      BY <1>2, <1>3, <3>2, <3>3, <3>4
  <2> QED
    BY <2>1 DEF LagExact, Subscribers
<1> QED
  BY <1>8, <1>9, <1>10, <1>11, <1>12, <1>13

\* The first try_send keeps the invariant: the count moves into the channel whole
\* or stays where it is.
LEMMA PushFlushInv == ASSUME IInv, PushFlush PROVE IInv'
<1> USE DEF IInv
<1> DEFINE f == Head(todo)
           notice == Lagged(dropped[f])
           more == Append(chan[f], notice)
<1>1. /\ ingest = "flush" /\ ingest' = "send"
      /\ UNCHANGED <<stored, pushed, todo, cursor, receipted, got, named, pc, batch, hung, base,
                     out>>
  BY DEF PushFlush, cli
<1>2. \/ /\ dropped[f] > 0 /\ ~Full(f)
         /\ chan' = [chan EXCEPT ![f] = more]
         /\ dropped' = [dropped EXCEPT ![f] = 0]
      \/ UNCHANGED <<chan, dropped>>
  BY DEF PushFlush
<1>3. f \in Readers
  BY <1>1, RestOf DEF PushInv, Locked, IngestOK
<1> HIDE DEF f
<1>4. dropped[f] \in 0..MaxSeq /\ chan[f] \in Seq(Frame) /\ Len(chan[f]) <= Cap
  BY <1>3 DEF StreamsOK
<1>5. notice \in Frame /\ Weight(notice) = dropped[f]
  BY <1>4, SizesAssumption DEF Lagged, Frame, Weight, IsMessage
<1>6. Accounted(more) = Accounted(chan[f]) + dropped[f] /\ Accounted(chan[f]) \in Nat
  BY <1>4, <1>5, AccountedAppend, ToldFinite
<1>7. more \in Seq(Frame) /\ more # <<>> /\ (~Full(f) => Len(more) <= Cap)
  <2> HIDE DEF notice
  <2>1. more \in Seq(Frame) /\ more # <<>> /\ Len(more) = Len(chan[f]) + 1 /\ Len(chan[f]) \in Nat
    BY <1>4, <1>5, FramesAppend
  <2> QED
    BY <2>1, SizesAssumption DEF Full
<1> HIDE DEF notice, more
<1>8. \A g \in Readers : /\ g # f => chan'[g] = chan[g] /\ dropped'[g] = dropped[g]
                         /\ dropped'[g] \in 0..dropped[g]
                         /\ base[g] = -1 => g # f
  <2>1. \A g \in Readers : g # f => chan'[g] = chan[g] /\ dropped'[g] = dropped[g]
    BY <1>2 DEF StreamsOK
  <2>2. dropped'[f] \in 0..dropped[f]
    BY <1>2, <1>3, <1>4 DEF StreamsOK
  <2>3. \A g \in Readers : dropped[g] \in Nat
    BY DEF StreamsOK
  <2>4. base[f] >= 0
    BY <1>1, <1>3, RestOf DEF PushInv, Locked, IngestOK, Registered, f
  <2> QED
    BY <2>1, <2>2, <2>3, <2>4
<1>9. IngestOK'
  BY <1>1 DEF IngestOK
<1>10. StoreOK' /\ ReadersOK' /\ AckedWasGivenOrNamed' /\ GivenInv'
  BY <1>1 DEF StoreOK, ReadersOK, AckedWasGivenOrNamed, GivenInv, AckOf
<1>11. StreamsOK'
  <2>1. CASE UNCHANGED <<chan, dropped>>
    BY <1>1, <2>1 DEF StreamsOK
  <2>2. CASE /\ ~Full(f) /\ chan' = [chan EXCEPT ![f] = more]
             /\ dropped' = [dropped EXCEPT ![f] = 0]
    <3>1. Len(chan'[f]) <= Cap /\ chan' \in [Readers -> Seq(Frame)]
      BY <1>3, <1>7, <2>2 DEF StreamsOK
    <3>2. \A g \in Readers : Len(chan'[g]) <= Cap
      BY <1>8, <3>1 DEF StreamsOK
    <3>3. dropped' \in [Readers -> 0..MaxSeq]
      <4>1. 0 \in 0..MaxSeq /\ dropped \in [Readers -> 0..MaxSeq]
        BY SizesAssumption DEF StreamsOK
      <4>2. dropped' = [dropped EXCEPT ![f] = 0]
        BY <2>2
      <4> QED
        BY <4>1, <4>2, Zenon
    <3> QED
      BY <1>1, <3>1, <3>2, <3>3 DEF StreamsOK
  <2> QED
    BY <1>2, <2>1, <2>2
<1>12. PushInv'
  BY <1>1 DEF PushInv, Locked, Registered
<1>13. RegistryInv'
  <2>1. ASSUME NEW g \in Readers
        PROVE dropped'[g] <= pushed' - (IF g \in Range(todo') THEN 1 ELSE 0)
    <3>1. dropped[g] <= pushed - (IF g \in Range(todo) THEN 1 ELSE 0)
      BY DEF RegistryInv
    <3>2. dropped[g] \in Nat /\ pushed \in Nat
      BY DEF StreamsOK, IngestOK
    <3> QED
      BY <1>1, <1>8, <3>1, <3>2
  <2> QED
    BY <1>1, <1>8, <2>1 DEF RegistryInv
<1>14. LagExact'
  <2>1. ASSUME NEW g \in Readers
        PROVE  Accounted(out'[g]) + Accounted(chan'[g]) + dropped'[g]
                 = Accounted(out[g]) + Accounted(chan[g]) + dropped[g]
    <3>1. Accounted(out[g]) \in Nat
      BY ToldFinite DEF StreamsOK
    <3>2. CASE UNCHANGED <<chan, dropped>> \/ g # f
      BY <1>1, <1>8, <3>2
    <3>3. CASE /\ chan' = [chan EXCEPT ![f] = more]
               /\ dropped' = [dropped EXCEPT ![f] = 0] /\ g = f
      <4>1. chan'[g] = more /\ dropped'[g] = 0
        BY <3>3 DEF StreamsOK
      <4> QED
        BY <1>1, <1>4, <1>6, <3>1, <3>3, <4>1
    <3> QED
      BY <1>2, <3>2, <3>3
  <2> QED
    BY <1>1, <2>1 DEF LagExact, Subscribers, Registered
<1> QED
  BY <1>9, <1>10, <1>11, <1>12, <1>13, <1>14

\* The second try_send keeps the invariant: the message the subscriber was owed
\* is in the channel or counted.
LEMMA PushSendInv == ASSUME IInv, PushSend PROVE IInv'
<1> USE DEF IInv
<1> DEFINE f == Head(todo)
           rest == Tail(todo)
           msg == Message(pushed)
           more == Append(chan[f], msg)
<1>1. /\ ingest = "send" /\ todo' = rest
      /\ ingest' = (IF rest = <<>> THEN "idle" ELSE "flush")
      /\ UNCHANGED <<stored, pushed, cursor, receipted, got, named, pc, batch, hung, base, out>>
  BY DEF PushSend, cli
<1>2. \/ dropped' = [dropped EXCEPT ![f] = dropped[f] + 1] /\ UNCHANGED chan
      \/ ~Full(f) /\ chan' = [chan EXCEPT ![f] = more] /\ UNCHANGED dropped
  BY DEF PushSend
<1>3. /\ f \in Readers /\ f \in Range(todo) /\ f = todo[1] /\ Len(todo) \in Nat \ {0}
      /\ rest \in Seq(Readers) /\ f \notin Range(rest)
      /\ \A x : x # f => (x \in Range(rest) <=> x \in Range(todo))
      /\ \A k, l \in 1..Len(rest) : rest[k] = rest[l] => k = l
      /\ \A k \in 1..Len(rest) : k + 1 \in 1..Len(todo) /\ rest[k] = todo[k + 1]
  BY <1>1, RestOf DEF PushInv, Locked, IngestOK
<1> HIDE DEF f, rest
<1>4. pushed \in 1..MaxSeq /\ stored = pushed
  BY <1>1 DEF PushInv, Locked, IngestOK
<1>5. dropped[f] \in 0..MaxSeq /\ dropped[f] <= pushed - 1 /\ chan[f] \in Seq(Frame) /\ Len(chan[f]) <= Cap
  BY <1>3 DEF StreamsOK, RegistryInv
<1>6. msg \in Frame /\ Weight(msg) = 1
  BY <1>4, SizesAssumption DEF Message, Frame, Weight, IsMessage
<1>7. Accounted(more) = Accounted(chan[f]) + 1 /\ Accounted(chan[f]) \in Nat
  BY <1>5, <1>6, AccountedAppend, ToldFinite
<1>8. more \in Seq(Frame) /\ more # <<>> /\ (~Full(f) => Len(more) <= Cap)
  <2> HIDE DEF msg
  <2>1. more \in Seq(Frame) /\ more # <<>> /\ Len(more) = Len(chan[f]) + 1 /\ Len(chan[f]) \in Nat
    BY <1>5, <1>6, FramesAppend
  <2> QED
    BY <2>1, SizesAssumption DEF Full
<1> HIDE DEF msg, more
<1>9. base[f] >= 0 /\ base[f] # -1
  BY <1>3 DEF PushInv, Registered
<1>10. \A g \in Readers : g # f => chan'[g] = chan[g] /\ dropped'[g] = dropped[g]
  BY <1>2 DEF StreamsOK
<1>11. IngestOK'
  BY <1>1, <1>3 DEF IngestOK
<1>12. StoreOK' /\ ReadersOK' /\ AckedWasGivenOrNamed' /\ GivenInv'
  BY <1>1 DEF StoreOK, ReadersOK, AckedWasGivenOrNamed, GivenInv, AckOf
<1>13. StreamsOK'
  <2>1. CASE dropped' = [dropped EXCEPT ![f] = dropped[f] + 1] /\ UNCHANGED chan
    <3>1. dropped[f] + 1 \in 0..MaxSeq
      BY <1>4, <1>5, SizesAssumption
    <3> QED
      BY <1>1, <2>1, <3>1 DEF StreamsOK
  <2>2. CASE ~Full(f) /\ chan' = [chan EXCEPT ![f] = more] /\ UNCHANGED dropped
    BY <1>1, <1>8, <2>2 DEF StreamsOK
  <2> QED
    BY <1>2, <2>1, <2>2
<1>14. PushInv'
  <2>1. \A k \in 1..Len(todo') : Registered(todo[k])'
    BY <1>1, <1>3 DEF PushInv, Registered
  <2>2. stored' = pushed' + (IF ingest' = "stored" THEN 1 ELSE 0)
    BY <1>1, <1>4
  <2>3. (ingest' \in {"flush", "send"} <=> todo' # <<>>) /\ pushed' > 0
    BY <1>1, <1>4
  <2> QED
    BY <1>1, <1>3, <2>1, <2>2, <2>3 DEF PushInv, Locked
<1>15. RegistryInv'
  <2>1. ASSUME NEW g \in Readers
        PROVE dropped'[g] <= pushed' - (IF g \in Range(todo') THEN 1 ELSE 0)
    <3>1. CASE g # f
      BY <1>1, <1>3, <1>10, <3>1 DEF RegistryInv
    <3>2. CASE g = f
      <4>1. dropped'[f] = dropped[f] + 1 \/ dropped'[f] = dropped[f]
        BY <1>2, <1>3 DEF StreamsOK
      <4> QED
        BY <1>1, <1>3, <1>4, <1>5, <3>2, <4>1
    <3> QED
      BY <3>1, <3>2
  <2> QED
    BY <1>1, <1>9, <1>10, <2>1 DEF RegistryInv
<1>16. LagExact'
  <2>1. ASSUME NEW g \in Readers, Registered(g)', g \notin hung'
        PROVE  Accounted(out'[g]) + Accounted(chan'[g]) + dropped'[g]
                 = pushed' - base'[g] - (IF g \in Range(todo') THEN 1 ELSE 0)
    <3>1. Accounted(out[g]) + Accounted(chan[g]) + dropped[g]
            = pushed - base[g] - (IF g \in Range(todo) THEN 1 ELSE 0)
      BY <1>1, <2>1 DEF LagExact, Subscribers, Registered
    <3>2. CASE g # f
      BY <1>1, <1>3, <1>10, <3>1, <3>2
    <3>3. CASE g = f
      <4>1. Accounted(out[f]) \in Nat /\ base[f] \in Int
        <5>1. out[f] \in Seq(Frame)
          BY <1>3 DEF StreamsOK
        <5>2. base[f] \in Int
          BY <1>3 DEF ReadersOK
        <5> QED
          BY <5>1, <5>2, ToldFinite
      <4>2. \/ dropped'[f] = dropped[f] + 1 /\ chan'[f] = chan[f]
            \/ dropped'[f] = dropped[f] /\ chan'[f] = more
        BY <1>2, <1>3 DEF StreamsOK
      <4>3. Accounted(chan'[f]) + dropped'[f] = Accounted(chan[f]) + dropped[f] + 1
        BY <1>5, <1>7, <4>2
      <4>4. Accounted(chan'[f]) \in Nat /\ dropped'[f] \in Nat
        BY <1>5, <1>7, <4>2
      <4>5. Accounted(out[f]) + Accounted(chan[f]) + dropped[f] = pushed - base[f] - 1
        BY <1>3, <3>1, <3>3
      <4>6. Accounted(out[f]) + Accounted(chan'[f]) + dropped'[f] = pushed - base[f] - 0
        <5>1. \A a, b, c, d, e, p, r \in Int :
                b + c = d + e + 1 /\ a + d + e = p - r - 1 => a + b + c = p - r - 0
          OBVIOUS
        <5>2. Accounted(chan[f]) \in Int /\ dropped[f] \in Int /\ pushed \in Int
          BY <1>4, <1>5, <1>7
        <5> QED
          BY <4>1, <4>3, <4>4, <4>5, <5>1, <5>2
      <4> QED
        BY <1>1, <1>3, <3>3, <4>6
    <3> QED
      BY <3>2, <3>3
  <2> QED
    BY <2>1 DEF LagExact, Subscribers
<1> QED
  BY <1>11, <1>12, <1>13, <1>14, <1>15, <1>16

-----------------------------------------------------------------------------
(* The theorems.                                                           *)

\* A daemon without messages and readers satisfies the invariant.
LEMMA InitInv == Init => IInv
<1> SUFFICES ASSUME Init PROVE IInv
  OBVIOUS
<1> USE DEF Init
<1>1. IngestOK /\ StoreOK /\ AckedWasGivenOrNamed
  BY SizesAssumption DEF IngestOK, StoreOK, AckedWasGivenOrNamed
<1>2. ReadersOK
  BY SizesAssumption DEF ReadersOK
<1>3. StreamsOK
  BY SizesAssumption DEF StreamsOK
<1>4. PushInv
  BY DEF PushInv, Locked
<1>5. Range(todo) = {}
  BY DEF Range
<1>6. RegistryInv /\ GivenInv
  BY <1>5 DEF RegistryInv, GivenInv, AckOf
<1>7. LagExact
  BY DEF LagExact, Subscribers, Registered
<1> QED
  BY <1>1, <1>2, <1>3, <1>4, <1>6, <1>7 DEF IInv

\* Every step of the ingest thread, a reader or a forwarding thread keeps it.
LEMMA NextInv == IInv /\ [Next]_vars => IInv'
<1> SUFFICES ASSUME IInv, [Next]_vars PROVE IInv'
  OBVIOUS
<1>1. CASE UNCHANGED vars
  BY <1>1 DEF IInv, vars, IngestOK, StoreOK, ReadersOK, StreamsOK, PushInv, Locked, RegistryInv,
     GivenInv, AckOf, AckedWasGivenOrNamed, LagExact, Subscribers, Registered
<1>2. CASE InsertInbound
  BY <1>2, InsertInv
<1>3. CASE Push
  BY <1>3, PushStartInv, PushFlushInv, PushSendInv DEF Push
<1>4. ASSUME NEW f \in Readers, Reader(f) PROVE IInv'
  BY <1>4, ReadCursorInv, ReadSelectInv, AckBatchInv, ReceiptBatchInv, ReadEndsInv,
     SubscribeInv, ReceiptNamedInv DEF Reader
<1>5. ASSUME NEW f \in Readers, Forwarder(f) PROVE IInv'
  BY <1>5, ForwardInv, StreamAckInv, StreamReceiptInv, WriteFailsInv, DeregisterInv DEF Forwarder
<1>6. ASSUME NEW f \in Readers, HangUp(f) PROVE IInv'
  BY <1>6, HangUpInv
<1>7. ASSUME NEW f \in Naming, NEW seq \in Acks, AckCommand(f, seq) PROVE IInv'
  BY <1>7, AckCommandInv, ReadersAssumption
<1> QED
  BY <1>1, <1>2, <1>3, <1>4, <1>5, <1>6, <1>7 DEF Next

\* The inductive invariant holds throughout.
THEOREM Invariance == Spec => []IInv
BY InitInv, NextInv, PTL DEF Spec

\* Type correctness of the reading side: in particular no subscription's
\* channel exceeds its capacity and no lag count exceeds the messages there are.
THEOREM TypeCorrect == Spec => []TypeOK
<1>1. IInv => TypeOK
  BY TypeParts DEF IInv
<1> QED
  BY <1>1, Invariance, PTL

\* The lag count is accurate (REQ-0107): whatever the interleaving of
\* push_to_subscribers with any number of forwarding threads, every message
\* pushed since a live follower registered is written, queued, in a Lagged
\* count or in the running count, exactly once.
THEOREM LagIsExact == Spec => []LagExact
<1>1. IInv => LagExact
  BY DEF IInv
<1> QED
  BY <1>1, Invariance, PTL

\* The cursor and the read receipts stay on rows some reader was given and on
\* SEQs some ack command named, whatever it named, and a receipted row is behind
\* the cursor, however many processes acknowledge for one consumer.
THEOREM AcksFollowReads == Spec => []AckedWasGivenOrNamed
<1>1. IInv => AckedWasGivenOrNamed
  BY DEF IInv
<1> QED
  BY <1>1, Invariance, PTL

\* Store::ack never moves the cursor back, whichever process acknowledges.
THEOREM CursorMonotone == Spec => CursorNeverBack
<1>1. IInv /\ [Next]_vars => [cursor' >= cursor]_vars
  <2> SUFFICES ASSUME IInv, Next PROVE cursor' >= cursor
    OBVIOUS
  <2>1. cursor \in Int
    BY DEF IInv, StoreOK
  <2>2. ASSUME UNCHANGED cursor PROVE cursor' >= cursor
    BY <2>1, <2>2
  <2>3. ASSUME NEW q, cursor' = IF q > cursor THEN q ELSE cursor, q \in Int PROVE cursor' >= cursor
    BY <2>1, <2>3
  <2>4. ASSUME NEW f \in Readers, AckBatch(f) PROVE cursor' >= cursor
    <3>1. batch[f].last \in Int
      BY DEF IInv, ReadersOK
    <3> QED
      BY <2>1, <2>4, <3>1 DEF AckBatch, AckUpTo
  <2>5. ASSUME NEW f \in Readers, StreamAck(f) PROVE cursor' >= cursor
    <3>1. pc[f] = "ack" /\ base[f] # -1
      BY <2>5 DEF StreamAck, Registered
    <3>2. out[f][Len(out[f])].seq \in Int
      <4>1. out[f][Len(out[f])].seq \in got
        BY <3>1 DEF IInv, GivenInv, AckOf
      <4>2. got \subseteq 1..MaxSeq
        BY DEF IInv, StoreOK
      <4>3. \A x \in 1..MaxSeq : x \in Int
        OBVIOUS
      <4> QED
        BY <4>1, <4>2, <4>3, Zenon
    <3> QED
      BY <2>1, <2>5, <3>2 DEF StreamAck, AckUpTo, Last
  <2>6. ASSUME NEW f \in Readers, Reader(f), ~AckBatch(f) PROVE UNCHANGED cursor
    BY <2>6 DEF Reader, ReadCursor, ReadSelect, ReceiptBatch, ReadEnds, SubscribeFollow,
           ReceiptNamed
  <2>7. ASSUME NEW f \in Readers, Forwarder(f), ~StreamAck(f) PROVE UNCHANGED cursor
    BY <2>7 DEF Forwarder, Forward, StreamReceipt, WriteFails, Deregister
  <2>8. ASSUME NEW f \in Readers, HangUp(f) PROVE UNCHANGED cursor
    BY <2>8 DEF HangUp
  <2>9. InsertInbound \/ Push => UNCHANGED cursor
    BY DEF InsertInbound, Push, PushStart, PushFlush, PushSend, cli
  <2>10. ASSUME NEW f \in Naming, NEW seq \in Acks, AckCommand(f, seq) PROVE cursor' >= cursor
    BY <2>1, <2>10, ReadersAssumption DEF AckCommand, AckUpTo
  <2> QED
    BY <2>2, <2>4, <2>5, <2>6, <2>7, <2>8, <2>9, <2>10 DEF Next
<1> QED
  BY <1>1, Invariance, PTL DEF Spec, CursorNeverBack

-----------------------------------------------------------------------------
(* What the cursor passes.                                                 *)

\* The causes that SkippedForCause names for a row.
Cause(q) ==
    \/ \E n \in named : q <= n
    \/ \E f \in Following \cap Acking : base[f] >= 0 /\ (q <= base[f] \/ ToldToLag(f))

\* Nobody was given, or is about to be sent, a row that is not stored.
GotStored ==
    /\ got \subseteq 1..stored
    /\ \A f \in Readers : \A k \in 1..Len(chan[f]) : chan[f][k].seq <= pushed

\* Who acknowledges, who has a stream, and who leaves it.
RolesInv ==
    \A f \in Readers :
        /\ pc[f] = "ack" => f \in Acking
        /\ base[f] # -1 => f \in Following
        /\ pc[f] \in {"leaving", "closed"} => f \in hung

\* A batch starts at a row the cursor has passed and was given without a gap.
BatchOK(f) ==
    /\ pc[f] \in {"select", "ack"} => batch[f].after <= cursor
    /\ pc[f] = "ack" => \A q \in Int : batch[f].after < q /\ q <= batch[f].last => q \in got
BatchInv == \A f \in Readers : base[f] = -1 => BatchOK(f)

\* A stream without a lag notice has no gap: the k-th message after the
\* registration is its k-th frame, written and given or still in the channel.
Gapless(f) ==
    /\ Len(out[f]) + Len(chan[f]) = pushed - base[f] - (IF f \in Range(todo) THEN 1 ELSE 0)
    /\ \A k \in 1..Len(out[f]) : out[f][k].seq = base[f] + k /\ base[f] + k \in got
    /\ \A k \in 1..Len(chan[f]) : chan[f][k].seq = base[f] + Len(out[f]) + k
StreamInv == \A f \in Readers : base[f] # -1 /\ ~ToldToLag(f) => Gapless(f)

SInv == GotStored /\ RolesInv /\ BatchInv /\ StreamInv /\ SkippedForCause

\* A cause stays one.
LEMMA CauseKept ==
    ASSUME NEW q, Cause(q), named \subseteq named',
           \A f \in Readers : base[f] >= 0 => base'[f] = base[f] /\ (ToldToLag(f) => ToldToLag(f)')
    PROVE  Cause(q)'
BY ReadersAssumption DEF Cause

\* A step that neither stores nor acknowledges.
LEMMA SkipKept ==
    ASSUME SkippedForCause, UNCHANGED <<stored, cursor>>, got \subseteq got', named \subseteq named',
           \A f \in Readers : base[f] >= 0 => base'[f] = base[f] /\ (ToldToLag(f) => ToldToLag(f)')
    PROVE  SkippedForCause'
<1>1. \A q \in 1..stored : q <= cursor /\ q \notin got => Cause(q)
  BY DEF SkippedForCause, Cause
<1>2. \A q \in 1..stored' : q <= cursor' /\ q \notin got' => Cause(q)'
  BY <1>1, CauseKept
<1> QED
  BY <1>2 DEF SkippedForCause, Cause

\* A stream that a step does not touch.
LEMMA GaplessKept ==
    ASSUME NEW g, Gapless(g), pushed' = pushed, got \subseteq got',
           out'[g] = out[g], chan'[g] = chan[g], base'[g] = base[g],
           g \in Range(todo') <=> g \in Range(todo)
    PROVE  Gapless(g)'
BY DEF Gapless

LEMMA LagKept ==
    ASSUME NEW g, out'[g] = out[g], chan'[g] = chan[g], dropped'[g] = dropped[g], hung' = hung
    PROVE  ToldToLag(g)' <=> ToldToLag(g)
BY DEF ToldToLag

\* A step of a reader leaves the streams alone.
LEMMA StreamsKept ==
    ASSUME StreamInv, UNCHANGED <<pushed, todo, hung, base, dropped, chan, out>>, got \subseteq got'
    PROVE  StreamInv' /\ \A f \in Readers : ToldToLag(f)' <=> ToldToLag(f)
<1>1. \A f \in Readers : ToldToLag(f)' <=> ToldToLag(f)
  BY DEF ToldToLag
<1>2. \A f \in Readers : Gapless(f) => Gapless(f)'
  BY DEF Gapless
<1> QED
  BY <1>1, <1>2 DEF StreamInv

\* ... and the batches of the others.
LEMMA BatchesKept ==
    ASSUME BatchInv, IInv, NEW f \in Readers, cursor' \in Nat, cursor' >= cursor, got \subseteq got',
           UNCHANGED base,
           \A g \in Readers : g # f => pc'[g] = pc[g] /\ batch'[g] = batch[g],
           base[f] = -1 => BatchOK(f)'
    PROVE  BatchInv'
<1>1. cursor \in Nat
  BY DEF IInv, StoreOK
<1>2. ASSUME NEW g \in Readers, g # f, BatchOK(g) PROVE BatchOK(g)'
  <2>1. batch[g].after \in Nat /\ batch[g].last \in Int
    BY DEF IInv, ReadersOK
  <2> QED
    BY <1>1, <1>2, <2>1 DEF BatchOK
<1> QED
  BY <1>2 DEF BatchInv

\* Reading the cursor.
LEMMA ReadCursorSkips == ASSUME IInv, SInv, NEW f \in Readers, ReadCursor(f) PROVE SInv'
<1> USE DEF SInv
<1>1. /\ pc[f] = "off" /\ pc' = [pc EXCEPT ![f] = "select"]
      /\ batch' = [batch EXCEPT ![f] = [after |-> cursor, last |-> cursor]]
      /\ UNCHANGED <<stored, pushed, ingest, todo, cursor, receipted, got, named, hung, base,
                     dropped, chan, out>>
  BY DEF ReadCursor, streams
<1>2. cursor \in Nat /\ pc'[f] = "select" /\ batch'[f].after = cursor
      /\ \A g \in Readers : g # f => pc'[g] = pc[g] /\ batch'[g] = batch[g]
  BY <1>1 DEF IInv, StoreOK, ReadersOK
<1>3. GotStored' /\ RolesInv'
  BY <1>1, <1>2 DEF GotStored, RolesInv
<1>4. BatchInv'
  BY <1>1, <1>2, BatchesKept DEF BatchOK
<1>5. StreamInv' /\ SkippedForCause'
  BY <1>1, StreamsKept, SkipKept
<1> QED
  BY <1>3, <1>4, <1>5

\* Selecting the rows: they are stored, and the ones right after the cursor read.
LEMMA ReadSelectSkips == ASSUME IInv, SInv, NEW f \in Readers, ReadSelect(f) PROVE SInv'
<1> USE DEF SInv
<1> DEFINE last == Min({stored, batch[f].after + Limit})
           done == IF f \in Acking /\ last > batch[f].after THEN "ack" ELSE "drained"
<1>1. /\ pc[f] = "select" /\ pc' = [pc EXCEPT ![f] = done]
      /\ batch' = [batch EXCEPT ![f].last = last]
      /\ got' = got \cup (batch[f].after + 1)..last
      /\ UNCHANGED <<stored, pushed, ingest, todo, cursor, receipted, named, hung, base, dropped,
                     chan, out>>
  BY DEF ReadSelect, streams
<1>2. base[f] = -1
  BY <1>1 DEF IInv, RegistryInv
<1>3. /\ cursor \in Nat /\ stored \in Nat /\ batch[f] \in [after : Nat, last : Int]
      /\ batch[f].after <= cursor
  BY <1>1, <1>2 DEF IInv, StoreOK, IngestOK, ReadersOK, BatchInv, BatchOK
<1>4. last \in Int /\ last <= stored
  BY <1>3, MinOfTwo, SizesAssumption
<1> HIDE DEF last
<1>5. /\ pc'[f] = done /\ batch'[f].after = batch[f].after /\ batch'[f].last = last
      /\ \A g \in Readers : g # f => pc'[g] = pc[g] /\ batch'[g] = batch[g]
  BY <1>1, <1>3 DEF IInv, ReadersOK
<1>6. (batch[f].after + 1)..last \subseteq 1..stored
  BY <1>3, <1>4
<1>7. GotStored'
  BY <1>1, <1>6 DEF GotStored
<1>8. RolesInv'
  BY <1>1, <1>5 DEF RolesInv
<1>9. BatchInv'
  <2>1. \A q \in Int : batch[f].after < q /\ q <= last => q \in got'
    BY <1>1, <1>3, <1>4
  <2>2. BatchOK(f)'
    BY <1>1, <1>3, <1>5, <2>1 DEF BatchOK
  <2> QED
    BY <1>1, <1>3, <1>5, <2>2, BatchesKept
<1>10. StreamInv' /\ SkippedForCause'
  BY <1>1, StreamsKept, SkipKept
<1> QED
  BY <1>7, <1>8, <1>9, <1>10

\* Store::ack moves the cursor over rows that were given or are excused.
LEMMA AckSkips ==
    ASSUME IInv, SInv, NEW seq \in Int, cursor' = (IF seq > cursor THEN seq ELSE cursor),
           UNCHANGED <<stored, got, base, hung, dropped, chan, out>>, named \subseteq named',
           \A q \in 1..stored : cursor < q /\ q <= seq => q \in got \/ Cause(q)'
    PROVE  SkippedForCause'
<1>1. cursor \in Nat /\ stored \in Nat
  BY DEF IInv, StoreOK, IngestOK
<1>2. \A q \in 1..stored : q <= cursor /\ q \notin got => Cause(q)
  BY DEF SInv, SkippedForCause, Cause
<1>3. \A f \in Readers : ToldToLag(f)' <=> ToldToLag(f)
  BY DEF ToldToLag
<1>4. ASSUME NEW q \in 1..stored, q <= cursor', q \notin got PROVE Cause(q)'
  <2>1. CASE q <= cursor
    <3>1. Cause(q)
      BY <1>2, <1>4, <2>1
    <3> QED
      BY <1>3, <3>1, CauseKept
  <2>2. CASE ~(q <= cursor)
    BY <1>1, <1>4, <2>2
  <2> QED
    BY <2>1, <2>2
<1> QED
  BY <1>4 DEF SkippedForCause, Cause

\* Acknowledging a batch: it has no gap, and starts at the cursor or before.
LEMMA AckBatchSkips == ASSUME IInv, SInv, NEW f \in Readers, AckBatch(f) PROVE SInv'
<1> USE DEF SInv
<1>1. /\ pc[f] = "ack" /\ ~Registered(f) /\ AckUpTo(batch[f].last)
      /\ pc' = [pc EXCEPT ![f] = "receipt"]
      /\ UNCHANGED <<stored, pushed, ingest, todo, receipted, got, named, batch, hung, base,
                     dropped, chan, out>>
  BY DEF AckBatch, streams
<1>2. base[f] = -1
  BY <1>1 DEF Registered, IInv, ReadersOK
<1>3. /\ cursor \in Nat /\ stored \in Nat /\ batch[f].after \in Nat /\ batch[f].last \in Int
      /\ pc'[f] = "receipt" /\ \A g \in Readers : g # f => pc'[g] = pc[g]
  BY <1>1 DEF IInv, StoreOK, IngestOK, ReadersOK
<1>4. BatchOK(f)
  BY <1>2 DEF BatchInv
<1>5. cursor' = (IF batch[f].last > cursor THEN batch[f].last ELSE cursor) /\ cursor' \in Nat /\ cursor' >= cursor
  BY <1>1, <1>3 DEF AckUpTo
<1>6. SkippedForCause'
  <2>1. \A q \in 1..stored : cursor < q /\ q <= batch[f].last => q \in got
    BY <1>1, <1>3, <1>4 DEF BatchOK
  <2> QED
    BY <1>1, <1>3, <1>5, <2>1, AckSkips
<1>7. GotStored' /\ RolesInv'
  BY <1>1, <1>3 DEF GotStored, RolesInv
<1>8. BatchInv'
  BY <1>1, <1>3, <1>5, BatchesKept DEF BatchOK
<1>9. StreamInv'
  BY <1>1, StreamsKept
<1> QED
  BY <1>6, <1>7, <1>8, <1>9

\* A receipt, the end of a process, the receipt of a named row: nothing moves but
\* a process that is not about to acknowledge.
LEMMA QuietSkips ==
    ASSUME IInv, SInv, NEW f \in Readers, NEW v \in {"off", "drained", "live"},
           pc' = [pc EXCEPT ![f] = v],
           \A g \in Readers : g # f => batch'[g] = batch[g],
           UNCHANGED <<stored, pushed, todo, cursor, got, named, hung, base, dropped, chan, out>>
    PROVE  SInv'
<1> USE DEF SInv
<1>1. cursor \in Nat /\ pc'[f] = v /\ \A g \in Readers : g # f => pc'[g] = pc[g]
  BY DEF IInv, StoreOK, ReadersOK
<1>2. GotStored' /\ RolesInv'
  BY <1>1 DEF GotStored, RolesInv
<1>3. BatchInv'
  BY <1>1, BatchesKept DEF BatchOK
<1>4. StreamInv' /\ SkippedForCause'
  BY StreamsKept, SkipKept
<1> QED
  BY <1>2, <1>3, <1>4

\* ack SEQ: whatever it passes it names.
LEMMA AckCommandSkips ==
    ASSUME IInv, SInv, NEW f \in Readers, NEW seq \in Acks, AckCommand(f, seq) PROVE SInv'
<1> USE DEF SInv
<1>1. /\ pc' = [pc EXCEPT ![f] = "named"] /\ AckUpTo(seq) /\ named' = named \cup {seq}
      /\ batch' = [batch EXCEPT ![f] = [after |-> 0, last |-> seq]]
      /\ UNCHANGED <<stored, pushed, ingest, todo, receipted, got, hung, base, dropped, chan, out>>
  BY DEF AckCommand, streams
<1>2. seq \in Int /\ cursor \in Nat
  BY ReadersAssumption DEF IInv, StoreOK
<1>3. pc'[f] = "named" /\ \A g \in Readers : g # f => pc'[g] = pc[g] /\ batch'[g] = batch[g]
  BY <1>1 DEF IInv, ReadersOK
<1>4. cursor' = (IF seq > cursor THEN seq ELSE cursor) /\ cursor' \in Nat /\ cursor' >= cursor
  BY <1>1, <1>2 DEF AckUpTo
<1>5. SkippedForCause'
  <2>1. \A q \in 1..stored : q <= seq => Cause(q)'
    BY <1>1 DEF Cause
  <2> QED
    BY <1>1, <1>2, <1>4, <2>1, AckSkips
<1>6. GotStored' /\ RolesInv'
  BY <1>1, <1>3 DEF GotStored, RolesInv
<1>7. BatchInv'
  BY <1>1, <1>3, <1>4, BatchesKept DEF BatchOK
<1>8. StreamInv'
  BY <1>1, StreamsKept
<1> QED
  BY <1>5, <1>6, <1>7, <1>8

\* Subscribing: the stream starts with the next push, and holds none.
LEMMA SubscribeSkips == ASSUME IInv, SInv, NEW f \in Readers, SubscribeFollow(f) PROVE SInv'
<1> USE DEF SInv
<1>1. /\ pc' = [pc EXCEPT ![f] = "live"] /\ pc[f] = "drained" /\ ~Locked /\ f \in Following
      /\ base' = [base EXCEPT ![f] = pushed]
      /\ batch' = [batch EXCEPT ![f] = [after |-> 0, last |-> 0]]
      /\ UNCHANGED <<stored, pushed, ingest, todo, cursor, receipted, got, named, hung, dropped,
                     chan, out>>
  BY DEF SubscribeFollow, streams
<1>2. base[f] = -1 /\ chan[f] = <<>> /\ out[f] = <<>>
  BY <1>1 DEF IInv, RegistryInv
<1>3. todo = <<>> /\ Range(todo) = {} /\ pushed \in Nat
  BY <1>1 DEF IInv, PushInv, Range, IngestOK
<1>4. /\ pc'[f] = "live" /\ base'[f] = pushed
      /\ \A g \in Readers : g # f => pc'[g] = pc[g] /\ base'[g] = base[g] /\ batch'[g] = batch[g]
  BY <1>1 DEF IInv, ReadersOK
<1>5. GotStored' /\ RolesInv'
  BY <1>1, <1>4 DEF GotStored, RolesInv
<1>6. BatchInv'
  BY <1>1, <1>3, <1>4 DEF BatchInv, BatchOK
<1>7. \A g \in Readers : ToldToLag(g)' <=> ToldToLag(g)
  BY <1>1 DEF ToldToLag
<1>8. StreamInv'
  <2>1. Gapless(f)'
    <3>1. Len(out'[f]) = 0 /\ Len(chan'[f]) = 0 /\ f \notin Range(todo')
      BY <1>1, <1>2, <1>3
    <3>2. pushed' - base'[f] - 0 = 0
      BY <1>1, <1>3, <1>4
    <3> QED
      BY <3>1, <3>2 DEF Gapless
  <2>2. \A g \in Readers : g # f /\ Gapless(g) => Gapless(g)'
    BY <1>1, <1>4, GaplessKept
  <2> QED
    BY <1>4, <1>7, <2>1, <2>2 DEF StreamInv
<1>9. SkippedForCause'
  <2>1. \A g \in Readers : base[g] >= 0 => base'[g] = base[g]
    BY <1>2, <1>4
  <2> QED
    BY <1>1, <1>7, <2>1, SkipKept
<1> QED
  BY <1>5, <1>6, <1>8, <1>9

\* Acknowledging a streamed message: what came before it was streamed too, or
\* is from before the registration, or the follower is told of a lag.
LEMMA StreamAckSkips == ASSUME IInv, SInv, NEW f \in Readers, StreamAck(f) PROVE SInv'
<1> USE DEF SInv
<1> DEFINE seq == out[f][Len(out[f])].seq
<1>1. /\ pc[f] = "ack" /\ Registered(f) /\ AckUpTo(Last(out[f]).seq)
      /\ pc' = [pc EXCEPT ![f] = "receipt"]
      /\ UNCHANGED <<stored, pushed, ingest, todo, receipted, got, named, batch, hung, base,
                     dropped, chan, out>>
  BY DEF StreamAck, streams
<1>2. base[f] \in Nat /\ out[f] \in Seq(Frame) /\ out[f] # <<>> /\ cursor \in Nat /\ stored \in Nat
  BY <1>1 DEF Registered, IInv, ReadersOK, StreamsOK, GivenInv, StoreOK, IngestOK
<1>3. seq \in Int
  BY <1>1, <1>2, AckOfType DEF AckOf
<1>4. cursor' = (IF seq > cursor THEN seq ELSE cursor)
  BY <1>1 DEF AckUpTo, Last
<1> HIDE DEF seq
<1>5. cursor' \in Nat /\ cursor' >= cursor
  BY <1>2, <1>3, <1>4
<1>6. pc'[f] = "receipt" /\ \A g \in Readers : g # f => pc'[g] = pc[g]
  BY <1>1 DEF IInv, ReadersOK
<1>7. ASSUME NEW q \in 1..stored, q <= seq, q \notin got PROVE Cause(q)
  <2>1. f \in Following \cap Acking
    BY <1>1, <1>2 DEF RolesInv
  <2>2. CASE q <= base[f] \/ ToldToLag(f)
    BY <1>2, <2>1, <2>2 DEF Cause
  <2>3. CASE q > base[f] /\ ~ToldToLag(f)
    <3>1. Gapless(f)
      BY <1>2, <2>3 DEF StreamInv
    <3>2. Len(out[f]) \in Nat \ {0}
      BY <1>2
    <3>3. seq = base[f] + Len(out[f])
      BY <3>1, <3>2 DEF Gapless, seq
    <3>4. q - base[f] \in 1..Len(out[f]) /\ base[f] + (q - base[f]) = q
      BY <1>2, <1>7, <2>3, <3>2, <3>3
    <3>5. q \in got
      BY <3>1, <3>4 DEF Gapless
    <3> QED
      BY <1>7, <3>5
  <2> QED
    BY <1>2, <2>2, <2>3
<1>8. SkippedForCause'
  <2>1. \A g \in Readers : ToldToLag(g)' <=> ToldToLag(g)
    BY <1>1 DEF ToldToLag
  <2>2. \A q \in 1..stored : q <= seq => q \in got \/ Cause(q)'
    BY <1>1, <1>7, <2>1, CauseKept
  <2> QED
    BY <1>1, <1>3, <1>4, <2>2, AckSkips
<1>9. GotStored' /\ RolesInv'
  BY <1>1, <1>6 DEF GotStored, RolesInv
<1>10. BatchInv'
  BY <1>1, <1>2, <1>5, <1>6, BatchesKept
<1>11. StreamInv'
  BY <1>1, StreamsKept
<1> QED
  BY <1>8, <1>9, <1>10, <1>11

\* The steps that change a stream change one.
LEMMA OneStream ==
    ASSUME IInv, SInv, NEW f \in Readers, base[f] # -1,
           UNCHANGED <<stored, cursor, batch, base>>, named' = named, got \subseteq got',
           \A g \in Readers : g # f =>
              /\ pc'[g] = pc[g]
              /\ ToldToLag(g) => ToldToLag(g)'
              /\ ToldToLag(g)' \/ (Gapless(g) => Gapless(g)'),
           ToldToLag(f) => ToldToLag(f)',
           ToldToLag(f)' \/ (~ToldToLag(f) /\ (Gapless(f) => Gapless(f)'))
    PROVE  BatchInv' /\ StreamInv' /\ SkippedForCause'
<1> USE DEF SInv
<1>1. cursor \in Nat
  BY DEF IInv, StoreOK
<1>2. BatchInv'
  BY <1>1, BatchesKept
<1>3. SkippedForCause'
  BY SkipKept
<1>4. StreamInv'
  BY DEF StreamInv
<1> QED
  BY <1>2, <1>3, <1>4

\* A frame moves from the channel to the socket: the stream is the same.
LEMMA ForwardSkips == ASSUME IInv, SInv, NEW f \in Readers, Forward(f) PROVE SInv'
<1> USE DEF SInv
<1> DEFINE frame == Head(chan[f])
           rest == Tail(chan[f])
           all == Append(out[f], frame)
           v == IF f \in Acking /\ IsMessage(frame) THEN "ack" ELSE "live"
<1>1. /\ pc' = [pc EXCEPT ![f] = v] /\ pc[f] = "live" /\ chan[f] # <<>> /\ f \notin hung
      /\ out' = [out EXCEPT ![f] = all]
      /\ chan' = [chan EXCEPT ![f] = rest]
      /\ got' = (IF IsMessage(frame) THEN got \cup {frame.seq} ELSE got)
      /\ UNCHANGED <<stored, pushed, ingest, todo, cursor, receipted, named, batch, hung, base,
                     dropped>>
  BY DEF Forward
<1>2. chan[f] \in Seq(Frame) /\ out[f] \in Seq(Frame)
  BY DEF IInv, StreamsOK
<1>3. /\ Len(chan[f]) \in Nat \ {0} /\ Len(out[f]) \in Nat /\ frame = chan[f][1] /\ frame \in Frame
      /\ rest \in Seq(Frame) /\ Len(rest) = Len(chan[f]) - 1
      /\ \A k \in 1..Len(rest) : rest[k] = chan[f][k + 1]
  BY <1>1, <1>2
<1> HIDE DEF frame, rest
<1>4. /\ Len(all) = Len(out[f]) + 1 /\ all[Len(out[f]) + 1] = frame
      /\ \A k \in 1..Len(out[f]) : all[k] = out[f][k]
  BY <1>2, <1>3
<1> DEFINE n == Len(out[f])
           c == Len(chan[f])
<1>len. n \in Nat /\ c \in Nat \ {0} /\ Len(rest) = c - 1 /\ Len(all) = n + 1
  BY <1>3, <1>4
<1>5. base[f] # -1 /\ base[f] \in Nat /\ pushed \in Nat /\ stored \in Nat /\ pushed <= stored
  BY <1>1 DEF IInv, RegistryInv, ReadersOK, IngestOK, PushInv
<1> HIDE DEF all
<1>6. /\ pc'[f] = v /\ out'[f] = all /\ chan'[f] = rest
      /\ \A g \in Readers : g # f => pc'[g] = pc[g] /\ out'[g] = out[g] /\ chan'[g] = chan[g]
  BY <1>1 DEF IInv, ReadersOK, StreamsOK
<1>7. frame.seq \in Nat /\ frame.seq <= pushed
  <2>1. chan[f][1].seq <= pushed
    BY <1>3 DEF GotStored
  <2> QED
    BY <1>3, <2>1, SizesAssumption DEF Frame
<1>8. GotStored'
  <2>1. got' \subseteq 1..stored
    <3>1. IsMessage(frame) => frame.seq \in 1..stored
      BY <1>5, <1>7 DEF IsMessage
    <3>2. got \subseteq 1..stored
      BY DEF GotStored
    <3> QED
      BY <1>1, <3>1, <3>2
  <2>2. \A k \in 1..Len(rest) : rest[k].seq <= pushed
    BY <1>3 DEF GotStored
  <2> QED
    BY <1>1, <1>6, <2>1, <2>2 DEF GotStored
<1>9. RolesInv'
  BY <1>1, <1>6 DEF RolesInv
<1>10. ToldToLag(f)' <=> ToldToLag(f)
  <2>1. (\E k \in 1..Len(out[f]) : ~IsMessage(out[f][k])) \/ ~IsMessage(frame)
           <=> \E k \in 1..Len(all) : ~IsMessage(all[k])
    <3>1. \A k \in 1..Len(all) : k \in 1..n \/ k = n + 1
      BY <1>len
    <3>2. n + 1 \in 1..Len(all) /\ \A k \in 1..n : k \in 1..Len(all)
      BY <1>len
    <3> QED
      BY <1>4, <3>1, <3>2
  <2>2. (\E k \in 1..Len(rest) : ~IsMessage(rest[k])) \/ ~IsMessage(frame)
           <=> \E k \in 1..Len(chan[f]) : ~IsMessage(chan[f][k])
    <3>1. \A k \in 1..Len(chan[f]) : k = 1 \/ (k - 1 \in 1..Len(rest) /\ rest[k - 1] = chan[f][k])
      BY <1>3
    <3>2. \A k \in 1..Len(rest) : k + 1 \in 1..Len(chan[f]) /\ rest[k] = chan[f][k + 1]
      BY <1>3
    <3>3. 1 \in 1..Len(chan[f])
      BY <1>3
    <3> QED
      BY <1>3, <3>1, <3>2, <3>3
  <2> QED
    BY <1>1, <1>6, <2>1, <2>2 DEF ToldToLag
<1>11. ASSUME ~ToldToLag(f), Gapless(f) PROVE Gapless(f)'
  <2>1. IsMessage(frame)
    BY <1>3, <1>11 DEF ToldToLag
  <2>2. frame.seq = base[f] + (Len(out[f]) + 1)
    <3>1. 1 \in 1..c
      BY <1>len
    <3>2. chan[f][1].seq = base[f] + n + 1
      BY <1>11, <3>1 DEF Gapless
    <3> HIDE DEF n
    <3>3. base[f] + n + 1 = base[f] + (n + 1)
      BY <1>5, <1>len
    <3> QED
      BY <1>3, <3>2, <3>3 DEF n
  <2>3. frame.seq \in got'
    BY <1>1, <2>1
  <2>4. \A k \in 1..Len(all) : all[k].seq = base[f] + k /\ base[f] + k \in got'
    <3>1. ASSUME NEW k \in 1..Len(out[f]) PROVE all[k].seq = base[f] + k /\ base[f] + k \in got'
      BY <1>1, <1>4, <1>11, <3>1 DEF Gapless
    <3>2. \A k \in 1..Len(all) : k \in 1..n \/ k = n + 1
      BY <1>len
    <3>3. all[n + 1].seq = base[f] + (n + 1) /\ base[f] + (n + 1) \in got'
      BY <1>4, <2>2, <2>3
    <3> QED
      BY <3>1, <3>2, <3>3
  <2>5. \A k \in 1..Len(rest) : rest[k].seq = base[f] + Len(all) + k
    <3>1. ASSUME NEW k \in 1..Len(rest) PROVE rest[k].seq = base[f] + Len(all) + k
      <4>1. k + 1 \in 1..Len(chan[f]) /\ rest[k] = chan[f][k + 1]
        BY <1>3
      <4>2. chan[f][k + 1].seq = base[f] + Len(out[f]) + (k + 1)
        BY <1>11, <4>1 DEF Gapless
      <4> HIDE DEF n
      <4>3. base[f] + n + (k + 1) = base[f] + (n + 1) + k
        BY <1>5, <1>len
      <4> QED
        BY <1>len, <4>1, <4>2, <4>3 DEF n
    <3> QED
      BY <3>1
  <2>6. Len(all) + Len(rest) = Len(out[f]) + Len(chan[f])
    <3> HIDE DEF n, c
    <3>1. (n + 1) + (c - 1) = n + c
      BY <1>len
    <3> QED
      BY <1>len, <3>1 DEF n, c
  <2> QED
    BY <1>1, <1>6, <1>11, <2>4, <2>5, <2>6 DEF Gapless
<1>12. BatchInv' /\ StreamInv' /\ SkippedForCause'
  <2>1. got \subseteq got'
    BY <1>1
  <2>2. ASSUME NEW g \in Readers, g # f
        PROVE  pc'[g] = pc[g] /\ (ToldToLag(g)' <=> ToldToLag(g)) /\ (Gapless(g) => Gapless(g)')
    BY <1>1, <1>6, <2>1, <2>2, GaplessKept, LagKept
  <2> QED
    BY <1>1, <1>5, <1>10, <1>11, <2>1, <2>2, OneStream
<1> QED
  BY <1>8, <1>9, <1>12

\* A process goes away.
LEMMA HangUpSkips == ASSUME IInv, SInv, NEW f \in Readers, HangUp(f) PROVE SInv'
<1> USE DEF SInv
<1>1. /\ Registered(f) /\ hung' = hung \cup {f}
      /\ UNCHANGED <<stored, pushed, todo, cursor, got, named, pc, batch, base, dropped, chan, out>>
  BY DEF HangUp, streams
<1>2. base[f] # -1
  BY <1>1 DEF Registered
<1>3. GotStored' /\ RolesInv'
  BY <1>1 DEF GotStored, RolesInv
<1>4. BatchInv' /\ StreamInv' /\ SkippedForCause'
  <2>1. ASSUME NEW g \in Readers, g # f
        PROVE  (ToldToLag(g)' <=> ToldToLag(g)) /\ (Gapless(g) => Gapless(g)')
    BY <1>1, <2>1, GaplessKept DEF ToldToLag
  <2>2. ToldToLag(f)'
    BY <1>1 DEF ToldToLag
  <2> QED
    BY <1>1, <1>2, <2>1, <2>2, OneStream
<1> QED
  BY <1>3, <1>4

\* A write to a process that went away fails, and its stream leaves the registry.
LEMMA LeaveSkips ==
    ASSUME IInv, SInv, NEW f \in Readers, WriteFails(f) \/ Deregister(f) PROVE SInv'
<1> USE DEF SInv
<1>1. /\ UNCHANGED <<stored, pushed, ingest, todo, cursor, receipted, got, named, batch, hung,
                     base, dropped, out>>
      /\ f \in hung /\ base[f] # -1
      /\ \/ chan[f] # <<>> /\ chan' = [chan EXCEPT ![f] = Tail(@)] /\ pc' = [pc EXCEPT ![f] = "leaving"]
         \/ chan' = [chan EXCEPT ![f] = <<>>] /\ pc' = [pc EXCEPT ![f] = "closed"]
  BY DEF WriteFails, Deregister, RolesInv, IInv, RegistryInv
<1>2. /\ pc'[f] \in {"leaving", "closed"}
      /\ \A g \in Readers : g # f => pc'[g] = pc[g] /\ chan'[g] = chan[g]
  BY <1>1 DEF IInv, ReadersOK, StreamsOK
<1>3. RolesInv'
  BY <1>1, <1>2 DEF RolesInv
<1>4. GotStored'
  <2>1. chan[f] \in Seq(Frame)
    BY DEF IInv, StreamsOK
  <2>2. \A k \in 1..Len(chan[f]) : chan[f][k].seq <= pushed
    BY DEF GotStored
  <2>3. \A k \in 1..Len(chan'[f]) : chan'[f][k].seq <= pushed
    <3>1. CASE chan[f] # <<>> /\ chan' = [chan EXCEPT ![f] = Tail(@)]
      <4>1. chan'[f] = Tail(chan[f])
        BY <3>1 DEF IInv, StreamsOK
      <4>2. \A k \in 1..Len(Tail(chan[f])) : k + 1 \in 1..Len(chan[f]) /\ Tail(chan[f])[k] = chan[f][k + 1]
        BY <2>1, <3>1
      <4> QED
        BY <2>2, <4>1, <4>2
    <3>2. CASE chan' = [chan EXCEPT ![f] = <<>>]
      BY <3>2 DEF IInv, StreamsOK
    <3> QED
      BY <1>1, <3>1, <3>2
  <2> QED
    BY <1>1, <1>2, <2>3 DEF GotStored
<1>5. BatchInv' /\ StreamInv' /\ SkippedForCause'
  <2>1. ASSUME NEW g \in Readers, g # f
        PROVE  (ToldToLag(g)' <=> ToldToLag(g)) /\ (Gapless(g) => Gapless(g)')
    BY <1>1, <1>2, <2>1, GaplessKept, LagKept
  <2>2. ToldToLag(f)'
    BY <1>1 DEF ToldToLag
  <2> QED
    BY <1>1, <1>2, <2>1, <2>2, OneStream
<1> QED
  BY <1>3, <1>4, <1>5

\* A new row: if the cursor is there already, an ack command named it.
LEMMA InsertSkips == ASSUME IInv, SInv, InsertInbound PROVE SInv'
<1> USE DEF SInv
<1>1. /\ stored' = stored + 1
      /\ UNCHANGED <<pushed, todo, cursor, receipted, got, named, pc, batch, hung, base, dropped,
                     chan, out>>
  BY DEF InsertInbound, cli, streams
<1>2. stored \in Nat /\ cursor \in Nat
  BY DEF IInv, IngestOK, StoreOK
<1>3. GotStored' /\ RolesInv'
  BY <1>1, <1>2 DEF GotStored, RolesInv
<1>4. BatchInv'
  BY <1>1 DEF BatchInv, BatchOK
<1>5. StreamInv'
  BY <1>1, StreamsKept
<1>6. ASSUME NEW q \in 1..stored', q <= cursor, q \notin got PROVE Cause(q)
  <2>1. CASE q \in 1..stored
    BY <1>6, <2>1 DEF SkippedForCause, Cause
  <2>2. CASE q \notin 1..stored
    <3>1. q = stored + 1 /\ cursor > stored /\ cursor > 0
      BY <1>1, <1>2, <1>6, <2>2
    <3>2. cursor \notin got
      BY <1>2, <3>1 DEF GotStored
    <3>3. cursor \in named
      BY <3>1, <3>2 DEF IInv, AckedWasGivenOrNamed
    <3> QED
      BY <1>6, <3>3 DEF Cause
  <2> QED
    BY <2>1, <2>2
<1>7. \A q : Cause(q) => Cause(q)'
  BY <1>1 DEF Cause, ToldToLag
<1>8. SkippedForCause'
  BY <1>1, <1>6, <1>7 DEF SkippedForCause, Cause
<1> QED
  BY <1>3, <1>4, <1>5, <1>8

\* The push takes the lock: every stream is owed one more message.
LEMMA PushStartSkips == ASSUME IInv, SInv, PushStart PROVE SInv'
<1> USE DEF SInv
<1>1. PICK order \in SetToSeqs(Subscribers) : todo' = order
  BY DEF PushStart
<1>2. /\ ingest = "stored" /\ pushed' = stored
      /\ UNCHANGED <<stored, cursor, receipted, got, named, pc, batch, hung, base, dropped, chan,
                     out>>
  BY DEF PushStart, cli, streams
<1>3. stored = pushed + 1 /\ Range(todo) = {} /\ pushed \in Nat
  BY <1>2 DEF IInv, PushInv, Locked, Range, IngestOK
<1>4. Range(todo') = Subscribers
  <2>1. Subscribers \in SUBSET Readers
    BY DEF Subscribers
  <2>2. IsFiniteSet(Subscribers)
    BY <2>1, ReadersAssumption, FS_Subset
  <2> QED
    BY <1>1, <2>2, OrderOf
<1>5. GotStored'
  <2>1. ASSUME NEW f \in Readers, NEW k \in 1..Len(chan[f]) PROVE chan[f][k].seq <= stored
    <3>1. chan[f][k].seq \in Int /\ chan[f][k].seq <= pushed
      <4>1. chan[f] \in Seq(Frame)
        BY DEF IInv, StreamsOK
      <4>2. chan[f][k] \in Frame
        BY <4>1
      <4> QED
        BY <4>2, SizesAssumption DEF GotStored, Frame
    <3> QED
      BY <1>3, <3>1
  <2> QED
    BY <1>2, <2>1 DEF GotStored
<1>6. RolesInv' /\ BatchInv'
  BY <1>2 DEF RolesInv, BatchInv, BatchOK
<1>7. \A f \in Readers : ToldToLag(f)' <=> ToldToLag(f)
  BY <1>2 DEF ToldToLag
<1>8. SkippedForCause'
  BY <1>2, <1>7, SkipKept
<1>9. StreamInv'
  <2>1. ASSUME NEW f \in Readers, base[f] # -1, ~ToldToLag(f) PROVE Gapless(f)'
    <3>1. f \in Subscribers
      <4>1. f \notin hung
        BY <2>1 DEF ToldToLag
      <4>2. pc[f] \notin {"leaving", "closed"}
        BY <4>1 DEF RolesInv
      <4>3. pc[f] \notin {"off", "select", "named", "drained"} /\ pc[f] \in PCs /\ base[f] >= 0
        BY <2>1 DEF IInv, RegistryInv, ReadersOK, PCs
      <4> QED
        BY <4>2, <4>3 DEF Subscribers, Registered, PCs
    <3>2. Gapless(f) /\ base[f] \in Int
      BY <2>1 DEF StreamInv, IInv, ReadersOK
    <3>3. pushed - base[f] - 0 = pushed' - base'[f] - 1
      BY <1>2, <1>3, <3>2
    <3> QED
      BY <1>2, <1>3, <1>4, <3>1, <3>2, <3>3 DEF Gapless
  <2> QED
    BY <1>2, <1>7, <2>1 DEF StreamInv
<1> QED
  BY <1>5, <1>6, <1>8, <1>9

\* The first try_send: a count becomes a notice.
LEMMA PushFlushSkips == ASSUME IInv, SInv, PushFlush PROVE SInv'
<1> USE DEF SInv
<1>1. /\ ingest = "flush"
      /\ UNCHANGED <<stored, pushed, todo, cursor, receipted, got, named, pc, batch, hung, base,
                     out>>
  BY DEF PushFlush, cli
<1>head. PICK f \in Readers : f = Head(todo)
  BY <1>1, RestOf DEF IInv, PushInv, Locked, IngestOK
<1> DEFINE notice == Lagged(dropped[f])
           more == Append(chan[f], notice)
<1>2. \/ /\ dropped[f] > 0
         /\ chan' = [chan EXCEPT ![f] = more]
         /\ dropped' = [dropped EXCEPT ![f] = 0]
      \/ UNCHANGED <<chan, dropped>>
  BY <1>head DEF PushFlush
<1>3. f \in Readers /\ base[f] # -1
  BY <1>1, <1>head, RestOf DEF IInv, PushInv, Locked, IngestOK, Registered
<1>4. dropped[f] \in 0..MaxSeq /\ chan[f] \in Seq(Frame) /\ pushed \in Nat
  BY <1>3 DEF IInv, StreamsOK, IngestOK
<1>5. notice \in Frame /\ notice.seq = 0 /\ ~IsMessage(notice)
  BY <1>4, SizesAssumption DEF Lagged, Frame, IsMessage
<1> HIDE DEF notice
<1>6. /\ Len(chan[f]) \in Nat /\ Len(more) = Len(chan[f]) + 1 /\ more[Len(chan[f]) + 1] = notice
      /\ \A k \in 1..Len(chan[f]) : more[k] = chan[f][k]
  BY <1>4, <1>5
<1> HIDE DEF more
<1>7. \A g \in Readers : g # f => chan'[g] = chan[g] /\ dropped'[g] = dropped[g]
  BY <1>2 DEF IInv, StreamsOK
<1>8. RolesInv'
  BY <1>1 DEF RolesInv
<1>9. CASE UNCHANGED <<chan, dropped>>
  <2>1. GotStored' /\ BatchInv'
    BY <1>1, <1>9 DEF GotStored, BatchInv, BatchOK
  <2>2. StreamInv' /\ SkippedForCause'
    BY <1>1, <1>9, StreamsKept, SkipKept
  <2> QED
    BY <1>8, <2>1, <2>2
<1>10. CASE chan' = [chan EXCEPT ![f] = more]
  <2>1. chan'[f] = more
    BY <1>3, <1>10 DEF IInv, StreamsOK
  <2>2. GotStored'
    <3>1. \A k \in 1..Len(more) : more[k].seq <= pushed
      <4>1. \A k \in 1..Len(chan[f]) : more[k].seq <= pushed
        BY <1>3, <1>6 DEF GotStored
      <4> QED
        BY <1>4, <1>5, <1>6, <4>1
    <3> QED
      BY <1>1, <1>7, <2>1, <3>1 DEF GotStored
  <2>3. ToldToLag(f)'
    BY <1>5, <1>6, <2>1 DEF ToldToLag
  <2>4. ASSUME NEW g \in Readers, g # f
        PROVE  (ToldToLag(g)' <=> ToldToLag(g)) /\ (Gapless(g) => Gapless(g)')
    BY <1>1, <1>7, <2>4, GaplessKept, LagKept
  <2>5. BatchInv' /\ StreamInv' /\ SkippedForCause'
    BY <1>1, <1>3, <2>3, <2>4, OneStream
  <2> QED
    BY <1>8, <2>2, <2>5
<1> QED
  BY <1>2, <1>9, <1>10

\* The second try_send: the message is the next of the stream, or counted.
LEMMA PushSendSkips == ASSUME IInv, SInv, PushSend PROVE SInv'
<1> USE DEF SInv
<1> DEFINE rest == Tail(todo)
<1>1. /\ ingest = "send" /\ todo' = rest
      /\ UNCHANGED <<stored, pushed, cursor, receipted, got, named, pc, batch, hung, base, out>>
  BY DEF PushSend, cli
<1>head. PICK f \in Readers : f = Head(todo)
  BY <1>1, RestOf DEF IInv, PushInv, Locked, IngestOK
<1> DEFINE msg == Message(pushed)
           more == Append(chan[f], msg)
           n == Len(out[f])
           c == Len(chan[f])
<1>2. \/ dropped' = [dropped EXCEPT ![f] = dropped[f] + 1] /\ UNCHANGED chan
      \/ chan' = [chan EXCEPT ![f] = more] /\ UNCHANGED dropped
  BY <1>head DEF PushSend
<1>3. /\ f \in Readers /\ f \in Range(todo) /\ f \notin Range(rest) /\ base[f] # -1
      /\ \A x : x # f => (x \in Range(rest) <=> x \in Range(todo))
  BY <1>1, <1>head, RestOf DEF IInv, PushInv, Locked, IngestOK, Registered
<1> HIDE DEF rest
<1>4. /\ pushed \in 1..MaxSeq /\ dropped[f] \in 0..MaxSeq /\ chan[f] \in Seq(Frame)
      /\ base[f] \in Int /\ out[f] \in Seq(Frame)
  BY <1>1, <1>3 DEF IInv, PushInv, Locked, IngestOK, StreamsOK, ReadersOK
<1>5. msg \in Frame /\ msg.seq = pushed /\ IsMessage(msg)
  BY <1>4, SizesAssumption DEF Message, Frame, IsMessage
<1> HIDE DEF msg
<1>6. /\ Len(chan[f]) \in Nat /\ Len(out[f]) \in Nat
      /\ Len(more) = Len(chan[f]) + 1 /\ more[Len(chan[f]) + 1] = msg
      /\ \A k \in 1..Len(chan[f]) : more[k] = chan[f][k]
  BY <1>4, <1>5
<1> HIDE DEF more
<1>7. ASSUME NEW g \in Readers, g # f
      PROVE  (ToldToLag(g)' <=> ToldToLag(g)) /\ (Gapless(g) => Gapless(g)')
  <2>1. chan'[g] = chan[g] /\ dropped'[g] = dropped[g]
    BY <1>2, <1>7 DEF IInv, StreamsOK
  <2> QED
    BY <1>1, <1>3, <1>7, <2>1, GaplessKept, LagKept
<1>8. RolesInv'
  BY <1>1 DEF RolesInv
<1>9. CASE dropped' = [dropped EXCEPT ![f] = dropped[f] + 1] /\ UNCHANGED chan
  <2>1. dropped'[f] > 0
    BY <1>3, <1>4, <1>9 DEF IInv, StreamsOK
  <2>2. ToldToLag(f)'
    BY <2>1 DEF ToldToLag
  <2>3. GotStored'
    BY <1>1, <1>9 DEF GotStored
  <2>4. BatchInv' /\ StreamInv' /\ SkippedForCause'
    BY <1>1, <1>3, <1>7, <2>2, OneStream
  <2> QED
    BY <1>8, <2>3, <2>4
<1>10. CASE chan' = [chan EXCEPT ![f] = more] /\ UNCHANGED dropped
  <2>1. chan'[f] = more /\ \A g \in Readers : g # f => chan'[g] = chan[g]
    BY <1>3, <1>10 DEF IInv, StreamsOK
  <2>2. GotStored'
    <3>1. \A k \in 1..Len(more) : more[k].seq <= pushed
      <4>1. \A k \in 1..Len(chan[f]) : more[k].seq <= pushed
        BY <1>3, <1>6 DEF GotStored
      <4> QED
        BY <1>4, <1>5, <1>6, <4>1
    <3> QED
      BY <1>1, <2>1, <3>1 DEF GotStored
  <2>3. ToldToLag(f)' <=> ToldToLag(f)
    <3>1. (\E k \in 1..Len(more) : ~IsMessage(more[k])) <=> \E k \in 1..Len(chan[f]) : ~IsMessage(chan[f][k])
      BY <1>5, <1>6
    <3> QED
      BY <1>1, <1>10, <2>1, <3>1 DEF ToldToLag
  <2>4. ASSUME Gapless(f) PROVE Gapless(f)'
    <3>1. Len(out[f]) + Len(chan[f]) = pushed - base[f] - 1
      BY <1>3, <2>4 DEF Gapless
    <3>2. Len(out[f]) + Len(more) = pushed - base[f] - 0
      <4>1. n \in Nat /\ c \in Nat /\ Len(more) = c + 1 /\ n + c = pushed - base[f] - 1
        BY <1>6, <3>1
      <4> HIDE DEF n, c
      <4>2. base[f] \in Int /\ pushed \in Int
        BY <1>4, SizesAssumption
      <4>3. n + (c + 1) = pushed - base[f] - 0
        BY <4>1, <4>2
      <4> QED
        BY <4>1, <4>3 DEF n
    <3>3. \A k \in 1..Len(more) : more[k].seq = base[f] + Len(out[f]) + k
      <4>1. \A k \in 1..Len(chan[f]) : more[k].seq = base[f] + Len(out[f]) + k
        BY <1>6, <2>4 DEF Gapless
      <4>2. pushed = base[f] + Len(out[f]) + (Len(chan[f]) + 1)
        <5>1. n \in Nat /\ c \in Nat /\ n + c = pushed - base[f] - 1
          BY <1>6, <3>1
        <5> HIDE DEF n, c
        <5>2. base[f] \in Int /\ pushed \in Int
          BY <1>4, SizesAssumption
        <5>3. pushed = base[f] + n + (c + 1)
          BY <5>1, <5>2
        <5> QED
          BY <5>3 DEF n, c
      <4> QED
        BY <1>5, <1>6, <4>1, <4>2
    <3> QED
      BY <1>1, <1>3, <2>1, <2>4, <3>2, <3>3 DEF Gapless
  <2>5. BatchInv' /\ StreamInv' /\ SkippedForCause'
    BY <1>1, <1>3, <1>7, <2>3, <2>4, OneStream
  <2> QED
    BY <1>8, <2>2, <2>5
<1> QED
  BY <1>2, <1>9, <1>10

\* Every step keeps what the cursor passes accounted for.
LEMMA NextSkips == IInv /\ SInv /\ [Next]_vars => SInv'
<1> SUFFICES ASSUME IInv, SInv, [Next]_vars PROVE SInv'
  OBVIOUS
<1>1. CASE UNCHANGED vars
  <2>1. GotStored' /\ RolesInv' /\ BatchInv'
    BY <1>1 DEF SInv, vars, GotStored, RolesInv, BatchInv, BatchOK
  <2>2. StreamInv' /\ SkippedForCause'
    BY <1>1, StreamsKept, SkipKept DEF SInv, vars
  <2> QED
    BY <2>1, <2>2 DEF SInv
<1>2. CASE InsertInbound \/ Push
  BY <1>2, InsertSkips, PushStartSkips, PushFlushSkips, PushSendSkips DEF Push
<1>3. ASSUME NEW f \in Readers, ReceiptBatch(f) \/ ReadEnds(f) \/ ReceiptNamed(f) \/ StreamReceipt(f)
      PROVE  SInv'
  <2>1. PICK v \in {"off", "drained", "live"} : pc' = [pc EXCEPT ![f] = v]
    BY <1>3 DEF ReceiptBatch, ReadEnds, ReceiptNamed, StreamReceipt
  <2>2. /\ \A g \in Readers : g # f => batch'[g] = batch[g]
        /\ UNCHANGED <<stored, pushed, todo, cursor, got, named, hung, base, dropped, chan, out>>
    BY <1>3 DEF ReceiptBatch, ReadEnds, ReceiptNamed, StreamReceipt, streams, IInv, ReadersOK
  <2> QED
    BY <2>1, <2>2, QuietSkips
<1>4. ASSUME NEW f \in Readers, Reader(f) PROVE SInv'
  BY <1>3, <1>4, ReadCursorSkips, ReadSelectSkips, AckBatchSkips, SubscribeSkips DEF Reader
<1>5. ASSUME NEW f \in Readers, Forwarder(f) \/ HangUp(f) PROVE SInv'
  BY <1>3, <1>5, ForwardSkips, StreamAckSkips, LeaveSkips, HangUpSkips DEF Forwarder
<1>6. ASSUME NEW f \in Naming, NEW seq \in Acks, AckCommand(f, seq) PROVE SInv'
  BY <1>6, AckCommandSkips, ReadersAssumption
<1> QED
  BY <1>1, <1>2, <1>4, <1>5, <1>6 DEF Next

\* What the cursor has passed without being given to anybody was named by an ack
\* command, or missed by an acknowledging follower that registered later or is
\* told of a lag: reads skip nothing, however many processes share the cursor.
THEOREM SkipsHaveCause == Spec => []SkippedForCause
<1>1. Init => SInv
  <2> SUFFICES ASSUME Init PROVE SInv
    OBVIOUS
  <2> USE DEF Init
  <2>1. GotStored /\ RolesInv /\ BatchInv /\ StreamInv
    BY DEF GotStored, RolesInv, BatchInv, BatchOK, StreamInv
  <2>2. SkippedForCause
    BY DEF SkippedForCause
  <2> QED
    BY <2>1, <2>2 DEF SInv
<1>2. SInv => SkippedForCause
  BY DEF SInv
<1> QED
  BY <1>1, <1>2, NextSkips, Invariance, PTL DEF Spec

=============================================================================
