---------------------------- MODULE VerifyProofs ----------------------------
(***************************************************************************)
(* Proofs about Verify, for any names, keys, trust store, limits, requests *)
(* and envelopes on the topic.                                             *)
(***************************************************************************)
EXTENDS Verify, FiniteSetTheorems, SequenceTheorems, WellFoundedInduction, TLAPS

-----------------------------------------------------------------------------
(* Chains of gates.                                                        *)

Gate(R) == BOOLEAN \X R
Fails(gate) == gate[1] = TRUE
Passes(gates) == \A k \in DOMAIN gates : ~Fails(gates[k])

\* A set of natural numbers that is not empty has its Min among its members,
\* and no member is smaller.
LEMMA NatMin ==
    ASSUME NEW S \in SUBSET Nat, S # {}
    PROVE  Min(S) \in S /\ \A y \in S : Min(S) <= y
<1> DEFINE Less == {p \in Nat \X Nat : p[1] < p[2]}
<1>0. IsWellFoundedOn(Less, Nat)
  BY NatLessThanWellFounded DEF OpToRel
<1>1. PICK x \in S : \A y \in S : ~(<<y, x>> \in Less)
  <2> HIDE DEF Less
  <2> QED
    BY <1>0, WFMin
<1>2. \A y \in S : x <= y
  <2> TAKE y \in S
  <2>1. x \in Nat /\ y \in Nat
    OBVIOUS
  <2>2. ASSUME y < x PROVE <<y, x>> \in Less
    BY <2>1, <2>2
  <2> HIDE DEF Less
  <2>3. ~(y < x)
    BY <1>1, <2>2
  <2> QED
    BY <2>1, <2>3
<1> QED
  BY <1>2 DEF Min

\* A chain of early returns answers "ok" exactly when no gate fails, and
\* otherwise with the reason of the first gate that does.
LEMMA FirstFailureOk ==
    ASSUME NEW R, "ok" \notin R, NEW g \in Seq(Gate(R))
    PROVE  /\ FirstFailure(g) = "ok" <=> Passes(g)
           /\ ~Passes(g) => \E k \in DOMAIN g :
                 /\ Fails(g[k]) /\ FirstFailure(g) = g[k][2] /\ g[k][2] \in R
                 /\ \A l \in DOMAIN g : Fails(g[l]) => k <= l
<1> DEFINE failing == {k \in DOMAIN g : g[k][1]}
<1>1. failing \in SUBSET Nat
  OBVIOUS
<1>2. \A k \in DOMAIN g : g[k][1] \in BOOLEAN /\ g[k][2] \in R
  BY DEF Gate
<1>3. \A k \in DOMAIN g : k \in failing <=> Fails(g[k])
  BY <1>2 DEF Fails
<1>4. failing = {} <=> Passes(g)
  BY <1>3 DEF Passes
<1>5. FirstFailure(g) = IF failing = {} THEN "ok" ELSE g[Min(failing)][2]
  BY DEF FirstFailure
<1>6. ASSUME failing # {}
      PROVE  /\ Min(failing) \in DOMAIN g /\ Min(failing) \in failing
             /\ \A l \in failing : Min(failing) <= l
  <2>1. Min(failing) \in failing /\ \A y \in failing : Min(failing) <= y
    BY <1>1, <1>6, NatMin
  <2> QED
    BY <2>1
<1> HIDE DEF failing
<1>7. ASSUME ~Passes(g)
      PROVE  /\ Min(failing) \in DOMAIN g /\ Fails(g[Min(failing)])
             /\ FirstFailure(g) = g[Min(failing)][2] /\ g[Min(failing)][2] \in R
             /\ \A l \in DOMAIN g : Fails(g[l]) => Min(failing) <= l
  BY <1>2, <1>3, <1>4, <1>5, <1>6, <1>7
<1> QED
  BY <1>4, <1>5, <1>7

\* Two chains one after the other.
LEMMA Chained ==
    ASSUME NEW R, NEW g \in Seq(Gate(R)), NEW h \in Seq(Gate(R))
    PROVE  /\ g \o h \in Seq(Gate(R))
           /\ Passes(g \o h) <=> Passes(g) /\ Passes(h)
<1> DEFINE c == g \o h
<1>1. c \in Seq(Gate(R)) /\ Len(c) = Len(g) + Len(h)
  OBVIOUS
<1>2. \A k \in 1..Len(g) : c[k] = g[k]
  OBVIOUS
<1>3. \A k \in 1..Len(h) : c[Len(g) + k] = h[k]
  OBVIOUS
<1>4. DOMAIN c = 1..Len(c) /\ DOMAIN g = 1..Len(g) /\ DOMAIN h = 1..Len(h)
      /\ Len(g) \in Nat /\ Len(h) \in Nat
  BY <1>1
<1> HIDE DEF c
<1>5. ASSUME Passes(c) PROVE Passes(g) /\ Passes(h)
  <2>1. \A k \in 1..Len(g) : k \in DOMAIN c
    BY <1>1, <1>4
  <2>2. \A k \in 1..Len(h) : Len(g) + k \in DOMAIN c
    BY <1>1, <1>4
  <2> QED
    BY <1>2, <1>3, <1>4, <1>5, <2>1, <2>2 DEF Passes
<1>6. ASSUME Passes(g), Passes(h) PROVE Passes(c)
  <2> SUFFICES ASSUME NEW k \in DOMAIN c PROVE ~Fails(c[k])
    BY DEF Passes
  <2>1. CASE k <= Len(g)
    <3>1. k \in 1..Len(g)
      BY <1>1, <1>4, <2>1
    <3> QED
      BY <1>2, <1>4, <1>6, <3>1 DEF Passes
  <2>2. CASE k > Len(g)
    <3>1. k - Len(g) \in 1..Len(h) /\ Len(g) + (k - Len(g)) = k
      BY <1>1, <1>4, <2>2
    <3>2. c[k] = h[k - Len(g)]
      BY <1>3, <3>1
    <3> QED
      BY <1>4, <1>6, <3>1, <3>2 DEF Passes
  <2> QED
    BY <1>1, <1>4, <2>1, <2>2
<1> QED
  BY <1>1, <1>5, <1>6 DEF c

\* If the first of two chains fails, the answer is one of its reasons; if only
\* the second does, one of that one's.
LEMMA FirstOfTwo ==
    ASSUME NEW R, NEW Q, "ok" \notin R \cup Q, NEW g \in Seq(Gate(R)), NEW h \in Seq(Gate(Q))
    PROVE  /\ FirstFailure(g \o h) = "ok" <=> Passes(g) /\ Passes(h)
           /\ ~Passes(g) => FirstFailure(g \o h) \in R
           /\ Passes(g) /\ ~Passes(h) => FirstFailure(g \o h) \in Q
<1> DEFINE c == g \o h
<1>1. g \in Seq(Gate(R \cup Q)) /\ h \in Seq(Gate(R \cup Q))
  <2>1. Gate(R) \subseteq Gate(R \cup Q) /\ Gate(Q) \subseteq Gate(R \cup Q)
    BY DEF Gate
  <2> QED
    BY <2>1, SeqMonotonic
<1>2. c \in Seq(Gate(R \cup Q)) /\ (Passes(c) <=> Passes(g) /\ Passes(h))
  BY <1>1, Chained, Zenon
<1>3. /\ FirstFailure(c) = "ok" <=> Passes(c)
      /\ ~Passes(c) => \E k \in DOMAIN c :
            /\ Fails(c[k]) /\ FirstFailure(c) = c[k][2] /\ c[k][2] \in R \cup Q
            /\ \A l \in DOMAIN c : Fails(c[l]) => k <= l
  BY <1>2, FirstFailureOk, Zenon
<1>4. /\ Len(g) \in Nat /\ Len(h) \in Nat
      /\ DOMAIN c = 1..(Len(g) + Len(h)) /\ DOMAIN g = 1..Len(g) /\ DOMAIN h = 1..Len(h)
      /\ \A k \in 1..Len(g) : c[k] = g[k]
      /\ \A k \in 1..Len(h) : c[Len(g) + k] = h[k]
  OBVIOUS
<1>5. /\ \A k \in 1..Len(g) : g[k][2] \in R
      /\ \A k \in 1..Len(h) : h[k][2] \in Q
  BY DEF Gate
<1> HIDE DEF c
<1>6. ASSUME ~Passes(g) PROVE FirstFailure(c) \in R
  <2>1. PICK k \in DOMAIN c :
           /\ Fails(c[k]) /\ FirstFailure(c) = c[k][2]
           /\ \A l \in DOMAIN c : Fails(c[l]) => k <= l
    BY <1>2, <1>3, <1>6
  <2>2. PICK l \in 1..Len(g) : Fails(g[l])
    BY <1>4, <1>6 DEF Passes
  <2>3. k <= l
    BY <1>4, <2>1, <2>2
  <2>4. k \in 1..Len(g)
    BY <1>4, <2>1, <2>2, <2>3
  <2> QED
    BY <1>4, <1>5, <2>1, <2>4
<1>7. ASSUME Passes(g), ~Passes(h) PROVE FirstFailure(c) \in Q
  <2>1. PICK k \in DOMAIN c : Fails(c[k]) /\ FirstFailure(c) = c[k][2]
    BY <1>2, <1>3, <1>7
  <2>2. k \notin 1..Len(g)
    BY <1>4, <1>7, <2>1 DEF Passes
  <2>3. k - Len(g) \in 1..Len(h) /\ Len(g) + (k - Len(g)) = k
    BY <1>4, <2>1, <2>2
  <2> QED
    BY <1>4, <1>5, <2>1, <2>3
<1> QED
  BY <1>2, <1>3, <1>6, <1>7 DEF c

\* A chain of 1 gate.
LEMMA Chain1 ==
    ASSUME NEW R, NEW a1 \in BOOLEAN, NEW x1 \in R
    PROVE  /\ <<<<a1, x1>>>> \in Seq(Gate(R))
           /\ Passes(<<<<a1, x1>>>>) <=> ~a1
<1> DEFINE g == <<<<a1, x1>>>>
<1>1. g \in Seq(Gate(R))
  BY DEF Gate
<1>2. DOMAIN g = 1..1
  OBVIOUS
<1>3. (Fails(g[1]) <=> a1)
  BY DEF Fails
<1> HIDE DEF g
<1>4. Passes(g) <=> ~a1
  BY <1>2, <1>3 DEF Passes
<1> QED
  BY <1>1, <1>4 DEF g

-----------------------------------------------------------------------------
(* What each chain of the code lets through.                               *)

SwitchesOK == cfg \in [allowUnsigned : BOOLEAN, acceptV1 : BOOLEAN]

\* The version gate: version 2, and version 1 if it is accepted.
LEMMA VersionPasses ==
    ASSUME NEW e, WellFormed(e), SwitchesOK
    PROVE  /\ VersionGates(e) \in Seq(Gate(EnvelopeReason))
           /\ Passes(VersionGates(e)) <=> Supported(e)
<1> DEFINE a1 == (e.v = 1 /\ ~cfg.acceptV1)
           a2 == (e.v \notin {1, 2})
           g == <<<<a1, "unsupported_version">>, <<a2, "unsupported_version">>>>
<1>1. a1 \in BOOLEAN /\ a2 \in BOOLEAN
  BY Zenon
<1>2. {"unsupported_version"} \subseteq EnvelopeReason
  BY DEF EnvelopeReason
<1>3. VersionGates(e) = g
  BY Zenon DEF VersionGates
<1> HIDE DEF a1, a2
<1>4. g \in Seq(Gate(EnvelopeReason)) /\ DOMAIN g = 1..2
  BY <1>1, <1>2 DEF Gate
<1>5. (Fails(g[1]) <=> a1) /\ (Fails(g[2]) <=> a2)
  BY <1>1 DEF Fails
<1> HIDE DEF g
<1>6. Passes(g) <=> ~a1 /\ ~a2
  BY <1>4, <1>5 DEF Passes
<1>7. ~a1 /\ ~a2 <=> Supported(e)
  BY DEF a1, a2, SwitchesOK, WellFormed, Supported
<1> QED
  BY <1>3, <1>4, <1>6, <1>7

\* The gates of an unsigned message.
LEMMA UnsignedPasses ==
    ASSUME NEW e, WellFormed(e), SwitchesOK
    PROVE  /\ UnsignedGates(e) \in Seq(Gate(EnvelopeReason))
           /\ Passes(UnsignedGates(e)) <=> cfg.allowUnsigned /\ e.inner = "ok" /\ ~Known(e.from)
<1> DEFINE a1 == (~cfg.allowUnsigned)
           a2 == (e.inner # "ok")
           a3 == Known(e.from)
           g == <<<<a1, "unsigned_not_allowed">>, <<a2, "malformed_wrapper">>,
                  <<a3, "downgrade_rejected">>>>
<1>1. a1 \in BOOLEAN /\ a2 \in BOOLEAN /\ a3 \in BOOLEAN
  BY Zenon DEF Known
<1>2. {"downgrade_rejected", "malformed_wrapper", "unsigned_not_allowed"} \subseteq EnvelopeReason
  BY DEF EnvelopeReason
<1>3. UnsignedGates(e) = g
  BY Zenon DEF UnsignedGates
<1> HIDE DEF a1, a2, a3
<1>4. g \in Seq(Gate(EnvelopeReason)) /\ DOMAIN g = 1..3
  BY <1>1, <1>2 DEF Gate
<1>5. (Fails(g[1]) <=> a1) /\ (Fails(g[2]) <=> a2) /\ (Fails(g[3]) <=> a3)
  BY <1>1 DEF Fails
<1> HIDE DEF g
<1>6. Passes(g) <=> ~a1 /\ ~a2 /\ ~a3
  BY <1>4, <1>5 DEF Passes
<1>7. ~a1 /\ ~a2 /\ ~a3 <=> cfg.allowUnsigned /\ e.inner = "ok" /\ ~Known(e.from)
  BY DEF a1, a2, a3, SwitchesOK
<1> QED
  BY <1>3, <1>4, <1>6, <1>7

\* A key identifier is its three fields.
LEMMA KidRecord ==
    ASSUME NEW e, WellFormed(e), NEW n, NEW k
    PROVE  e.kid = [form |-> "ok", name |-> n, key |-> k]
             <=> e.kid.form = "ok" /\ e.kid.name = n /\ e.kid.key = k
<1>1. e.kid \in [form : {"absent", "bad", "ok"}, name : Names, key : AnyKey]
  BY DEF WellFormed
<1> QED
  BY <1>1

\* A signature is its three fields.
LEMMA SigRecord ==
    ASSUME NEW e, WellFormed(e), NEW k
    PROVE  e.sig = [form |-> "ok", key |-> k, covers |-> TRUE]
             <=> e.sig.form = "ok" /\ e.sig.key = k /\ e.sig.covers
<1> DEFINE R == [form |-> "ok", key |-> k, covers |-> TRUE]
<1>1. e.sig \in [form : {"absent", "bad", "ok"}, key : AnyKey, covers : BOOLEAN]
  BY DEF WellFormed
<1>2. e.sig = [form |-> e.sig.form, key |-> e.sig.key, covers |-> e.sig.covers]
  BY <1>1
<1>3. e.sig.covers <=> e.sig.covers = TRUE
  BY <1>1
<1>4. R.form = "ok" /\ R.key = k /\ R.covers = TRUE
  OBVIOUS
<1>5. ASSUME e.sig.form = "ok", e.sig.key = k, e.sig.covers = TRUE PROVE e.sig = R
  BY <1>2, <1>5, Zenon
<1> HIDE DEF R
<1>6. e.sig = R <=> e.sig.form = "ok" /\ e.sig.key = k /\ e.sig.covers = TRUE
  BY <1>4, <1>5, Zenon
<1> QED
  BY <1>3, <1>6, Zenon DEF R

\* The gates of a signed message: the key trusted for the sender signed it.
LEMMA SignedPasses ==
    ASSUME NEW e, WellFormed(e)
    PROVE  /\ SignedGates(e) \in Seq(Gate(EnvelopeReason))
           /\ Passes(SignedGates(e)) <=> /\ e.inner = "ok" /\ Known(e.from)
              /\ e.kid = [form |-> "ok", name |-> e.from, key |-> Trust[e.from]]
              /\ e.sig = [form |-> "ok", key |-> Trust[e.from], covers |-> TRUE]
<1> DEFINE a1 == (e.kid.form # "ok")
           a2 == (~Known(e.kid.name))
           a3 == (e.kid.key # Trust[e.kid.name])
           a4 == (e.inner = "undecodable" \/ e.sig.form # "ok")
           a5 == (~Verifies(e, Trust[e.kid.name]))
           a6 == (e.inner = "unparsable")
           a7 == (e.from # e.kid.name)
           g == <<<<a1, "malformed_wrapper">>, <<a2, "unknown_signer">>,
                  <<a3, "kid_mismatch">>, <<a4, "malformed_wrapper">>,
                  <<a5, "invalid_signature">>, <<a6, "malformed_wrapper">>,
                  <<a7, "kid_mismatch">>>>
<1>1. a1 \in BOOLEAN /\ a2 \in BOOLEAN /\ a3 \in BOOLEAN /\ a4 \in BOOLEAN
      /\ a5 \in BOOLEAN /\ a6 \in BOOLEAN /\ a7 \in BOOLEAN
  BY Zenon DEF Known, Verifies
<1>2. {"invalid_signature", "kid_mismatch", "malformed_wrapper", "unknown_signer"} \subseteq EnvelopeReason
  BY DEF EnvelopeReason
<1>3. SignedGates(e) = g
  BY Zenon DEF SignedGates
<1> HIDE DEF a1, a2, a3, a4, a5, a6, a7
<1>4. g \in Seq(Gate(EnvelopeReason)) /\ DOMAIN g = 1..7
  BY <1>1, <1>2 DEF Gate
<1>5. (Fails(g[1]) <=> a1) /\ (Fails(g[2]) <=> a2) /\ (Fails(g[3]) <=> a3)
      /\ (Fails(g[4]) <=> a4) /\ (Fails(g[5]) <=> a5) /\ (Fails(g[6]) <=> a6)
      /\ (Fails(g[7]) <=> a7)
  BY <1>1 DEF Fails
<1> HIDE DEF g
<1>6. Passes(g) <=> ~a1 /\ ~a2 /\ ~a3 /\ ~a4 /\ ~a5 /\ ~a6 /\ ~a7
  BY <1>4, <1>5 DEF Passes
<1>7. e.inner \in {"ok", "undecodable", "unparsable"} /\ e.sig.covers \in BOOLEAN
  <2>1. e.sig \in [form : {"absent", "bad", "ok"}, key : AnyKey, covers : BOOLEAN]
    BY DEF WellFormed
  <2> QED
    BY <2>1 DEF WellFormed
<1>8. e.kid = [form |-> "ok", name |-> e.from, key |-> Trust[e.from]]
        <=> e.kid.form = "ok" /\ e.kid.name = e.from /\ e.kid.key = Trust[e.from]
  <2>1. \A n, k : e.kid = [form |-> "ok", name |-> n, key |-> k]
                    <=> e.kid.form = "ok" /\ e.kid.name = n /\ e.kid.key = k
    BY KidRecord
  <2> QED
    BY <2>1
<1>9. e.sig = [form |-> "ok", key |-> Trust[e.from], covers |-> TRUE]
        <=> e.sig.form = "ok" /\ e.sig.key = Trust[e.from] /\ e.sig.covers
  BY SigRecord, Zenon
<1>10. ~a1 /\ ~a2 /\ ~a3 /\ ~a4 /\ ~a5 /\ ~a6 /\ ~a7 <=>
        /\ e.inner = "ok" /\ Known(e.from)
        /\ e.kid.form = "ok" /\ e.kid.name = e.from /\ e.kid.key = Trust[e.from]
        /\ e.sig.form = "ok" /\ e.sig.key = Trust[e.from] /\ e.sig.covers
  BY <1>7 DEF a1, a2, a3, a4, a5, a6, a7, Verifies
<1> QED
  BY <1>3, <1>4, <1>6, <1>8, <1>9, <1>10

\* The gates of a grant: none, or a trusted authority's, in force, for the sender.
LEMMA GrantPasses ==
    ASSUME NEW e, WellFormed(e)
    PROVE  /\ GrantGates(e) \in Seq(Gate(ContentReason))
           /\ Passes(GrantGates(e)) <=> GrantHolds(e)
<1> DEFINE a1 == (e.grant.form = "garbled")
           a2 == (e.grant.form = "ok" /\ Authorities[e.grant.name] = NoKey)
           a3 == (e.grant.form = "ok" /\ e.grant.key # Authorities[e.grant.name])
           a4 == (e.grant.form = "ok" /\ ~e.grant.signed)
           a5 == (e.grant.form = "ok" /\ e.age > e.grant.life)
           a6 == (e.grant.form = "ok" /\ e.grant.subject # e.from)
           g == <<<<a1, "invalid_grant">>, <<a2, "unknown_authority">>,
                  <<a3, "unknown_authority">>, <<a4, "invalid_grant">>,
                  <<a5, "grant_expired">>, <<a6, "grant_subject_mismatch">>>>
<1>1. a1 \in BOOLEAN /\ a2 \in BOOLEAN /\ a3 \in BOOLEAN /\ a4 \in BOOLEAN
      /\ a5 \in BOOLEAN /\ a6 \in BOOLEAN
  BY Zenon
<1>2. {"grant_expired", "grant_subject_mismatch", "invalid_grant", "unknown_authority"} \subseteq ContentReason
  BY DEF ContentReason
<1>3. GrantGates(e) = g
  BY Zenon DEF GrantGates
<1> HIDE DEF a1, a2, a3, a4, a5, a6
<1>4. g \in Seq(Gate(ContentReason)) /\ DOMAIN g = 1..6
  BY <1>1, <1>2 DEF Gate
<1>5. (Fails(g[1]) <=> a1) /\ (Fails(g[2]) <=> a2) /\ (Fails(g[3]) <=> a3)
      /\ (Fails(g[4]) <=> a4) /\ (Fails(g[5]) <=> a5) /\ (Fails(g[6]) <=> a6)
  BY <1>1 DEF Fails
<1> HIDE DEF g
<1>6. Passes(g) <=> ~a1 /\ ~a2 /\ ~a3 /\ ~a4 /\ ~a5 /\ ~a6
  BY <1>4, <1>5 DEF Passes
<1>7. /\ e.grant.form \in {"none", "garbled", "ok"} /\ e.grant.signed \in BOOLEAN
      /\ e.grant.life \in Int /\ e.age \in Int
  <2>1. e.grant \in Grants({"none", "garbled", "ok"})
    BY DEF WellFormed
  <2> QED
    BY <2>1 DEF Grants, WellFormed
<1>8. ~(e.age > e.grant.life) <=> e.age <= e.grant.life
  BY <1>7
<1>9. ~a1 /\ ~a2 /\ ~a3 /\ ~a4 /\ ~a5 /\ ~a6 <=> GrantHolds(e)
  BY <1>7, <1>8 DEF a1, a2, a3, a4, a5, a6, GrantHolds
<1> QED
  BY <1>3, <1>4, <1>6, <1>9

\* What finalize asks for besides the grant.
Fits(e) ==
    /\ e.len \in 0..MaxPayload
    /\ Freshness > 0 => e.tsOk /\ e.age \in -Freshness..Freshness
    /\ e.enc.form = "sealed" => e.enc.kem = MyKem /\ e.enc.opens

\* finalize, up to the grant.
Limits(e) ==
    <<  <<e.len > MaxPayload, "too_large">>,
        <<~FreshEnough(e), "stale">>,
        <<e.enc.form = "sealed" /\ e.enc.kem # MyKem, "unknown_recipient_key">>,
        <<e.enc.form = "sealed" /\ ~e.enc.opens, "decrypt_failed">>  >>

\* The gates of finalize before the grant: size, freshness and the sealed body.
LEMMA LimitsPass ==
    ASSUME NEW e, WellFormed(e)
    PROVE  /\ Limits(e) \in Seq(Gate(ContentReason))
           /\ Passes(Limits(e)) <=> Fits(e)
<1> DEFINE a1 == (e.len > MaxPayload)
           a2 == (~FreshEnough(e))
           a3 == (e.enc.form = "sealed" /\ e.enc.kem # MyKem)
           a4 == (e.enc.form = "sealed" /\ ~e.enc.opens)
           g == <<<<a1, "too_large">>, <<a2, "stale">>, <<a3, "unknown_recipient_key">>,
                  <<a4, "decrypt_failed">>>>
<1>1. a1 \in BOOLEAN /\ a2 \in BOOLEAN /\ a3 \in BOOLEAN /\ a4 \in BOOLEAN
  <2>1. a1 \in BOOLEAN
    BY LimitsAssumption DEF WellFormed
  <2> QED
    BY <2>1, Zenon DEF FreshEnough
<1>2. {"decrypt_failed", "stale", "too_large", "unknown_recipient_key"} \subseteq ContentReason
  BY DEF ContentReason
<1>3. Limits(e) = g
  BY Zenon DEF Limits
<1> HIDE DEF a1, a2, a3, a4
<1>4. g \in Seq(Gate(ContentReason)) /\ DOMAIN g = 1..4
  BY <1>1, <1>2 DEF Gate
<1>5. (Fails(g[1]) <=> a1) /\ (Fails(g[2]) <=> a2) /\ (Fails(g[3]) <=> a3)
      /\ (Fails(g[4]) <=> a4)
  BY <1>1 DEF Fails
<1> HIDE DEF g
<1>6. Passes(g) <=> ~a1 /\ ~a2 /\ ~a3 /\ ~a4
  BY <1>4, <1>5 DEF Passes
<1>7. e.len \in Nat /\ e.age \in Int /\ e.tsOk \in BOOLEAN /\ e.enc.opens \in BOOLEAN
  BY DEF WellFormed
<1>8. ~a1 <=> e.len \in 0..MaxPayload
  BY <1>7, LimitsAssumption DEF a1
<1>9. ~a2 <=> (Freshness > 0 => e.tsOk /\ e.age \in -Freshness..Freshness)
  BY <1>7, LimitsAssumption DEF a2, FreshEnough
<1>10. ~a3 /\ ~a4 <=> (e.enc.form = "sealed" => e.enc.kem = MyKem /\ e.enc.opens)
  BY <1>7 DEF a3, a4
<1> QED
  BY <1>3, <1>4, <1>6, <1>8, <1>9, <1>10 DEF Fits

\* finalize: size, freshness, the sealed body and then the grant.
LEMMA FinalPasses ==
    ASSUME NEW e, WellFormed(e)
    PROVE  /\ FinalGates(e) \in Seq(Gate(ContentReason))
           /\ Passes(FinalGates(e)) <=> Fits(e) /\ GrantHolds(e)
<1>1. FinalGates(e) = Limits(e) \o GrantGates(e)
  BY Zenon DEF FinalGates, Limits
<1> QED
  BY <1>1, LimitsPass, GrantPasses, Chained

\* The match on the algorithm: whichever arm is taken, what it lets through is
\* authentic and its inner message parses.
LEMMA AlgPasses ==
    ASSUME NEW e, WellFormed(e), SwitchesOK
    PROVE  /\ AlgGates(e) \in Seq(Gate(EnvelopeReason))
           /\ Passes(AlgGates(e)) <=> e.inner = "ok" /\ Authentic(e)
<1>1. CASE e.alg = "none"
  <2>1. AlgGates(e) = UnsignedGates(e)
    BY <1>1 DEF AlgGates
  <2>2. Authentic(e) <=> cfg.allowUnsigned /\ ~Known(e.from)
    BY <1>1 DEF Authentic
  <2> QED
    BY <2>1, <2>2, UnsignedPasses
<1>2. CASE e.alg = "ML-DSA-65"
  <2>1. AlgGates(e) = SignedGates(e)
    BY <1>2 DEF AlgGates
  <2>2. Authentic(e) <=>
          /\ Known(e.from)
          /\ e.kid = [form |-> "ok", name |-> e.from, key |-> Trust[e.from]]
          /\ e.sig = [form |-> "ok", key |-> Trust[e.from], covers |-> TRUE]
    BY <1>2 DEF Authentic
  <2> QED
    BY <2>1, <2>2, SignedPasses, Zenon
<1>3. CASE e.alg \notin {"none", "ML-DSA-65"}
  <2>1. AlgGates(e) = << <<TRUE, "unsupported_alg">> >>
    BY <1>3 DEF AlgGates
  <2>2. ~Authentic(e)
    BY <1>3 DEF Authentic
  <2>3. "unsupported_alg" \in EnvelopeReason
    BY DEF EnvelopeReason
  <2> QED
    BY <2>1, <2>2, <2>3, Chain1
<1> QED
  BY <1>1, <1>2, <1>3

\* The envelope is in order and its sender is who it says.
Genuine(e) == e.parses /\ e.inner = "ok" /\ Supported(e) /\ Authentic(e)
Passed(e) == Genuine(e) /\ Fits(e) /\ GrantHolds(e)

\* verify_incoming accepts what is genuine, fits and has no grant that does not
\* hold; it rejects with a code about the contents exactly what is genuine.
LEMMA IncomingOk ==
    ASSUME NEW e, WellFormed(e), SwitchesOK
    PROVE  /\ VerifyIncoming(e) = "ok" <=> Passed(e)
           /\ ~Passed(e) /\ Genuine(e) => VerifyIncoming(e) \in ContentReason
           /\ ~Genuine(e) => VerifyIncoming(e) \in EnvelopeReason
<1> DEFINE P == << <<~e.parses, "malformed_wrapper">> >>
           V == VersionGates(e)
           A == AlgGates(e)
           F == FinalGates(e)
<1>1. P \in Seq(Gate(EnvelopeReason)) /\ (Passes(P) <=> e.parses)
  <2> DEFINE a == ~e.parses
  <2>1. a \in BOOLEAN
    BY Zenon
  <2>2. "malformed_wrapper" \in EnvelopeReason
    BY DEF EnvelopeReason
  <2>3. << <<a, "malformed_wrapper">> >> = P
    OBVIOUS
  <2>4. ~a <=> e.parses
    BY DEF WellFormed
  <2> HIDE DEF a, P
  <2> QED
    BY <2>1, <2>2, <2>3, <2>4, Chain1
<1>2. V \in Seq(Gate(EnvelopeReason)) /\ (Passes(V) <=> Supported(e))
  BY VersionPasses, Zenon
<1>3. A \in Seq(Gate(EnvelopeReason)) /\ (Passes(A) <=> e.inner = "ok" /\ Authentic(e))
  BY AlgPasses, Zenon
<1>4. F \in Seq(Gate(ContentReason)) /\ (Passes(F) <=> Fits(e) /\ GrantHolds(e))
  BY FinalPasses, Zenon
<1>5. VerifyIncoming(e) = FirstFailure(P \o V \o A \o F)
  BY DEF VerifyIncoming
<1> HIDE DEF P, V, A, F
<1>6. P \o V \in Seq(Gate(EnvelopeReason)) /\ (Passes(P \o V) <=> Passes(P) /\ Passes(V))
  BY <1>1, <1>2, Chained, Zenon
<1>7. /\ P \o V \o A \in Seq(Gate(EnvelopeReason))
      /\ Passes(P \o V \o A) <=> Passes(P \o V) /\ Passes(A)
  BY <1>3, <1>6, Chained, Zenon
<1>8. Passes(P \o V \o A) <=> Genuine(e)
  BY <1>1, <1>2, <1>3, <1>6, <1>7, Zenon DEF Genuine
<1>9. "ok" \notin EnvelopeReason \cup ContentReason
  BY DEF EnvelopeReason, ContentReason
<1> DEFINE E == P \o V \o A
<1>10. E \in Seq(Gate(EnvelopeReason)) /\ (Passes(E) <=> Genuine(e))
       /\ VerifyIncoming(e) = FirstFailure(E \o F)
  BY <1>5, <1>7, <1>8, Zenon
<1> HIDE DEF E
<1>11. /\ FirstFailure(E \o F) = "ok" <=> Passes(E) /\ Passes(F)
       /\ ~Passes(E) => FirstFailure(E \o F) \in EnvelopeReason
       /\ Passes(E) /\ ~Passes(F) => FirstFailure(E \o F) \in ContentReason
  BY <1>4, <1>9, <1>10, FirstOfTwo, Zenon
<1> QED
  BY <1>4, <1>10, <1>11, Zenon DEF Passed

\* verify_pair lets through a hello that is signed by the key it advertises,
\* under one name, and rejects with a code.
LEMMA PairOk ==
    ASSUME NEW e, WellFormed(e)
    PROVE  /\ VerifyPair(e) = "ok" =>
                /\ e.pair.name = e.from
                /\ e.sig = [form |-> "ok", key |-> e.pair.key, covers |-> TRUE]
                /\ e.kid = [form |-> "ok", name |-> e.from, key |-> e.pair.key]
           /\ VerifyPair(e) \in EnvelopeReason \cup {"ok"}
<1> DEFINE a1 == (e.alg # "ML-DSA-65")
           a2 == (e.pair.form # "ok")
           a3 == (e.sig.form # "ok")
           a4 == (~Verifies(e, e.pair.key))
           a5 == (e.kid.form # "ok")
           a6 == (e.kid.key # e.pair.key)
           a7 == (e.kid.name # e.pair.name \/ e.from # e.pair.name)
           a8 == (~e.pair.kemOk)
           g == <<<<a1, "pair_self_sig_invalid">>, <<a2, "malformed_wrapper">>,
                  <<a3, "malformed_wrapper">>, <<a4, "pair_self_sig_invalid">>,
                  <<a5, "malformed_wrapper">>, <<a6, "pair_self_sig_invalid">>,
                  <<a7, "malformed_wrapper">>, <<a8, "malformed_wrapper">>>>
<1>1. a1 \in BOOLEAN /\ a2 \in BOOLEAN /\ a3 \in BOOLEAN /\ a4 \in BOOLEAN
      /\ a5 \in BOOLEAN /\ a6 \in BOOLEAN /\ a7 \in BOOLEAN /\ a8 \in BOOLEAN
  BY Zenon DEF Verifies
<1>2. {"malformed_wrapper", "pair_self_sig_invalid"} \subseteq EnvelopeReason /\ "ok" \notin EnvelopeReason
  BY DEF EnvelopeReason
<1>3. VerifyPair(e) = FirstFailure(g)
  BY Zenon DEF VerifyPair
<1> HIDE DEF a1, a2, a3, a4, a5, a6, a7, a8
<1>4. g \in Seq(Gate(EnvelopeReason)) /\ DOMAIN g = 1..8
  BY <1>1, <1>2 DEF Gate
<1>5. (Fails(g[1]) <=> a1) /\ (Fails(g[2]) <=> a2) /\ (Fails(g[3]) <=> a3)
      /\ (Fails(g[4]) <=> a4) /\ (Fails(g[5]) <=> a5) /\ (Fails(g[6]) <=> a6)
      /\ (Fails(g[7]) <=> a7) /\ (Fails(g[8]) <=> a8)
  BY <1>1 DEF Fails
<1> HIDE DEF g
<1>6. Passes(g) => ~a1 /\ ~a2 /\ ~a3 /\ ~a4 /\ ~a5 /\ ~a6 /\ ~a7 /\ ~a8
  BY <1>4, <1>5 DEF Passes
<1>7. /\ VerifyPair(e) = "ok" <=> Passes(g)
      /\ VerifyPair(e) \in EnvelopeReason \cup {"ok"}
  BY <1>2, <1>3, <1>4, FirstFailureOk
<1>8. ASSUME VerifyPair(e) = "ok"
      PROVE  /\ e.pair.name = e.from
             /\ e.sig.form = "ok" /\ e.sig.key = e.pair.key /\ e.sig.covers
             /\ e.kid.form = "ok" /\ e.kid.name = e.from /\ e.kid.key = e.pair.key
  BY <1>6, <1>7, <1>8, Zenon DEF a1, a2, a3, a4, a5, a6, a7, a8, Verifies
<1>9. \A n, k : e.kid = [form |-> "ok", name |-> n, key |-> k]
                  <=> e.kid.form = "ok" /\ e.kid.name = n /\ e.kid.key = k
  BY KidRecord
<1>10. \A k : e.sig = [form |-> "ok", key |-> k, covers |-> TRUE]
                <=> e.sig.form = "ok" /\ e.sig.key = k /\ e.sig.covers
  BY SigRecord
<1> QED
  BY <1>7, <1>8, <1>9, <1>10

\* What the callback makes of an envelope, path by path.
LEMMA Outcomes ==
    ASSUME NEW e, WellFormed(e), SwitchesOK
    PROVE  /\ OwnEcho(e) => OnMessage(e) = Handled("ignored", "echo")
           /\ ~OwnEcho(e) /\ IsHello(e) =>
                 \/ VerifyPair(e) = "ok" /\ OnMessage(e) = Handled("parked", "ok")
                 \/ \E r \in RejectReason : OnMessage(e) = Handled("rejected", r)
           /\ ~OwnEcho(e) /\ ~IsHello(e) =>
                 \/ Passed(e) /\ OnMessage(e) = Handled(Surfaced(e), "ok")
                 \/ /\ ~Passed(e)
                    /\ \E r \in RejectReason :
                          OnMessage(e) = Handled("rejected", r) /\ (r \in ContentReason <=> Genuine(e))
<1>1. VerifyPair(e) \in RejectReason \cup {"ok"}
  BY PairOk, Zenon DEF RejectReason
<1>2. /\ VerifyIncoming(e) = "ok" <=> Passed(e)
      /\ ~Passed(e) => VerifyIncoming(e) \in RejectReason
                        /\ (VerifyIncoming(e) \in ContentReason <=> Genuine(e))
  <2>1. /\ VerifyIncoming(e) = "ok" <=> Passed(e)
        /\ ~Passed(e) /\ Genuine(e) => VerifyIncoming(e) \in ContentReason
        /\ ~Genuine(e) => VerifyIncoming(e) \in EnvelopeReason
    BY IncomingOk, Zenon
  <2>2. \A r \in EnvelopeReason : r \notin ContentReason
    BY DEF EnvelopeReason, ContentReason
  <2> QED
    BY <2>1, <2>2, Zenon DEF RejectReason
<1>3. ASSUME OwnEcho(e) PROVE OnMessage(e) = Handled("ignored", "echo")
  BY <1>3 DEF OnMessage
<1>4. ASSUME ~OwnEcho(e), IsHello(e)
      PROVE  \/ VerifyPair(e) = "ok" /\ OnMessage(e) = Handled("parked", "ok")
             \/ \E r \in RejectReason : OnMessage(e) = Handled("rejected", r)
  <2>1. OnMessage(e) = IF VerifyPair(e) = "ok" THEN Handled("parked", "ok")
                       ELSE Handled("rejected", VerifyPair(e))
    BY <1>4 DEF OnMessage
  <2> QED
    BY <1>1, <2>1
<1>5. ASSUME ~OwnEcho(e), ~IsHello(e)
      PROVE  \/ Passed(e) /\ OnMessage(e) = Handled(Surfaced(e), "ok")
             \/ /\ ~Passed(e)
                /\ \E r \in RejectReason :
                      OnMessage(e) = Handled("rejected", r) /\ (r \in ContentReason <=> Genuine(e))
  <2>1. OnMessage(e) = IF VerifyIncoming(e) # "ok" THEN Handled("rejected", VerifyIncoming(e))
                       ELSE Handled(Surfaced(e), "ok")
    BY <1>5 DEF OnMessage
  <2>2. CASE Passed(e)
    BY <1>2, <2>1, <2>2, Zenon
  <2>3. CASE ~Passed(e)
    BY <1>2, <2>1, <2>3, Zenon
  <2> QED
    BY <2>2, <2>3, Zenon
<1> QED
  BY <1>3, <1>4, <1>5, Zenon

\* A verified message is a beacon, a receipt or a message to be stored.
LEMMA SurfacedIs ==
    ASSUME NEW e
    PROVE  /\ Surfaced(e) \in {"stored", "presence", "receipt"}
           /\ Surfaced(e) = "stored" <=>
                 e.kind # "receipt" /\ Ctype(e) \notin {"presence", "receipt"}
BY DEF Surfaced

-----------------------------------------------------------------------------
(* The specification.                                                      *)

\* What message::build made of the request o, n units of time ago.
Aged(o, n) ==
    [parses |-> TRUE,
     v |-> 2,
     alg |-> IF o.unsigned THEN "none" ELSE "ML-DSA-65",
     kid |-> IF o.unsigned THEN NoKid ELSE MakeKid(Peer),
     sig |-> IF o.unsigned THEN NoSig
             ELSE [form |-> "ok", key |-> KeyOf[Peer], covers |-> TRUE],
     inner |-> "ok",
     from |-> Peer,
     kind |-> o.kind,
     ctype |-> IF o.encrypt THEN "sealed" ELSE o.ctype,
     len |-> IF o.encrypt THEN SealedLen(o.len) ELSE o.len,
     tsOk |-> TRUE,
     age |-> n,
     enc |-> IF o.encrypt THEN [form |-> "sealed", kem |-> o.kem, opens |-> TRUE, ptype |-> o.ctype]
             ELSE NoEnc,
     grant |-> o.grant,
     pair |-> IF o.encrypt THEN NoPair ELSE o.pair]

\* The envelope on the wire parses as far as the code relies on it.
Carried == stage = "wire" => WellFormed(env)
\* The envelope of a Send is what build made of an accepted request.
FromSend ==
    stage = "wire" /\ origin # Foreign =>
        ~SendRefuses(origin) /\ \E n \in Nat : env = Aged(origin, n)

\* Before anything is sent there is no request.
Unsent == stage = "idle" => origin = Foreign

\* The inductive invariant.
IInv ==
    /\ TypeOK /\ Carried /\ FromSend /\ Unsent
    /\ VerdictExact /\ ReasonTellsAuthentic /\ ParkedIsSelfSigned /\ CleartextArrives

\* Names and their keys.
LEMMA PeerFacts ==
    /\ Peer \in Names /\ Me \in Names /\ Me # Peer
    /\ KeyOf[Peer] \in Keys /\ KeyOf[Peer] # NoKey
BY NamesAssumption DEF Keys

\* The fields of such a message.
FieldsAged(e, o, n) ==
    /\ e.parses = TRUE /\ e.v = 2 /\ e.inner = "ok" /\ e.from = Peer /\ e.kind = o.kind
    /\ e.tsOk = TRUE /\ e.age = n /\ e.grant = o.grant
    /\ e.alg = IF o.unsigned THEN "none" ELSE "ML-DSA-65"
    /\ e.kid = IF o.unsigned THEN NoKid ELSE MakeKid(Peer)
    /\ e.sig = IF o.unsigned THEN NoSig
               ELSE [form |-> "ok", key |-> KeyOf[Peer], covers |-> TRUE]
    /\ e.ctype = IF o.encrypt THEN "sealed" ELSE o.ctype
    /\ e.len = IF o.encrypt THEN SealedLen(o.len) ELSE o.len
    /\ e.enc = IF o.encrypt
               THEN [form |-> "sealed", kem |-> o.kem, opens |-> TRUE, ptype |-> o.ctype]
               ELSE NoEnc
    /\ e.pair = IF o.encrypt THEN NoPair ELSE o.pair

\* message::build sets each field of the envelope.
LEMMA AgedFields ==
    ASSUME NEW o, NEW n, NEW e, e = Aged(o, n)
    PROVE  FieldsAged(e, o, n)
<1> DEFINE alg == IF o.unsigned THEN "none" ELSE "ML-DSA-65"
           kid == IF o.unsigned THEN NoKid ELSE MakeKid(Peer)
           sig == IF o.unsigned THEN NoSig
                  ELSE [form |-> "ok", key |-> KeyOf[Peer], covers |-> TRUE]
           ctype == IF o.encrypt THEN "sealed" ELSE o.ctype
           len == IF o.encrypt THEN SealedLen(o.len) ELSE o.len
           enc == IF o.encrypt
                  THEN [form |-> "sealed", kem |-> o.kem, opens |-> TRUE, ptype |-> o.ctype]
                  ELSE NoEnc
           pair == IF o.encrypt THEN NoPair ELSE o.pair
<1>1. e = [parses |-> TRUE, v |-> 2, alg |-> alg, kid |-> kid, sig |-> sig, inner |-> "ok",
           from |-> Peer, kind |-> o.kind, ctype |-> ctype, len |-> len, tsOk |-> TRUE,
           age |-> n, enc |-> enc, grant |-> o.grant, pair |-> pair]
  BY Zenon DEF Aged
<1> HIDE DEF alg, kid, sig, ctype, len, enc, pair
<1>2. /\ e.parses = TRUE /\ e.v = 2 /\ e.inner = "ok" /\ e.from = Peer /\ e.kind = o.kind
      /\ e.tsOk = TRUE /\ e.age = n /\ e.grant = o.grant /\ e.pair = pair /\ e.ctype = ctype
      /\ e.alg = alg /\ e.kid = kid /\ e.sig = sig /\ e.len = len /\ e.enc = enc
  BY <1>1
<1> QED
  BY <1>2, Zenon DEF FieldsAged, alg, kid, sig, ctype, len, enc, pair

\* What build makes is well formed.
LEMMA AgedWellFormed ==
    ASSUME NEW o, IsRequest(o), ~SendRefuses(o), NEW n \in Nat
    PROVE  WellFormed(Aged(o, n))
<1> DEFINE e == Aged(o, n)
<1>0. e = Aged(o, n)
  OBVIOUS
<1> HIDE DEF e
<1>b. FieldsAged(e, o, n)
  BY <1>0, AgedFields, Zenon
<1>1. /\ e.parses = TRUE /\ e.v = 2 /\ e.inner = "ok" /\ e.from = Peer
      /\ e.tsOk = TRUE /\ e.age = n /\ e.grant = o.grant
      /\ e.pair = (IF o.encrypt THEN NoPair ELSE o.pair)
      /\ e.kid = IF o.unsigned THEN NoKid ELSE MakeKid(Peer)
      /\ e.sig = IF o.unsigned THEN NoSig
                 ELSE [form |-> "ok", key |-> KeyOf[Peer], covers |-> TRUE]
      /\ e.len = IF o.encrypt THEN SealedLen(o.len) ELSE o.len
      /\ e.enc = IF o.encrypt
                 THEN [form |-> "sealed", kem |-> o.kem, opens |-> TRUE, ptype |-> o.ctype]
                 ELSE NoEnc
  BY <1>b, Zenon DEF FieldsAged
<1>2. NoKey \in AnyKey /\ KeyOf[Peer] \in AnyKey /\ Me \in Names /\ Peer \in Names
  BY PeerFacts DEF AnyKey
<1>3. e.kid \in [form : {"absent", "bad", "ok"}, name : Names, key : AnyKey]
  BY <1>1, <1>2 DEF NoKid, MakeKid
<1>4. e.sig \in [form : {"absent", "bad", "ok"}, key : AnyKey, covers : BOOLEAN]
  <2>1. NoSig \in [form : {"absent", "bad", "ok"}, key : AnyKey, covers : BOOLEAN]
    BY <1>2 DEF NoSig
  <2>2. [form |-> "ok", key |-> KeyOf[Peer], covers |-> TRUE]
            \in [form : {"absent", "bad", "ok"}, key : AnyKey, covers : BOOLEAN]
    BY <1>2
  <2> QED
    BY <1>1, <2>1, <2>2, Zenon
<1>5. e.len \in Nat
  <2>1. o.len \in Nat
    BY DEF IsRequest
  <2>2. (4 * (o.len + 16) + 2) \div 3 \in Nat
    BY <2>1
  <2>3. SealedLen(o.len) \in Nat
    BY <2>2 DEF SealedLen, B64Len, TagLen
  <2> QED
    BY <1>1, <2>1, <2>3
<1>6. e.enc.form \in {"none", "sealed"} /\ e.enc.opens \in BOOLEAN
  <2>1. CASE o.encrypt
    <3>1. e.enc = [form |-> "sealed", kem |-> o.kem, opens |-> TRUE, ptype |-> o.ctype]
      BY <1>1, <2>1, Zenon
    <3> QED
      BY <3>1
  <2>2. CASE ~o.encrypt
    <3>1. e.enc = NoEnc
      BY <1>1, <2>2, Zenon
    <3> QED
      BY <3>1 DEF NoEnc
  <2> QED
    BY <2>1, <2>2, Zenon
<1>7. e.grant \in Grants({"none", "garbled", "ok"})
  <2>1. o.grant \in Grants({"none", "undecodable", "garbled", "ok"}) /\ o.grant.form # "undecodable"
    BY DEF IsRequest, SendRefuses
  <2> QED
    BY <1>1, <2>1 DEF Grants
<1>8. e.pair \in PairBodies
  <2>1. NoPair \in PairBodies
    BY <1>2 DEF NoPair, PairBodies
  <2>2. o.pair \in PairBodies
    BY DEF IsRequest
  <2> QED
    BY <1>1, <2>1, <2>2, Zenon
<1>9. /\ e.parses \in BOOLEAN /\ e.tsOk \in BOOLEAN /\ e.v \in Nat /\ e.age \in Int
      /\ e.from \in Names /\ e.inner \in {"ok", "undecodable", "unparsable"}
  <2>1. TRUE \in BOOLEAN /\ 2 \in Nat /\ n \in Int
    OBVIOUS
  <2> QED
    BY <1>1, <1>2, <2>1, Zenon
<1>10. WellFormed(e)
  BY <1>3, <1>4, <1>5, <1>6, <1>7, <1>8, <1>9, Zenon DEF WellFormed
<1> QED
  BY <1>0, <1>10, Zenon

\* A message only ages on its way.
LEMMA Ages ==
    ASSUME NEW o, NEW n \in Nat
    PROVE  [Aged(o, n) EXCEPT !.age = @ + 1] = Aged(o, n + 1)
<1> DEFINE yes == TRUE
           alg == IF o.unsigned THEN "none" ELSE "ML-DSA-65"
           kid == IF o.unsigned THEN NoKid ELSE MakeKid(Peer)
           sig == IF o.unsigned THEN NoSig
                  ELSE [form |-> "ok", key |-> KeyOf[Peer], covers |-> TRUE]
           ctype == IF o.encrypt THEN "sealed" ELSE o.ctype
           len == IF o.encrypt THEN SealedLen(o.len) ELSE o.len
           enc == IF o.encrypt
                  THEN [form |-> "sealed", kem |-> o.kem, opens |-> TRUE, ptype |-> o.ctype]
                  ELSE NoEnc
           pair == IF o.encrypt THEN NoPair ELSE o.pair
           R(k) == [parses |-> yes, v |-> 2, alg |-> alg, kid |-> kid, sig |-> sig,
                    inner |-> "ok", from |-> Peer, kind |-> o.kind, ctype |-> ctype,
                    len |-> len, tsOk |-> yes, age |-> k, enc |-> enc, grant |-> o.grant,
                    pair |-> pair]
<1>1. Aged(o, n) = R(n) /\ Aged(o, n + 1) = R(n + 1)
  BY Zenon DEF Aged
<1> HIDE DEF yes, alg, kid, sig, ctype, len, enc, pair
<1>2. [R(n) EXCEPT !.age = n + 1] = R(n + 1) /\ R(n).age = n
  OBVIOUS
<1> HIDE DEF R
<1> QED
  BY <1>1, <1>2, Zenon

\* An accepted, signed cleartext request passes every gate before the grant of
\* a peer that trusts the sender while it is fresh.
LEMMA CleartextPasses ==
    ASSUME NEW o, IsRequest(o), ~SendRefuses(o), NEW n \in Nat, NEW e, e = Aged(o, n),
           ~o.unsigned, ~o.encrypt, Trust[Peer] = KeyOf[Peer],
           Freshness > 0 => n <= Freshness
    PROVE  /\ Genuine(e) /\ Fits(e) /\ ~OwnEcho(e)
           /\ IsHello(e) <=> o.ctype = "pair"
           /\ Ctype(e) = o.ctype /\ e.kind = o.kind
<1>0. FieldsAged(e, o, n)
  BY AgedFields, Zenon
<1>1. /\ e.parses = TRUE /\ e.v = 2 /\ e.inner = "ok" /\ e.from = Peer /\ e.ctype = o.ctype
      /\ e.tsOk = TRUE /\ e.age = n /\ e.kind = o.kind
      /\ e.alg = "ML-DSA-65" /\ e.kid = MakeKid(Peer)
      /\ e.sig = [form |-> "ok", key |-> KeyOf[Peer], covers |-> TRUE]
      /\ e.len = o.len /\ e.enc = NoEnc
  BY <1>0, Zenon DEF FieldsAged
<1>2. ~OwnEcho(e)
  <2>1. e.kid.name = Peer
    BY <1>1 DEF MakeKid
  <2> QED
    BY <2>1, PeerFacts DEF OwnEcho
<1>3. IsHello(e) <=> o.ctype = "pair"
  BY <1>1, Zenon DEF IsHello
<1>4. Authentic(e)
  <2>1. Known(e.from)
    BY <1>1, PeerFacts DEF Known
  <2>2. e.kid = [form |-> "ok", name |-> e.from, key |-> Trust[e.from]]
    BY <1>1, Zenon DEF MakeKid
  <2>3. e.sig = [form |-> "ok", key |-> Trust[e.from], covers |-> TRUE]
    BY <1>1, Zenon
  <2> QED
    BY <1>1, <2>1, <2>2, <2>3, Zenon DEF Authentic
<1>5. e.len \in 0..MaxPayload
  <2>1. o.len \in Nat /\ ~(o.len > MaxPayload)
    BY DEF IsRequest, SendRefuses
  <2> QED
    BY <1>1, <2>1, LimitsAssumption
<1>6. Freshness > 0 => e.tsOk /\ e.age \in -Freshness..Freshness
  <2>1. Freshness > 0 => e.age \in -Freshness..Freshness
    BY <1>1, LimitsAssumption
  <2> QED
    BY <1>1, <2>1, Zenon
<1>7. e.enc.form # "sealed"
  BY <1>1 DEF NoEnc
<1>8. Genuine(e)
  BY <1>1, <1>4, Zenon DEF Genuine, Supported
<1>9. Fits(e)
  BY <1>5, <1>6, <1>7, Zenon DEF Fits
<1>10. Ctype(e) = o.ctype
  BY <1>1, <1>7, Zenon DEF Ctype
<1> QED
  BY <1>1, <1>2, <1>3, <1>8, <1>9, <1>10, Zenon

\* What verify_incoming lets through is sound, and acceptable but for version 1
\* envelopes with what only version 2 has.
LEMMA PassedIs ==
    ASSUME NEW e
    PROVE  /\ Passed(e) <=> Sound(e) /\ Supported(e)
           /\ ~(e.v = 1 /\ ~LegacySigned(e)) => (Acceptable(e) <=> Passed(e))
<1>1. Passed(e) <=> Sound(e) /\ Supported(e)
  BY Zenon DEF Sound, Passed, Genuine, Fits
<1> QED
  BY <1>1, Zenon DEF Acceptable

Outcome == {Nothing, Handled("refused", "send"), Handled("ignored", "echo")}
             \cup [what : {"rejected"}, reason : RejectReason]
             \cup [what : {"parked", "stored", "presence", "receipt"}, reason : {"ok"}]

\* Each way a message can end is an outcome of its own.
LEMMA OutcomeFacts ==
    /\ Nothing \in Outcome /\ Nothing.what = "none"
    /\ Handled("refused", "send") \in Outcome /\ Handled("refused", "send").what = "refused"
    /\ Handled("ignored", "echo") \in Outcome /\ Handled("ignored", "echo").what = "ignored"
    /\ \A r \in RejectReason :
          Handled("rejected", r) \in Outcome /\ Handled("rejected", r).what = "rejected"
    /\ \A w \in {"parked", "stored", "presence", "receipt"} :
          Handled(w, "ok") \in Outcome /\ Handled(w, "ok").what = w
<1>1. \A w, r : Handled(w, r).what = w
  BY DEF Handled
<1>2. \A r \in RejectReason : Handled("rejected", r) \in [what : {"rejected"}, reason : RejectReason]
  BY DEF Handled
<1>3. \A w \in {"parked", "stored", "presence", "receipt"} :
         Handled(w, "ok") \in [what : {"parked", "stored", "presence", "receipt"}, reason : {"ok"}]
  BY DEF Handled
<1>4. Nothing \in Outcome /\ Handled("refused", "send") \in Outcome
      /\ Handled("ignored", "echo") \in Outcome
  BY Zenon DEF Outcome
<1>5. \A r \in RejectReason : Handled("rejected", r) \in Outcome
  BY <1>2, Zenon DEF Outcome
<1>6. \A w \in {"parked", "stored", "presence", "receipt"} : Handled(w, "ok") \in Outcome
  BY <1>3, Zenon DEF Outcome
<1>7. Nothing.what = "none"
  BY <1>1, Zenon DEF Nothing
<1> QED
  BY <1>1, <1>4, <1>5, <1>6, <1>7, Zenon

\* A verdict is about the envelope and the switches only.
LEMMA SameVerdict ==
    ASSUME cfg' = cfg, env' = env
    PROVE  /\ Acceptable(env)' <=> Acceptable(env)
           /\ Sound(env)' <=> Sound(env)
           /\ Supported(env)' <=> Supported(env)
           /\ Authentic(env)' <=> Authentic(env)
           /\ LegacySigned(env)' <=> LegacySigned(env)
           /\ GrantHolds(env)' <=> GrantHolds(env)
<1>1. /\ Supported(env)' <=> Supported(env)
      /\ Authentic(env)' <=> Authentic(env)
      /\ LegacySigned(env)' <=> LegacySigned(env)
      /\ GrantHolds(env)' <=> GrantHolds(env)
  BY Zenon DEF Supported, Authentic, Known, LegacySigned, GrantHolds
<1>2. Sound(env)' <=> Sound(env)
  BY <1>1, Zenon DEF Sound
<1> QED
  BY <1>1, <1>2, Zenon DEF Acceptable

\* The initial states.
LEMMA InitOK == Init => IInv
<1> SUFFICES ASSUME Init PROVE IInv
  OBVIOUS
<1>1. stage = "idle" /\ origin = Foreign /\ outcome = Nothing
      /\ cfg \in [allowUnsigned : BOOLEAN, acceptV1 : BOOLEAN]
  BY DEF Init
<1>2. TypeOK
  BY <1>1, OutcomeFacts, Zenon DEF TypeOK, Outcome
<1> QED
  BY <1>1, <1>2 DEF IInv, Carried, FromSend, Unsent, VerdictExact, ReasonTellsAuthentic, ParkedIsSelfSigned,
                    CleartextArrives, Delivered

\* A Send request at the peer.
LEMMA SendOK ==
    ASSUME IInv, NEW o \in Options, Send(o)
    PROVE  IInv'
<1>1. stage = "idle" /\ origin' = o /\ cfg' = cfg
  BY DEF Send
<1>2. IsRequest(o) /\ o # Foreign
  BY InputsAssumption DEF IsRequest
<1>3. TypeOK
  BY DEF IInv
<1>4. CASE SendRefuses(o)
  <2>1. stage' = "done" /\ outcome' = Handled("refused", "send")
    BY <1>4 DEF Send
  <2>2. outcome' \in Outcome /\ outcome'.what = "refused" /\ outcome' # Nothing
    BY <2>1, OutcomeFacts, Zenon
  <2>3. TypeOK'
    BY <1>1, <1>3, <2>1, <2>2, Zenon DEF TypeOK, Outcome
  <2>4. ~Delivered' /\ stage' \notin {"wire", "idle"}
    BY <2>1, <2>2 DEF Delivered
  <2> QED
    BY <2>3, <2>4 DEF IInv, Carried, FromSend, Unsent, VerdictExact, ReasonTellsAuthentic, ParkedIsSelfSigned, CleartextArrives
<1>5. CASE ~SendRefuses(o)
  <2>1. stage' = "wire" /\ env' = Build(o) /\ outcome' = outcome
    BY <1>5 DEF Send
  <2>2. env' = Aged(o, 0)
    BY <2>1, Zenon DEF Build, Aged
  <2>3. WellFormed(Aged(o, 0)) /\ 0 \in Nat
    BY <1>2, <1>5, AgedWellFormed
  <2>4. Carried'
    BY <2>2, <2>3 DEF Carried, WellFormed
  <2>5. ~SendRefuses(origin)' /\ \E n \in Nat : env' = Aged(origin', n)
    BY <1>1, <1>5, <2>2, <2>3 DEF SendRefuses
  <2>6. FromSend'
    BY <2>5 DEF FromSend, SendRefuses, Aged
  <2>7. TypeOK'
    BY <1>1, <1>3, <2>1 DEF TypeOK
  <2>8. ~Delivered' /\ Unsent'
    BY <2>1 DEF Delivered, Unsent
  <2> QED
    BY <2>4, <2>6, <2>7, <2>8 DEF IInv, VerdictExact, ReasonTellsAuthentic, ParkedIsSelfSigned, CleartextArrives
<1> QED
  BY <1>4, <1>5

\* Any other message on the topic.
LEMMA PublishOK ==
    ASSUME IInv, NEW e \in Envelopes, Publish(e)
    PROVE  IInv'
<1>1. stage = "idle" /\ stage' = "wire" /\ env' = e
      /\ cfg' = cfg /\ origin' = origin /\ outcome' = outcome
  BY DEF Publish
<1>2. WellFormed(e)
  BY InputsAssumption
<1>3. Carried'
  BY <1>1, <1>2 DEF Carried, WellFormed
<1>4. origin' = Foreign
  BY <1>1 DEF IInv, Unsent
<1>5. TypeOK'
  BY <1>1 DEF IInv, TypeOK
<1>6. ~Delivered' /\ FromSend' /\ Unsent'
  BY <1>1, <1>4 DEF Delivered, FromSend, Unsent
<1> QED
  BY <1>3, <1>5, <1>6 DEF IInv, VerdictExact, ReasonTellsAuthentic, ParkedIsSelfSigned, CleartextArrives

\* The message waits.
LEMMA WaitOK ==
    ASSUME IInv, Wait
    PROVE  IInv'
<1>1. stage = "wire" /\ origin # Foreign /\ env' = [env EXCEPT !.age = @ + 1]
      /\ cfg' = cfg /\ stage' = stage /\ origin' = origin /\ outcome' = outcome
  BY DEF Wait
<1>2. PICK n \in Nat : env = Aged(origin, n)
  BY <1>1 DEF IInv, FromSend
<1>3. n + 1 \in Nat /\ env' = Aged(origin, n + 1)
  BY <1>1, <1>2, Ages
<1>4. IsRequest(origin) /\ ~SendRefuses(origin)
  BY <1>1, InputsAssumption DEF IInv, TypeOK, FromSend
<1>5. WellFormed(Aged(origin, n + 1))
  BY <1>3, <1>4, AgedWellFormed
<1>6. Carried'
  BY <1>3, <1>5 DEF Carried, WellFormed
<1>7. FromSend'
  <2>1. ~SendRefuses(origin)' /\ \E k \in Nat : env' = Aged(origin', k)
    BY <1>1, <1>3, <1>4 DEF SendRefuses
  <2> QED
    BY <2>1 DEF FromSend, SendRefuses, Aged
<1>8. TypeOK' /\ ~Delivered' /\ Unsent'
  BY <1>1 DEF IInv, TypeOK, Delivered, Unsent
<1> QED
  BY <1>6, <1>7, <1>8 DEF IInv, VerdictExact, ReasonTellsAuthentic, ParkedIsSelfSigned, CleartextArrives

\* The callback decides.
LEMMA DeliverOK ==
    ASSUME IInv, Deliver
    PROVE  IInv'
<1>1. stage = "wire" /\ stage' = "done" /\ outcome' = OnMessage(env)
      /\ cfg' = cfg /\ origin' = origin /\ env' = env
  BY DEF Deliver
<1>2. WellFormed(env) /\ SwitchesOK
  BY <1>1 DEF IInv, Carried, TypeOK, SwitchesOK
<1>3. OwnEcho(env)' = OwnEcho(env) /\ IsHello(env)' = IsHello(env)
  BY <1>1 DEF OwnEcho, IsHello
<1>4. /\ Acceptable(env)' <=> Acceptable(env)
      /\ Sound(env)' <=> Sound(env)
      /\ Supported(env)' <=> Supported(env)
      /\ Authentic(env)' <=> Authentic(env)
      /\ LegacySigned(env)' <=> LegacySigned(env)
      /\ GrantHolds(env)' <=> GrantHolds(env)
  BY <1>1, SameVerdict, Zenon
<1>5. /\ OwnEcho(env) => outcome' = Handled("ignored", "echo")
      /\ ~OwnEcho(env) /\ IsHello(env) =>
            \/ VerifyPair(env) = "ok" /\ outcome' = Handled("parked", "ok")
            \/ \E r \in RejectReason : outcome' = Handled("rejected", r)
      /\ ~OwnEcho(env) /\ ~IsHello(env) =>
            \/ Passed(env) /\ outcome' = Handled(Surfaced(env), "ok")
            \/ /\ ~Passed(env)
               /\ \E r \in RejectReason :
                     outcome' = Handled("rejected", r) /\ (r \in ContentReason <=> Genuine(env))
  BY <1>1, <1>2, Outcomes, Zenon
<1>a. /\ Surfaced(env) \in {"stored", "presence", "receipt"}
      /\ Surfaced(env) = "stored" <=>
            env.kind # "receipt" /\ Ctype(env) \notin {"presence", "receipt"}
  BY SurfacedIs, Zenon
<1>6. outcome' \in Outcome /\ outcome' # Nothing
  BY <1>5, <1>a, OutcomeFacts
<1>7. TypeOK'
  BY <1>1, <1>6, Zenon DEF IInv, TypeOK, Outcome
<1>8. VerdictExact'
  <2> SUFFICES ASSUME ~OwnEcho(env), ~IsHello(env)
               PROVE  IF env.v = 1 /\ ~LegacySigned(env)
                      THEN Accepted' => Supported(env) /\ Sound(env)
                      ELSE Accepted' <=> Acceptable(env)
    BY <1>1, <1>3, <1>4, Zenon DEF VerdictExact
  <2>1. Accepted' <=> Passed(env)
    BY <1>5, <1>a, OutcomeFacts DEF Accepted
  <2> QED
    BY <2>1, PassedIs, Zenon
<1>b. ReasonTellsAuthentic'
  <2> SUFFICES ASSUME outcome'.what = "rejected", ~IsHello(env)
               PROVE  outcome'.reason \in ContentReason <=> Genuine(env)
    BY <1>1, <1>3, <1>4, Zenon DEF ReasonTellsAuthentic, Genuine
  <2>1. ~OwnEcho(env) /\ ~Passed(env)
    BY <1>5, <1>a, OutcomeFacts
  <2>2. PICK r \in RejectReason :
           outcome' = Handled("rejected", r) /\ (r \in ContentReason <=> Genuine(env))
    BY <1>5, <2>1
  <2>3. outcome'.reason = r
    BY <2>2 DEF Handled
  <2> QED
    BY <2>2, <2>3, Zenon
<1>9. ParkedIsSelfSigned'
  <2>1. ASSUME outcome'.what = "parked"
        PROVE  /\ IsHello(env) /\ env.pair.name = env.from
               /\ env.sig = [form |-> "ok", key |-> env.pair.key, covers |-> TRUE]
               /\ env.kid = [form |-> "ok", name |-> env.from, key |-> env.pair.key]
    <3>1. ~OwnEcho(env) /\ IsHello(env)
      BY <1>5, <1>a, <2>1, OutcomeFacts
    <3>2. VerifyPair(env) = "ok"
      BY <1>5, <2>1, <3>1, OutcomeFacts
    <3> QED
      BY <1>2, <3>1, <3>2, PairOk, Zenon
  <2>2. ASSUME Accepted' PROVE ~IsHello(env)
    BY <1>5, <2>2, OutcomeFacts DEF Accepted
  <2> QED
    BY <1>1, <1>3, <2>1, <2>2, Zenon DEF ParkedIsSelfSigned
<1>10. CleartextArrives'
  <2> SUFFICES ASSUME origin # Foreign, ~origin.unsigned, ~origin.encrypt,
                      Trust[Peer] = KeyOf[Peer], Freshness > 0 => env.age <= Freshness
               PROVE  outcome'.what = "stored" <=> Ordinary(origin) /\ GrantHolds(env)
    BY <1>1, <1>4, Zenon DEF CleartextArrives, Ordinary
  <2>1. PICK n \in Nat : env = Aged(origin, n)
    BY <1>1 DEF IInv, FromSend
  <2>2. IsRequest(origin) /\ ~SendRefuses(origin)
    BY <1>1, InputsAssumption DEF IInv, TypeOK, FromSend
  <2>3. env.age = n
    <3>1. FieldsAged(env, origin, n)
      BY <2>1, AgedFields, Zenon
    <3> QED
      BY <3>1, Zenon DEF FieldsAged
  <2>4. /\ Genuine(env) /\ Fits(env) /\ ~OwnEcho(env)
        /\ IsHello(env) <=> origin.ctype = "pair"
        /\ Ctype(env) = origin.ctype /\ env.kind = origin.kind
    BY <2>1, <2>2, <2>3, CleartextPasses, Zenon
  <2>5. CASE origin.ctype = "pair"
    <3>1. ~Ordinary(origin)
      BY <2>5 DEF Ordinary
    <3>2. outcome'.what \in {"parked", "rejected"}
      BY <1>5, <2>4, <2>5, OutcomeFacts
    <3> QED
      BY <3>1, <3>2
  <2>6. CASE origin.ctype # "pair"
    <3>1. Ordinary(origin) <=> Surfaced(env) = "stored"
      BY <1>a, <2>4, <2>6 DEF Ordinary
    <3>2. Passed(env) <=> GrantHolds(env)
      BY <2>4, Zenon DEF Passed
    <3>3. \/ Passed(env) /\ outcome'.what = Surfaced(env)
          \/ ~Passed(env) /\ outcome'.what = "rejected"
      BY <1>5, <1>a, <2>4, <2>6, OutcomeFacts
    <3> QED
      BY <3>1, <3>2, <3>3
  <2> QED
    BY <2>5, <2>6
<1>11. Carried' /\ FromSend' /\ Unsent'
  BY <1>1 DEF Carried, FromSend, Unsent
<1> QED
  BY <1>7, <1>8, <1>9, <1>10, <1>11, <1>b DEF IInv

\* A stuttering step.
LEMMA StutterOK ==
    ASSUME IInv, UNCHANGED vars
    PROVE  IInv'
<1>1. cfg' = cfg /\ stage' = stage /\ origin' = origin /\ env' = env /\ outcome' = outcome
  BY DEF vars
<1>2. TypeOK'
  BY <1>1 DEF IInv, TypeOK
<1>3. Carried' /\ Unsent'
  <2>1. stage' = "wire" => WellFormed(env')
    BY <1>1 DEF IInv, Carried
  <2> QED
    BY <1>1, <2>1 DEF IInv, Carried, Unsent, WellFormed
<1>4. FromSend'
  BY <1>1, ZenonT(60) DEF IInv, FromSend, SendRefuses, Aged
<1>5. /\ OwnEcho(env)' <=> OwnEcho(env)
      /\ IsHello(env)' <=> IsHello(env)
      /\ Acceptable(env)' <=> Acceptable(env)
      /\ Sound(env)' <=> Sound(env)
      /\ Supported(env)' <=> Supported(env)
      /\ Authentic(env)' <=> Authentic(env)
      /\ LegacySigned(env)' <=> LegacySigned(env)
      /\ GrantHolds(env)' <=> GrantHolds(env)
  <2>1. (OwnEcho(env)' <=> OwnEcho(env)) /\ (IsHello(env)' <=> IsHello(env))
    BY <1>1, Zenon DEF OwnEcho, IsHello
  <2> QED
    BY <1>1, <2>1, SameVerdict, Zenon
<1>6. VerdictExact' /\ ReasonTellsAuthentic'
  BY <1>1, <1>5, Zenon DEF IInv, VerdictExact, ReasonTellsAuthentic, Delivered, Accepted
<1>7. ParkedIsSelfSigned'
  BY <1>1, <1>5, Zenon DEF IInv, ParkedIsSelfSigned, Delivered, Accepted
<1>8. CleartextArrives'
  BY <1>1, <1>5, Zenon DEF IInv, CleartextArrives, Delivered, Ordinary
<1> QED
  BY <1>2, <1>3, <1>4, <1>6, <1>7, <1>8 DEF IInv

\* The invariant holds of every behaviour: of Send, of anything else on the
\* topic, of a message under way and of the callback's decision.
THEOREM Invariance == Spec => []IInv
<1>1. Init => IInv
  BY InitOK
<1>2. IInv /\ [Next]_vars => IInv'
  BY SendOK, PublishOK, WaitOK, DeliverOK, StutterOK DEF Next
<1> QED
  BY <1>1, <1>2, PTL DEF Spec

\* The variables keep their types: a rejection carries a code of the rejections
\* table, a message that passed carries none, and a message has an outcome
\* exactly when the callback (or Send) is done with it.
THEOREM TypeCorrect == Spec => []TypeOK
<1>1. IInv => TypeOK
  BY DEF IInv
<1> QED
  BY <1>1, Invariance, PTL

\* The early returns of verify_incoming and finalize, for any trust store,
\* switches, limits and envelope: a message is surfaced if and only if the
\* requirements say it may be - and, of version 1 with what only version 2 has,
\* only if it would be sound as version 2.
THEOREM VerdictIsExact == Spec => []VerdictExact
<1>1. IInv => VerdictExact
  BY DEF IInv
<1> QED
  BY <1>1, Invariance, PTL

\* The order of the gates: a rejection is recorded with a code about the contents
\* exactly when the envelope was in order and its sender established.
THEOREM ReasonsTell == Spec => []ReasonTellsAuthentic
<1>1. IInv => ReasonTellsAuthentic
  BY DEF IInv
<1> QED
  BY <1>1, Invariance, PTL

\* The pairing intercept parks only what proves possession of the key that it
\* advertises, whoever is trusted, and a hello is never surfaced as a message.
THEOREM ParkedProves == Spec => []ParkedIsSelfSigned
<1>1. IInv => ParkedIsSelfSigned
  BY DEF IInv
<1> QED
  BY <1>1, Invariance, PTL

\* The limits of send and of verify_incoming agree for a cleartext message: of
\* any accepted request - its kind, content type, topic, grant and body as the
\* user likes - that is fresh and whose sender is trusted, the peer stores
\* exactly the ordinary ones whose grant holds.
THEOREM CleartextIsStored == Spec => []CleartextArrives
<1>1. IInv => CleartextArrives
  BY DEF IInv
<1> QED
  BY <1>1, Invariance, PTL

=============================================================================
