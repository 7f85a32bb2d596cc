------------------------------- MODULE Verify -------------------------------
(***************************************************************************)
(* One message between two agents: what Send puts on the wire              *)
(* (Daemon::send, message::build) and what the receiving daemon makes of   *)
(* whatever arrives on the shared topic (the callback in Daemon::connect,  *)
(* message::verify_incoming, message::verify_pair, grant::verify).         *)
(*                                                                         *)
(* Keys stand for their fingerprints too.  A signature is the key that     *)
(* made it and whether it covers the transmitted inner bytes; a sealed     *)
(* body is the KEM key it was sealed to, whether it opens and the content  *)
(* type inside; an age, and the life of a grant, count from the message's  *)
(* ts.  A gate of the code is a pair <<fails, reason>>; gates are tried in *)
(* order.  What the store refuses later (a duplicate id, a replayed grant) *)
(* is the module Inbox.                                                    *)
(***************************************************************************)
EXTENDS Integers, Sequences, FiniteSetsExt

CONSTANTS
    Me, Peer,       \* the receiving agent and the one that runs Send
    Names,          \* agent and authority names
    NoKey,
    KeyOf,          \* the signing key of each name
    MyKem,          \* the receiver's KEM key
    Trust,          \* trust.json of the receiver: agents
    Authorities,    \* and authorities: name -> key or NoKey
    MaxPayload,     \* config max_payload, the same on both sides
    Freshness,      \* config freshness_secs, <= 0 for off
    MaxAge,         \* bound: how long a message is under way
    Options,        \* inputs: what Send is asked for
    Envelopes       \* inputs: anything else that is published on the topic

Keys == {KeyOf[n] : n \in Names}

ASSUME NamesAssumption == {Me, Peer} \subseteq Names /\ Me # Peer /\ NoKey \notin Keys
ASSUME TrustAssumption ==
    Trust \in [Names -> Keys \cup {NoKey}] /\ Authorities \in [Names -> Keys \cup {NoKey}]
ASSUME LimitsAssumption == MaxPayload \in Nat /\ Freshness \in Int /\ MaxAge \in Nat

\* What parsing makes of any bytes on the topic, and what a Send request is.
AnyKey == Keys \cup {NoKey}
\* A SignedGrant: its authority, whether it is signed, how long it is good for.
Grants(forms) ==
    [form : forms, name : Names, key : AnyKey, signed : BOOLEAN, life : Int, subject : Names]
\* A PairBody, or a body that is none; kemOk is whether its kem_pk decodes.
PairBodies == [form : {"none", "bad", "ok"}, name : Names, key : AnyKey, kemOk : BOOLEAN]
WellFormed(e) ==
    /\ e.parses \in BOOLEAN /\ e.tsOk \in BOOLEAN
    /\ e.v \in Nat /\ e.len \in Nat /\ e.age \in Int
    /\ e.from \in Names
    /\ e.inner \in {"ok", "undecodable", "unparsable"}
    /\ e.kid \in [form : {"absent", "bad", "ok"}, name : Names, key : AnyKey]
    /\ e.sig \in [form : {"absent", "bad", "ok"}, key : AnyKey, covers : BOOLEAN]
    /\ e.enc.form \in {"none", "sealed"} /\ e.enc.opens \in BOOLEAN
    /\ e.grant \in Grants({"none", "garbled", "ok"})
    /\ e.pair \in PairBodies
Foreign == [foreign |-> TRUE]
\* A request: topicOk is whether the topic asked for (or else the primary one)
\* is configured, kem the usable KEM key the sender's trust store has for the
\* recipient (none for "*"), pair what the body reads as.
IsRequest(o) ==
    /\ o # Foreign /\ o.len \in Nat /\ o.topicOk \in BOOLEAN
    /\ o.unsigned \in BOOLEAN /\ o.encrypt \in BOOLEAN
    /\ o.grant \in Grants({"none", "undecodable", "garbled", "ok"})
    /\ o.pair \in PairBodies

ASSUME InputsAssumption ==
    /\ \A o \in Options : IsRequest(o)
    /\ \A e \in Envelopes : WellFormed(e)

VARIABLES
    cfg,        \* the receiver's switches: [allowUnsigned, acceptV1]
    stage,      \* "idle", "wire" or "done"
    origin,     \* the options of the Send that made the message, or the record Foreign
    env,        \* the envelope on the wire
    outcome     \* what became of it

vars == <<cfg, stage, origin, env, outcome>>

-----------------------------------------------------------------------------
(* Building: Daemon::send and message::build.                              *)

\* Length of base64 (no padding) of n bytes.
B64Len(n) == (4 * n + 2) \div 3
\* The AES-GCM tag.
TagLen == 16
\* b64(ciphertext).
SealedLen(n) == B64Len(n + TagLen)

NoKid == [form |-> "absent", name |-> Me, key |-> NoKey]
NoSig == [form |-> "absent", key |-> NoKey, covers |-> FALSE]
NoEnc == [form |-> "none", kem |-> NoKey, opens |-> FALSE, ptype |-> "none"]
NoGrant == [form |-> "none", name |-> Me, key |-> NoKey, signed |-> FALSE,
            life |-> 0, subject |-> Me]
NoPair == [form |-> "none", name |-> Me, key |-> NoKey, kemOk |-> TRUE]

MakeKid(n) == [form |-> "ok", name |-> n, key |-> KeyOf[n]]

\* message::build for the identity Peer.
Build(o) ==
    [parses |-> TRUE,
     v |-> 2,
     alg |-> IF o.unsigned THEN "none" ELSE "ML-DSA-65",
     kid |-> IF o.unsigned THEN NoKid ELSE MakeKid(Peer),
     sig |-> IF o.unsigned THEN NoSig
             ELSE [form |-> "ok", key |-> KeyOf[Peer], covers |-> TRUE],
     inner |-> "ok",
     from |-> Peer,
     kind |-> o.kind,
     ctype |-> IF o.encrypt THEN "sealed" ELSE o.ctype,
     len |-> IF o.encrypt THEN SealedLen(o.len) ELSE o.len,
     tsOk |-> TRUE,
     age |-> 0,
     enc |-> IF o.encrypt THEN [form |-> "sealed", kem |-> o.kem, opens |-> TRUE, ptype |-> o.ctype]
             ELSE NoEnc,
     grant |-> o.grant,
     pair |-> IF o.encrypt THEN NoPair ELSE o.pair]

\* send answers with an error: the topic is not configured, the (plaintext) body
\* is too long, the grant is no token, or encryption was asked for without a key.
SendRefuses(o) ==
    \/ ~o.topicOk
    \/ o.len > MaxPayload
    \/ o.grant.form = "undecodable"
    \/ o.encrypt /\ o.kem = NoKey

-----------------------------------------------------------------------------
(* Verifying.                                                              *)

\* The reason of the first gate that fails, "ok" when none does.
FirstFailure(gates) ==
    LET failing == {k \in DOMAIN gates : gates[k][1]} IN
    IF failing = {} THEN "ok" ELSE gates[Min(failing)][2]

Known(n) == Trust[n] # NoKey
\* crypto::verify(key, inner_bytes, sig).
Verifies(e, key) == e.sig.key = key /\ e.sig.covers

VersionGates(e) ==
    <<  <<e.v = 1 /\ ~cfg.acceptV1, "unsupported_version">>,
        <<e.v \notin {1, 2}, "unsupported_version">>  >>

UnsignedGates(e) ==
    <<  <<~cfg.allowUnsigned, "unsigned_not_allowed">>,
        <<e.inner # "ok", "malformed_wrapper">>,
        <<Known(e.from), "downgrade_rejected">>  >>

\* Mutation of SignedGates: the sender is not compared with the signer.
SignedGates_AnySender(e) ==
    <<  <<e.kid.form # "ok", "malformed_wrapper">>,
        <<~Known(e.kid.name), "unknown_signer">>,
        <<e.kid.key # Trust[e.kid.name], "kid_mismatch">>,
        <<e.inner = "undecodable" \/ e.sig.form # "ok", "malformed_wrapper">>,
        <<~Verifies(e, Trust[e.kid.name]), "invalid_signature">>,
        <<e.inner = "unparsable", "malformed_wrapper">>  >>

SignedGates(e) ==
    <<  <<e.kid.form # "ok", "malformed_wrapper">>,
        <<~Known(e.kid.name), "unknown_signer">>,
        <<e.kid.key # Trust[e.kid.name], "kid_mismatch">>,
        <<e.inner = "undecodable" \/ e.sig.form # "ok", "malformed_wrapper">>,
        <<~Verifies(e, Trust[e.kid.name]), "invalid_signature">>,
        <<e.inner = "unparsable", "malformed_wrapper">>,
        <<e.from # e.kid.name, "kid_mismatch">>  >>

AlgGates(e) ==
    CASE e.alg = "none" -> UnsignedGates(e)
      [] e.alg = "ML-DSA-65" -> SignedGates(e)
      [] OTHER -> << <<TRUE, "unsupported_alg">> >>

\* Mutation of FreshEnough: the window is exclusive.
FreshEnough_Exclusive(e) ==
    \/ Freshness <= 0
    \/ e.tsOk /\ e.age < Freshness /\ -e.age < Freshness

\* fresh_enough: |now - ts| within the window; off when it is not positive.
FreshEnough(e) ==
    \/ Freshness <= 0
    \/ e.tsOk /\ e.age <= Freshness /\ -e.age <= Freshness

\* grant::verify, then the subject.
GrantGates(e) ==
    LET g == e.grant IN
    <<  <<g.form = "garbled", "invalid_grant">>,
        <<g.form = "ok" /\ Authorities[g.name] = NoKey, "unknown_authority">>,
        <<g.form = "ok" /\ g.key # Authorities[g.name], "unknown_authority">>,
        <<g.form = "ok" /\ ~g.signed, "invalid_grant">>,
        <<g.form = "ok" /\ e.age > g.life, "grant_expired">>,
        <<g.form = "ok" /\ g.subject # e.from, "grant_subject_mismatch">>  >>

\* finalize.
FinalGates(e) ==
    <<  <<e.len > MaxPayload, "too_large">>,
        <<~FreshEnough(e), "stale">>,
        <<e.enc.form = "sealed" /\ e.enc.kem # MyKem, "unknown_recipient_key">>,
        <<e.enc.form = "sealed" /\ ~e.enc.opens, "decrypt_failed">>  >> \o GrantGates(e)

\* Mutation of VerifyIncoming: the contents are looked at before the signature.
VerifyIncoming_ContentsFirst(e) ==
    FirstFailure(<< <<~e.parses, "malformed_wrapper">> >>
                   \o VersionGates(e) \o FinalGates(e) \o AlgGates(e))

VerifyIncoming(e) ==
    FirstFailure(<< <<~e.parses, "malformed_wrapper">> >>
                   \o VersionGates(e) \o AlgGates(e) \o FinalGates(e))

\* Mutation of VerifyPair: proof of possession without the check of the kid.
VerifyPair_AnyKid(e) ==
    FirstFailure(
        <<  <<e.alg # "ML-DSA-65", "pair_self_sig_invalid">>,
            <<e.pair.form # "ok", "malformed_wrapper">>,
            <<e.sig.form # "ok", "malformed_wrapper">>,
            <<~Verifies(e, e.pair.key), "pair_self_sig_invalid">>,
            <<e.kid.form # "ok", "malformed_wrapper">>,
            <<e.from # e.pair.name, "malformed_wrapper">>  >>)

\* verify_pair, for an envelope whose inner message parses.
VerifyPair(e) ==
    FirstFailure(
        <<  <<e.alg # "ML-DSA-65", "pair_self_sig_invalid">>,
            <<e.pair.form # "ok", "malformed_wrapper">>,
            <<e.sig.form # "ok", "malformed_wrapper">>,
            <<~Verifies(e, e.pair.key), "pair_self_sig_invalid">>,
            <<e.kid.form # "ok", "malformed_wrapper">>,
            <<e.kid.key # e.pair.key, "pair_self_sig_invalid">>,
            <<e.kid.name # e.pair.name \/ e.from # e.pair.name, "malformed_wrapper">>,
            <<~e.pair.kemOk, "malformed_wrapper">>  >>)

-----------------------------------------------------------------------------
(* The callback of Daemon::connect up to the point where it acts.           *)

OwnEcho(e) == e.parses /\ e.kid.form = "ok" /\ e.kid.name = Me
\* The peek at the content type on the wire, which sealing replaces.
IsHello(e) == e.parses /\ e.inner = "ok" /\ e.ctype = "pair"
\* The content type that finalize leaves: of a sealed body, the one inside.
Ctype(e) == IF e.enc.form = "sealed" THEN e.enc.ptype ELSE e.ctype
\* What the callback does with a verified message.
Surfaced(e) ==
    CASE Ctype(e) = "presence" -> "presence"
      [] Ctype(e) # "presence" /\ (e.kind = "receipt" \/ Ctype(e) = "receipt") -> "receipt"
      [] OTHER -> "stored"

Handled(what, reason) == [what |-> what, reason |-> reason]

\* Mutation of OnMessage: a hello that does not prove possession is recorded with
\* the verdict of the other path.
OnMessage_WrongVerdict(e) ==
    CASE OwnEcho(e) -> Handled("ignored", "echo")
      [] ~OwnEcho(e) /\ IsHello(e) ->
            IF VerifyPair(e) = "ok" THEN Handled("parked", "ok")
            ELSE Handled("rejected", VerifyIncoming(e))
      [] OTHER ->
            IF VerifyIncoming(e) # "ok" THEN Handled("rejected", VerifyIncoming(e))
            ELSE Handled("stored", "ok")

OnMessage(e) ==
    CASE OwnEcho(e) -> Handled("ignored", "echo")
      [] ~OwnEcho(e) /\ IsHello(e) ->
            IF VerifyPair(e) = "ok" THEN Handled("parked", "ok")
            ELSE Handled("rejected", VerifyPair(e))
      [] OTHER ->
            IF VerifyIncoming(e) # "ok" THEN Handled("rejected", VerifyIncoming(e))
            ELSE Handled(Surfaced(e), "ok")

-----------------------------------------------------------------------------
Nothing == Handled("none", "none")
Blank == [parses |-> FALSE]

Init ==
    /\ cfg \in [allowUnsigned : BOOLEAN, acceptV1 : BOOLEAN]
    /\ stage = "idle" /\ origin = Foreign /\ env = Blank /\ outcome = Nothing

\* A Send request at the peer, addressed to this agent.
Send(o) ==
    /\ stage = "idle"
    /\ origin' = o
    /\ IF SendRefuses(o)
       THEN stage' = "done" /\ outcome' = Handled("refused", "send") /\ UNCHANGED env
       ELSE stage' = "wire" /\ env' = Build(o) /\ UNCHANGED outcome
    /\ UNCHANGED cfg

\* Any other message on the shared topic.
Publish(e) ==
    /\ stage = "idle"
    /\ stage' = "wire" /\ env' = e
    /\ UNCHANGED <<cfg, origin, outcome>>

\* The message waits in an outbox, or with the broker.
Wait ==
    /\ stage = "wire" /\ origin # Foreign
    /\ env.age < MaxAge
    /\ env' = [env EXCEPT !.age = @ + 1]
    /\ UNCHANGED <<cfg, stage, origin, outcome>>

Deliver ==
    /\ stage = "wire"
    /\ stage' = "done"
    /\ outcome' = OnMessage(env)
    /\ UNCHANGED <<cfg, origin, env>>

Next ==
    \/ \E o \in Options : Send(o)
    \/ \E e \in Envelopes : Publish(e)
    \/ Wait \/ Deliver

Spec == Init /\ [][Next]_vars

-----------------------------------------------------------------------------
(* Properties.                                                             *)

\* Codes of the rejections table: about the envelope and its signature, and
\* about what a signed message contains.
EnvelopeReason ==
    {"malformed_wrapper", "unsupported_version", "unsupported_alg",
     "unsigned_not_allowed", "downgrade_rejected", "unknown_signer", "kid_mismatch",
     "invalid_signature", "pair_self_sig_invalid"}
ContentReason ==
    {"too_large", "stale", "unknown_recipient_key", "decrypt_failed",
     "invalid_grant", "unknown_authority", "grant_expired", "grant_subject_mismatch"}
RejectReason == EnvelopeReason \cup ContentReason

Delivered == stage = "done" /\ outcome.what # "refused"
Accepted == outcome.what \in {"stored", "presence", "receipt"}

\* What the requirements ask of a message that is surfaced, each in its own
\* words and in no order.
\* REQ-0056, REQ-0006, REQ-0084: signed by the key trusted for the very sender
\* it names, or unsigned where that is allowed and the sender has no key.
Authentic(e) ==
    \/ /\ e.alg = "ML-DSA-65"
       /\ Known(e.from) /\ e.kid = [form |-> "ok", name |-> e.from, key |-> Trust[e.from]]
       /\ e.sig = [form |-> "ok", key |-> Trust[e.from], covers |-> TRUE]
    \/ e.alg = "none" /\ cfg.allowUnsigned /\ ~Known(e.from)
\* REQ-0086: the grant is a trusted authority's, in force, and for the sender.
GrantHolds(e) ==
    \/ e.grant.form = "none"
    \/ /\ e.grant.form = "ok" /\ e.grant.signed
       /\ Authorities[e.grant.name] # NoKey /\ e.grant.key = Authorities[e.grant.name]
       /\ e.age <= e.grant.life /\ e.grant.subject = e.from
\* All of it, whatever the version.
Sound(e) ==
    /\ e.parses /\ e.inner = "ok"
    /\ Authentic(e)
    /\ e.len \in 0..MaxPayload
    /\ Freshness > 0 => e.tsOk /\ e.age \in -Freshness..Freshness
    /\ e.enc.form = "sealed" => e.enc.kem = MyKem /\ e.enc.opens
    /\ GrantHolds(e)
\* REQ-0083: version 2, and version 1 where it is accepted; "v1 takes
\* the legacy signed path (no enc/grant/unsigned)".
Supported(e) == e.v = 2 \/ (e.v = 1 /\ cfg.acceptV1)
LegacySigned(e) == e.alg = "ML-DSA-65" /\ e.enc.form = "none" /\ e.grant.form = "none"
Acceptable(e) == Sound(e) /\ Supported(e) /\ (e.v = 1 => LegacySigned(e))

\* Types of the variables; a rejection carries one of the codes of the rejections
\* table, and only a message that passed carries none.
TypeOK ==
    /\ cfg \in [allowUnsigned : BOOLEAN, acceptV1 : BOOLEAN]
    /\ stage \in {"idle", "wire", "done"}
    /\ origin \in Options \cup {Foreign}
    /\ outcome \in {Nothing, Handled("refused", "send"), Handled("ignored", "echo")}
                     \cup [what : {"rejected"}, reason : RejectReason]
                     \cup [what : {"parked", "stored", "presence", "receipt"}, reason : {"ok"}]
    /\ stage = "done" <=> outcome # Nothing

\* verify_incoming's chain of early returns accepts exactly what the
\* requirements ask for: nothing more (a message is surfaced, or touches a
\* table other than the rejections, only if Acceptable) and nothing less.  The
\* one exception is a version 1 envelope that is unsigned, sealed or has a
\* grant: against its comment "v1 takes the legacy signed path" the version gate
\* lets it through, and of those it accepts nothing it would not as version 2.
VerdictExact ==
    Delivered /\ ~OwnEcho(env) /\ ~IsHello(env) =>
        IF env.v = 1 /\ ~LegacySigned(env)
        THEN Accepted => Supported(env) /\ Sound(env)
        ELSE Accepted <=> Acceptable(env)

\* The order of the pipeline (DESIGN_V2, Layer 3): nothing is said of the
\* contents before the sender is established.  So the reason a rejection is
\* recorded with tells whether the message was its sender's: a code about the
\* contents if and only if the envelope was authentic.
ReasonTellsAuthentic ==
    Delivered /\ outcome.what = "rejected" /\ ~IsHello(env) =>
        (outcome.reason \in ContentReason <=>
            env.parses /\ env.inner = "ok" /\ Supported(env) /\ Authentic(env))

\* REQ-0099: whatever the pairing intercept parks for confirmation is signed by
\* the key it advertises, under one name; nothing that is not a hello is parked
\* and a hello is never surfaced as a message.
ParkedIsSelfSigned ==
    Delivered =>
        /\ outcome.what = "parked" =>
              /\ IsHello(env) /\ env.pair.name = env.from
              /\ env.sig = [form |-> "ok", key |-> env.pair.key, covers |-> TRUE]
              /\ env.kid = [form |-> "ok", name |-> env.from, key |-> env.pair.key]
        /\ Accepted => ~IsHello(env)

\* What a reader can be given: neither the kind nor the content type is one the
\* daemons use among themselves.
Ordinary(o) == o.kind # "receipt" /\ o.ctype \notin {"pair", "presence", "receipt"}

\* A message that Send accepted, unencrypted and signed, is stored by a peer
\* that trusts the sender and that it reaches within the freshness window, if
\* it is an ordinary one and its grant (if any) holds there - and else it is
\* not, although Send answered as if it were: of all its other parameters the
\* limits of send and of verify_incoming agree.
CleartextArrives ==
    Delivered /\ origin # Foreign =>
        (~origin.unsigned /\ ~origin.encrypt /\ Trust[Peer] = KeyOf[Peer]
            /\ (Freshness > 0 => env.age <= Freshness)
         => (outcome.what = "stored" <=> Ordinary(origin) /\ GrantHolds(env)))

\* REQ-0088, "An encrypted message round-trips": the same for a body sealed to
\* the receiver's key.
EncryptedArrives ==
    Delivered /\ origin # Foreign =>
        (~origin.unsigned /\ origin.encrypt /\ origin.kem = MyKem /\ Trust[Peer] = KeyOf[Peer]
            /\ (Freshness > 0 => env.age <= Freshness)
            /\ Ordinary(origin) /\ GrantHolds(env)
         => outcome.what = "stored")

=============================================================================
