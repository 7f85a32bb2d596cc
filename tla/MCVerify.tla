------------------------------ MODULE MCVerify ------------------------------
(* Verify for TLC: three agents, one authority, and the envelopes that differ *)
(* from a valid one in any of their parts.                                 *)
EXTENDS Verify, TLC

CONSTANTS
    me, peer, stranger,             \* names
    kMe, kPeer, kOther, kemMe, kemOld

MCNames == {me, peer, stranger}
MCKeyOf == (me :> kMe) @@ (peer :> kPeer) @@ (stranger :> kOther)
\* The receiver knows the peer; its authority has the peer's name but a key of
\* its own: agents and authorities are separate maps.
MCTrust == (me :> NoKey) @@ (peer :> kPeer) @@ (stranger :> NoKey)
MCAuthorities == (me :> NoKey) @@ (peer :> kOther) @@ (stranger :> NoKey)

\* Grants of the authority that hold for the peer until they expire, and
\* tokens that are none.
Lasting == [form |-> "ok", name |-> peer, key |-> kOther, signed |-> TRUE, life |-> 9, subject |-> peer]
Request ==
    [topicOk |-> TRUE, len |-> 6, encrypt |-> FALSE, kem |-> kemMe, unsigned |-> FALSE,
     kind |-> "message", ctype |-> "text", grant |-> NoGrant, pair |-> NoPair]
MyHello == [form |-> "ok", name |-> peer, key |-> kPeer, kemOk |-> TRUE]

\* Requests: every limit with and without encryption, then every kind with
\* every content type and every grant.
MCOptions ==
    {[Request EXCEPT !.topicOk = topic, !.len = len, !.unsigned = unsigned] :
        topic \in BOOLEAN, len \in {0, 6, 24, 25}, unsigned \in BOOLEAN}
      \cup {[Request EXCEPT !.len = len, !.encrypt = TRUE, !.kem = kem] :
              len \in {0, 24, 25}, kem \in {NoKey, kemOld}}
      \cup {[Request EXCEPT !.kind = kind, !.ctype = ctype, !.grant = grant, !.pair = pair,
                            !.encrypt = encrypt, !.len = 0] :
              kind \in {"message", "receipt"}, ctype \in {"text", "pair", "presence", "receipt"},
              grant \in {NoGrant, Lasting, [Lasting EXCEPT !.life = 1],
                         [Lasting EXCEPT !.subject = stranger],
                         [Lasting EXCEPT !.form = "garbled"],
                         [Lasting EXCEPT !.form = "undecodable"]},
              pair \in {NoPair, MyHello}, encrypt \in BOOLEAN}
\* Bodies sealed to the right key.
SealedOptions ==
    {[Request EXCEPT !.encrypt = TRUE, !.len = len] : len \in {0, 2, 6, 24, 25}}

Good == Build(Request)
Unsigned == Build([Request EXCEPT !.unsigned = TRUE])

Kids == {NoKid, [NoKid EXCEPT !.form = "bad"]}
          \cup [form : {"ok"}, name : MCNames, key : {kPeer, kOther}]
Sigs == {NoSig} \cup [form : {"ok"}, key : {kPeer, kOther}, covers : BOOLEAN]
Pairs == {NoPair} \cup [form : {"ok"}, name : {peer, stranger}, key : {kPeer, kOther},
                          kemOk : BOOLEAN]
GrantForms ==
    {NoGrant, [NoGrant EXCEPT !.form = "garbled"]}
      \cup [form : {"ok"}, name : {peer, stranger}, key : {kPeer, kOther}, signed : BOOLEAN,
            life : {-4, 9}, subject : {peer, stranger}]
Encs == {NoEnc} \cup [form : {"sealed"}, kem : {kemMe, kemOld}, opens : BOOLEAN, ptype : {"text", "presence"}]

\* Every wrapper around contents that are fine, or too old.
Wrappers ==
    {[Good EXCEPT !.v = v, !.alg = alg, !.kid = kid, !.sig = sig, !.inner = inner,
                  !.from = from, !.age = age] :
        v \in {1, 2, 3}, alg \in {"none", "ML-DSA-65", "other"}, kid \in Kids, sig \in Sigs,
        inner \in {"ok", "undecodable", "unparsable"}, from \in {peer, stranger}, age \in {0, 3}}
\* All contents in a wrapper that is fine, signed or not, or of version 1:
\* every limit with every sealing, and every grant with every sealing.
Plain ==
    {[base EXCEPT !.v = v, !.from = from, !.enc = enc] :
        base \in {Good, Unsigned}, v \in {1, 2}, from \in {peer, stranger}, enc \in Encs}
Contents ==
    {[base EXCEPT !.ctype = ctype, !.len = len, !.tsOk = ts, !.age = age] :
        base \in Plain, ctype \in {"text", "presence"}, len \in {24, 25}, ts \in BOOLEAN,
        age \in {-3, -2, 2, 3}}
      \cup {[base EXCEPT !.grant = grant] : base \in Plain, grant \in GrantForms}
\* Pairing hellos.
HelloForms ==
    {[Good EXCEPT !.ctype = "pair", !.alg = alg, !.kid = kid, !.sig = sig, !.from = from,
                  !.pair = pair] :
        alg \in {"none", "ML-DSA-65"}, kid \in Kids, sig \in Sigs, from \in {peer, stranger},
        pair \in Pairs}

\* Receipts by kind or content type, sealed or not, a hello inside a sealed
\* body, and what is no wrapper at all.
Others ==
    {[Good EXCEPT !.kind = kind, !.ctype = ctype, !.enc = enc] :
        kind \in {"message", "receipt"}, ctype \in {"text", "presence", "receipt", "pair"},
        enc \in {NoEnc} \cup [form : {"sealed"}, kem : {kemMe}, opens : {TRUE},
                             ptype : {"text", "presence", "receipt", "pair"}]}
      \cup {[Good EXCEPT !.parses = FALSE]}

AllEnvelopes == Wrappers \cup Contents \cup HelloForms \cup Others
=============================================================================
