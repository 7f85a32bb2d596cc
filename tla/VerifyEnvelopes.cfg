\* What Send builds, every wrapper, every content and every hello.
SPECIFICATION Spec
CONSTANTS
    me = me
    peer = peer
    stranger = stranger
    kMe = kMe
    kPeer = kPeer
    kOther = kOther
    kemMe = kemMe
    kemOld = kemOld
    NoKey = NoKey
    Me = me
    Peer = peer
    MyKem = kemMe
    Names <- MCNames
    KeyOf <- MCKeyOf
    Trust <- MCTrust
    Authorities <- MCAuthorities
    MaxPayload = 24
    Freshness = 2
    MaxAge = 3
    Options <- MCOptions
    Envelopes <- AllEnvelopes
INVARIANTS TypeOK VerdictExact ReasonTellsAuthentic ParkedIsSelfSigned CleartextArrives
CHECK_DEADLOCK FALSE
