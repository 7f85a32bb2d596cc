\* Bodies sealed to the receiver.
SPECIFICATION Spec
CONSTANTS
    me = me
    peer = peer
    stranger = stranger
    kMe = kMe
    kPeer = kPeer
    kOther = kOther
    kemMe = kemMe
    kemOld = kemOld
    NoKey = NoKey
    Me = me
    Peer = peer
    MyKem = kemMe
    Names <- MCNames
    KeyOf <- MCKeyOf
    Trust <- MCTrust
    Authorities <- MCAuthorities
    MaxPayload = 24
    Freshness = 2
    MaxAge = 3
    Options <- SealedOptions
    Envelopes = {}
INVARIANT EncryptedArrives
CHECK_DEADLOCK FALSE
