\* Repeated deliveries on two sessions: two messages share a grant, one is invalid,
\* both limits are tight, one crash and one failing statement.
SPECIFICATION Spec
CONSTANTS
    m1 = m1
    m2 = m2
    m3 = m3
    m4 = m4
    g1 = g1
    NoGrant = NoGrant
    NoMsg = NoMsg
    Msgs = {m1, m2, m3, m4}
    Direct = {m1, m3, m4}
    Invalid = {m4}
    Expiring = {g1}
    GrantOf <- SharedGrant
    SizeOf <- Sizes
    Workers = {w1, w2}
    MaxMessages = 2
    MaxBytes = 2
    TrimStep = 2
    MaxArrivals = 4
    MaxCrashes = 1
    MaxFaults = 1
INVARIANTS TypeOK GrantUsedOnce DedupeWhileRetained ReceiptPerRow
PROPERTIES BoundsEnforced OldestEvictedFirst
CHECK_DEADLOCK FALSE
