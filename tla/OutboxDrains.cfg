\* A receipt and a hello leave the outbox; the backlog fits in the request channel.
SPECIFICATION FairSpec
CONSTANTS
    NoId = NoId
    Sends = {}
    Receipts = {r1}
    Beacons = {}
    Hellos = {h1}
    ChanCap = 5
    MaxSessions = 1
    MaxCrashes = 0
    MaxDrops = 1
    MaxFaults = 1
PROPERTY OutboxDrains
CHECK_DEADLOCK FALSE
