\* The backlog is larger than the request channel when the connection is lost.
SPECIFICATION FairSpec
CONSTANTS
    NoId = NoId
    Sends = {s1}
    Receipts = {}
    Beacons = {b1}
    Hellos = {}
    ChanCap = 1
    MaxSessions = 1
    MaxCrashes = 0
    MaxDrops = 1
    MaxFaults = 0
PROPERTY OutboxDrains
CHECK_DEADLOCK FALSE
