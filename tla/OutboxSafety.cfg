\* A Send and a beacon across two sessions, with a crash and a failing statement.
SPECIFICATION Spec
CONSTANTS
    NoId = NoId
    Sends = {s1}
    Receipts = {}
    Beacons = {b1}
    Hellos = {}
    ChanCap = 1
    MaxSessions = 2
    MaxCrashes = 1
    MaxDrops = 0
    MaxFaults = 1
INVARIANTS TypeOK OutboxDurable StateHonest PendingIsQueued
PROPERTY ImplementsHandoff
CHECK_DEADLOCK FALSE
