\* Beacons of two threads, reordered and repeated, under a clock that is set back.
SPECIFICATION Spec
CONSTANTS
    States = {"busy"}
    Ttls = {0}
    HeartbeatSecs = 1
    NoRow = NoRow
    MaxTime = 2
    MaxBeacons = 3
    MaxBack = 1
INVARIANTS TypeOK RowIsNewest
CHECK_DEADLOCK FALSE
