\* Two operators at once, a save that fails and a restart of the daemon.
SPECIFICATION Spec
CONSTANTS
    Operators = {o1, o2}
    Agents = {n1}
    Anchors = {a1}
    Keys = {k1, k2}
    NoKey = NoKey
    Rotations = {TRUE, FALSE}
    MaxRestarts = 1
    MaxFailures = 1
SYMMETRY Symmetry
INVARIANTS TypeOK EditsKept LastEditKept ConfirmedWasCompared
CHECK_DEADLOCK FALSE
