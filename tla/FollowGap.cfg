\* A message between the drain and the subscription.
SPECIFICATION Spec
CONSTANTS
    Readers = {f1}
    Acking = {f1}
    Following = {f1}
    Naming = {}
    Acks = {}
    Limit = 2
    Cap = 2
    MaxSeq = 3
INVARIANT NothingSkipped
CHECK_DEADLOCK FALSE
