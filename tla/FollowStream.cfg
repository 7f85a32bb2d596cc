\* A follower that acknowledges, one that does not, and a reader that also runs
\* ack commands for row 2, stored or still to come, share the consumer; only the
\* ingest thread is fair.
SPECIFICATION IngestFairSpec
CONSTANTS
    Readers = {f1, f2, r1}
    Acking = {f1}
    Following = {f1, f2}
    Naming = {r1}
    Acks = {2}
    Limit = 2
    Cap = 1
    MaxSeq = 3
INVARIANTS TypeOK LagExact AckedWasGivenOrNamed 
PROPERTIES CursorNeverBack IngestNeverStalls
CHECK_DEADLOCK FALSE
