CONSTANTS
    Workers = {w1, w2}
    Jobs = 3
    NoJob = NoJob
    Returning = {1}
    Ready = FALSE
    Spurious = TRUE
SPECIFICATION FairSpec
INVARIANTS MutualExclusion QueueSound
PROPERTIES SignalledStarts
CHECK_DEADLOCK FALSE
