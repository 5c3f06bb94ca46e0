CONSTANTS
    Workers = {w1, w2, w3}
    Jobs = 3
    NoJob = NoJob
    Returning = {}
    Ready = TRUE
    Spurious = FALSE
SPECIFICATION FairSpec
PROPERTIES JobStarts
CHECK_DEADLOCK FALSE
