CONSTANTS
    Workers = {w1, w2, w3}
    Jobs = 3
    NoJob = NoJob
    Returning = {}
    Ready = FALSE
    Spurious = FALSE
SPECIFICATION Spec
INVARIANTS StartedOnce
CHECK_DEADLOCK FALSE
