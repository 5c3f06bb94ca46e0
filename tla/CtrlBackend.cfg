CONSTANTS
    Cells = {c1, c2, c3}
    NoCell = NoCell
    Blank = Blank
    Lcores = {l1, l2}
    QueueCap = 3
    Kinds = {"BAD", "INITIALIZED"}
    MaxIn = 2
    MaxDigests = 1
    Faults = {"noconnect", "eof", "reset", "stop"}
SPECIFICATION Spec
SYMMETRY Symmetry
INVARIANTS TypeOK MessagesIntact CellsOwnedOnce NoLeak LeakBound ConfiguredBeforeRunning
PROPERTIES InputInOrder DigestsInOrder
CHECK_DEADLOCK FALSE
