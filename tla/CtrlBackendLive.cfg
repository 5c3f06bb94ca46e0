CONSTANTS
    Cells = {c1, c2}
    NoCell = NoCell
    Blank = Blank
    Lcores = {l1}
    QueueCap = 2
    Kinds = {"TABLE", "INITIALIZED", "BAD"}
    MaxIn = 2
    MaxDigests = 2
    Faults = {"eof"}
SPECIFICATION FairSpec
PROPERTIES InputHandled DigestsWritten DataPlaneStarts
CHECK_DEADLOCK FALSE
