CONSTANTS
    Cells = {c1, c2}
    NoCell = NoCell
    Blank = Blank
    Lcores = {l1}
    QueueCap = 2
    Kinds = {"UNKNOWN", "TABLE"}
    MaxIn = 2
    MaxDigests = 1
    Faults = {}
SPECIFICATION Spec
PROPERTIES UnknownSkipped
CHECK_DEADLOCK FALSE
