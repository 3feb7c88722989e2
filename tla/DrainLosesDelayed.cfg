SPECIFICATION Spec
CONSTANTS
    Nodes = {"n1", "n2"}
    Collecting = {}
    Drainable = {"n1"}
    First = "n1"
    Old = {"due"}
    Fresh = {}
    Due = {"due"}
    Loads <- OnlyDue
    Suits <- Anywhere
    None = None
    MaxDrains = 1
    MaxRequests = 0
    MaxFaults = 0
INVARIANT DelayedKept
CHECK_DEADLOCK FALSE
