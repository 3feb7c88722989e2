SPECIFICATION FairSpec
CONSTANTS
    Nodes = {"n1", "n2"}
    Collecting = {"n1"}
    Drainable = {"n1"}
    First = "n1"
    Old = {"far", "due"}
    Fresh = {"new"}
    Due = {"due"}
    Loads <- OldOrNew
    Suits <- Anywhere
    None = None
    MaxDrains = 1
    MaxRequests = 1
    MaxFaults = 1
INVARIANTS HasStorage FarKept SubmissionKept
PROPERTIES DrainEnds
CHECK_DEADLOCK FALSE
