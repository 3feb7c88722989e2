SPECIFICATION FairSpec
CONSTANTS
    Clients = {"c1", "c2", "c3"}
    Processes = {"p1", "p2"}
    ProcessOf <- MCProcessOf
    Server = "server"
    Names = {"defined", "undefined"}
    Wants <- MCWants
    Limits <- OneDefined
    MaxObjects = 3
    MaxFaults = 1
INVARIANTS TypeOK Conserved LimitKept
PROPERTIES PermitsReturn
CHECK_DEADLOCK FALSE
