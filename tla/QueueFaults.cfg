SPECIFICATION FairSpec
CONSTANTS
    Roots = {r1}
    Procs = {p1, p2}
    Slots = {s1}
    NoOne = NoOne
    NoRow = NoRow
    NoRoot = NoRoot
    NoName = NoName
    MaxDelays = 1
    MaxMishaps = 1
    Faults = {"crash", "starve", "late", "restart", "reload"}
PROPERTIES QueueDrains LocksFreed
CHECK_DEADLOCK FALSE
