SPECIFICATION FairSpec
CONSTANTS
    Roots = {r1, r2}
    Workers = {w1, w2}
    Recoveries = {c1, c2}
    NoOne = NoOne
    NoRoot = NoRoot
    Starved = {r2}
    MaxFaults = 1
INVARIANTS TypeOK MutualExclusion NoOrphanLock
PROPERTIES ImplementsLease LossIsNoticed
CHECK_DEADLOCK FALSE
