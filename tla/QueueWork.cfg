SPECIFICATION Spec
CONSTANTS
    Roots = {r1, r2}
    Procs = {p1, p2, p3}
    Slots = {s1, s2}
    NoOne = NoOne
    NoRow = NoRow
    NoRoot = NoRoot
    NoName = NoName
    MaxDelays = 2
    MaxMishaps = 1
    Faults = {"crash"}
INVARIANTS ExclusiveAnalysis InFlightWorkKept CleanupLast
PROPERTIES NoWorkDropped ReleasesOnlyTheDead
SYMMETRY Symmetry
CHECK_DEADLOCK FALSE
