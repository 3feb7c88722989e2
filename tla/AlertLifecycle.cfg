SPECIFICATION FairSpec
CONSTANTS
    MaxDelays = 2
    MaxDispositions = 1
    MaxRequests = 1
    MaxCrashes = 1
    MaxFailures = 1
    LongPasses = TRUE
INVARIANTS
    TypeOK
    DetectionsAlerted
    AlertStorageKept
    DispositionNoticed
    OpenRequestQueued
PROPERTIES
    Settles
CHECK_DEADLOCK FALSE
