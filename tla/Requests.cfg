SPECIFICATION FairSpec
CONSTANTS
    MaxRequests = 2
    Services = {"remediation", "collection"}
    Threads = {"t1", "t2"}
    MaxRetries = 2
    MaxDelays = 1
    MaxMishaps = 2
INVARIANTS OneAttempt
PROPERTIES CompletedStays Settles
CHECK_DEADLOCK FALSE
