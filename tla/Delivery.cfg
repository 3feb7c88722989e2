SPECIFICATION FairSpec
CONSTANTS
    Submissions = {s1, s2}
    Groups = {"main", "qa"}
    Threads = {"main1", "main2", "qa1"}
    GroupOf <- MCGroupOf
    FullDelivery = {"main"}
    Sampled = {"qa"}
    Keys = {k}
    NoKey = NoKey
    Kinds <- MCKinds
    s1 = s1
    s2 = s2
    k = k
    BatchSize = 2
    MaxAttempts = 2
    None = None
    Faults = {"crash", "error", "lost", "age", "outage", "foreign"}
    MaxMishaps = 1
INVARIANTS Accounted IncomingKept FullDeliveryKept DeliveredOnce
PROPERTIES SettledStays DeliveryEnds
CHECK_DEADLOCK FALSE
