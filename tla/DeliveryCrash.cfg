SPECIFICATION Spec
CONSTANTS
    Submissions = {s1}
    Groups = {"main", "qa"}
    Threads = {"main1", "main2", "qa1"}
    GroupOf <- MCGroupOf
    FullDelivery = {"main"}
    Sampled = {"qa"}
    Keys = {k}
    NoKey = NoKey
    Kinds <- MCKeyedKinds
    s1 = s1
    s2 = s2
    k = k
    BatchSize = 2
    MaxAttempts = 2
    None = None
    Faults = {"crash"}
    MaxMishaps = 1
INVARIANTS ReplayedNotLost
CHECK_DEADLOCK FALSE
