SPECIFICATION FairSpec
CONSTANTS
    Observables = {"o1", "o2"}
    Given <- OneGiven
    NModules = 2
    Accepts <- AllTasks
    WaitGraphs <- CrossWaits
    Declared <- FirstNeedsSecond
    Behaviours = {"find", "nothing", "delay", "partial", "error", "unmet", "hit", "stop"}
    MaxDelays = 2
    MaxKinds = 2
INVARIANTS DelayedResumed AllSettled Thorough
PROPERTIES WaitsHonoured Ends
CHECK_DEADLOCK FALSE
