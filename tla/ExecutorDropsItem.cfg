SPECIFICATION Spec
CONSTANTS
    Observables = {"o1", "o2"}
    Given <- TwoGiven
    NModules = 2
    Accepts <- AllTasks
    WaitGraphs <- FlatWaits
    Declared <- NoDeclared
    Behaviours = {"delay"}
    MaxDelays = 1
    MaxKinds = 1
INVARIANTS NothingDropped
CHECK_DEADLOCK FALSE
