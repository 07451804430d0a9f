SPECIFICATION FairSpec
CONSTANTS
    Callers = {c1, c2}
    NoCaller = NoCaller
    Features = {"cmf_hooks"}
    Required = {}
    CmfHook = TRUE
    MaxAttempts = 1
    Window = 1
    MaxWorkers = 2
    MaxInits = 1
    MaxAnswers = 0
    MaxClock = 1
PROPERTIES
    EveryCallerLeaves
    ShutdownLeavesNothing
CHECK_DEADLOCK FALSE
