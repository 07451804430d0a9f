SPECIFICATION Spec
CONSTANTS
    Callers = {c1, c2}
    NoCaller = NoCaller
    Features = {"credential"}
    Required = {"credential"}
    CmfHook = FALSE
    MaxAttempts = 1
    Window = 1
    MaxWorkers = 3
    MaxInits = 2
    MaxAnswers = 1
    MaxClock = 2
SYMMETRY Symmetry
INVARIANTS
    NothingInstalledAfterShutdown
    ServedOnlyIfUnderstood
    RespawnsArePaidFor
    OneProcess
CHECK_DEADLOCK FALSE
