SPECIFICATION FairSpec
CONSTANTS
    Inits = {i1, i2}
    Stops = {s1, s2}
    Nobody = Nobody
    MaxPanics = 2
INVARIANTS
    DownMeansStopped
PROPERTIES
    ImplementsEngine
    EveryCallReturns
    ShutdownHappens
CHECK_DEADLOCK FALSE
