SPECIFICATION FairSpec
CONSTANTS
    Requests = {r1}
    Closers = {c1, c2}
    NoId = NoId
    MaxFrames = 1
PROPERTIES
    EveryCallReturns
    DeathIsNoticed
    ShutdownReaches
CHECK_DEADLOCK FALSE
