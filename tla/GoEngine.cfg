SPECIFICATION FairSpec
CONSTANTS
    Goroutines = {g1, g2}
    MaxBoxes = 3
INVARIANTS
    NoUseAfterFree
    BoxesNeverLeak
PROPERTIES
    EveryCallReturns
CHECK_DEADLOCK FALSE
