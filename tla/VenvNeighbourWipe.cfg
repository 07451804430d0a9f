SPECIFICATION Spec
CONSTANTS
    Classes = {A, B}
    Versions = {1, 2}
    Bare = {2}
    InOneHost = TRUE
    Overlap = TRUE
    TornWrites = FALSE
    MaxEdits = 1
    MaxFaults = 0
INVARIANTS
    RunningKeepsVenv
CHECK_DEADLOCK FALSE
