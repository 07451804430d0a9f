SPECIFICATION Spec
CONSTANTS
    Classes = {A, B}
    Versions = {1, 2}
    Bare = {2}
    InOneHost = TRUE
    Overlap = FALSE
    TornWrites = FALSE
    MaxEdits = 2
    MaxFaults = 3
SYMMETRY Symmetry
INVARIANTS
    RunningKeepsVenv
    NoThrash
CHECK_DEADLOCK FALSE
