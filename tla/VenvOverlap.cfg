SPECIFICATION Spec
CONSTANTS
    Classes = {A, B}
    Versions = {1, 2}
    Bare = {2}
    InOneHost = TRUE
    Overlap = TRUE
    TornWrites = TRUE
    MaxEdits = 0
    MaxFaults = 2
SYMMETRY Symmetry
INVARIANTS
    NoThrash
CHECK_DEADLOCK FALSE
