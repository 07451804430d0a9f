SPECIFICATION Spec
CONSTANTS
    Classes = {A}
    Versions = {1, 2}
    Bare = {2}
    InOneHost = TRUE
    Overlap = FALSE
    TornWrites = FALSE
    MaxEdits = 0
    MaxFaults = 2
INVARIANTS
    ValidMeansUsable
CHECK_DEADLOCK FALSE
