SPECIFICATION Spec
CONSTANTS
    MaxBytes = 6
    Streams <- AllStreams
    Limit = 2
    Fill = 3
    Retain = 2
    MarkerSize = 1
INVARIANT
    StderrCeiling
CHECK_DEADLOCK FALSE
