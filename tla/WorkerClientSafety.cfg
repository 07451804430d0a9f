SPECIFICATION Spec
CONSTANTS
    Requests = {r1, r2}
    Closers = {c1}
    NoId = NoId
    MaxFrames = 2
SYMMETRY Symmetry
INVARIANTS
    OwnAnswerOnly
    NoLostSender
    NoEntryAfterReturn
    OversizedSparesOthers
PROPERTIES
    ImplementsExchange
CHECK_DEADLOCK FALSE
