SPECIFICATION Spec
CONSTANTS
    Padding = 1
    Words = 2
    Chunk = 4
    DeltaMin = 1
    NearEnd = 2
    MaxInitial = 1
    TextCtx = 14
    CachePad = 2
    EntropyWindow = 1
    MaxDecoders = 2
    Requests <- SmallRequests
INVARIANTS
    OwnContextOnce
    SlotsFound
    TextFits
    BestUsable
PROPERTY WindowsMoveOn
CHECK_DEADLOCK FALSE
