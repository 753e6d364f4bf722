SPECIFICATION Spec

CONSTANTS
    Tensors = {1, 2, 3, 4}
    Sizes = {1, 2, 3}
    Alignment = 2
    MaxChunkSize = 6
    MaxChunks = 2
    MaxFreeBlocks = 5
    Endless = 12
    Graphs <- SmallGraphs
    Scales = {2, 3}
    MaxCalls = 2
    Retopology = FALSE

INVARIANTS
    ContentsIntact
    WritesInPlace
    InsideBuffer
    NothingLeaks

PROPERTIES
    KeepsAllocator
