SPECIFICATION DynSpec

CONSTANTS
    Tensors = {t1, t2, t3, t4, t5}
    Sizes = {1, 3}
    Alignment = 2
    MaxChunkSize = 6
    MaxChunks = 2
    MaxFreeBlocks = 3
    Endless = 12

INVARIANTS
    NoOverlap
    Accounted
    Coalesced
