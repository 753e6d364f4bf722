SPECIFICATION Spec

CONSTANTS
    MaxThreads = 3
    MaxGraphs = 2
    Graphs <- SmallGraphs

INVARIANTS
    EachPieceOnce
    SourcesReady
    NothingHalfDone
    NobodyPassesEarly

PROPERTIES
    KeepsBarrier
    ComputesGraphs
    PoolEnds
