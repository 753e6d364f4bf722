SPECIFICATION Spec

CONSTANTS
    Bodies <- ServerBodies
    MinSize <- MinSizes
    Megabyte = 3
    AssetSize = 2
    MinLoadable = 3
    i1 = i1
    Inits = {i1}
    MaxEvents = 5
    c1 = c1
    c2 = c2
    Calls = {c1, c2}
    Ttl = 1
    HasKey = TRUE
    Overlap = FALSE
    MaxClock = 1

SYMMETRY Symmetry

INVARIANTS
    TargetsWhole
    CompletedIsAccepted
    NamedModelAnswers

PROPERTIES
    CacheIsFresh

CHECK_DEADLOCK FALSE
