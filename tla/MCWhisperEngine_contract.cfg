SPECIFICATION LiveSpec

CONSTANTS
    j1 = j1
    j2 = j2
    c1 = c1
    c2 = c2
    Calls = {c1, c2}
    Jobs = {j1, j2}
    None = None
    MaxEdits = 1
    Overlap = TRUE
    Cancel = TRUE

INVARIANTS
    NoUseAfterFree

PROPERTIES
    KeepsContract
    CallsReturn
    TranscriptionsReturn

CHECK_DEADLOCK FALSE
