SPECIFICATION Spec

CONSTANTS
    j1 = j1
    c1 = c1
    c2 = c2
    c3 = c3
    c4 = c4
    Calls = {c1, c2, c3, c4}
    Jobs = {j1}
    None = None
    MaxEdits = 2
    Overlap = FALSE
    Cancel = TRUE

SYMMETRY Symmetry

INVARIANTS
    ReadyAtRest
    CurrentAtRest
    OldReleasedAtRest

CHECK_DEADLOCK FALSE
