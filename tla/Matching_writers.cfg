\* Checks, a verification and an edit write the same array.
SPECIFICATION Spec
CONSTANTS
    Candidates = {m1, m2}
    Checks = {k1, k2}
    Verifies = {v1}
    Edits = {e1}
    Responses <- ThreeAnswers
    Threshold = 85
    NaN = NaN
    None = None
    Junk = Junk
    MaxFailures = 1
INVARIANTS
    AboveRequested
    RequestedJustified
PROPERTIES
    EntriesKept
SYMMETRY Symmetry
CHECK_DEADLOCK FALSE
