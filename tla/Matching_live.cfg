\* What must happen in the end, for every form of answer.
SPECIFICATION FairSpec
CONSTANTS
    Candidates = {m1}
    Checks = {k1, k2}
    Verifies = {v1}
    Edits = {}
    Responses <- AllAnswers
    Threshold = 85
    NaN = NaN
    None = None
    Junk = Junk
    MaxFailures = 1
PROPERTIES
    EveryCheckEnds
    AboveScraped
CHECK_DEADLOCK FALSE
