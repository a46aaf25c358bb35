\* Two days, two rows of three kinds, pages of three rows, two calls at once, two dates
\* or calls chosen since the page was loaded.
SPECIFICATION Spec
CONSTANTS
    MaxDay = 2
    Kinds <- ThreeKinds
    Boxes = {"queues"}
    RowsPerPage = 3
    None = None
    MaxRows = 2
    MaxCalls = 2
    MaxFailures = 1
    MaxChoices = 2
INVARIANTS
    RangeShown
    PageShown
    GroupsTellAll
CHECK_DEADLOCK FALSE
