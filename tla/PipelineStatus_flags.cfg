\* Two handlers, getFacts and a generation write the flags of a product, and a
\* writer its matches.
SPECIFICATION Spec
CONSTANTS
    Searches = {s1, s2}
    Matches = {m1}
    Handlers = {h1, h2}
    Writers = {c1}
    None = None
    Asked = Asked
    MaxQueue = 2
    MaxCalls = 4
    MaxFailures = 1
INVARIANTS
    FlagsSettle
    DoneMeansGenerated
SYMMETRY Symmetry
CHECK_DEADLOCK FALSE
