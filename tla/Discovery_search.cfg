\* Two replicas share a search and the products it finds, one thing may fail.
SPECIFICATION FairSpec
CONSTANTS
    Searches = {s1}
    Products = {p1, p2, p3}
    Replicas = {w1, w2}
    Handlers = {h1}
    Wanted = 2
    None = None
    MaxFailures = 1
INVARIANTS
    ListedRequested
    InsertedBound
    OrphansFromFailures
    UncheckedWasEarly
PROPERTIES
    EveryMatchRead
CHECK_DEADLOCK FALSE
