\* The search of the product and a request of its match, two answers at once, one
\* failure.
SPECIFICATION PageFairSpec
CONSTANTS
    Requests = {s, m}
    Own = {s}
    Search = s
    MaxAsked = 2
    MaxChanges = 1
    MaxFaults = 1
INVARIANTS
    RequestsFresh
PROPERTIES
    EveryEndShown
CHECK_DEADLOCK FALSE
