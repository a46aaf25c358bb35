\* What must eventually happen to a request with a spare replica for each of a
\* crash and a dropped connection, and one write or publication that fails.
SPECIFICATION FairSpec
CONSTANTS
    Requests = {r1}
    Jobs = {j1}
    Supported = {j1}
    Calls = {c1}
    Workers = {w1, w2, w3}
    NoRequest = NoRequest
    NoJob = NoJob
    MaxCrashes = 1
    MaxDrops = 1
    MaxFaults = 1
PROPERTIES
    EverySettles
    EverySeen
    ImplementsFairContract
CHECK_DEADLOCK FALSE
