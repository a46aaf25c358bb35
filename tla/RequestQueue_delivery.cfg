\* Overlapping create calls, two replicas, one connection closed under a replica
\* that lives on, and one write or publication that fails.
SPECIFICATION Spec
CONSTANTS
    Requests = {r1, r2}
    Jobs = {j1}
    Supported = {j1}
    Calls = {c1, c2}
    Workers = {w1, w2}
    NoRequest = NoRequest
    NoJob = NoJob
    MaxCrashes = 0
    MaxDrops = 1
    MaxFaults = 1
INVARIANTS
    RedeliveryBound
    NoLostRequest
    ViewFresh
    PendingBound
PROPERTIES
    FinishedStays
    ImplementsContract
SYMMETRY Symmetry
CHECK_DEADLOCK FALSE
