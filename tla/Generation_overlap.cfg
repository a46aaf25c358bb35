\* Scrapings, facts, generations and the calls of a user overlap, one thing may fail.
SPECIFICATION Spec
CONSTANTS
    Matches = {m1, m2}
    FactsHandlers = {f1, f2}
    ReviewHandlers = {r1}
    Yields = {TRUE, FALSE}
    Numbers = {2}
    MaxOthers = 1
    MaxBuilds = 1
    MaxAsks = 1
    MaxFailures = 1
INVARIANTS
    ReviewsGrounded
    
    OnceEach
PROPERTIES
    
    ImplementsChain
SYMMETRY Symmetry
CHECK_DEADLOCK FALSE
