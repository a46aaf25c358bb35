\* What must happen in the end when every scraping finds reviews.
SPECIFICATION FairSpec
CONSTANTS
    Matches = {m1, m2, m3}
    FactsHandlers = {f1, f2}
    ReviewHandlers = {r1}
    Yields = {TRUE}
    Numbers = {1}
    MaxOthers = 2
    MaxBuilds = 0
    MaxAsks = 0
    MaxFailures = 0
PROPERTIES
    
    FactsUsed
CHECK_DEADLOCK FALSE
