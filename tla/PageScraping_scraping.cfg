\* Two items wanted of up to three pages with one or two each; a browser may be lost.
SPECIFICATION FairSpec
CONSTANTS
    Wanted = 2
    MaxPages = 3
    MaxItems = 2
    MaxLost = 1
INVARIANTS
    FoundInOrder
    ShortWasCut
    
PROPERTIES
    EveryRequestEnds
CHECK_DEADLOCK FALSE
