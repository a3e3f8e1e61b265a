CONSTANTS
    Thread = {a, b}
    MaxRequests <- TwoAndFour
    NOTAG = 3
    TRIES = 1
    MaxPending = 1
SPECIFICATION FairSpec
INVARIANTS
    
    SomeoneReceives
PROPERTY
    EveryRpcEnds
CHECK_DEADLOCK FALSE
