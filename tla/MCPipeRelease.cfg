SPECIFICATION LSafe
CONSTANTS
    Null = Null
    a1 = a1  a2 = a2  b1 = b1
    Thread = {a1, b1}
    Side <- OneEach
    Capacity = 2
    ReadSizes = {1, 3}
    WriteSizes = {1, 3}
    Budgets <- BothWays
INVARIANT
    ReleaseUsesLivePipe
CHECK_DEADLOCK FALSE
