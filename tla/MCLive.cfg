SPECIFICATION LSpec
CONSTANTS
    Null = Null
    a1 = a1  a2 = a2  b1 = b1
    Thread = {a1, a2, b1}
    Side <- MCSide
    Capacity = 2
    ReadSizes = {2}
    WriteSizes = {0, 1, 3}
    Budgets <- OneWay
INVARIANT
    PipeSound
PROPERTIES
    
    EveryWaitEnds
CHECK_DEADLOCK FALSE
