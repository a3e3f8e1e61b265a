SPECIFICATION Spec
SYMMETRY MCSymmetry
CONSTANTS
    t1 = t1  t2 = t2  t3 = t3  w1 = w1  w2 = w2
    Thread <- MCThread
    Main = t1
    Idle = Idle
    NoThread = NoThread
    WaitQ = {w1}
    NoWaitQ = NoWaitQ
    Slice = 2
    MaxTick = 1
    IrqHandlers <- MCIrq1
INVARIANTS
    EveryThreadInItsPlace
    IdleOnlyWhenNothingIsReady
PROPERTIES
    ImplementsWaitQueues
