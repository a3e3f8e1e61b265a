SPECIFICATION FairSpec
CONSTANTS
    t1 = t1  t2 = t2  t3 = t3  w1 = w1  w2 = w2
    Thread <- MCTwo
    Main = t1
    Idle = Idle
    NoThread = NoThread
    WaitQ <- MCWaitQ
    NoWaitQ = NoWaitQ
    Slice = 2
    MaxTick = 2
    IrqHandlers <- MCIrqHandlers
PROPERTIES
    TickWakesEveryoneDue
    WokenOrTimedOut
    EveryoneGoesOn
