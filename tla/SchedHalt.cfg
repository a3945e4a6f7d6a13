SPECIFICATION Spec
CONSTANTS
    t1 = t1  t2 = t2  t3 = t3
    p1 = p1  p2 = p2
    e1 = e1  e2 = e2
    NoThread = NoThread
    IdleThread = IdleThread
    NoEvent = NoEvent
    Threads <- MCThreads
    Processors <- MCProcessors
    Events <- OneEvent
    MasterProcessor = p1
    MayWait <- WaitT1
    MayTime <- Nobody
    MaySignal <- T3StopsT1
    MaySuspend <- T2StopsT1
    MayAbort <- BothStopT1
    MayTerminate <- T3StopsT1
    MaxStops = 1
    MaySwap <- SwapT1
    MayMakeSwappable <- Nobody
INVARIANTS NoPanic SwapConsistent
CHECK_DEADLOCK FALSE
PROPERTIES StoppedWhenHalted
