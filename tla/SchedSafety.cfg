SPECIFICATION Spec
CONSTANTS
    t1 = t1  t2 = t2  t3 = t3
    p1 = p1  p2 = p2
    e1 = e1  e2 = e2
    NoThread = NoThread
    IdleThread = IdleThread
    NoEvent = NoEvent
    Threads <- MCThreads
    Processors <- MCProcessors
    Events <- MCEvents
    MasterProcessor = p1
    MayWait <- WaitMixed
    MayTime <- SwapT1
    MaySignal <- T3StopsT1
    MaySuspend <- SuspendOthersOrSelf
    MayAbort <- Nobody
    MayTerminate <- Nobody
    MaxStops = 1
    MaySwap <- SwapT1T3
    MayMakeSwappable <- T2PinsT3
INVARIANTS OnePlace OneQueue NoLostWakeup   
CHECK_DEADLOCK FALSE
