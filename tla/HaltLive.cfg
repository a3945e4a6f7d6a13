SPECIFICATION FairSpec
CONSTANTS
    t1 = t1  t2 = t2  t3 = t3
    p1 = p1  p2 = p2
    e1 = e1  e2 = e2
    NoThread = NoThread
    IdleThread = IdleThread
    NoEvent = NoEvent
    Threads <- TwoThreads
    Processors <- MCProcessors
    Events <- OneEvent
    MasterProcessor = p1
    MayWait <- WaitT1
    MayTime <- Nobody
    MaySignal <- Nobody
    MaySuspend <- Nobody
    MayAbort <- AbortEachOther
    MayTerminate <- Nobody
    MaxStops = 0
    MaySwap <- Nobody
    MayMakeSwappable <- Nobody
PROPERTIES HaltEnds
CHECK_DEADLOCK FALSE
