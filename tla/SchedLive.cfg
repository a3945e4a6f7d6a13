SPECIFICATION FairSpec
CONSTANTS
    t1 = t1  t2 = t2  t3 = t3
    p1 = p1  p2 = p2
    e1 = e1  e2 = e2
    NoThread = NoThread
    IdleThread = IdleThread
    NoEvent = NoEvent
    Threads <- TwoThreads
    Processors <- MCProcessors
    Events <- OneEvent
    MasterProcessor = p1
    MayWait <- WaitForNothing
    MayTime <- SwapT1
    MaySignal <- Nobody
    MaySuspend <- T2StopsT1
    MayAbort <- Nobody
    MayTerminate <- Nobody
    MaxStops = 1
    MaySwap <- SwapT1
    MayMakeSwappable <- T2StopsT1
PROPERTIES NoIdlingWithWork SuspenderReturns RunnableComesIn
CHECK_DEADLOCK FALSE
