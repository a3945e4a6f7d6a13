SPECIFICATION Spec
CONSTANTS
    ma = ma  mb = mb  mc = mc  md = md  mx = mx
    reaper = reaper
    tka = tka  tkb = tkb
    NoThread = NoThread
    NoTask = NoTask
    Threads <- MCThreads
    Reaper = reaper
    Tasks <- MCTasks
    Home <- MCHome
    MaySuspend <- SuspendA
    MayTerminate <- TerminateA
    MayCreate <- CreateInA
    MayKill <- Kills
    MayExit <- JustC
    MayWait <- AorB
    MaxStops = 1
    MaxHolds = 2
INVARIANTS CountsExact  SuspendedStays 
CHECK_DEADLOCK FALSE
