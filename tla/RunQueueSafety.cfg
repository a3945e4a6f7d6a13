SPECIFICATION Spec
CONSTANTS
    t1 = t1  t2 = t2  t3 = t3
    c1 = c1  c2 = c2
    Free = Free
    Threads <- MCThreads
    Cpus <- MCCpus
    Scanners <- MCScanners
    NRQS = 2
    MaxPri = 2
SYMMETRY Symmetry
INVARIANTS QueueExact HintSound AtItsPriority SetrunAsserts
CHECK_DEADLOCK FALSE
