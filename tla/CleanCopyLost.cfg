SPECIFICATION Spec
CONSTANTS
  o1 = o1
  o2 = o2
  o3 = o3
  ta = ta
  tb = tb
  t1 = t1
  t2 = t2
  t3 = t3
  Nil = Nil
  Threads = {t1, t2}
  Tasks = {ta, tb}
  TaskOf <- OneEach
  First = ta
  Objects = {o1, o2, o3}
  Offsets = {0}
  Values = {0, 1}
  Zero = 0
  VmFaultDirtyHandling = FALSE
  Pagemap = FALSE
  MayRead <- NoReads
  MayWrite <- WritesOfA
  MayFork <- ForksOnce
  MayUnmap = {ta}
  MayPageout = {0}
  MayInterrupt = {}
SYMMETRY ObjectSymmetry
INVARIANTS MemoryKept
CHECK_DEADLOCK FALSE
