SPECIFICATION Spec
CONSTANTS
  o1 = o1
  o2 = o2
  o3 = o3
  ta = ta
  tb = tb
  t1 = t1
  t2 = t2
  t3 = t3
  Nil = Nil
  Threads = {t1, t2, t3}
  Tasks = {ta, tb}
  TaskOf <- TwoInA
  First = ta
  Objects = {o1, o2, o3}
  Offsets = {0, 1}
  Values = {0, 1}
  Zero = 0
  VmFaultDirtyHandling = TRUE
  Pagemap = FALSE
  MayRead <- OneReads
  MayWrite <- BothWrite
  MayFork <- ForksOnce
  MayUnmap = {ta}
  MayPageout = {0}
  MayInterrupt = {t1}
SYMMETRY ObjectSymmetry
INVARIANTS  HeldExactly
CHECK_DEADLOCK FALSE
