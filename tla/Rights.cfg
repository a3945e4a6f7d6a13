SPECIFICATION Spec
CONSTANTS
  ta = ta
  tb = tb
  tc = tc
  pa = pa
  pb = pb
  Nil = Nil
  Soft = Soft
  Tasks = {ta, tb, tc}
  Ports = {pa, pb}
  m1 = m1
  m2 = m2
  Slots = {m1, m2}
  MayAllocate <- Creates
  MaySend <- Sends
  MayReceive = {ta, tb}
  MayDeallocate <- Deallocates
  MayTerminate = {tb}
  MayBackup <- PbBacksPa
  MayInsert = {tc}
SYMMETRY SlotSymmetry
INVARIANTS RightsExact RefsExact NothingAfterDeath
CHECK_DEADLOCK FALSE
