SPECIFICATION FairSpec
CONSTANTS
  Threads = {t1, t2, t3}
  NoThread = NoThread
  lock_wait_time = 1
  MaxNest = 1
INVARIANTS Exclusion NoLostWakeup UpgradeAtomic FieldsExact
PROPERTIES ImplementsRWLock WriterGetsIn UpgraderGetsIn
