CONSTANTS
  Procs = {p1, p2, p3}
  Trades = {t1, t2}
  Objs = {o1, o2, o3}
  NoObj = NoObj
SPECIFICATION FairSpec
INVARIANTS
  LockInv
PROPERTIES
  ImplementsKeyedMutex
  EveryWaiterLocks
