CONSTANTS
  g1 = g1  g2 = g2
  Requests = {r1, r2}
  Contexts = {x1, x2}
  Groups = {g1, g2}
  Home = g1
  Unset = Unset
  Cost <- Prices
  Conns = 3
  LogCap = 1
  BatchSize = 2
  StartQuota = 2
  SubQuota = 2
  MaxDBErrors = 1
SPECIFICATION FairSpec
CHECK_DEADLOCK FALSE

  
PROPERTIES
  WrongGroupOnlyAfterReturn
  
  EveryLogFlushed
