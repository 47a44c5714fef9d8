CONSTANTS
  w1 = w1  w2 = w2  w3 = w3  i1 = i1  i2 = i2
  Orders = {o1}
  Workers = {w1, w2, w3}
  Instances = {i1, i2}
  InstanceOf <- Spread3
  MaxNotices = 1
  MaxCrashes = 1
  MaxDBErrors = 1
SPECIFICATION FairSpec
INVARIANTS
  OrderInv
  

  
