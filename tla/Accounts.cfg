CONSTANTS
  u1 = u1  u2 = u2  w1 = w1  w2 = w2
  Users = {u1, u2}
  Registered = {u1}
  Workers = {w1, w2}
  Codes = {c1}
  Invitations = {i1}
  MaxUses <- OneUse
  Tasks = {t1}
  Value = 1
  Reward = 1
  Price = 1
  Days = 2
  MaxOps = 3
  Nothing = Nothing
SYMMETRY Alike
SPECIFICATION Spec
CHECK_DEADLOCK FALSE
INVARIANTS
  AccountsInv
  
PROPERTIES
  UnbannedByAdminOrStaleCopy
