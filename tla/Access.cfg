CONSTANTS
  Parts = {"TF", "PK", "EC", "SI", "RN", "CO"}
  Users = {u1, u2}
  Workers = {w1, w2}
  Holders = {u1}
  Ids = {x1, x2}
  CodeCount = 1
  MaxFails = 2
  LockTime = 1
  TicketTTL = 1
  JwtTTL = 2
  SessionTTL = 1
  MaxTry = 1
  MaxSends = 1
  CodeTTL = 1
  Hour = 2
  Invites = {"i1"}
  MaxUses = 2
  StateTTL = 1
  PendingTTL = 1
  DiscoveryTTL = 1
  MinTrust = 1
  Flows = {1, 2}
  FlowTTL = 1
  Clock <- Clocks
  Starts <- Budgets
  None = None
SPECIFICATION Spec
SYMMETRY Symmetry
CHECK_DEADLOCK FALSE
INVARIANTS
  
  PasskeyInv
  
  
  RealnameInv
