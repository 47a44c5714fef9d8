CONSTANTS
  Parts = {"PR"}
  Workers = {w1, w2}
  None = None
  Clock <- Clocks
  Starts <- Budgets
  SanctionKinds <- OnToken
  Strengths = {1}
  CacheTTL = 1
  LimitChain <- OneLimit
  LimitOf <- Limited
  Tokens = 1
  Objects = {1, 2, 3}
  Window = 1
  Dimensions <- TwoOptions
  Names = {"a"}
  Loops = {1, 2, 3}
  Hours = {1, 2}
  Conversations <- Talks
  Models = {"named", "other"}
  MaxEvents = 4
  Policies <- Guards
  BufferSize = 3
  MaxUnits = 4
  CallBodies <- Asked
  Routings <- Selections
  Secrets = {k1}
  Offers <- Remembered
  CallGroups = {"own", "other"}
  HyKeys = {x1}
  MaxEntries = 1
  Payloads = {x1}
  Threshold = 2
  Cooldown = 1
  SlidingWindow = 1
  RiskMemory = 2
  MaxFloor = 3
  ProbeLen = 2
  ProbeDistinct = 2
  KeepHashes = 3
SPECIFICATION ServerSpec
SYMMETRY Symmetry
CHECK_DEADLOCK FALSE
INVARIANTS
  GroupRatioFromTable
