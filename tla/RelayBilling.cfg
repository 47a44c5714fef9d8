CONSTANTS
  r1 = r1  r2 = r2  t1 = t1
  NotCached = NotCached
  Requests = {r1, r2}
  Tokens = {t1}
  TokenOf <- SharedKey
  Unlimited = {}
  Estimates = {2}
  Costs = {1, 3}
  Channels = 2
  StartQuota = 3
  StartRemain <- Remains1
  SubQuota = 3
  MaxDeposits = 1
  MaxDBErrors = 1
  MaxCrashes = 1
SPECIFICATION FairSpec
INVARIANTS
  RelayInv
  OverdrawnOnlyByUnderestimate
  WalletConserved
PROPERTIES
  ImplementsHoldLedger
  EveryHoldEnds
