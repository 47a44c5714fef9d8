CONSTANTS
  g1 = g1  g2 = g2
  Subs = {s1, s2}
  Plans = {p1}
  Groups = {base, g1, g2}
  Base = base
  None = None
  PlanRows <- TwoGroups
  Expirers = {e1, e2}
  MaxEdits = 1
  MaxCrashes = 1
SPECIFICATION FairSpec
CHECK_DEADLOCK FALSE
INVARIANTS
  SubsInv
  
PROPERTIES
  EndedForGood
  OverdueExpires
