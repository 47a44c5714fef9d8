CONSTANTS
  c1 = c1  c2 = c2  w1 = w1  w2 = w2
  Channels = {c1, c2}
  Workers = {w1, w2}
  Priorities = {0, 1}
  DefaultPriority = 1
  Weight <- OneWeighs
  AutoBan = {c1}
  Healthy = {c1}
  Databases <- OneActive
  Selections = {{c1}, {c2}, {c1, c2}}
  MaxOps = 3
SPECIFICATION Spec
INVARIANTS
  ChannelsInv
PROPERTIES
  ReenabledOnlyFromOldCopy
  BanEnds
