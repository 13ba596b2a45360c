SPECIFICATION FairSpec
CONSTANTS
  Instances = {i1, i2}
  c1 = c1
  Clients = {c1, c2}
  Wants <- OneConfig
  MayStall = TRUE
  None = None
PROPERTIES
  SplitBrainHeals
  RaceResolves
CHECK_DEADLOCK FALSE
