SPECIFICATION Spec
CONSTANTS
  Instances = {i1, i2}
  c1 = c1
  Clients = {c1, c2}
  Wants <- TwoConfigs
  MayStall = FALSE
  None = None
INVARIANTS
  OwnConfig
CHECK_DEADLOCK FALSE
