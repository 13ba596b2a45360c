SPECIFICATION Spec
CONSTANTS
  Instances = {i1, i2, i3}
  c1 = c1
  Clients = {c1, c2, c3}
  Wants <- TwoConfigs
  MayStall = FALSE
  None = None
INVARIANTS
  LifecycleInv
  StopReported
  ServingIsDiscoverable
CHECK_DEADLOCK FALSE
