SPECIFICATION FairSpec
CONSTANTS
  r1 = r1
  r2 = r2
  Rounds = {r1, r2}
  Panel <- TwoPanels
  Adapter <- TwoAdapters
  GlobalLimit = 2
  RoundLimit <- NarrowFirst
  None = None
INVARIANTS
  DispatchInv
PROPERTIES
  EveryTaskRuns
CHECK_DEADLOCK FALSE
