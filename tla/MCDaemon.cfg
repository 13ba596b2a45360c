SPECIFICATION FairSpec
CONSTANTS
  Runs = {n1}
  Rounds = {1, 2, 3}
  StartKeys = {k1}
  RoundKeys = {k2}
  Clients = {c1}
  Ttl = 1
  MaxWait = 1
  Waits = {0, 2}
  MaxVersion = 5
  StoreMayFail = TRUE
  None = None
INVARIANTS
  DaemonInv
  OneAnswerPerKey
  StopLosesNothing
PROPERTIES
  NotParkedEarly
  VersionTellsChange
  EveryPollReturns
  IdleRunsParked
ACTION_CONSTRAINTS
  DrawnInOrder
