SPECIFICATION FairSpec
CONSTANTS
  MaxAttempts = 1
  Streams = {"stdout", "stderr"}
  MaxOutput = 2
  MaxReceived = 3
  None = None
INVARIANTS
  RunnerInv
  LostAttemptsSwept
PROPERTIES
  FirstReasonWins
  EveryAttemptSettles
  KilledTreeDies
