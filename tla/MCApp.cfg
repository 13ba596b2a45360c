SPECIFICATION AppSpec
CONSTANTS
  r1 = r1
  r2 = r2
  Runs <- SessionRuns
  Payloads <- SessionEvents
  MaxEvents = 4
  MaxDrops = 1
  None = None
INVARIANTS
  SessionInv
PROPERTIES
  ReadsTheLog
  PressesObeyed
  CancelReachesRun
  FinishedRunCommitted
CHECK_DEADLOCK FALSE
