SPECIFICATION TimelineSpec
CONSTANTS
  a1 = a1
  None = None
  n1 = n1
  Runs = {n1, n2}
  Rounds = {r1, r2}
  Agents = {a1}
  Unavailable = {u1}
  MaxRetries <- RetriesOfFirst
  Watched = n1
  Quorum = 1
  Outcomes = {"ok", "error", "cancelled"}
  StoreMayFail = TRUE
ACTION_CONSTRAINT CatchesUp
INVARIANTS
  MemoryInv
  NoFalseMet
  RoundIndexes
  TimelineIsSnapshot
