SPECIFICATION FairSpec
CONSTANTS
  a1 = a1
  a2 = a2
  None = None
  Runs = {n1}
  Rounds = {r1}
  Agents = {a1, a2}
  Unavailable = {u1}
  MaxRetries <- RetriesOfFirst
  Quorum = 2
  Outcomes = {"ok", "refusal", "timeout", "error", "unavailable", "cancelled"}
  StoreMayFail = FALSE
INVARIANTS
  LogInv
  VerdictHonest
PROPERTIES
  TerminalIsFinal
  EveryRoundCompletes
  KeepsPromise
