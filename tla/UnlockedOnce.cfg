SPECIFICATION SafetySpec
CONSTANTS
  Driver = "codex"
  Client = {u1}
  MaxRuns = 2
  MaxDecisions = 0
INVARIANT UnlockIsOnce
CHECK_DEADLOCK FALSE
