SPECIFICATION Spec
CONSTANTS
  d1 = d1
  h1 = h1
  h2 = h2
  NTasks = 3
  Workdir = {d1}
  WorkdirOf <- OneDir
  Driver <- Exec
  Users = {"replay"}
  Faults = {"setup", "reply_lost", "runner_crash", "server_crash", "stall"}
  MaxFaults = 1
  MaxStarts = 1
  Slot = {}
  MaxCancels = 0
INVARIANTS WorkdirMutex SpawnedOnce
PROPERTIES LockSpec FinishedStays
CHECK_DEADLOCK FALSE
