SPECIFICATION Spec
CONSTANTS
  d1 = d1
  h1 = h1
  h2 = h2
  NTasks = 2
  Workdir = {d1}
  WorkdirOf <- OneDir
  Driver <- InTurn
  Users = {"cancel", "preempt"}
  Faults = {"stall", "reply_lost", "runner_crash"}
  MaxFaults = 1
  MaxStarts = 1
  Slot = {h1}
  MaxCancels = 1
INVARIANTS TypeOK RowsBegun OneHolder OneCli 
CHECK_DEADLOCK FALSE
