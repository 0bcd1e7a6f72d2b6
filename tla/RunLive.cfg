SPECIFICATION LiveCliSpec
CONSTANTS
  d1 = d1
  h1 = h1
  h2 = h2
  NTasks = 2
  Workdir = {d1}
  WorkdirOf <- OneDir
  Driver <- Claude
  Users = {"cancel"}
  Faults = {"runner_crash", "server_crash"}
  MaxFaults = 1
  MaxStarts = 1
  Slot = {h1}
  MaxCancels = 1
PROPERTIES  HoldersLeave CanceledRunEnds
CHECK_DEADLOCK FALSE
