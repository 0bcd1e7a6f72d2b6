SPECIFICATION Spec
CONSTANTS
  Key = {k1, k2}
  Caller = {c1}
  File = {f1}
  Edit = {e1}
  Retain = 1
  MaxBreaks = 1
  EditsDuringCopy = FALSE
  Tool = {claude}
  CopyTool = {}
  Panel = {p1}
  MaxText = 3
  MaxDay = 2
  PerDay = 3
  MaxRequests = 2
  Request = {r1}
  Name = {n1, n2}
  AgentTarget = {"codex"}
  MaxProfiles = 2
  MaxSecret = 1
  BackupKeep = 1
  SyncChoice = {TRUE}
  MaxActivations = 1
  MaxFailures = 1
INVARIANTS TypeOK   
CHECK_DEADLOCK FALSE
