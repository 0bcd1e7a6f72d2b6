SPECIFICATION Spec
CONSTANTS
  NServers = 2
  NDaemons = 2
  BuildOf <- Upgrade
  MaxCrashes = 1
  Sender = sender
  Callback = {c1}
  Keep = 2
  HeadLimit = 1
  MaxLoopSteps = 2
  KeepLast = 4
  TurnLength = 2
  MaxTurns = 4
  MaxClears = 1
  Field = {"workdir", "cwd", "dir"}
  Value = {1, 2}
  AliasOf <- Aliases
  LaterResponse <- LaterResponses
  ResultSize = {1, 4}
  EarlierTurns = {1}
  MaxSteps = 4
  MaxPieces = 5
  MaxChunk = 2
  Threshold = 10
  KeepTail = 4
  MaxIterations = 4
  Reader = {r1}
  Owner = {1}
  Sources <- TwoSources
  Query <- Everything
  Limit = 1
  Fetch = 2
  Days = 1
  RowsKept = 1
  FirstId = 9
  MaxRowsWritten = 3
  MaxTime = 3
  PlanLoop = {l1}
  Confirmer = {u1}
  MaxTotal = 2
  MaxPerCall = 2
  GradedTotal = 1
  MaxPlanRuns = 3
  MaxRevisions = 2
  MaxLost = 1
  Driver = "claude-code"
  Client = {u1, u2}
  MaxRuns = 2
  MaxDecisions = 2
  Opener = {o1, o2}
  SessionId = {s1}
  LegacyRuns = 2
  LegacyRows = 2
  MaxRows = 2
  MaxEvents = 1
INVARIANTS DaemonIsMine SummaryExact PromptComplete  AuditComplete GrantedOnly
PROPERTIES SessionsKept
CHECK_DEADLOCK FALSE
