SPECIFICATION LiveSpec
CONSTANTS
  c1 = c1
  c2 = c2
  w1 = w1
  w2 = w2
  p1 = p1
  p2 = p2
  ticker = ticker
  kick = kick
  u1 = u1
  NItems = 2
  Conv = {c1, c2}
  DirOf <- OneDir
  ProjectOf <- OneDir
  Loop = ticker
  Kicked = {}
  User = {u1}
  MaxRuns = 1
  MaxFaults = 0
PROPERTIES PromptServed InOrder
CHECK_DEADLOCK FALSE
