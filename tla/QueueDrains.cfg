SPECIFICATION Spec
CONSTANTS
  c1 = c1
  c2 = c2
  w1 = w1
  w2 = w2
  p1 = p1
  p2 = p2
  ticker = ticker
  kick = kick
  u1 = u1
  NItems = 2
  Conv = {c1}
  DirOf <- Single
  ProjectOf <- Single
  Loop = ticker
  Kicked = {kick}
  User = {u1}
  MaxRuns = 2
  MaxFaults = 1
INVARIANTS DispatchingIsHeld MarkIsTrue
CHECK_DEADLOCK FALSE
