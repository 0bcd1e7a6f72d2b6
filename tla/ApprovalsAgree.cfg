SPECIFICATION LiveSpec
CONSTANTS
  r1 = r1
  r2 = r2
  u1 = u1
  u2 = u2
  Request = {r1, r2}
  Decider = {u1, u2}
  MaxLost = 1
  MaxCrashes = 1
INVARIANTS TypeOK ToldOnlyIfApproved OkIsRecorded ChannelNeverFull  NoneLeftPending
PROPERTY EveryAskAnswered
CHECK_DEADLOCK FALSE
