SPECIFICATION WorkspaceSpec
CONSTANTS
  Key = {k1}
  Caller = {c1}
  File = {f1}
  Edit = {e1}
  Retain = 1
  MaxBreaks = 0
  EditsDuringCopy = FALSE
INVARIANT RunsAfterDiscard
CHECK_DEADLOCK FALSE
