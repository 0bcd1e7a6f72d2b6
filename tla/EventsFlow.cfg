SPECIFICATION Spec
CONSTANTS
  Publisher = {p1}
  Direct = direct
  Bridge = bridge
  MaxVersion = 1
  MaxExtra = 2
  BufferSize = 1
  MaxBreaks = 1
  Schedule = {j1}
  MaxFires = 2
  MaxAsks = 1
  MaxErrors = 1
  
PROPERTIES  EndIsTold SchedulesEnd CodexRunEnds
CHECK_DEADLOCK FALSE
