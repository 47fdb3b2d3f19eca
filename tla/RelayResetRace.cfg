SPECIFICATION Spec
CONSTANTS
  Source = {s1}
  None = None
  Kind = {"notification"}
  MaxLog = 1
  MaxGen = 3
  MaxFaults = 1
  MaxReq = 2
  MaxEvict = 1
  MaxRevoke = 0
  MaxAlarms = 0
CHECK_DEADLOCK FALSE
INVARIANT FramesFit
