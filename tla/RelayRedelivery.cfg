SPECIFICATION FairSpec
CONSTANTS
  Source = {s1}
  None = None
  Kind = {"notification", "result"}
  MaxLog = 2
  MaxGen = 3
  MaxFaults = 2
  MaxReq = 0
  MaxEvict = 0
  MaxRevoke = 0
  MaxAlarms = 0
CHECK_DEADLOCK FALSE
INVARIANT FramesFit
PROPERTY EventuallyAcknowledged
