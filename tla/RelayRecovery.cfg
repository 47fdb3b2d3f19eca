SPECIFICATION Spec
CONSTANTS
  Source = {s1, s2}
  None = None
  Kind = {"notification", "result"}
  MaxLog = 1
  MaxGen = 2
  MaxFaults = 1
  MaxReq = 2
  MaxEvict = 1
  MaxRevoke = 1
  MaxAlarms = 0
CHECK_DEADLOCK FALSE
SYMMETRY SourceSymmetry
INVARIANT NoSilentLoss
