SPECIFICATION Spec
CONSTANTS
  Source = {s1}
  None = None
  Kind = {"notification"}
  MaxLog = 2
  MaxGen = 2
  MaxFaults = 1
  MaxReq = 2
  MaxEvict = 2
  MaxRevoke = 0
  MaxAlarms = 1
CHECK_DEADLOCK FALSE
INVARIANTS TypeOK AckWithinCommitted
PROPERTIES KeepsContract CursorAdvances
