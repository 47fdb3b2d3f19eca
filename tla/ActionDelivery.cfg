SPECIFICATION Spec
CONSTANTS
  dismiss = dismiss
  action = action
  reply = reply
  Key <- RetriedAndOnce
  OneShot <- Once
  None = None
  MaxAttempts = 2
  MaxEntries = 2
  MinAlarm = 1
  MaxAsks = 1
  Events <- Disturbances
  MaxEvents = 2
INVARIANTS TypeOK OneShotSentOnce BoundedSends
PROPERTIES KeepsContract
CHECK_DEADLOCK FALSE
