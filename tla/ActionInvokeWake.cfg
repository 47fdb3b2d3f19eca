SPECIFICATION Spec
CONSTANTS
  dismiss = dismiss
  action = action
  reply = reply
  Key <- TwoRetried
  OneShot <- NoneOnce
  None = None
  MaxAttempts = 3
  MaxEntries = 2
  MinAlarm = 1
  MaxAsks = 2
  Events <- Disturbances
  MaxEvents = 0
INVARIANT InvokeRetryScheduled
CHECK_DEADLOCK FALSE
