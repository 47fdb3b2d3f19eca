SPECIFICATION Spec
CONSTANTS
  dismiss = dismiss
  action = action
  reply = reply
  Key <- Retried
  OneShot <- NoneOnce
  None = None
  MaxAttempts = 3
  MaxEntries = 2
  MinAlarm = 1
  MaxAsks = 1
  Events <- Notices
  MaxEvents = 1
INVARIANT AckRetryScheduled
CHECK_DEADLOCK FALSE
