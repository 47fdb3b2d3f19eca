SPECIFICATION FairSpec
CONSTANTS
  dismiss = dismiss
  action = action
  reply = reply
  Key <- Retried
  OneShot <- NoneOnce
  None = None
  MaxAttempts = 2
  MaxEntries = 2
  MinAlarm = 1
  MaxAsks = 2
  Events <- Losses
  MaxEvents = 1
INVARIANTS InvokeRetryScheduled BoundedSends
PROPERTY NeverStranded
CHECK_DEADLOCK FALSE
