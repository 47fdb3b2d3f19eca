SPECIFICATION MCSpec
CONSTANTS
  MaxDevices = 2
  MaxJobs = 2
  MaxRosters = 4
  PageSize = 2
  MaxFaults = 1
INVARIANTS
  TypeOK
  NeverCorrupt
  WholeOrResetting
  JournalInStep
  RemovedIsLeaving
PROPERTIES
  FollowsOneChain
  NeverGivesUp
