SPECIFICATION MCFairSpec
CONSTANTS
  Browsers = {1, 2}
  Workspaces = {1, 2}
  Home = 1
  Passphrases = {"right", "wrong"}
  NoPass = "none"
  MaxEdits = 2
  MaxFaults = 2
INVARIANTS TypeOK  PullsGoOn
PROPERTIES  Converges
CHECK_DEADLOCK FALSE
