SPECIFICATION FairSpec
CONSTANTS
  Attempt = {a1, a2, a3}
  NoAttempt = NoAttempt
  MaxToken = 3
  MaxRequests = 1
  MaxFaults = 1
INVARIANTS
  TypeOK
  OneSocket
  CredentialKept
  OnlineIsBacked
  OnlineIsTold
  NeverStranded
PROPERTIES
  Recovers
CHECK_DEADLOCK FALSE
