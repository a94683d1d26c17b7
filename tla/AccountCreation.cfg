CONSTANTS
  MaxIdentity = 0
  MaxNumber = 2
  Noted <- FirstDeployed
  MaxConnections = 2
  MaxRequests = 2
  MaxFailures = 1
SPECIFICATION FairSpec
INVARIANTS
  IdentityIsWhole
  NoIdentityIsLost
  NoAccountIsLost
  NextAccountIsFree
PROPERTIES
  PendingSettles
CHECK_DEADLOCK FALSE
