SPECIFICATION FairSpec
CONSTANTS
  maxIdentityNumber = 1
  maxCredentialsOnIdentity = 2
  identitySpacesBetweenWarning = 2
  Disturbance = {"refusal", "failure"}
  MaxSearches = 2
  MaxDeployed = 2
  MaxPending = 1
  MaxOld = 1
  MaxMissed = 2
INVARIANT TablesAgree
PROPERTIES
  DoneIsRecovered
  RecoveryComesToAnEnd
