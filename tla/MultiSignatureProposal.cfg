CONSTANTS
  AccountProposal = {a}
  UpdateProposal = {}
  Credential = {c1, c2}
  Threshold = 2
  MaxVisits = 4
  MaxConnections = 2
  MaxPending = 1
SPECIFICATION FairSpec
INVARIANTS
  SubmittedIsFollowed
  StoreIsTable
  SubmittedIsSigned
  StatusIsTrue
PROPERTIES
  SubmittedIsSettled
  StatusMovesOn
  SignaturesStay
CHECK_DEADLOCK FALSE
