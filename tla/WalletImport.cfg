SPECIFICATION Spec
CONSTANTS
  Identity <- MCIdentity
  Account <- MCAccounts
  HeldOrders <- MCHeldOrders
  FileOrders <- MCFileOrders
  MaxKnown = 2
  MaxImports = 2
INVARIANTS
  ReferencesAreTrue
  ImportedIsWhole
  FailsOnlyAtOdds
CHECK_DEADLOCK FALSE
