SPECIFICATION Spec

CONSTANTS
  Custodian = {"ann", "bob", "cy"}
  NewKey = {"dan", "eve"}
  Edited = {"emergency", "gasRewards"}
  ProtocolVersions = {3, 9}
  MaxProposals = 2
  MaxChanges = 1
  MaxEdits = 4

INVARIANTS
  RefusedIsOutdated
  PayloadIsWellFormed

PROPERTIES
  ImplementsAccessRights

CHECK_DEADLOCK FALSE
