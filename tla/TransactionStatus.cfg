CONSTANTS
  Tx = {t1}
  MaxConnections = 4
SPECIFICATION FairSpec
INVARIANTS
  PendingIsWatched
  DeletedStaysDeleted
  SettledIsNotShownPending
PROPERTIES
  PendingIsSettled
  ImplementsRecord
