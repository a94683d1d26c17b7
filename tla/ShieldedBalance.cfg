SPECIFICATION FairSpec

CONSTANTS
  t1 = t1
  r1 = r1
  p1 = p1
  f1 = f1
  Tx = {t1}
  Foreign = {f1}
  Receipt = {r1}
  Poll = {p1}
  Updater = {"view", "page"}
  Disturbance = {"failure", "rejection", "early"}

INVARIANTS
  BalanceIsHeld

PROPERTIES
  VisitsRestore
