SPECIFICATION Spec
CONSTANTS
  Tick = 4
  Resolution = 1000
  Inexact = {400}
  EpochsPerYear = 20
  Word32 = 4096
  Word64 = 8192
  KnownIds = {3}
  SlowestLottery = 20
  WideMantissa = {}
  Current <- MCCurrent
  Drafts <- MCDrafts
  Texts <- MCTexts
  MaxEdits = 2
  MaxBacks = 1
INVARIANTS
  SharesAddUp
  ProposedIsShown
PROPERTIES
  EffectsSettle
CHECK_DEADLOCK FALSE
