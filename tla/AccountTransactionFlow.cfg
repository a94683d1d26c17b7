SPECIFICATION Spec
CONSTANTS
  a = a
  b = b
  ExchangeRate <- MCExchangeRate
  MinStake = 500
  CommissionRange <- MCCommissionRange
  FallsShort = {35}
  ReadsDifferent = {35}
  CommissionInputs = {35, 10000}
  UrlInputs = {2048}
  RestakeInputs = {"no"}
  NoChange <- MCNoChange
  Passive = "passive"
  Accounts = {a, b}
  InitialChains <- MCInitialChains
  InitialPools <- MCInitialPools
  Nobody = Nobody
  Threshold = 2
  Spent = 300
  MaxTrail = 7
  MaxKeys = 2
  MaxChanges = 1
  MaxFlows = 1
INVARIANTS
  ConfigurationIsTheForm
  RefusedIsStale
  SubmittedKeysAreSaved
