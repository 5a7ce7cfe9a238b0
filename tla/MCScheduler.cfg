CONSTANTS
  j1 = j1
  j2 = j2
  Jobs = {j1, j2}
  NoJob = NoJob
  DayLength = 3
  Provisioned <- MCProvisioned
  Goroutines = {g1, g2}
  Handlers = {h1}
  Configs <- MCConfigs
  InitialStores <- MCStores
  InitialHistories <- MCHistories
  HistoryCap = 2
  MaxClock = 2
  MaxCalls = 1
  MaxFaults = 1
SYMMETRY Symmetry
SPECIFICATION Spec
INVARIANTS ClaimsExclusive HistoryHonest NextRunKnown NoLossWithoutOverlap
PROPERTIES StartKeepsRunRecord
CHECK_DEADLOCK FALSE
