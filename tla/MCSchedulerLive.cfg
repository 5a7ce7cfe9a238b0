CONSTANTS
  j1 = j1
  j2 = j2
  Jobs = {j1}
  NoJob = NoJob
  DayLength = 2
  Provisioned <- MCProvisioned
  Goroutines = {g1, g2}
  Handlers = {h1}
  Configs <- MCConfigs
  InitialStores <- MCStores
  InitialHistories <- EmptyHistory
  HistoryCap = 1
  MaxClock = 2
  MaxCalls = 1
  MaxFaults = 1
SPECIFICATION FairSpec
PROPERTIES OverdueRuns ClaimReleased
CHECK_DEADLOCK FALSE
