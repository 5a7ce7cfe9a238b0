CONSTANTS
  j1 = j1
  j2 = j2
  Jobs = {j1, j2}
  NoJob = NoJob
  DayLength = 3
  Provisioned <- MCProvisioned
  Goroutines = {g1, g2}
  Handlers = {h1}
  Configs <- MCConfigs
  InitialStores <- MCStores
  InitialHistories <- EmptyHistory
  HistoryCap = 2
  MaxClock = 2
  MaxCalls = 1
  MaxFaults = 0
SPECIFICATION Spec
PROPERTIES RunKeepsEdits
CHECK_DEADLOCK FALSE
