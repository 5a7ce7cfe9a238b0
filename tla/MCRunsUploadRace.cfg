CONSTANTS
  c1 = c1
  c2 = c2
  c3 = c3
  Chunks = {c1, c2, c3}
  Content <- MCContent
  Previous = {c1}
  BatchSize = 2
  MaxAttempts = 2
  RetryWait = 2
  ReapDelay = 1
  MaxFaults = 4
  None = None
  Unreported = Unreported
  Digests = {c1, c2, c3}
  Device <- MCDevice
  Sizes <- MCSizes
  PreviousIndex = {c3}
  Nobody = Nobody
  Unset = Unset
  N = 3
  Parallels <- MCParallels
  Workers = {w1, w2}
  MaxDiskFaults = 2
  Parts = 2
  MaxJobs = 3
  MaxErrors = 2
  MaxCallFaults = 2
  MaxStops = 1
  Foreign = Foreign
SPECIFICATION MCSpec
INVARIANT Confirmed
CHECK_DEADLOCK FALSE
