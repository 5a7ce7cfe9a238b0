CONSTANTS
  r1 = r1
  r2 = r2
  r3 = r3
  p1 = p1
  p2 = p2
  d1 = d1
  d2 = d2
  None = None
  Runs = {r1, r2, r3}
  ProcessOf <- MCProcessOf
  Paths <- MCPaths
  NeedFiles <- MCNeedFiles
  MaxMinor = 2
  MaxFaults = 2
  ShadowRuns = {r1, r2}
  Volumes <- MCVolumes
  Nobody = Nobody
  Cleaners = {c1}
  MaxBusy = 1
  MaxShadowFaults = 2
  x = x
  y = y
  z = z
  s0 = s0
  s1 = s1
  s2 = s2
  Disks = {x, y, z}
  Slots = {s0, s1, s2}
  Anonymous = {y}
  Selection <- MCSelection
  MaxMoves = 3
SPECIFICATION MCSpec
INVARIANTS ReadsOwnSnapshot SuccessLeavesNothing LeasedShadowKept OrphansRemoved SameDiskUntilRepinned
CHECK_DEADLOCK FALSE
