CONSTANTS
  Tree <- MCTree
  NameOrder <- MCNameOrder
  Hash <- MCHash
  Patterns <- MCPatterns
  SystemFolders = {}
  RootOnlyFolders <- MCRootOnly
  SystemFiles = {}
  AtVolumeRoot = TRUE
  VirtualFiles <- MCVirtual
  MaxChanges = 2
  None = None
  Names <- MCNames
  Entries <- MCEntries
  Selections <- MCSelections
  MaxRestoreFaults = 2
  Calls = {c1, c2}
  Total = 5
  ChunkSize = 2
  DynamicEnds <- MCDynamicEnds
  Lens = {0, 1, 3, 6}
  Life = 2
  CacheChunks = 2
  Nil = Nil
  MaxReads = 3
  MaxFetchFaults = 1
SPECIFICATION MCSpec
INVARIANTS ReadersAgree GoodbyeFinds VerifiedIsWhole TargetsWhole SuccessIsThere StoppedSearchLeavesNoTrace ReadsImage
CHECK_DEADLOCK FALSE
