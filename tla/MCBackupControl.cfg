CONSTANTS
  ApiRuns = {a1}
  ScheduledRuns = {s1, s2}
  MachineRuns = {s2}
  DestinationOf <- OneDestination
  Cancels = {c1}
  Stoppable = {a1, s1}
  MaxRuns = 2
  None = None
SPECIFICATION FairSpec
INVARIANTS SlotsEmpty ScheduledStatusTrue StatusTrueWhenAlone StopsOnlyTheAskedWhenAlone
PROPERTIES EveryRunCloses
CHECK_DEADLOCK FALSE
