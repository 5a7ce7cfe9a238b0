CONSTANTS
  ApiRuns = {a1}
  ScheduledRuns = {}
  MachineRuns = {}
  DestinationOf <- OneDestination
  Cancels = {c1}
  Stoppable = {a1}
  MaxRuns = 2
  None = None
SPECIFICATION Spec
INVARIANTS CancelHonoured
CHECK_DEADLOCK FALSE
