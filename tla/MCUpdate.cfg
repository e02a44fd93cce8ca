SPECIFICATION Spec
CONSTANTS
  MaxOps = 2
  MaxProg = 1
  MaxFaults = 1
  MaxInstalls = 1
  MaxWork = 2
  MaxRev = 2
INVARIANTS
  ConfigurationPinned
PROPERTIES
  InstalledKept
  OutcomesReliable
  CommittedEnds
  OutcomeTakenUp
  ImplementsPromise
CHECK_DEADLOCK FALSE
