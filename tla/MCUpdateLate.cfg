SPECIFICATION Spec
CONSTANTS
  MaxOps = 1
  MaxProg = 1
  MaxFaults = 1
  MaxInstalls = 0
  MaxWork = 1
  MaxRev = 1
INVARIANT ClosedIsNotUnderWay
CHECK_DEADLOCK FALSE
