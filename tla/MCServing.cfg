\* One connection is enough for a drain that begins before the stop and whose
\* grace ends in it.  The listener may stop: time is bounded.
SPECIFICATION SvSpec
CONSTANTS
  SvConns = {c1}
  SvStreams = {s1}
  SvPermits = 1
  SvGrace = 2
  SvErrors = 1
  SvTime = 3
CHECK_DEADLOCK FALSE
PROPERTY
  OnlyStopDrainForces
