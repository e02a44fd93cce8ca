SPECIFICATION Spec
CONSTANTS
  Callers = {c1, c2}
  Keys = {k1}
  Bypassing = {}
  NoKey = NoKey
  MaxWaiters = 2
  MaxGroups = 1
  MaxInflight = 1
  RatePerSec = 1
  Hits = {FALSE, TRUE}
  CooldownCapacity = 1
  MaxEpoch = 0
PROPERTY
  SentWorkHandedOver
