\* Two requests and one refresh slot over two keys, one invalidation.  A group
\* of two holders and a registry of one group are full with two requests.
SPECIFICATION Spec
CONSTANTS
  Callers = {c1, c2}
  Keys = {k1, k2}
  Bypassing = {k2}
  NoKey = NoKey
  MaxWaiters = 2
  MaxGroups = 1
  MaxInflight = 1
  RatePerSec = 1
  Hits = {FALSE, TRUE}
  CooldownCapacity = 1
  MaxEpoch = 1
SYMMETRY Symmetry
INVARIANTS
  HoldsExact
  OneFlight
  SlotsMatchTasks
PROPERTIES
  SentWorkAccounted
