\* One fill against two invalidations over two shards: fills meet each other
\* only at a shard's lock, and the proofs cover any number of both.  Two requests
\* and one refresh slot over one key.
SPECIFICATION MCSpec
CONSTANTS
  k1 = k1
  k2 = k2
  EfKeys <- MCKeys
  N = 2
  ShardOf <- MCShardOf
  Selectors <- MCSelectors
  Fills = {f1}
  Clears = {c1, c2}
  Free = Free
  MaxClears = 2
  Callers = {c1, c2}
  Keys = {k1}
  Bypassing = {}
  NoKey = NoKey
  MaxWaiters = 2
  MaxGroups = 1
  MaxInflight = 1
  RatePerSec = 1
  Hits = {FALSE, TRUE}
  CooldownCapacity = 1
  MaxEpoch = 0
INVARIANTS
  Fenced
PROPERTIES
  InvalidationReturns
  WorkEnds
