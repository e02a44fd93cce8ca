\* Nested client subnets, with the sharing table and late clock readings.
SPECIFICATION Spec
CONSTANTS
  k1 = k1
  k2 = k2
  fpA = fpA
  fpB = fpB
  NoFingerprint = NoFingerprint
  Width = 2
  MinNetworks = 2
  RevokeCooldown = 1
  SharedMaxAge = 2
  SpanBits = 1
  RecordCapacity = 1
  Keys = {k1}
  Subs <- NestedSubs
  Answers <- NestedAnswers
  Filters <- NestedFilters
  Readers = {}
  MaxEntries <- NestedLimits
  MaxBytes <- NestedLimits
  MaxVariants = 3
  StaleRetention = 1
  FailureLifetime = 1
  FailureCharge = 1
  SharingEnabled = TRUE
  Origins = {FALSE}
  Records = 0
  Skew = 1
  MaxTime = 2
  MaxClock = 4
INVARIANTS
  OneVerdict
  NothingObsolete
  LearnedIsVouched
PROPERTY
  NegativesEvictNoPositive
