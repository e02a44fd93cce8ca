\* Limits and bookkeeping: a restore of two records, then live traffic.
SPECIFICATION Spec
CONSTANTS
  k1 = k1
  k2 = k2
  fpA = fpA
  fpB = fpB
  NoFingerprint = NoFingerprint
  Width = 2
  MinNetworks = 2
  RevokeCooldown = 1
  SharedMaxAge = 2
  SpanBits = 1
  RecordCapacity = 1
  Keys = {k1, k2}
  Subs <- PlainSubs
  Answers <- PlainAnswers
  Filters <- PlainFilters
  Readers = {r1}
  MaxEntries <- PlainEntries
  MaxBytes <- PlainBytes
  MaxVariants = 2
  StaleRetention = 1
  FailureLifetime = 1
  FailureCharge = 1
  SharingEnabled = FALSE
  Origins = {FALSE, TRUE}
  Records = 2
  Skew = 0
  MaxTime = 1
  MaxClock = 5
SYMMETRY PlainSymmetry
INVARIANTS
  BudgetsKept
  RecencyAgrees
  RefreshSettledOnce
