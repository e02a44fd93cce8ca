\* The parts that keep state on disk or for the console.  A part may stop: its
\* work is bounded.
SPECIFICATION MCSpec
CONSTANTS
  one = one
  two = two
  MaxRuns = 3
  FlSources = {one, two}
  FlContents = {c1, c2}
  FlNone = none
  FlPrepared = 1
  FlRev = 2
  FlChanges = 2
  FlFaults = 1
  CnRequests = {one, two}
  CnSessions = 1
  CnPerSession = 1
  CnGlobal = 2
  CnIssues = 2
  CnChanges = 1
  CnRevs = 2
  SxEvents = 2
  SxSamples = 2
  SxPoints = 1
  SxResets = 1
  SxRuns = 2
  SxFailures = 1
  LgRequests = {one}
  LgQueue = 2
  LgRows = 3
  LgNewer = 2
  LgWrites = 4
  LgClears = 1
  LgCrashes = 1
  LgPending = LgPending
  UcVersions = 3
  UcManual = {3}
  UcGap = 1
  UcInterval = 1
  UcTime = 2
  UcFaults = 2
  UcRestarts = 2
  AgTicks = 2
  AgTtl = 3
  AgMax = 3
  AgCap = 2
  AgTime = 6
  AgRuns = 2
  AgGap = 1
SYMMETRY MCSymmetry
CHECK_DEADLOCK FALSE
INVARIANTS
  SnapshotKept
  SnapshotAgesKept
  FiltersKept
  LogsKept
  ConsoleSound
PROPERTIES
  StatisticsExact
  ChecksSound
