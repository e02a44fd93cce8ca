\* The parts a query meets.  Every bound below is reached.  A part may stop: its
\* work is bounded.
SPECIFICATION MCSpec
CONSTANTS
  one = one
  two = two
  k1 = k1
  fpA = fpA
  fpB = fpB
  NoFingerprint = NoFingerprint
  Width = 2
  MinNetworks = 2
  RevokeCooldown = 2
  SharedMaxAge = 2
  SpanBits = 1
  RecordCapacity = 1
  Classes = {k1}
  Networks <- MCNetworks
  Seen <- MCSeen
  MaxEvents = 4
  MaxTime = 2
  LimSources = {one, two, watched}
  LimWatched = watched
  LimToken = 2
  LimRate = 1
  LimBurst = 1
  LimTable = 2
  LimScan = 1
  LimInflight = 1
  LimConnections = 1
  LimSkew = 1
  LimTime = 4
  AuthSources = {one, two, three}
  AuthWindow = 3
  AuthAttempts = 2
  AuthTable = 2
  AuthScan = 1
  AuthSkew = 1
  AuthTime = 4
  RtListeners = {one, two}
  RtRevisions = 3
  RtGenerations = 3
  RtCrashes = 1
  CeRoles = {one, two}
  CeIdentities = {i1}
  CeMaxImports = 2
  CeVersions = 2
  CeSignals = 2
  UsAddresses = 3
  UsQueries = 1
  UhAttempts = {one, two}
  UhAddresses = {x, y}
  UhConnections = 2
  UhCooldowns = 2
  UwEndpoints = 3
  UwMaxWeight = 4
  UwRounds = 2
  UwQueries = {one, two}
  UwParallel = 3
  UwExtra = 3
  UwTrace = 2
  UwRecords = 1
  DpRequests = {one, two, three}
  DpSlots = 2
  DpAddresses = {1, 2}
  DpConnections = 3
  RcResolutions = {one, two}
  RcInflight = 2
  RcRate = 1
  RcCost = 2
  RcTime = 4
  RcStarts = 2
  RrRecords = 2
  PoKeys <- MCKeys
  PoNames <- MCNames
  PoLinks <- MCLinks
  PoQuestion <- MCQuestion
  PoLocalSlots = 1
  PoSlots = 3
  PoMethods = {one, two}
  PoRules = 3
  SvConns = {one, two}
  SvStreams = {s1}
  SvPermits = 2
  SvGrace = 2
  SvErrors = 1
  SvTime = 3
SYMMETRY MCSymmetry
CHECK_DEADLOCK FALSE
INVARIANTS
  LimitsKept
  AuthBudgetKept
  CertificatesSound
  NeverResent
  DotPoolSound
  RecursiveReplySound
  PolicySound
PROPERTIES
  SharingSound
  RuntimeSound
  CooldownSound
  UpstreamChoiceSound
  RecursionSound
  StopSound
