SPECIFICATION ComponentsSpec
CONSTANTS
  None = None
  Conns = {k1, k2}
  Requests = {r1}
  Streams = {s1}
  Budget <- Renewal
  Machines = {m1, m2}
  Pollers = {}
  MaxTickets = 2
  MaxTokens = 2
  MaxKeys = 2
  Renewable = {1}
  MaxMishaps = 1
  Browsers = {b1, b2}
  Calls = {q1, q2}
  MaxSessions = 2
  Uses = {"disable", "regenerate"}
  MaxCodeSets = 2
  MaxTokensOf = 1
  MaxTrouble = 0
  Viewers = {v1, v2}
  Attempts = {a1, a2}
  OperatorOf <- EachTheirOwn
  MaxTotal = 1
  MaxPerUser = 1
  MaxUpsets = 2
  Output = 5
  MaxBatchLines = 2
  QueueDepth = 1
  MaxShown = 2
  MaxPaused = 1
  Deciders = {d1, d2, d3}
  MaxMoves = 3
  Writers = {w1, w2}
  MaxStackRows = 2
  MaxRevisions = 3
  ComposeFiles = {f1, f2}
  Starter = f1
  Variables = {"k"}
  Asked = "k"
  Accepts <- SomeAccepted
  MaxValue = 2
  MaxRows = 2
  MaxChanges = 2
  MaxSaves = 2
  Editors = {e1}
  Created <- SomeCreated
  Commands <- SomeCommands
  EnvNames = {"k"}
  MaxEnvValue = 1
  MaxEnvRows = 1
  MaxEdits = 2
  MaxConfigs = 2
  Pages = {}
  Lifecycles = {o1}
  StackReads = {t1}
  MaxTurns = 2
  MaxIds = 2
  MaxDrops = 1
  Cores <- SomeCores
  Identifiers <- SomeIdentifiers
  MaxIdentifiers = 2
  Tagged <- SomeTagged
  Settings = {y1, y2}
  SuccessTtl = 3
  FailureTtl = 2
  MaxClock = 7
  Words = {"a", "b"}
  OtherNames = {"b"}
  MaxJobs = 2
  MaxFailures = 2
INVARIANTS
  ComponentsTypeOK
  OnOwnConnection
  NothingWaitsOnClosed
  IdentitiesAreSound
  ElevationRotates
  TrailInOrder
  LinesReachTheReader
  RevisionsAreKept
  StackFormIsTrue
  EditIsAsReviewed
  
  OffersAreKept
  VersionsAreRanked
  NeverNeither
PROPERTIES
  TicketsAreOneTime
  TokensAreOneTime
  IdentityIsNotReplaced
  RecoveryCodesAreOneTime
  ArchivingIsDecided
  ChecksAreSparing
  OneFailureIsUndone
CHECK_DEADLOCK FALSE
