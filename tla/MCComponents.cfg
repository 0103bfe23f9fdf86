SPECIFICATION ComponentsSpec
CONSTANTS
  Readers = {r1, r2}
  Vas = {f}
  FunctionVas = {f}
  DecompileOptions <- MCDecompileOptions
  DECOMPILE_CACHE_CAP = 1
  Permits = 2
  MaxRevision = 1
  MaxRequests = 2
  NoReader = NoReader
  Images = {i1}
  ACTIVITY_CAPACITY = 2
  MaxEvents = 3
  MaxSessions = 2
  Clients = {c1, c2}
  PeFiles = {"exe"}
  Dumps = {"dump"}
  Modules = {"ab", "b"}
  NameIn <- MCNameIn
  MaxTargets = 3
  RecentPaths = {q1, q2, q3}
  RECENT_PROJECT_CAPACITY = 2
  MaxOpens = 4
  WorkspaceIds = {w}
  Paths = {p}
  Contents = {x, y}
  Agents = {a1, a2}
  MaxProjects = 2
  MaxMembers = 1
  MaxReplaced = 1
  Builders = {b1, b2}
  ImageContents = {x1, x2}
  NoImage = NoImage
  MaxImageChanges = 1
  MaxBuilds = 2
  MaxFailures = 1
  ResultBodies <- MCResultBodies
  ReadSizes = {100, 2048, 9000}
  Escapes = {40}
  MaxArtifacts = 3
  MaxReads = 3
  Askers = {k1, k2}
  TargetIds = {t1}
  NoTarget = NoTarget
  MAX_INVESTIGATIONS = 1
  MaxStarted = 2
  MaxTicketRevision = 1
  MaxSteps = 3
  Handles = {h1}
  DeepCallers = {d1, d2}
  MaxDeepCalls = 3
  Flows <- MCFlows
  NoBlock = NoBlock
  MemoryLists <- MCMemoryLists
  TOP = 7
  MAX_FRAMES_HARD = 3
  MAX_SCAN_SLOTS = 3
  PtrSize = 2
INVARIANTS
  ComponentsTypeOK
  BoundsKept
  AnswersFresh
  FeedBoundedAndOrdered
  ShownIsDurable
  
  TwinsOverlap
  OpenedAsRecorded
  
  
  PagesTile
  
  DeepBuiltOnce
  
  DominatorsExact
  
  ReturnsReachingWrite
  ImageFaithful
  FramesClimb
PROPERTIES
  HistoryShown
  
  DeepSettles
CHECK_DEADLOCK FALSE
