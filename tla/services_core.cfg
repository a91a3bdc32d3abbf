CONSTANTS
  Clients = {c1, c2}
  MaxTokens = 3
  MaxFamilies = 2
  MaxStarts = 4
  MaxCrashes = 1
  NoToken = NoToken
  NoFamily = NoFamily
  a1 = a1
  a2 = a2
  a3 = a3
  p1 = p1
  p2 = p2
  Answers = {a1, a2, a3}
  Processes = {p1, p2}
  ProcessOf <- MCProcessOf
  UserOf <- MCUserOf
  ConversationOf <- MCConversationOf
  NoConversation = "none"
  GlobalLimit = 2
  UserLimit = 2
  Lease = 2
  MaxOutages = 1
  u1 = u1
  u2 = u2
  u3 = u3
  w1 = w1
  w2 = w2
  Users = {u1, u2, u3}
  Workspaces = {w1, w2}
  Founded = {w1}
  Founder <- MCFounder
  OrgOf <- MCOrgOf
  Granted = {"admin", "viewer"}
  AdminRequests = {q1, q2}
  RetentionDays = 0
  GraceDays = 0
  MaxRows = 2
  MaxClock = 2
  Nobody = Nobody
  Turns = {t1, t2}
  HistoryMax = 2
  SummaryTrigger = 4
  SummaryKeep = 2
  MaxMessages = 5
  MaxFaults = 1
  b1 = b1
  b2 = b2
  r1 = r1
  Askers = {b1, b2}
  Readers = {r1}
  ReaderOf <- MCReaderOf
  CacheSize = 2
  MaxEpoch = 2
  MaxCacheFaults = 1
  x1 = x1
  x2 = x2
  x3 = x3
  x4 = x4
  x5 = x5
  Pieces = {x1, x2, x3, x4, x5}
  Parent <- MCParent
  Text <- MCText
  Long = {"A"}
  Matches <- MCMatches
  RouteLimits <- MCRouteLimits
  K = 60
  Unit = 495593280
  TopK = 5
  Budget = 16
  Cost <- MCCost
  CutCost = 4
  MinScore = 5947119
  Generated = {"cited", "prose", "bullet", "wronghead", "label", "marks", "span", "fence", "longfence", "markfence"}
  MaxLines = 3
  LlmCalls = {l1, l2}
  Threshold = 3
  Cooldown = 2
  Retries = 1
  MaxLlmCalls = 4
  ChunkSize = 4
  MaxSegments = 2
  Shapes <- MCShapes
  AgentSteps = 3
  IndexedChunks = {k1, k2, k3}
  PerSearch = 2
  PerAnswer = 2
  Notes = {"long", "name", "word", "ask"}
  NoteLength <- MCNoteLength
  NoteHits <- MCNoteHits
  NoteStable <- MCNoteStable
  QuestionNote = "ask"
  MaxStored = 3
  MemoryItems = 2
  MemoryChars = 60
SPECIFICATION ServicesSpec
INVARIANTS
  ServicesTypeOK
  OneTimeTokens RevocationIsFinal
  LimitsHold
  OwnerStays ChangesByMembers PurgedRowsArchived
  ContextIsStored ContextComplete
  StaleAnswersExplained SuspiciousWasReviewed
  FusionRespectsAgreement RiskyLosesRank ContextShape
   RepairKeepsSupported
  FailsOnlyWhenAllFail
  ChunksCoverText NumbersNameSources MemoriesFit
PROPERTIES CapacityComesBack
CHECK_DEADLOCK FALSE
