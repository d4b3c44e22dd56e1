SPECIFICATION ApiSpec
CONSTANTS
  c1 = c1
  c2 = c2
  a1 = a1
  a2 = a2
  u1 = u1
  u2 = u2
  u3 = u3
  Tools <- MCTools
  Rules <- MCRules
  Schemas <- MCSchemas
  External = {"weather"}
  Depends <- MCDepends
  MaxRouted = 2
  MaxWall = 1
  MaxModelCalls = 2
  MaxToolCalls = 3
  MaxExternalCalls = 1
  MaxTokens = 4
  InputRate = 1
  OutputRate = 2
  MaxCost = 4
  MaxSteps = 3
  MaxCalls = 2
  Skills <- MCSkills
  Scores <- MCScores
  Usages <- MCUsages
  Requests <- MCRequests
  Clients = {c1, c2}
  Accounts = {a1, a2}
  Ttl = 1
  Window = 1
  Lockout = 1
  MaxFailures = 2
  MaxSessions = 1
  MaxKeys = 1
  MaxLogins = 2
  MaxTime = 2
  Reviewers = {"r1", "r2"}
  Events <- MCEvents
  Kind <- MCKind
  PageLimits = {1, 2}
  Openings = {0, 2}
  MaxAnswers = 2
  Names = {"lamp", "Lamp", "desk"}
  Fold <- MCFold
  Contents = {"on"}
  Users = {u1, u2, u3}
  Store <- MCStore
  MaxRecords = 1
  MaxMade = 2
  MaxRevision = 2
  MaxMemoryFaults = 1
  McpServers <- MCMcpServers
  Wanted <- MCWanted
  AllowedOpen = {"weather"}
  MaxSpawns = 2
  MaxRequests = 9
  MaxMcpFaults = 1
  Labels <- MCLabels
  GroupLimit = 2
  BucketLimit = 3
  Questions <- MCQuestions
  References = {2, 3}
  RecentLimit = 1
  MinimumEvents = 2
  MinimumPercent = 25
  StableSpread = 50
  Present = 4
  MaxRows = 3
  MaxChanges = 1
SYMMETRY ServiceSymmetry
INVARIANTS
  CallsAreGoverned
  LoginsAreSound
  EventsAreExact
  MemoryIsKept
  McpIsSound
CHECK_DEADLOCK FALSE
