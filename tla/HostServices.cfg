SPECIFICATION HostSideSpec
CONSTANTS
  p1 = p1
  p2 = p2
  p3 = p3
  Paths = {p1, p2, p3}
  PathOrder <- MCPathOrder
  Cleanups = {"n1", "n2"}
  MinKeep = 1
  RetentionDays = 0
  CandidateLimit = 2
  MaxDays = 1
  MaxWrites = 4
  MaxDeaths = 1
  Backups = {1, 2}
  Bytes <- MCBytes
  KeepCount = 1
  MaximumBytes = 1
  MaxLive = 2
  MaxTroubles = 1
  Operators = {"o1", "o2"}
  Pids = {1, 2}
  Modes = {"readonly", "saving"}
  MaxStarts = 2
  MaxReboots = 1
INVARIANTS
  CleanupsAreSafe
  RecoveryIsSafe
  HostIsSound
CHECK_DEADLOCK FALSE
