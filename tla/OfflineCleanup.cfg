SPECIFICATION RuntimeSpec
CONSTANTS
    j1 = j1
    j2 = j2
    key1 = key1
    b1 = b1
    NoKey = NoKey
    NoJobId = NoJobId
    JobIds = {j1, j2}
    Keys = {}
    Bodies = {b1}
    MaxPending = 2
    MaxJobs = 1
    Retention = 0
    MaxClock = 0
    MaxSaveFaults = 1
    MaxUnlinkFaults = 0
    MaxRestarts = 1
    c1 = c1
    c2 = c2
    Callers = {c1, c2}
    RetryAttempts = 2
    FailureThreshold = 2
    Cooldown = 1
    Fallback = TRUE
    MaxRequests = 1
    MaxSwitches = 1
    MaxEscapes = 1
    MaxTicks = 2
    Prompts <- CleanPreviewedLogs
    Found <- CleanPreviewedFound
    Memories = {"m1"}
    Files = {"f1", "f2"}
INVARIANTS
    PreviewedCleanupIsOffered
CHECK_DEADLOCK FALSE
