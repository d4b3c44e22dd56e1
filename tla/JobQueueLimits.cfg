SPECIFICATION FairSpec
CONSTANTS
    j1 = j1
    j2 = j2
    j3 = j3
    key1 = key1
    b1 = b1
    b2 = b2
    NoKey = NoKey
    NoJobId = NoJobId
    JobIds = {j1, j2, j3}
    Keys = {key1}
    Bodies = {b1, b2}
    MaxPending = 1
    MaxJobs = 2
    Retention = 0
    MaxClock = 0
    MaxSaveFaults = 0
    MaxUnlinkFaults = 0
    MaxRestarts = 1
INVARIANTS
    RetentionIsBounded
    KeysAreKept
    NoLostWakeup
PROPERTIES
    ImplementsLifecycle
    EveryJobSettles
CONSTRAINT IdsInOrder
CHECK_DEADLOCK FALSE
