SPECIFICATION Spec
CONSTANTS
    j1 = j1
    j2 = j2
    j3 = j3
    key1 = key1
    b1 = b1
    b2 = b2
    NoKey = NoKey
    NoJobId = NoJobId
    JobIds = {j1, j2}
    Keys = {key1}
    Bodies = {b1}
    MaxPending = 2
    MaxJobs = 2
    Retention = 0
    MaxClock = 0
    MaxSaveFaults = 1
    MaxUnlinkFaults = 0
    MaxRestarts = 0
SYMMETRY JobSymmetry
INVARIANTS
    WorkerServes
CHECK_DEADLOCK FALSE
