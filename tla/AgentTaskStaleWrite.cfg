SPECIFICATION Spec
CONSTANTS
    t1 = t1
    t2 = t2
    x1 = x1
    x2 = x2
    x3 = x3
    Tasks = {t1}
    Threads = {x1, x2}
    NoThread = NoThread
    PendingLimit = 1
    MaxTurns = 2
    MaxSteps = 1
    MaxSwitches = 0
    MaxTroubles = 0
    MaxUpsets = 0
INVARIANT
    ConfirmationIsConsumedOnce
CHECK_DEADLOCK FALSE
