SPECIFICATION Spec
CONSTANTS
    t1 = t1
    t2 = t2
    x1 = x1
    x2 = x2
    x3 = x3
    Tasks = {t1, t2}
    Threads = {x1, x2}
    NoThread = NoThread
    PendingLimit = 1
    MaxTurns = 2
    MaxSteps = 2
    MaxSwitches = 1
    MaxTroubles = 1
    MaxUpsets = 1
SYMMETRY ThreadSymmetry
CONSTRAINT Scope
INVARIANTS
    OneDriver
    ToolsAreKept
    SessionIsKept
PROPERTIES
    EndIsFinal
    NoStepRepeats
CHECK_DEADLOCK FALSE
