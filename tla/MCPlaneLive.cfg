CONSTANTS
    Node = {n1}
    ThisNode = n1
    Slot = {s1, s2}
    NoSlot = NoSlot
    NoTask = NoTask
    MaxTasks = 1
    MaxCancels = 1
    MaxFaults = 1
    MaxTimeouts = 1
    MaxTroubles = 2
SPECIFICATION FairSpec
INVARIANT CancelOnItsWay
PROPERTY EveryTaskEnds
PROPERTY CancelStopsProcess
CHECK_DEADLOCK FALSE
