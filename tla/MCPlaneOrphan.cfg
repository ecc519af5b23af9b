CONSTANTS
    Node = {n1}
    ThisNode = n1
    Slot = {s1}
    NoSlot = NoSlot
    NoTask = NoTask
    MaxTasks = 1
    MaxCancels = 0
    MaxFaults = 1
    MaxTimeouts = 0
    MaxTroubles = 1
SPECIFICATION Spec
INVARIANT OneProcessPerClient
CHECK_DEADLOCK FALSE
