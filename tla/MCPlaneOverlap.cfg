CONSTANTS
    Node = {n1}
    ThisNode = n1
    Slot = {s1, s2}
    NoSlot = NoSlot
    NoTask = NoTask
    MaxTasks = 2
    MaxCancels = 0
    MaxFaults = 1
    MaxTimeouts = 1
    MaxTroubles = 2
SYMMETRY SlotSymmetry
SPECIFICATION Spec
INVARIANT OneTaskPerConnection
INVARIANT NothingStuck
INVARIANT NoLostWakeup
INVARIANT StartsCounted
CHECK_DEADLOCK FALSE
