CONSTANTS
    Node = {n1}
    ThisNode = n1
    Slot = {s1}
    NoSlot = NoSlot
    NoTask = NoTask
    MaxTasks = 2
    MaxCancels = 1
    MaxFaults = 1
    MaxTimeouts = 1
    MaxTroubles = 2
SPECIFICATION Spec
INVARIANT TypeOK
INVARIANT InFlightInProgress
PROPERTY ImplementsLifecycle
CHECK_DEADLOCK FALSE
