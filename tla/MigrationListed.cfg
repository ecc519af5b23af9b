CONSTANTS
    Node = {n1}
    Column = {c1}
    CopiedColumn = {c1}
    OldTasks = {1}
    MaxTasks = 2
    MaxCrashes = 1
SPECIFICATION Spec
INVARIANT MigratedTasksListed
