CONSTANTS
    Node = {n1}
    Column = {c1, c2}
    CopiedColumn = {c1}
    OldTasks = {1, 2}
    MaxTasks = 3
    MaxCrashes = 3
SPECIFICATION Spec
INVARIANT TypeOK
INVARIANT NothingDestroyed
INVARIANT TasksServed
INVARIANT NodesKept
INVARIANT OpenNeverFails
PROPERTY RegistrationKept
