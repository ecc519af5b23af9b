CONSTANTS
    Node = {n1, n2}
    Command = {c1}
    NoNode = NoNode
    MaxTasks = 3
    MaxRetries = 1
SYMMETRY NodeSymmetry
SPECIFICATION Spec
INVARIANT TypeOK
INVARIANT RowsConsistent
INVARIANT IssuedMatchesTable
PROPERTY FreshAttempts
PROPERTY RequeueTakesAll
PROPERTY ImplementsLifecycle
