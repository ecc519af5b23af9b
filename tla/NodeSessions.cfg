CONSTANTS
    Node = {n1, n2}
    Path = {n1, n2}
    All = All
    DefaultLimit = 2
    MaxLimit = 3
    Conn = {c1, c2, c3}
    NoConn = NoConn
    OwnToken = {n1}
    HasShared = FALSE
    SharedToken = SharedToken
    NoToken = NoToken
    Busy = {n1}
    MaxEvents = 6
SPECIFICATION SessionsSpec
INVARIANT NoGhostSession
INVARIANT RowsWrittenByOwner
PROPERTY OrphanEnds
CHECK_DEADLOCK FALSE
