CONSTANTS
    Node = {n1, n2}
    Path = {n1, n2}
    All = All
    DefaultLimit = 2
    MaxLimit = 3
    Conn = {c1}
    NoConn = NoConn
    OwnToken = {n1}
    HasShared = TRUE
    SharedToken = SharedToken
    NoToken = NoToken
    Busy = {n1}
    MaxEvents = 3
    Slot = {r1, r2}
    RuntimeSlot = {r1}
    NoAnswer = NoAnswer
    NotOk = NotOk
    TasksRead = 2
    EventsRead = 2
    ResultsShown = 1
    FilteredRead = 2
    Kinds = {"session_opened"}
    MaxTasks = 2
    MaxTroubles = 1
SPECIFICATION FairSpec
INVARIANT TypeOK
INVARIANT LabelFitsList
INVARIANT RuntimeAgrees
PROPERTY PageCatchesUp
CHECK_DEADLOCK FALSE
