CONSTANTS
    Node = {n1}
    ThisNode = n1
    Slot = {r1, own}
    Own = own
    NoAnswer = NoAnswer
    NotOk = NotOk
    All = All
    DefaultLimit = 2
    MaxLimit = 3
    InitialTasks = 1
    TasksShown = 2
    FeedShown = 1
    EventsShown = 1
    MaxSubmits = 2
    MaxSteps = 1
    MaxFailures = 1
SPECIFICATION FairSpec
INVARIANT TypeOK
INVARIANT FeedFollowsLog
PROPERTY FailureStaysVisible
PROPERTY AcceptanceStands
PROPERTY SubmitSettles
PROPERTY PageCatchesUp
PROPERTY AcceptedBubbleGoes
