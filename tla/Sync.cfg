SPECIFICATION FairSpec
CONSTANTS
    INBOX = INBOX
    Archive = Archive
    NoFolder = NoFolder
    Folders <- Order
    Sizes = {1, 2}
    MaxSize = 4
    FirstPage = 1
    TopUp = 1
    Window = 1
    BodyBatch = 2
    QueueMax = 1
    MaxAttempts = 1
    MaxOut = 3
    Events <- Handled
    Budget = 1
INVARIANT ListIsOfOpenFolder
INVARIANT CursorIsHonest
INVARIANT OpenIsHonoured
PROPERTY PassLatches
PROPERTY EventuallyMirrored
CHECK_DEADLOCK FALSE
