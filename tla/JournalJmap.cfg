SPECIFICATION FairSpec
CONSTANTS
    m1 = m1
    m2 = m2
    Inbox = Inbox
    Trash = Trash
    NoFolder = NoFolder
    Msgs = {m1, m2}
    Folders = {Inbox, Trash}
    HomeOf <- AllInInbox
    Kinds = {"seen", "unseen", "delete"}
    MaxNamed = 1
    MaxOps = 3
    kJournalMaxTries = 2
    Proto = "jmap"
    Chunked = FALSE
    Forbidden = {}
    Budget <- RefusedJmap
INVARIANT TriesAreRefusals
PROPERTY EveryChangeSettles
CHECK_DEADLOCK FALSE
