SPECIFICATION Spec
CONSTANTS
    m1 = m1
    m2 = m2
    Inbox = Inbox
    Trash = Trash
    NoFolder = NoFolder
    Msgs = {m1, m2}
    Folders = {Inbox, Trash}
    HomeOf <- AllInInbox
    Kinds = {"seen", "unseen", "forwarded", "move", "delete"}
    MaxNamed = 1
    MaxOps = 2
    kJournalMaxTries = 1
    Proto = "jmap"
    Chunked = FALSE
    Forbidden = {m2}
    Budget <- Stormy
INVARIANT TypeOK
INVARIANT NoCopyLost
INVARIANT GuardHasReply
INVARIANT HiddenIsJustified
CHECK_DEADLOCK FALSE
