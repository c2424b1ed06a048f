SPECIFICATION Spec
CONSTANTS
    m1 = m1
    m2 = m2
    Inbox = Inbox
    Trash = Trash
    NoFolder = NoFolder
    Msgs = {m1, m2}
    Folders = {Inbox, Trash}
    HomeOf <- AllInInbox
    Kinds = {"seen", "unseen", "delete"}
    MaxNamed = 1
    MaxOps = 3
    kJournalMaxTries = 3
    Proto = "imap"
    Chunked = FALSE
    Forbidden = {}
    Budget <- RefusedImap
SYMMETRY Swaps
INVARIANT OptimisticView
INVARIANT StrictlyOneAtATime
PROPERTY DependentsGoTogether
CHECK_DEADLOCK FALSE
