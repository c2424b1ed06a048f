SPECIFICATION Spec
CONSTANTS
    Exercised = {"session"}
    ImapBoxes = {"inbox", "work"}
    NoMailbox = "none"
    MaxQueue = 3
    Slots = {"c1"}
    MaxSync = 3
    MaxBackoff = 1
    MaxBodies = 1
    MaxReclaims = 1
    MaxUpkeeps = 1
    MaxCounts = 2
    Uids = {1, 2}
    Letters = {"a", "b", "c"}
    NoLetter = "none"
    Ghost = "ghost"
    Recent = {"a"}
    Attached = {"b"}
    Nameless = {"c"}
    Caches <- Upgraded
    Numbering <- ByUid
    MaxLaunches = 2
    MaxOpened = 1
    Messages = {1, 2}
    WindowSize = 1
    SyncLog = 3
    SyncAsks = 1
    MaxGestures = 3
    Accounts = {"A", "B"}
    Nobody = "nobody"
    MaxSwitches = 2
    MaxFaults = 2
    Nodes = {1, 2}
    TreeLog = 4
    TreeAsks = 2
    Polled <- InTurn
    Folders <- Walked
    MaxTicks = 2
    MaxOpens = 3
    MaxAsks = 3
INVARIANT MailIsOfItsAccount
CHECK_DEADLOCK FALSE
