SPECIFICATION Spec
CONSTANTS
    Exercised = {"list", "spam", "folders", "score", "bodies", "search", "columns", "accounts", "reading"}
    Uids = {1, 2, 3}
    Date <- SameDate
    Hits = {1, 2}
    Colors = {0, 1}
    Learned = {3}
    MaxListed = 2
    MaxRows = 3
    Letters = {1, 2}
    From <- OneSender
    Text <- TwoTexts
    MaxMoves = 3
    Boxes <- Nested
    Leaves = {"z"}
    Parents <- TopOnly
    MaxGestures = 2
    MaxRefusals = 1
    AuthResults <- SomeVerdicts
    Trust = {{"spf", "dkim", "dmarc", "arc", "compauth", "auth"}}
    Heads <- SomeHeads
    Starts <- Extremes
    Tunings <- SomeTunings
    Threshold = 50
    LinkGroupCap = 40
    MaxChanges = 1
    Messages = {1, 2, 3}
    Payload <- Shared
    NoPayload = "none"
    TooBig = {3}
    MaxFetches = 2
    Places = {"a", "b"}
    Queries = {"q", "r"}
    Known <- CachedHits
    Local <- IndexedHits
    Remote <- ServerHits
    NoQuery = "none"
    MaxSearches = 2
    Orders = {"newest", "oldest", "from", "subject"}
    Rank <- Ranks
    Paged <- FourRows
    PageSize = 1
    Servers = {"s"}
    NoServer = "none"
    Dialogs <- Edits
    Names = {"x"}
    MaxIds = 3
    MaxSaves = 2
    MaxDrags = 1
    MaxQuits = 1
    Read = {1, 2}
    Kind <- Kinds
    InCache = {1}
    Stale = {1}
    Externalized = {}
    Altered = {}
    Retries = 1
    MaxClicks = 2
    MaxFaults = 2
INVARIANT ListsAreTrue
INVARIANT TheUserDecides
INVARIANT ChangesReachTheirFolder
INVARIANT PayloadsAreCounted
INVARIANT AccountsAgree
INVARIANT ReadingIsHonest
CHECK_DEADLOCK FALSE
