SPECIFICATION FairSpec
CONSTANTS
    Home = Home
    Work = Work
    NoAccount = NoAccount
    Accounts = {Home, Work}
    Size = 2
    MaxRows = 4
    Protos = {"imap", "jmap"}
    Events <- Handled
    Budget = 2
INVARIANT SendingIsServed
PROPERTY BatchEnds
PROPERTY Delivers
CHECK_DEADLOCK FALSE
