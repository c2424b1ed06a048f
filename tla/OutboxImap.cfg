SPECIFICATION Spec
CONSTANTS
    letter = letter
    postcard = postcard
    Home = Home
    Work = Work
    NoAccount = NoAccount
    Mails = {letter, postcard}
    Signed = {}
    Accounts = {Home, Work}
    Proto = "imap"
    Oauth = TRUE
    Holds = {TRUE, FALSE}
    DiskFull = TRUE
    Budget <- StormyImap
SYMMETRY Same
INVARIANT TypeOK
INVARIANT SentAsAsked
INVARIANT NothingForgotten
PROPERTY Delivers
CHECK_DEADLOCK FALSE
