SPECIFICATION FairSpec
CONSTANTS
    letter = letter
    postcard = postcard
    Home = Home
    Work = Work
    NoAccount = NoAccount
    Mails = {letter, postcard}
    Signed = {letter}
    Accounts = {Home, Work}
    Proto = "jmap"
    Oauth = FALSE
    Holds = {TRUE, FALSE}
    DiskFull = TRUE
    Budget <- StormyJmap
INVARIANT InFlightAnswered
INVARIANT SendingIsWatched
PROPERTY EventuallySettled
CHECK_DEADLOCK FALSE
