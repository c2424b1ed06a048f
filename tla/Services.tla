------------------------------ MODULE Services -------------------------------
(* What works behind the window, side by side: the connections of the IMAP    *)
(* backend, the JMAP one, tokens, the poll of the other accounts, the upkeep of  *)
(* the cache and its one-time migrations.  The parts share no state here, so a   *)
(* behaviour follows one of them and leaves the variables of the others at 0.   *)
EXTENDS Naturals, Sequences, FiniteSets, TLC

CONSTANTS Exercised,                                        \* the parts that are followed
          ImapBoxes, NoMailbox, MaxQueue,                   \* ImapMailbox
          Slots, MaxSync, MaxBackoff,                       \* ImapConnections
          MaxBodies, MaxReclaims, MaxUpkeeps, MaxCounts,    \* Maintenance
          Uids, Letters, NoLetter, Ghost, Recent, Attached, Nameless,
          Caches, Numbering, MaxLaunches, MaxOpened,        \* Migrations
          Messages, WindowSize, SyncLog, SyncAsks, MaxGestures, \* JmapSync
          Accounts, Nobody, MaxSwitches, MaxFaults,         \* JmapSession
          Nodes, TreeLog, TreeAsks,                         \* JmapTree
          Polled, Folders, MaxTicks, MaxOpens,              \* AccountPoll
          MaxAsks                                           \* Tokens, of the same Accounts

VARIABLES followed,
          mailboxSession, jobs, at, queuedFolder, queuedRW, selectedFolder, selectedRW,
          refusedSelect, strayed, misfiled,
          connectionsConnected, sync, syncJobs, syncAt, syncQueued, syncFolder, pool,
          poolBroken, fallbackBusy, idle, pushFolder, pushRetry, backoff, mixed,
          writer, stop, bodies, reclaim, paused, reindex, batch, workers, cancelled,
          migration, upkeepTodo, due, after, lost, recount, upkeepLaunches,
          reclaims, fetched, counts,
          header, msgid, body, verdict, clip, learned, done, launchesTodo, seen, aborted,
          launchesLate, orphaned, untold, now, launchesLaunches, opened,
          syncLog, syncFloor, syncRows, syncToken, syncState, intent, syncRequests, owes,
          consumed, excuses, gestures,
          user, sessionSession, login, discovery, sessionConnected, sessionRequests,
          sessionWanted, stream, retry, cache, wire, sessionLate, sessionSwitches,
          faults,
          treeLog, treeFloor, boxes, treeState, treeRequests, listed, overlapped,
          busy, queue, visits, ticks, left, current, roundsGen, roundsRows, replies,
          deadlines, live, cached, numbered, roundsToken, validity, opens,
          account, wallet, reads, tokensGen, ready, tokensWanted, refreshTok, access,
          inFlight, refreshing, waiters, resolving, linkOnly, signIn, signedFor,
          timers, request, dialled, tokensSwitches, asks, crossed

IM == INSTANCE ImapMailbox WITH
       Folders <- ImapBoxes, None <- NoMailbox, session <- mailboxSession
IC == INSTANCE ImapConnections WITH
       Mailboxes <- ImapBoxes, NoBox <- NoMailbox, connected <- connectionsConnected
MT == INSTANCE Maintenance WITH
       MaxLaunches <- MaxUpkeeps, todo <- upkeepTodo, launches <- upkeepLaunches
MG == INSTANCE Migrations WITH
       None <- NoLetter, todo <- launchesTodo, late <- launchesLate, launches <- launchesLaunches
JS == INSTANCE JmapSync WITH
       MaxLog <- SyncLog, MaxAsks <- SyncAsks, log <- syncLog, floor <- syncFloor,
       rows <- syncRows, token <- syncToken, state <- syncState, requests <- syncRequests
JN == INSTANCE JmapSession WITH
       session <- sessionSession, connected <- sessionConnected, requests <- sessionRequests,
       wanted <- sessionWanted, late <- sessionLate, switches <- sessionSwitches
JT == INSTANCE JmapTree WITH
       Mailboxes <- Nodes, MaxLog <- TreeLog, MaxAsks <- TreeAsks, log <- treeLog,
       floor <- treeFloor, state <- treeState, requests <- treeRequests
AP == INSTANCE AccountPoll WITH
       gen <- roundsGen, rows <- roundsRows, token <- roundsToken
TK == INSTANCE Tokens WITH
       gen <- tokensGen, wanted <- tokensWanted, switches <- tokensSwitches

ServicesAssumption ==
  /\ IM!ImapMailboxAssumption /\ IC!ImapConnectionsAssumption /\ MT!MaintenanceAssumption
  /\ MG!MigrationsAssumption /\ JS!JmapSyncAssumption /\ JN!JmapSessionAssumption
  /\ JT!JmapTreeAssumption /\ AP!AccountPollAssumption /\ TK!TokensAssumption
ASSUME ServicesAssumption

varsIM == <<mailboxSession, jobs, at, queuedFolder, queuedRW, selectedFolder, selectedRW,
           refusedSelect, strayed, misfiled>>
varsIC == <<connectionsConnected, sync, syncJobs, syncAt, syncQueued, syncFolder, pool,
           poolBroken, fallbackBusy, idle, pushFolder, pushRetry, backoff, mixed>>
varsMT == <<writer, stop, bodies, reclaim, paused, reindex, batch, workers, cancelled,
           migration, upkeepTodo, due, after, lost, recount, upkeepLaunches,
           reclaims, fetched, counts>>
varsMG == <<header, msgid, body, verdict, clip, learned, done, launchesTodo, seen, aborted,
           launchesLate, orphaned, untold, now, launchesLaunches, opened>>
varsJS == <<syncLog, syncFloor, syncRows, syncToken, syncState, intent, syncRequests, owes,
           consumed, excuses, gestures>>
varsJN == <<user, sessionSession, login, discovery, sessionConnected, sessionRequests,
           sessionWanted, stream, retry, cache, wire, sessionLate, sessionSwitches,
           faults>>
varsJT == <<treeLog, treeFloor, boxes, treeState, treeRequests, listed, overlapped>>
varsAP == <<busy, queue, visits, ticks, left, current, roundsGen, roundsRows, replies,
           deadlines, live, cached, numbered, roundsToken, validity, opens>>
varsTK == <<account, wallet, reads, tokensGen, ready, tokensWanted, refreshTok, access,
           inFlight, refreshing, waiters, resolving, linkOnly, signIn, signedFor,
           timers, request, dialled, tokensSwitches, asks, crossed>>
vars == <<followed, varsIM, varsIC, varsMT, varsMG, varsJS, varsJN, varsJT, varsAP, varsTK>>

\* The variables of the parts that are not followed.
IdleIM == /\ mailboxSession = 0 /\ jobs = 0 /\ at = 0 /\ queuedFolder = 0 /\ queuedRW = 0
         /\ selectedFolder = 0 /\ selectedRW = 0 /\ refusedSelect = 0 /\ strayed = 0
         /\ misfiled = 0
IdleIC == /\ connectionsConnected = 0 /\ sync = 0 /\ syncJobs = 0 /\ syncAt = 0
         /\ syncQueued = 0 /\ syncFolder = 0 /\ pool = 0 /\ poolBroken = 0
         /\ fallbackBusy = 0 /\ idle = 0 /\ pushFolder = 0 /\ pushRetry = 0 /\ backoff = 0
         /\ mixed = 0
IdleMT == /\ writer = 0 /\ stop = 0 /\ bodies = 0 /\ reclaim = 0 /\ paused = 0 /\ reindex = 0
         /\ batch = 0 /\ workers = 0 /\ cancelled = 0 /\ migration = 0 /\ upkeepTodo = 0
         /\ due = 0 /\ after = 0 /\ lost = 0 /\ recount = 0 /\ upkeepLaunches = 0
         /\ reclaims = 0 /\ fetched = 0 /\ counts = 0
IdleMG == /\ header = 0 /\ msgid = 0 /\ body = 0 /\ verdict = 0 /\ clip = 0 /\ learned = 0 /\ done = 0
         /\ launchesTodo = 0 /\ seen = 0 /\ aborted = 0 /\ launchesLate = 0 /\ orphaned = 0 /\ untold = 0 /\ now = 0
         /\ launchesLaunches = 0 /\ opened = 0
IdleJS == /\ syncLog = 0 /\ syncFloor = 0 /\ syncRows = 0 /\ syncToken = 0 /\ syncState = 0
         /\ intent = 0 /\ syncRequests = 0 /\ owes = 0 /\ consumed = 0 /\ excuses = 0
         /\ gestures = 0
IdleJN == /\ user = 0 /\ sessionSession = 0 /\ login = 0 /\ discovery = 0
         /\ sessionConnected = 0 /\ sessionRequests = 0 /\ sessionWanted = 0 /\ stream = 0
         /\ retry = 0 /\ cache = 0 /\ wire = 0 /\ sessionLate = 0 /\ sessionSwitches = 0
         /\ faults = 0
IdleJT == /\ treeLog = 0 /\ treeFloor = 0 /\ boxes = 0 /\ treeState = 0 /\ treeRequests = 0
         /\ listed = 0 /\ overlapped = 0
IdleAP == /\ busy = 0 /\ queue = 0 /\ visits = 0 /\ ticks = 0 /\ left = 0 /\ current = 0
         /\ roundsGen = 0 /\ roundsRows = 0 /\ replies = 0 /\ deadlines = 0 /\ live = 0
         /\ cached = 0 /\ numbered = 0 /\ roundsToken = 0 /\ validity = 0 /\ opens = 0
IdleTK == /\ account = 0 /\ wallet = 0 /\ reads = 0 /\ tokensGen = 0 /\ ready = 0
         /\ tokensWanted = 0 /\ refreshTok = 0 /\ access = 0 /\ inFlight = 0
         /\ refreshing = 0 /\ waiters = 0 /\ resolving = 0 /\ linkOnly = 0 /\ signIn = 0
         /\ signedFor = 0 /\ timers = 0 /\ request = 0 /\ dialled = 0 /\ tokensSwitches = 0
         /\ asks = 0 /\ crossed = 0

Init ==
  /\ followed \in Exercised
  /\ \/ followed = "mailbox" /\ IM!Init /\ IdleIC /\ IdleMT /\ IdleMG /\ IdleJS /\ IdleJN /\ IdleJT /\ IdleAP /\ IdleTK
     \/ followed = "connections" /\ IC!Init /\ IdleIM /\ IdleMT /\ IdleMG /\ IdleJS /\ IdleJN /\ IdleJT /\ IdleAP /\ IdleTK
     \/ followed \in {"upkeep", "pills"} /\ MT!Init /\ IdleIM /\ IdleIC /\ IdleMG /\ IdleJS /\ IdleJN /\ IdleJT /\ IdleAP /\ IdleTK
     \/ followed = "launches" /\ MG!Init /\ IdleIM /\ IdleIC /\ IdleMT /\ IdleJS /\ IdleJN /\ IdleJT /\ IdleAP /\ IdleTK
     \/ followed = "sync" /\ JS!Init /\ IdleIM /\ IdleIC /\ IdleMT /\ IdleMG /\ IdleJN /\ IdleJT /\ IdleAP /\ IdleTK
     \/ followed = "session" /\ JN!Init /\ IdleIM /\ IdleIC /\ IdleMT /\ IdleMG /\ IdleJS /\ IdleJT /\ IdleAP /\ IdleTK
     \/ followed = "tree" /\ JT!Init /\ IdleIM /\ IdleIC /\ IdleMT /\ IdleMG /\ IdleJS /\ IdleJN /\ IdleAP /\ IdleTK
     \/ followed \in {"rounds", "passes"} /\ AP!Init /\ IdleIM /\ IdleIC /\ IdleMT /\ IdleMG /\ IdleJS /\ IdleJN /\ IdleJT /\ IdleTK
     \/ followed = "tokens" /\ TK!Init /\ IdleIM /\ IdleIC /\ IdleMT /\ IdleMG /\ IdleJS /\ IdleJN /\ IdleJT /\ IdleAP

Next ==
  \/ followed = "mailbox" /\ IM!Next /\ UNCHANGED <<followed, varsIC, varsMT, varsMG, varsJS, varsJN, varsJT, varsAP, varsTK>>
  \/ followed = "connections" /\ IC!Next /\ UNCHANGED <<followed, varsIM, varsMT, varsMG, varsJS, varsJN, varsJT, varsAP, varsTK>>
  \/ followed = "upkeep" /\ MT!Workers /\ UNCHANGED <<followed, varsIM, varsIC, varsMG, varsJS, varsJN, varsJT, varsAP, varsTK>>
  \/ followed = "pills" /\ MT!Pills /\ UNCHANGED <<followed, varsIM, varsIC, varsMG, varsJS, varsJN, varsJT, varsAP, varsTK>>
  \/ followed = "launches" /\ MG!Next /\ UNCHANGED <<followed, varsIM, varsIC, varsMT, varsJS, varsJN, varsJT, varsAP, varsTK>>
  \/ followed = "sync" /\ JS!Next /\ UNCHANGED <<followed, varsIM, varsIC, varsMT, varsMG, varsJN, varsJT, varsAP, varsTK>>
  \/ followed = "session" /\ JN!Next /\ UNCHANGED <<followed, varsIM, varsIC, varsMT, varsMG, varsJS, varsJT, varsAP, varsTK>>
  \/ followed = "tree" /\ JT!Next /\ UNCHANGED <<followed, varsIM, varsIC, varsMT, varsMG, varsJS, varsJN, varsAP, varsTK>>
  \/ followed = "rounds" /\ AP!Rounds /\ UNCHANGED <<followed, varsIM, varsIC, varsMT, varsMG, varsJS, varsJN, varsJT, varsTK>>
  \/ followed = "passes" /\ AP!Passes /\ UNCHANGED <<followed, varsIM, varsIC, varsMT, varsMG, varsJS, varsJN, varsJT, varsTK>>
  \/ followed = "tokens" /\ TK!Next /\ UNCHANGED <<followed, varsIM, varsIC, varsMT, varsMG, varsJS, varsJN, varsJT, varsAP>>

Spec == Init /\ [][Next]_vars

(* No other caller's SELECT leads a STORE or EXPUNGE to another mailbox than its  *)
(* own, though a refusal of its own SELECT may; nothing is stored under a folder  *)
(* it was not read from (ImapMailbox); no background answer is used for another   *)
(* mailbox, and a busy mark has a batch behind it (ImapConnections).            *)
ImapKeepsInStep == /\ followed = "mailbox" => IM!OnlyRefusalsStray /\ IM!MailIsOfItsFolder
                   /\ followed = "connections" => IC!NothingMixed /\ IC!BusyMeansWorking /\ IC!OneFallback
(* The cached rows are what the server has under the state token that is held    *)
(* (JmapSync), the tree is one the server had (JmapTree), and every request that  *)
(* is parked has something under way that wakes it (JmapSession).               *)
JmapKeepsInStep == /\ followed = "sync" => JS!FollowsTheServer
                   /\ followed = "tree" => JT!TreeIsWhole
                   /\ followed = "session" => JN!NothingWaitsInVain
(* The file is copied only while nobody writes it, what was held back for it     *)
(* comes back, no change of a count stays unread (Maintenance), and the one-time  *)
(* migrations end on what the letters are, wherever a quit fell and as far as    *)
(* their ids tell (Migrations).                                                  *)
UpkeepIsSound == /\ followed = "upkeep" => MT!CompactionIsQuiet /\ MT!SyncComesBack
                 /\ followed = "pills" => MT!PillsCatchUp
                 /\ followed = "launches" => MG!AdoptionGoesThrough /\ MG!HealedIsRight /\ MG!ClipsAreShown
(* One account is polled at a time and the rounds go on, no pass files under a   *)
(* numbering it did not fetch (AccountPoll).                                  *)
PollsGoOn == followed \in {"rounds", "passes"} => AP!PollsGoOn
(* Whoever waits for a token is being waited for, and a token goes to its own     *)
(* account (Tokens).                                                          *)
SignInsSettle == followed = "tokens" => TK!NobodyIsParked /\ TK!TokensStayHome
(* No failure of a connection leaves push dead (ImapConnections), and none but a   *)
(* refusal by the provider forgets a sign-in (Tokens).                         *)
FaultsAreSurvived ==
  [][/\ followed = "connections" => IC!PushIsKept
     /\ followed = "tokens" => TK!ForgottenByRefusal]_<<varsIC, varsTK>>
(* Rows are filed under the account they were asked of (JmapSession).           *)
MailIsOfItsAccount == followed = "session" => JN!MailIsOfItsAccount

=============================================================================
