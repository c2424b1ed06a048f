-------------------------------- MODULE Desk ---------------------------------
(* What the user works with, side by side: the message list and its searches  *)
(* and columns, spam, folders, the cache behind them, accounts and the reading   *)
(* pane.  The parts share no state here, so a behaviour follows one of them and  *)
(* leaves the variables of the others at 0.                                   *)
EXTENDS Naturals, Sequences, FiniteSets, TLC

CONSTANTS Exercised,                                          \* the parts that are followed
          Uids, Date, Hits, Colors, Learned, MaxListed, MaxRows, \* MessageList
          Letters, From, Text, MaxMoves,                      \* SpamFiling
          Boxes, Leaves, Parents, MaxGestures, MaxRefusals,   \* FolderOps
          AuthResults, Trust, Heads, Starts, Tunings,
          Threshold, LinkGroupCap, MaxChanges,                \* SpamScore
          Messages, Payload, NoPayload, TooBig, MaxFetches,   \* BodyCache
          Places, Queries, Known, Local, Remote, NoQuery, MaxSearches, \* Search
          Orders, Rank, Paged, PageSize,                      \* SortedPages, of the same places
          Servers, NoServer, Dialogs, Names,
          MaxIds, MaxSaves, MaxDrags, MaxQuits,               \* Accounts
          Read, Kind, InCache, Stale, Externalized, Altered,
          Retries, MaxClicks, MaxFaults                       \* ReadingPane

VARIABLES followed,
          all, listRows, byUid, filtered, wanted, sort, moved,
          look, authed, spamSrv, cache, spamList, spamOpen, spamQueue, watch, learned, allow,
          written, spamSaid, wronged, moves,
          foldersSrv, foldersRows, stored, tree, foldersOpen, shown, foldersQueue,
          foldersJobs, tangled, missed, gestures, refusals,
          facts, scoreSaid, trusted, head, signed, tuned, changes,
          bodiesRows, body, part, refs, files, skipped, asked, bodiesQueue, batch, stripped,
          chunk, walked, migrated, purging, bodiesFetches, lists,
          searchFolder, searchList, filter, active, pattern, query, seq, searching, localDone,
          serverPending, found, workers, posted, searchInFlight, ask, searchQueued,
          searchFetches, dropped, searchOnline, protocol,
          columnsFolder, order, columnsList, window, anchor, exhausted, columnsInFlight,
          worker, pending, searchShown, crossed,
          accountsRows, current, accountsOpen, session, accountsQueued, import, kept, listed,
          ids, saves, drags, quits, rekeyed, undone,
          ctx, opened, detach, bodies, requests, serial, readingOnline, checks, retries,
          heals, healed, verdict, readingJobs, clicks, faults, strayed

ML == INSTANCE MessageList WITH rows <- listRows
SF == INSTANCE SpamFiling WITH
       srv <- spamSrv, list <- spamList, open <- spamOpen, queue <- spamQueue, said <- spamSaid
FO == INSTANCE FolderOps WITH
       srv <- foldersSrv, rows <- foldersRows, open <- foldersOpen,
       queue <- foldersQueue, jobs <- foldersJobs
SC == INSTANCE SpamScore WITH Verdicts <- AuthResults, said <- scoreSaid
BC == INSTANCE BodyCache WITH
       rows <- bodiesRows, queue <- bodiesQueue, fetches <- bodiesFetches
SR == INSTANCE Search WITH
       Folders <- Places, Cached <- Known, None <- NoQuery, folder <- searchFolder, list <- searchList,
       inFlight <- searchInFlight, queued <- searchQueued, fetches <- searchFetches,
       online <- searchOnline
SP == INSTANCE SortedPages WITH
       Folders <- Places, Cached <- Paged, folder <- columnsFolder, list <- columnsList,
       inFlight <- columnsInFlight
AC == INSTANCE Accounts WITH
       None <- NoServer, rows <- accountsRows, open <- accountsOpen, queued <- accountsQueued
RP == INSTANCE ReadingPane WITH
       Messages <- Read, Cached <- InCache, online <- readingOnline, jobs <- readingJobs

DeskAssumption ==
  /\ ML!MessageListAssumption /\ SF!SpamFilingAssumption /\ FO!FolderOpsAssumption
  /\ SC!SpamScoreAssumption /\ BC!BodyCacheAssumption /\ SR!SearchAssumption
  /\ SP!SortedPagesAssumption /\ AC!AccountsAssumption /\ RP!ReadingPaneAssumption
ASSUME DeskAssumption

varsML == <<all, listRows, byUid, filtered, wanted, sort, moved>>
varsSF == <<look, authed, spamSrv, cache, spamList, spamOpen, spamQueue, watch, learned, allow,
           written, spamSaid, wronged, moves>>
varsFO == <<foldersSrv, foldersRows, stored, tree, foldersOpen, shown, foldersQueue,
           foldersJobs, tangled, missed, gestures, refusals>>
varsSC == <<facts, scoreSaid, trusted, head, signed, tuned, changes>>
varsBC == <<bodiesRows, body, part, refs, files, skipped, asked, bodiesQueue, batch, stripped,
           chunk, walked, migrated, purging, bodiesFetches, lists>>
varsSR == <<searchFolder, searchList, filter, active, pattern, query, seq, searching, localDone,
           serverPending, found, workers, posted, searchInFlight, ask, searchQueued,
           searchFetches, dropped, searchOnline, protocol>>
varsSP == <<columnsFolder, order, columnsList, window, anchor, exhausted, columnsInFlight,
           worker, pending, searchShown, crossed>>
varsAC == <<accountsRows, current, accountsOpen, session, accountsQueued, import, kept, listed,
           ids, saves, drags, quits, rekeyed, undone>>
varsRP == <<ctx, opened, detach, bodies, requests, serial, readingOnline, checks, retries,
           heals, healed, verdict, readingJobs, clicks, faults, strayed>>
vars == <<followed, varsML, varsSF, varsFO, varsSC, varsBC, varsSR, varsSP, varsAC, varsRP>>

\* The variables of the parts that are not followed.
IdleML == /\ all = 0 /\ listRows = 0 /\ byUid = 0 /\ filtered = 0 /\ wanted = 0 /\ sort = 0
         /\ moved = 0
IdleSF == /\ look = 0 /\ authed = 0 /\ spamSrv = 0 /\ cache = 0 /\ spamList = 0
         /\ spamOpen = 0 /\ spamQueue = 0 /\ watch = 0 /\ learned = 0 /\ allow = 0
         /\ written = 0 /\ spamSaid = 0 /\ wronged = 0 /\ moves = 0
IdleFO == /\ foldersSrv = 0 /\ foldersRows = 0 /\ stored = 0 /\ tree = 0 /\ foldersOpen = 0
         /\ shown = 0 /\ foldersQueue = 0 /\ foldersJobs = 0 /\ tangled = 0
         /\ missed = 0 /\ gestures = 0 /\ refusals = 0
IdleSC == /\ facts = 0 /\ scoreSaid = 0 /\ trusted = 0 /\ head = 0 /\ signed = 0
          /\ tuned = 0 /\ changes = 0
IdleBC == /\ bodiesRows = 0 /\ body = 0 /\ part = 0 /\ refs = 0 /\ files = 0 /\ skipped = 0
         /\ asked = 0 /\ bodiesQueue = 0 /\ batch = 0 /\ stripped = 0 /\ chunk = 0
         /\ walked = 0 /\ migrated = 0 /\ purging = 0 /\ bodiesFetches = 0 /\ lists = 0
IdleSR == /\ searchFolder = 0 /\ searchList = 0 /\ filter = 0 /\ active = 0 /\ pattern = 0
         /\ query = 0 /\ seq = 0 /\ searching = 0 /\ localDone = 0 /\ serverPending = 0
         /\ found = 0 /\ workers = 0 /\ posted = 0 /\ searchInFlight = 0 /\ ask = 0
         /\ searchQueued = 0 /\ searchFetches = 0 /\ dropped = 0 /\ searchOnline = 0
         /\ protocol = 0
IdleSP == /\ columnsFolder = 0 /\ order = 0 /\ columnsList = 0 /\ window = 0 /\ anchor = 0
         /\ exhausted = 0 /\ columnsInFlight = 0 /\ worker = 0 /\ pending = 0
         /\ searchShown = 0 /\ crossed = 0
IdleAC == /\ accountsRows = 0 /\ current = 0 /\ accountsOpen = 0 /\ session = 0
         /\ accountsQueued = 0 /\ import = 0 /\ kept = 0 /\ listed = 0 /\ ids = 0
         /\ saves = 0 /\ drags = 0 /\ quits = 0 /\ rekeyed = 0 /\ undone = 0
IdleRP == /\ ctx = 0 /\ opened = 0 /\ detach = 0 /\ bodies = 0 /\ requests = 0 /\ serial = 0
         /\ readingOnline = 0 /\ checks = 0 /\ retries = 0 /\ heals = 0 /\ healed = 0
         /\ verdict = 0 /\ readingJobs = 0 /\ clicks = 0 /\ faults = 0 /\ strayed = 0

Init ==
  /\ followed \in Exercised
  /\ \/ followed = "list" /\ ML!Init /\ IdleSF /\ IdleFO /\ IdleSC /\ IdleBC /\ IdleSR /\ IdleSP /\ IdleAC /\ IdleRP
     \/ followed = "spam" /\ SF!Init /\ IdleML /\ IdleFO /\ IdleSC /\ IdleBC /\ IdleSR /\ IdleSP /\ IdleAC /\ IdleRP
     \/ followed = "folders" /\ FO!Init /\ IdleML /\ IdleSF /\ IdleSC /\ IdleBC /\ IdleSR /\ IdleSP /\ IdleAC /\ IdleRP
     \/ followed = "score" /\ SC!Init /\ IdleML /\ IdleSF /\ IdleFO /\ IdleBC /\ IdleSR /\ IdleSP /\ IdleAC /\ IdleRP
     \/ followed = "bodies" /\ BC!Init /\ IdleML /\ IdleSF /\ IdleFO /\ IdleSC /\ IdleSR /\ IdleSP /\ IdleAC /\ IdleRP
     \/ followed = "search" /\ SR!Init /\ IdleML /\ IdleSF /\ IdleFO /\ IdleSC /\ IdleBC /\ IdleSP /\ IdleAC /\ IdleRP
     \/ followed = "columns" /\ SP!Init /\ IdleML /\ IdleSF /\ IdleFO /\ IdleSC /\ IdleBC /\ IdleSR /\ IdleAC /\ IdleRP
     \/ followed = "accounts" /\ AC!Init /\ IdleML /\ IdleSF /\ IdleFO /\ IdleSC /\ IdleBC /\ IdleSR /\ IdleSP /\ IdleRP
     \/ followed = "reading" /\ RP!Init /\ IdleML /\ IdleSF /\ IdleFO /\ IdleSC /\ IdleBC /\ IdleSR /\ IdleSP /\ IdleAC

Next ==
  \/ followed = "list" /\ ML!Next /\ UNCHANGED <<followed, varsSF, varsFO, varsSC, varsBC, varsSR, varsSP, varsAC, varsRP>>
  \/ followed = "spam" /\ SF!Next /\ UNCHANGED <<followed, varsML, varsFO, varsSC, varsBC, varsSR, varsSP, varsAC, varsRP>>
  \/ followed = "folders" /\ FO!Next /\ UNCHANGED <<followed, varsML, varsSF, varsSC, varsBC, varsSR, varsSP, varsAC, varsRP>>
  \/ followed = "score" /\ SC!Next /\ UNCHANGED <<followed, varsML, varsSF, varsFO, varsBC, varsSR, varsSP, varsAC, varsRP>>
  \/ followed = "bodies" /\ BC!Next /\ UNCHANGED <<followed, varsML, varsSF, varsFO, varsSC, varsSR, varsSP, varsAC, varsRP>>
  \/ followed = "search" /\ SR!Next /\ UNCHANGED <<followed, varsML, varsSF, varsFO, varsSC, varsBC, varsSP, varsAC, varsRP>>
  \/ followed = "columns" /\ SP!Next /\ UNCHANGED <<followed, varsML, varsSF, varsFO, varsSC, varsBC, varsSR, varsAC, varsRP>>
  \/ followed = "accounts" /\ AC!Next /\ UNCHANGED <<followed, varsML, varsSF, varsFO, varsSC, varsBC, varsSR, varsSP, varsRP>>
  \/ followed = "reading" /\ RP!Next /\ UNCHANGED <<followed, varsML, varsSF, varsFO, varsSC, varsBC, varsSR, varsSP, varsAC>>

Spec == Init /\ [][Next]_vars

(* The list shows what it holds, each message once (MessageList); a page of a *)
(* column's order is whole, and scrolling it never gets stuck (SortedPages); a *)
(* search ends, on the words asked for last (Search).                         *)
ListsAreTrue == /\ followed = "list" => ML!ListedOnce
                /\ followed = "columns" => SP!PagesAreWhole
                /\ followed = "search" => SR!SearchEnds /\ SR!SettledOnQuery
(* What the user answered about a letter or a sender outlives every re-score,  *)
(* refusal and late body (SpamFiling), outweighs every rule, and a relay that   *)
(* breaks SPF is not a forger (SpamScore).                                    *)
TheUserDecides == /\ followed = "spam" => SF!AnswersStand
                  /\ followed = "score" => SC!TheUsersWordStands /\ SC!RelayIsNotForgery
(* No queued change is sent for another folder than its mail's (FolderOps).   *)
ChangesReachTheirFolder == followed = "folders" => FO!ChangesReachTheirFolder
(* The count of a payload covers the bodies that name it, so that no file a     *)
(* cached message needs is released (BodyCache).                              *)
PayloadsAreCounted == followed = "bodies" => BC!PayloadsAreCounted
(* The open account is the one the list calls current, and no queued change    *)
(* belongs to none (Accounts).                                                *)
AccountsAgree == followed = "accounts" => AC!AccountsAgree
(* The pane shows the message of its row, its badges are being checked when they *)
(* say so, and no message is recorded as altered that was not (ReadingPane).   *)
ReadingIsHonest == followed = "reading" => RP!PaneAgrees /\ RP!ChecksEnd /\ RP!AccusationsAreEarned
(* The record of a verdict is of the message it is kept for (ReadingPane).     *)
VerdictsAreOfTheirMessage == followed = "reading" => RP!VerdictsAreOfTheirMessage

=============================================================================
