-------------------------- MODULE ImapConnections --------------------------
(***************************************************************************)
(* The background connections of ImapBackend: the sync session, on which   *)
(* header passes, searches and (as a fallback) bodies run; the pool of     *)
(* body connections; and the IDLE connection that reports new mail.  Each  *)
(* may be refused, dropped or torn down on its own.  A session that is     *)
(* retired fails its outstanding jobs in the next turn of the event loop,  *)
(* before anything a server answers: one step here.                        *)
(***************************************************************************)
EXTENDS Naturals, Sequences, FiniteSets

CONSTANTS Mailboxes, NoBox,
          Slots,      \* imap/bodyPoolSize places for body connections
          MaxSync,    \* bound: commands queued on the sync session
          MaxBackoff  \* bound: doublings of the push retry delay (kPushBackoffMaxMs)

ImapConnectionsAssumption ==
    /\ NoBox \notin Mailboxes /\ IsFiniteSet(Slots)
    /\ MaxSync \in Nat \ {0} /\ MaxBackoff \in Nat

VARIABLES connected,    \* m_connected
          sync,         \* m_syncSession, m_syncReady: "none", "login", "ready"
          syncJobs,     \* its queue
          syncAt,       \* server: the mailbox selected on it
          syncQueued,   \* m_syncQueuedFolder
          syncFolder,   \* m_syncFolder
          pool,         \* m_bodyPool
          poolBroken,   \* m_bodyPoolBroken, within its cooldown
          fallbackBusy, \* m_bodyFallbackBusy
          idle,         \* m_idleSession, m_idleJob: "none", "login", "select", "idle"
          pushFolder,   \* m_pushFolder
          pushRetry,    \* m_pushRetry is running
          backoff,      \* m_pushBackoffMs, in doublings
          mixed         \* history: an answer was used for a mailbox it was not about

syncVars == <<sync, syncJobs, syncAt, syncQueued, syncFolder>>
bodyVars == <<pool, poolBroken, fallbackBusy>>
pushVars == <<idle, pushFolder, pushRetry, backoff>>

connVars == <<connected, syncVars, bodyVars, pushVars, mixed>>

Boxes == Mailboxes \cup {NoBox}
\* A body connection: BodyConn, the server's selection on it, and its batch.
NoConn == [st |-> "off", busy |-> FALSE, folder |-> NoBox, at |-> NoBox,
           job |-> "none", want |-> NoBox]

Init == /\ connected = FALSE
        /\ sync = "none" /\ syncJobs = <<>> /\ syncAt = NoBox
        /\ syncQueued = NoBox /\ syncFolder = NoBox
        /\ pool = [c \in Slots |-> NoConn] /\ poolBroken = FALSE /\ fallbackBusy = FALSE
        /\ idle = "none" /\ pushFolder = NoBox /\ pushRetry = FALSE /\ backoff = 0
        /\ mixed = FALSE

----------------------------------------------------------------------------
(* The account's connections as a whole.                                   *)

\* connectAccount()'s login succeeding: the sync session is opened first.
Connected ==
    /\ ~connected /\ connected' = TRUE
    /\ sync' = "login"
    /\ UNCHANGED <<syncJobs, syncAt, syncQueued, syncFolder, bodyVars, pushVars, mixed>>

SyncGone == /\ sync' = "none" /\ syncJobs' = <<>> /\ syncAt' = NoBox
            /\ syncQueued' = NoBox /\ syncFolder' = NoBox

\* stopPush()
PushStopped == idle' = "none" /\ pushRetry' = FALSE

\* ImapBackend::closeSessions(): a deliberate end or the interactive connection
\* lost.
CloseSessions ==
    /\ connected /\ connected' = FALSE
    /\ SyncGone /\ PushStopped
    /\ pool' = [c \in Slots |-> NoConn] /\ poolBroken' = FALSE /\ fallbackBusy' = FALSE
    /\ UNCHANGED <<pushFolder, backoff, mixed>>

----------------------------------------------------------------------------
(* The sync session.                                                       *)

\* startSyncSession(): a no-op while one exists.
StartedSync == IF sync = "none" /\ connected THEN "login" ELSE sync

\* ensureBackgroundReady(), on every tick of the backfill.
EnsureBackgroundReady ==
    /\ sync # "ready" /\ sync' = StartedSync
    /\ UNCHANGED <<connected, syncJobs, syncAt, syncQueued, syncFolder, bodyVars, pushVars, mixed>>

SyncLogin ==
    /\ sync = "login" /\ sync' = "ready"
    /\ UNCHANGED <<connected, syncJobs, syncAt, syncQueued, syncFolder, bodyVars, pushVars, mixed>>

\* startSyncSession()'s drop: the login refused, the connection lost.  A body
\* batch that ran on it fails and releases the fallback.
SyncDrop ==
    /\ sync # "none" /\ SyncGone
    /\ fallbackBusy' = (fallbackBusy /\ ~\E i \in DOMAIN syncJobs : syncJobs[i].cmd = "BODY")
    /\ UNCHANGED <<connected, pool, poolBroken, pushVars, mixed>>

\* withSyncSession(): the command right behind a SELECT that is not waited for.
OnSync(f, cmd) ==
    /\ Len(syncJobs) + 2 <= MaxSync
    /\ syncQueued' = f
    /\ syncJobs' = syncJobs \o (IF syncQueued # f THEN <<[cmd |-> "SELECT", on |-> f]>> ELSE <<>>)
                            \o <<[cmd |-> cmd, on |-> f]>>
    /\ UNCHANGED <<sync, syncAt, syncFolder>>

\* withReadSession() in the background: header windows, fetchUnseenIds(),
\* search().  With no sync session its login is started.
BackgroundRead(f) ==
    /\ connected
    /\ IF sync = "ready" THEN OnSync(f, "READ")
       ELSE sync' = StartedSync /\ UNCHANGED <<syncJobs, syncAt, syncQueued, syncFolder>>
    /\ UNCHANGED <<connected, bodyVars, pushVars, mixed>>

SyncRuns(cmds) == sync = "ready" /\ syncJobs # <<>> /\ Head(syncJobs).cmd \in cmds

\* withSyncSession()'s SELECT handler.  A refused SELECT leaves the server on
\* no mailbox or on the previous one.
SyncSelected(ok) ==
    /\ SyncRuns({"SELECT"})
    /\ syncJobs' = Tail(syncJobs)
    /\ IF ok THEN /\ syncAt' = Head(syncJobs).on /\ syncFolder' = Head(syncJobs).on
                  /\ UNCHANGED syncQueued
             ELSE /\ syncAt' \in {NoBox, syncAt}
                  /\ syncFolder' = NoBox /\ syncQueued' = NoBox
    /\ UNCHANGED <<connected, sync, bodyVars, pushVars, mixed>>

\* The handlers of the answers: runHeaderFetch(), fetchUnseenIds(), search(),
\* startBodyFetchJob() drop what another mailbox answered (sessionHasSelected).
Used == syncFolder = Head(syncJobs).on
Mixes == Used /\ syncAt # Head(syncJobs).on

\* A body batch releases the fallback when it ends, unless texts are still owed:
\* their FETCH goes to the end of the queue.
SyncAnswered(textOwed) ==
    LET job == Head(syncJobs) IN
    /\ SyncRuns({"READ", "BODY"}) /\ syncAt # NoBox
    /\ textOwed => job.cmd = "BODY" /\ Used
    /\ mixed' = (mixed \/ Mixes)
    /\ syncJobs' = IF textOwed THEN Append(Tail(syncJobs), job) ELSE Tail(syncJobs)
    /\ fallbackBusy' = (fallbackBusy /\ ~(job.cmd = "BODY" /\ ~textOwed))
    /\ UNCHANGED <<connected, sync, syncAt, syncQueued, syncFolder, pool, poolBroken, pushVars>>

\* shrinkBodyPool(): one idle body connection is given up, growth is latched.
Shrunk(p) == {[p EXCEPT ![c] = NoConn] : c \in {d \in Slots : p[d].st # "off" /\ ~p[d].busy}}
ShrinkBodyPool(p) == /\ poolBroken' = TRUE
                     /\ pool' \in IF Shrunk(p) = {} THEN {p} ELSE Shrunk(p)

\* The server refuses the command, for too many connections or otherwise.
SyncFailed(tooMany) ==
    /\ SyncRuns({"READ", "BODY"})
    /\ syncJobs' = Tail(syncJobs)
    /\ fallbackBusy' = (fallbackBusy /\ Head(syncJobs).cmd # "BODY")
    /\ IF tooMany THEN ShrinkBodyPool(pool) ELSE UNCHANGED <<pool, poolBroken>>
    /\ UNCHANGED <<connected, sync, syncAt, syncQueued, syncFolder, pushVars, mixed>>

----------------------------------------------------------------------------
(* The body pool.                                                          *)

\* ensureBodyPool(): filled up to imap/bodyPoolSize once the sync session is up
\* and no refusal is fresh.
Filled == IF connected /\ sync = "ready" /\ ~poolBroken
          THEN [c \in Slots |-> IF pool[c].st = "off" THEN [NoConn EXCEPT !.st = "login"] ELSE pool[c]]
          ELSE pool

\* fetchBodies(): a free pool connection (behind a SELECT it waits for, alone on
\* that connection), else the sync session, else the interactive connection
\* (ImapMailbox) for a message that was clicked, else nothing.
FetchBodies(f) ==
    /\ connected /\ sync' = StartedSync
    /\ LET free == {c \in Slots : Filled[c].st = "ready" /\ ~Filled[c].busy} IN
       \/ \E c \in free :
            /\ pool' = [Filled EXCEPT ![c].busy = TRUE, ![c].want = f,
                          ![c].job = IF Filled[c].folder = f THEN "FULL" ELSE "SELECT"]
            /\ UNCHANGED <<syncJobs, syncAt, syncQueued, syncFolder, fallbackBusy>>
       \/ /\ free = {} /\ pool' = Filled
          /\ IF ~fallbackBusy /\ sync = "ready"
             THEN fallbackBusy' = TRUE /\ OnSync(f, "BODY")
             ELSE UNCHANGED <<syncJobs, syncAt, syncQueued, syncFolder, fallbackBusy>>
    /\ UNCHANGED <<connected, poolBroken, pushVars, mixed>>

\* ensureBodyPool()'s drop: a body connection failed or was lost.
PoolDrop(c) ==
    /\ pool[c].st # "off" /\ pool' = [pool EXCEPT ![c] = NoConn]
    /\ UNCHANGED <<connected, syncVars, poolBroken, fallbackBusy, pushVars, mixed>>

PoolLogin(c, ok) ==
    /\ pool[c].st = "login"
    /\ pool' = [pool EXCEPT ![c] = IF ok THEN [@ EXCEPT !.st = "ready"] ELSE NoConn]
    /\ poolBroken' = (poolBroken \/ ~ok)
    /\ UNCHANGED <<connected, syncVars, fallbackBusy, pushVars, mixed>>

\* Mutant: a refused SELECT ends the batch without releasing its slot.
PoolSelectedUnreleased(c, ok) ==
    /\ pool[c].job = "SELECT"
    /\ pool' = [pool EXCEPT ![c].job = IF ok THEN "FULL" ELSE "none",
                           ![c].folder = IF ok THEN pool[c].want ELSE @,
                           ![c].at = IF ok THEN pool[c].want ELSE NoBox]
    /\ UNCHANGED <<connected, syncVars, poolBroken, fallbackBusy, pushVars, mixed>>

\* fetchBodies()' SELECT handler: the batch starts, or its slot is released; a
\* refusal leaves conn->folder as it was.
PoolSelected(c, ok) ==
    /\ pool[c].job = "SELECT"
    /\ \/ ok /\ pool' = [pool EXCEPT ![c].job = "FULL", ![c].folder = pool[c].want, ![c].at = pool[c].want]
       \/ ~ok /\ \E left \in {NoBox, pool[c].at} :
                   pool' = [pool EXCEPT ![c].job = "none", ![c].busy = FALSE, ![c].at = left]
    /\ UNCHANGED <<connected, syncVars, poolBroken, fallbackBusy, pushVars, mixed>>

\* startBodyFetchJob() on a pool connection: the FETCH of everything, and a
\* second one for the texts it could not settle; either ends the batch.
PoolFetched(c, textOwed) ==
    /\ pool[c].job \in {"FULL", "TEXT"} /\ pool[c].at # NoBox
    /\ textOwed => pool[c].job = "FULL"
    /\ pool' = IF textOwed THEN [pool EXCEPT ![c].job = "TEXT"]
                           ELSE [pool EXCEPT ![c].job = "none", ![c].busy = FALSE]
    /\ mixed' = (mixed \/ (pool[c].folder = pool[c].want /\ pool[c].at # pool[c].want))
    /\ UNCHANGED <<connected, syncVars, poolBroken, fallbackBusy, pushVars>>

PoolRefused(c, tooMany) ==
    /\ pool[c].job \in {"FULL", "TEXT"}
    /\ LET released == [pool EXCEPT ![c].job = "none", ![c].busy = FALSE]
       IN  IF tooMany THEN ShrinkBodyPool(released) ELSE pool' = released /\ UNCHANGED poolBroken
    /\ UNCHANGED <<connected, syncVars, fallbackBusy, pushVars, mixed>>

\* kBodyPoolRetryMs passing, or updateAccessToken(), which also reopens the sync
\* session.
LatchLifts(renewed) ==
    /\ poolBroken \/ renewed
    /\ poolBroken' = FALSE
    /\ sync' = IF renewed THEN StartedSync ELSE sync
    /\ UNCHANGED <<connected, syncJobs, syncAt, syncQueued, syncFolder, pool, fallbackBusy, pushVars, mixed>>

----------------------------------------------------------------------------
(* The IDLE connection.                                                    *)

\* startPush(): for the folder just opened, or again when the retry is due.
StartPush(f) ==
    /\ IF connected THEN /\ pushFolder' = f /\ idle' = "login" /\ pushRetry' = FALSE
                    ELSE PushStopped /\ UNCHANGED pushFolder
    /\ UNCHANGED <<connected, syncVars, bodyVars, backoff, mixed>>

RetryDue == pushRetry /\ StartPush(pushFolder)

PushAdvances ==
    /\ \/ idle = "login" /\ idle' = "select" /\ UNCHANGED backoff
       \/ idle = "select" /\ idle' = "idle" /\ backoff' = 0
    /\ UNCHANGED <<connected, syncVars, bodyVars, pushFolder, pushRetry, mixed>>

\* Mutant: the attempt is dropped with nothing to bring it back.
PushFailsForGood ==
    /\ idle # "none" /\ PushStopped
    /\ UNCHANGED <<connected, syncVars, bodyVars, pushFolder, backoff, mixed>>

\* schedulePushRetry(): a stage of the current attempt failed, or IDLE ended.
\* The results of replaced attempts are ignored.
PushFails ==
    /\ idle # "none" /\ idle' = "none"
    /\ IF connected /\ pushFolder # NoBox
       THEN pushRetry' = TRUE /\ backoff' = IF backoff < MaxBackoff THEN backoff + 1 ELSE backoff
       ELSE pushRetry' = FALSE /\ UNCHANGED backoff
    /\ UNCHANGED <<connected, syncVars, bodyVars, pushFolder, mixed>>

Next == \/ Connected \/ CloseSessions
        \/ EnsureBackgroundReady \/ SyncLogin \/ SyncDrop
        \/ \E f \in Mailboxes : BackgroundRead(f) \/ FetchBodies(f) \/ StartPush(f)
        \/ \E ok \in BOOLEAN : SyncSelected(ok) \/ SyncAnswered(ok) \/ SyncFailed(ok) \/ LatchLifts(ok)
        \/ \E c \in Slots : \/ PoolDrop(c)
                            \/ \E ok \in BOOLEAN : \/ PoolLogin(c, ok) \/ PoolSelected(c, ok)
                                                   \/ PoolFetched(c, ok) \/ PoolRefused(c, ok)
        \/ RetryDue \/ PushAdvances \/ PushFails

Spec == Init /\ [][Next]_connVars

----------------------------------------------------------------------------
(* Properties.                                                             *)

TypeOK == /\ {connected, poolBroken, fallbackBusy, pushRetry, mixed} \subseteq BOOLEAN
          /\ sync \in {"none", "login", "ready"}
          /\ syncJobs \in Seq([cmd : {"SELECT", "READ", "BODY"}, on : Mailboxes])
          /\ {syncAt, syncQueued, syncFolder, pushFolder} \subseteq Boxes
          /\ pool \in [Slots -> [st : {"off", "login", "ready"}, busy : BOOLEAN, folder : Boxes, at : Boxes,
                                 job : {"none", "SELECT", "FULL", "TEXT"}, want : Boxes]]
          /\ idle \in {"none", "login", "select", "idle"} /\ backoff \in 0 .. MaxBackoff

\* A connection marked busy has a batch under way that will release it, and the
\* other way round, whatever failed or was dropped meanwhile: a mark left
\* standing would cost the account that connection for good (release in
\* fetchBodies and startBodyFetchJob).
BusyMeansWorking ==
    /\ \A c \in Slots : pool[c].busy <=> pool[c].job # "none"
    /\ fallbackBusy <=> \E i \in DOMAIN syncJobs : syncJobs[i].cmd = "BODY"

\* At most one batch of bodies rides on the sync session.
OneFallback ==
    \A i, j \in DOMAIN syncJobs : syncJobs[i].cmd = "BODY" /\ syncJobs[j].cmd = "BODY" => i = j

\* No answer is used for a mailbox it was not about (sessionHasSelected).
NothingMixed == ~mixed

\* Does not hold of the code, see the findings.
\* The mailbox a body connection is believed to have open is the one it has:
\* what lets fetchBodies() skip the SELECT.
SlotKnowsItsMailbox == \A c \in Slots : pool[c].folder # NoBox => pool[c].folder = pool[c].at

\* While the account stays connected, push once asked for is idling, on its way
\* there, or has the retry armed: no failure leaves it deaf until the next click
\* (schedulePushRetry).
PushIsKept == ((idle # "none" \/ pushRetry) /\ connected') => (idle' # "none" \/ pushRetry')
=============================================================================
