------------------------------ MODULE SeenSync ------------------------------
(***************************************************************************)
(* The read marks of one folder: on the server, in the cache (MailStore),  *)
(* in the list on screen (MessageListModel), and in the queued changes     *)
(* (the journal).  The server's answers are written over the cache when    *)
(* they land, however old they are by then: what an open or a window of    *)
(* headers asked for, the rows verifyCachedUnread() asks about, the set of *)
(* unread ids reconcileUnseenIn() asks for, and the unread counts.  No new *)
(* mail comes here (SyncEngine has that), and an open asks as over IMAP.   *)
(* The replay itself, refusals and rollback are Journal's.                 *)
(***************************************************************************)
EXTENDS Naturals, Sequences, FiniteSets, FiniteSetsExt

CONSTANTS Msgs,     \* by uid, newer ones larger
          Recent,   \* how many of the newest a refresh asks for (20)
          Page,     \* how many a window of headers asks for (100)
          MaxVerify,\* kMaxVerify, unread rows beyond which nobody verifies
          MaxOps,   \* bound: changes queued at a time
          Marks,    \* bound: marks the user makes
          MaxAsked, \* bound: questions under way at a time
          Elsewhere,\* bound: marks made on another device
          Moves,    \* bound: opening and leaving the folder, links lost
          Renumbers \* bound: times the server renumbers the mailbox

SeenSyncAssumption == Msgs \subseteq Nat /\ IsFiniteSet(Msgs) /\ {Recent, Page, MaxVerify, MaxOps, Marks, MaxAsked, Elsewhere, Moves, Renumbers} \subseteq Nat

VARIABLES srv,     \* server: flag of each message
          epoch,   \* server: how often the mailbox was renumbered (UIDVALIDITY)
          cached,  \* messages.seen, "none" for a row not cached
          cachedAt,\* the epoch of the cached ids (sync_state)
          shown,   \* the list's rows, "none" when not listed
          open,    \* the folder is the selected one
          queue,   \* its live flag ops, oldest first
          sent,    \* the oldest op: "no", "sent", "done" (applied, unconfirmed)
          asked,   \* the questions, one of each kind at a time
          overrun, \* history: rows a late set of unread ids was written over
          stray,   \* history: an op was applied to a renumbered mailbox
          budget   \* what is left of the bounds

vars == <<srv, epoch, cached, cachedAt, shown, open, queue, sent, asked, overrun, stray, budget>>

Flags == {"seen", "unseen"}
Reads == {"open", "window", "verify", "unseen", "counts"}
Idle  == [st |-> "no", ids |-> {}, snap |-> [m \in Msgs |-> "none"]]
Off   == [m \in Msgs |-> "none"]

Init == /\ srv \in [Msgs -> Flags] /\ epoch = 0
        /\ cached = srv /\ cachedAt = 0
        /\ shown = Off /\ open = FALSE
        /\ queue = <<>> /\ sent = "no"
        /\ asked = [r \in Reads |-> Idle]
        /\ overrun = {} /\ stray = FALSE
        /\ budget = [marks |-> Marks, elsewhere |-> Elsewhere, moves |-> Moves, renumbers |-> Renumbers]

Spend(what) == budget[what] > 0 /\ budget' = [budget EXCEPT ![what] = @ - 1]

\* MailStore::journalOpsFor(): what the live ops say of a message, the newest
\* op winning; "none" when no op names it.
Naming(m) == {i \in DOMAIN queue : m \in queue[i].on}
Held(m) == IF Naming(m) = {} THEN "none" ELSE queue[Max(Naming(m))].flag
Owes == queue # <<>>

----------------------------------------------------------------------------
(* The user.                                                               *)

Journalled(flag, on) == queue' = Append(queue, [flag |-> flag, on |-> on, at |-> cachedAt])

\* MailClient::markMessagesSeen(): rows already in the wanted state on the list
\* are skipped.
MarkSeen(m, flag) ==
    /\ open /\ shown[m] \notin {"none", flag} /\ Len(queue) < MaxOps /\ Spend("marks")
    /\ shown' = [shown EXCEPT ![m] = flag]
    /\ cached' = [cached EXCEPT ![m] = IF @ = "none" THEN @ ELSE flag]
    /\ Journalled(flag, {m})
    /\ UNCHANGED <<srv, epoch, cachedAt, open, sent, asked, overrun, stray>>

\* MailClient::markFolderRead(): what the cache calls unread is the op.
MarkFolderRead ==
    LET unseen == {m \in Msgs : cached[m] = "unseen"} IN
    /\ unseen # {} /\ Len(queue) < MaxOps /\ Spend("marks")
    /\ cached' = [m \in Msgs |-> IF m \in unseen THEN "seen" ELSE cached[m]]
    /\ shown' = [m \in Msgs |-> IF shown[m] = "none" THEN "none" ELSE "seen"]
    /\ Journalled("seen", unseen)
    /\ UNCHANGED <<srv, epoch, cachedAt, open, sent, asked, overrun, stray>>

\* MailClient::openFolder(), and leaving the folder for another.
OpenFolder == /\ ~open /\ open' = TRUE /\ shown' = cached /\ Spend("moves")
              /\ UNCHANGED <<srv, epoch, cached, cachedAt, queue, sent, asked, overrun, stray>>
LeaveFolder == /\ open /\ open' = FALSE /\ shown' = Off /\ Spend("moves")
               /\ UNCHANGED <<srv, epoch, cached, cachedAt, queue, sent, asked, overrun, stray>>

----------------------------------------------------------------------------
(* The server, and the replay of the queue as Journal models it.           *)

ReadElsewhere(m) ==
    /\ srv' = [srv EXCEPT ![m] = IF @ = "seen" THEN "unseen" ELSE "seen"] /\ Spend("elsewhere")
    /\ UNCHANGED <<epoch, cached, cachedAt, shown, open, queue, sent, asked, overrun, stray>>

Renumber ==
    /\ epoch' = epoch + 1 /\ Spend("renumbers")
    /\ UNCHANGED <<srv, cached, cachedAt, shown, open, queue, sent, asked, overrun, stray>>

\* MailClient::drainJournal() hands the oldest op to the backend.
Send == /\ Owes /\ sent = "no" /\ sent' = "sent"
        /\ UNCHANGED <<srv, epoch, cached, cachedAt, shown, open, queue, asked, overrun, stray, budget>>

\* The server carries it out; ids of another epoch name other messages.
Apply == LET op == Head(queue) IN
         /\ sent = "sent" /\ sent' = "done"
         /\ srv' = [m \in Msgs |-> IF m \in op.on THEN op.flag ELSE srv[m]]
         /\ stray' = (stray \/ op.at # epoch)
         /\ UNCHANGED <<epoch, cached, cachedAt, shown, open, queue, asked, overrun, budget>>

\* MailClient::finishJournalOp() on success.
Confirm == /\ sent = "done" /\ sent' = "no" /\ queue' = Tail(queue)
           /\ UNCHANGED <<srv, epoch, cached, cachedAt, shown, open, asked, overrun, stray, budget>>

\* The link is lost: questions fail, an op not confirmed is sent again.
LinkLost == /\ Spend("moves")
            /\ sent' = "no" /\ asked' = [r \in Reads |-> Idle]
            /\ UNCHANGED <<srv, epoch, cached, cachedAt, shown, open, queue, overrun, stray>>

----------------------------------------------------------------------------
(* Questions: asked, answered from the server's state, landed later.       *)

Asking(r, ids) ==
    /\ asked[r].st = "no" /\ Cardinality({q \in Reads : asked[q].st # "no"}) < MaxAsked
    /\ asked' = [asked EXCEPT ![r].st = "out", ![r].ids = ids]
    /\ UNCHANGED <<srv, epoch, cached, cachedAt, shown, open, queue, sent, overrun, stray, budget>>

Missing   == {m \in Msgs : cached[m] = "none"}
Newer(m)  == {n \in Msgs : n > m}
Newest(k) == {m \in Msgs : Cardinality(Newer(m)) < k}

\* SyncEngine::openSelectedFolder(): the newest page of an empty cache, and
\* otherwise only what is newer than all that is cached.  Not held back by
\* queued changes.
AskOpen ==
    open /\ Asking("open", IF cached = Off THEN Newest(Page)
                          ELSE {m \in Msgs : \A n \in Msgs \ Missing : m > n})

\* SyncEngine::refreshSelectedFolder(): the newest few.
AskRefresh == open /\ ~Owes /\ Asking("window", Newest(Recent))

\* SyncEngine::fetchOlderFromServer() of the open folder and
\* continueFolderBackfill() of another: as long as rows are missing, the next
\* page below what was fetched so far, at most what is cached.
AskHistory ==
    /\ Missing # {}
    /\ open \/ ~Owes
    /\ \E from \in 0 .. Cardinality(Msgs \ Missing) :
          Asking("window", Newest(from + Page) \ Newest(from))

\* MailClient::verifyCachedUnread(), when the open folder was opened.
AskVerify ==
    LET unseen == {m \in Msgs : cached[m] = "unseen"}
    IN  /\ open /\ ~Owes /\ unseen # {} /\ Cardinality(unseen) <= MaxVerify
        /\ Asking("verify", unseen)

\* MailClient::reconcileUnseenIn(), when the pass opened another folder.
AskUnseen == ~open /\ ~Owes /\ cached # Off /\ Asking("unseen", Msgs)

\* MailClient::refreshAccountUnreadCounts().
AskCounts == Asking("counts", Msgs)

Answer(r) ==
    /\ asked[r].st = "out"
    /\ asked' = [asked EXCEPT ![r].st = "back",
                  ![r].snap = [m \in Msgs |-> IF m \in asked[r].ids THEN srv[m] ELSE "none"]]
    /\ UNCHANGED <<srv, epoch, cached, cachedAt, shown, open, queue, sent, overrun, stray, budget>>

Landing(r) == asked[r].st = "back" /\ asked' = [asked EXCEPT ![r] = Idle]

\* Mutant: the server's flag is stored as it came.
StoredVerbatim(rows, snap) == [m \in Msgs |-> IF m \in rows THEN snap[m] ELSE cached[m]]

\* MailStore::storeHeadersIn(): a row named by a live op keeps what the op says.
Stored(rows, snap) ==
    [m \in Msgs |-> IF m \notin rows THEN cached[m] ELSE IF Held(m) # "none" THEN Held(m) ELSE snap[m]]

\* MessageListModel::appendHeaders(): the flags as they come, but a row the list
\* has as read stays read.
Listed(list, rows, flags) ==
    [m \in Msgs |-> IF m \notin rows \/ list[m] = "seen" THEN list[m] ELSE flags[m]]

\* SyncEngine::applySelectedFolderOpened() and fetchNewerThanCache(): the rows
\* stream onto the list, then all the cache has is merged into it.
LandOpen ==
    LET rows == asked["open"].ids  snap == asked["open"].snap  new == Stored(rows, snap) IN
    /\ Landing("open")
    /\ cached' = new
    /\ shown' = IF open THEN Listed(Listed(shown, rows, snap), {m \in Msgs : new[m] # "none"}, new)
                ELSE shown
    /\ UNCHANGED <<srv, epoch, cachedAt, open, queue, sent, overrun, stray, budget>>

\* SyncEngine::applyFetchedHeaders() for a window.
LandWindow ==
    LET rows == asked["window"].ids  snap == asked["window"].snap IN
    /\ Landing("window")
    /\ cached' = Stored(rows, snap)
    /\ shown' = IF open THEN Listed(shown, rows, snap) ELSE shown
    /\ UNCHANGED <<srv, epoch, cachedAt, open, queue, sent, overrun, stray, budget>>

\* Mutant: the rows on screen are left as they are.
LandVerifyUnseen ==
    /\ Landing("verify")
    /\ cached' = Stored(asked["verify"].ids, asked["verify"].snap)
    /\ UNCHANGED <<srv, epoch, cachedAt, shown, open, queue, sent, overrun, stray, budget>>

\* MailClient::verifyCachedUnread()'s answer: stored, and what was read
\* elsewhere is marked read on the list.
LandVerify ==
    LET rows == asked["verify"].ids  snap == asked["verify"].snap IN
    /\ Landing("verify")
    /\ cached' = Stored(rows, snap)
    /\ shown' = [m \in Msgs |-> IF m \in rows /\ shown[m] # "none" /\ snap[m] = "seen"
                                THEN "seen" ELSE shown[m]]
    /\ UNCHANGED <<srv, epoch, cachedAt, open, queue, sent, overrun, stray, budget>>


\* MailStore::applyUnseenSet(): every cached row takes the set's word.  Nobody
\* asks the journal again, nor tells the list.
UnseenSetApplied(snap) == [m \in Msgs |-> IF cached[m] = "none" THEN "none" ELSE snap[m]]

\* MailClient::reconcileUnseenIn()'s answer.
LandUnseen ==
    LET new == UnseenSetApplied(asked["unseen"].snap) IN
    /\ Landing("unseen")
    /\ cached' = new
    /\ overrun' = overrun \cup {m \in Msgs : /\ new[m] # cached[m]
                                             /\ Held(m) # "none" \/ shown[m] = "unseen"}
    /\ UNCHANGED <<srv, epoch, cachedAt, shown, open, queue, sent, stray, budget>>

\* MailClient::reconcileSeenWithServer(): the server counts nothing unread, and
\* no change is queued when that lands.
LandCounts ==
    LET read == ~Owes /\ \A m \in Msgs : asked["counts"].snap[m] = "seen"
        gone == read /\ \E m \in Msgs : cached[m] = "unseen"
    IN  /\ Landing("counts")
        /\ cached' = [m \in Msgs |-> IF gone /\ cached[m] # "none" THEN "seen" ELSE cached[m]]
        /\ shown' = [m \in Msgs |-> IF gone /\ shown[m] # "none" THEN "seen" ELSE shown[m]]
        /\ UNCHANGED <<srv, epoch, cachedAt, open, queue, sent, overrun, stray, budget>>

\* Mutant: the queued ops survive the ids they name.
ApplyFolderInvalidatedKeepingOps ==
    /\ open \/ ~Owes
    /\ cachedAt # epoch /\ \A r \in {"open", "window", "verify"} : asked[r].st = "no"
    /\ cached' = Off /\ shown' = Off /\ cachedAt' = epoch
    /\ UNCHANGED <<srv, epoch, open, queue, sent, asked, overrun, stray, budget>>

\* ImapBackend::openFolder() notices the renumbering, for the user or for the
\* pass, which leaves folders with queued changes alone, and
\* MailClient::applyFolderInvalidated() drops the queued changes and the rows;
\* what was asked before on that connection has been answered.
ApplyFolderInvalidated ==
    /\ open \/ ~Owes
    /\ cachedAt # epoch /\ \A r \in {"open", "window", "verify"} : asked[r].st = "no"
    /\ queue' = <<>> /\ sent' = "no"
    /\ cached' = Off /\ shown' = Off /\ cachedAt' = epoch
    /\ UNCHANGED <<srv, epoch, open, asked, overrun, stray, budget>>

Ask  == AskOpen \/ AskRefresh \/ AskHistory \/ AskVerify \/ AskUnseen \/ AskCounts
Land == LandOpen \/ LandWindow \/ LandVerify \/ LandUnseen \/ LandCounts

Next == \/ \E m \in Msgs : ReadElsewhere(m) \/ \E flag \in Flags : MarkSeen(m, flag)
        \/ MarkFolderRead \/ OpenFolder \/ LeaveFolder \/ Renumber
        \/ Send \/ Apply \/ Confirm \/ LinkLost
        \/ Ask \/ (\E r \in Reads : Answer(r)) \/ Land
        \/ ApplyFolderInvalidated

Spec == Init /\ [][Next]_vars

\* The queue is replayed while there is one, the server answers, and the folder
\* is asked about again and again: while it is open by the poll timer, whose
\* refresh asks for the newest rows and for those cached as unread, and by the
\* background pass otherwise.
FairSpec == /\ Spec
            /\ WF_vars(Send) /\ WF_vars(Apply) /\ WF_vars(Confirm)
            /\ SF_vars(AskRefresh) /\ SF_vars(AskVerify) /\ SF_vars(AskUnseen)
            /\ WF_vars(ApplyFolderInvalidated)
            /\ \A r \in Reads : WF_vars(Answer(r))
            /\ WF_vars(LandOpen) /\ WF_vars(LandWindow) /\ WF_vars(LandVerify) /\ WF_vars(LandUnseen) /\ WF_vars(LandCounts)

----------------------------------------------------------------------------
(* Properties.                                                             *)

TypeOK == /\ srv \in [Msgs -> Flags] /\ epoch \in Nat /\ cachedAt \in 0 .. epoch
          /\ {cached, shown} \subseteq [Msgs -> Flags \cup {"none"}]
          /\ open \in BOOLEAN /\ sent \in {"no", "sent", "done"}
          /\ queue \in Seq([flag : Flags, on : SUBSET Msgs, at : Nat])
          /\ asked \in [Reads -> [st : {"no", "out", "back"}, ids : SUBSET Msgs,
                                  snap : [Msgs -> Flags \cup {"none"}]]]

\* A cached row a queued change names shows what the change says, whatever old
\* answer landed since (storeHeadersIn, reconcileSeenWithServer) - except where
\* a late set of unread ids was written over it.
MarksStand == \A m \in Msgs \ overrun : Held(m) # "none" /\ cached[m] # "none" => cached[m] = Held(m)

\* Does not hold of the code, see the findings.
\* The same without the exception: "nothing can land on top of a local change
\* before it has been pushed" (storeHeadersOn).
MarksAlwaysStand == \A m \in Msgs : Held(m) # "none" /\ cached[m] # "none" => cached[m] = Held(m)

\* The list shows no mail as unread that the cache, and so the badge, counts as
\* read (verifyCachedUnread, reconcileSeenWithServer).
BoldIsCounted == \A m \in Msgs \ overrun : shown[m] = "unseen" => cached[m] = "unseen"

\* Queued changes name messages by the ids the cache holds, never by those of a
\* mailbox that was renumbered (applyFolderInvalidated).
OpsNameCachedIds == \A i \in DOMAIN queue : queue[i].at = cachedAt

\* Does not hold of the code, see the findings.
\* No change reaches a message it was not made on: "replaying one would address
\* whatever now happens to hold the number" (applyFolderInvalidated).
NeverMisaddressed == ~stray

\* A row of the folder on screen that nothing asks about: too old for a
\* refresh, and left out by verifyCachedUnread(), being cached as read or one
\* of too many unread ones, while reconcileUnseenIn() is for the folders that
\* are not on screen.
Unasked(m) == /\ open /\ m \notin Newest(Recent)
              /\ \/ cached[m] = "seen"
                 \/ Cardinality({n \in Msgs : cached[n] = "unseen"}) > MaxVerify


\* Does not hold of the code, see the findings.
\* The same without the exception: every stale flag is found.
EventuallyAgreesOnAll ==
    <>[](\A m \in Msgs : cached[m] \in {"none", srv[m]})
=============================================================================
