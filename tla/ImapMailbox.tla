---------------------------- MODULE ImapMailbox ----------------------------
(***************************************************************************)
(* The interactive IMAP connection of ImapBackend.  IMAP commands act on   *)
(* the mailbox the connection has selected, commands run one after the     *)
(* other from a queue, and several callers add to that queue: what a       *)
(* command acts on is decided by the last SELECT in front of it.           *)
(*                                                                         *)
(* The client keeps two ideas of the selection: the one the queue is       *)
(* headed to (m_queuedFolder) and the one the last answered SELECT left    *)
(* (m_selectedFolder).  The server keeps its own, `at'.  A refused SELECT  *)
(* leaves the server with no mailbox or with the previous one: the code    *)
(* expects both (sessionHasSelected).                                      *)
(***************************************************************************)
EXTENDS Naturals, Sequences

CONSTANTS Folders,   \* the mailboxes
          None,      \* no mailbox
          MaxQueue   \* bound: commands queued on the session at a time

ImapMailboxAssumption == None \notin Folders /\ MaxQueue \in Nat \ {0}

VARIABLES session,        \* m_session exists (and is logged in)
          jobs,           \* the KIMAP session's queue
          at,             \* server: the selected mailbox
          queuedFolder,   \* m_queuedFolder
          queuedRW,       \* m_queuedReadWrite
          selectedFolder, \* m_selectedFolder
          selectedRW,     \* m_selectedReadWrite
          refusedSelect,  \* server: the mailbox of the last SELECT, if that was refused
          strayed,        \* history: the latest write run on another mailbox than its own
          misfiled        \* history: some header batch was filed under the wrong folder

client  == <<queuedFolder, queuedRW, selectedFolder, selectedRW>>

mailboxVars == <<session, jobs, at, queuedFolder, queuedRW, selectedFolder,
                 selectedRW, refusedSelect, strayed, misfiled>>

Writes == {"STORE", "EXPUNGE", "MOVE"}

\* What a finished command's handler queues next.  A SELECT that somebody waits
\* for is followed by that caller's MOVE (or by nothing but a report, "OPEN"); a
\* STORE by the second STORE of a two-way flag change or by the EXPUNGE of a
\* delete, each behind selectThenQueue() again; a body FETCH by the one for the
\* texts it could not settle, behind nothing.
Job == [cmd : {"SELECT"}, on : Folders, rw : BOOLEAN, next : {"none", "OPEN", "MOVE"}]
       \cup [cmd : Writes, on : Folders, rw : BOOLEAN, next : {"none", "STORE", "EXPUNGE"}]
       \cup [cmd : {"FETCH"}, on : Folders, rw : BOOLEAN, next : {"none", "TEXT"}]

Select(f, rw, next) == [cmd |-> "SELECT", on |-> f, rw |-> rw, next |-> next]
Command(c, f, next) == [cmd |-> c, on |-> f, rw |-> c # "FETCH", next |-> next]

Init == /\ session = TRUE /\ jobs = <<>> /\ at = None
        /\ queuedFolder = None /\ queuedRW = FALSE
        /\ selectedFolder = None /\ selectedRW = FALSE
        /\ refusedSelect = None /\ strayed = {} /\ misfiled = FALSE

----------------------------------------------------------------------------
(* Queueing.  Each operator gives the queue and the two m_queued* fields    *)
(* after work was added behind the jobs q with selection head (f0, rw0).    *)

\* Mutant: the SELECT is recorded when it is answered, not when it is queued.
IssueSelectLate(q, f, rw, next) ==
    [jobs |-> Append(q, Select(f, rw, next)), folder |-> queuedFolder, rw |-> queuedRW]

\* ImapBackend::issueSelect(): the SELECT goes last and is recorded at once.
IssueSelect(q, f, rw, next) ==
    [jobs |-> Append(q, Select(f, rw, next)), folder |-> f, rw |-> rw]

\* ImapBackend::selectThenQueue(): a SELECT unless the queue is already headed
\* there read-write, and the command right behind it.
SelectThenQueue(q, head, headRW, f, job) ==
    IF head = f /\ headRW
    THEN [jobs |-> Append(q, job), folder |-> head, rw |-> headRW]
    ELSE [jobs |-> Append(Append(q, Select(f, TRUE, "none")), job), folder |-> f, rw |-> TRUE]

Queue(added) == /\ jobs' = added.jobs /\ Len(added.jobs) <= MaxQueue
                /\ queuedFolder' = added.folder /\ queuedRW' = added.rw

\* ImapBackend::setFlags() (next = "STORE" when flags are both added and
\* removed) and deleteMessages() (next = "EXPUNGE").
StoreFlags(f, next) ==
    /\ session
    /\ Queue(SelectThenQueue(jobs, queuedFolder, queuedRW, f, Command("STORE", f, next)))
    /\ UNCHANGED <<session, at, selectedFolder, selectedRW, refusedSelect, strayed, misfiled>>

\* ImapBackend::withFolderSelected(): the caller goes on at once when the queue
\* is headed to the folder, else when its SELECT has been answered.
WithFolderSelected(f, rw, next) ==
    IF queuedFolder = f /\ (queuedRW \/ ~rw)
    THEN [jobs |-> IF next = "MOVE" THEN Append(jobs, Command("MOVE", f, "none")) ELSE jobs,
          folder |-> queuedFolder, rw |-> queuedRW]
    ELSE IssueSelect(jobs, f, rw, next)

\* ImapBackend::moveMessages().
MoveMessages(f) ==
    /\ session /\ Queue(WithFolderSelected(f, TRUE, "MOVE"))
    /\ UNCHANGED <<session, at, selectedFolder, selectedRW, refusedSelect, strayed, misfiled>>

\* ImapBackend::openFolder(): an EXAMINE, then folderOpened().
OpenFolder(f) ==
    /\ session /\ Queue(WithFolderSelected(f, FALSE, "OPEN"))
    /\ UNCHANGED <<session, at, selectedFolder, selectedRW, refusedSelect, strayed, misfiled>>

\* A read behind its own EXAMINE, unless the queue is headed to its folder.
Read(f, next) ==
    LET fetch == Command("FETCH", f, next) IN
    IF queuedFolder = f
    THEN [jobs |-> Append(jobs, fetch), folder |-> queuedFolder, rw |-> queuedRW]
    ELSE LET s == IssueSelect(jobs, f, FALSE, "none") IN [s EXCEPT !.jobs = Append(@, fetch)]

\* ImapBackend::withReadSession(): a background read with no connection of its
\* own only rides along when the queue is headed to its folder.
FetchHeaders(f, background) ==
    /\ session
    /\ background => queuedFolder = f
    /\ Queue(Read(f, "none"))
    /\ UNCHANGED <<session, at, selectedFolder, selectedRW, refusedSelect, strayed, misfiled>>

\* ImapBackend::fetchBodiesOnMainSession(): the last resort of a message that
\* was clicked.
FetchBodiesOnMainSession(f) ==
    /\ session
    /\ Queue(Read(f, "TEXT"))
    /\ UNCHANGED <<session, at, selectedFolder, selectedRW, refusedSelect, strayed, misfiled>>

----------------------------------------------------------------------------
(* The session runs the head of its queue and calls its result handler.    *)

Head0 == Head(jobs)
Rest  == Tail(jobs)
Runs(c) == session /\ jobs # <<>> /\ Head0.cmd = c

\* issueSelect()'s handler on success, with the access the server granted, and
\* then withFolderSelected()'s: the waiting MOVE is queued now, at the end.  A
\* write caller whose mailbox came back read-only gives up.
SelectAnswered(grantedRW) ==
    LET writable == Head0.rw /\ grantedRW
        moving == Head0.next = "MOVE" /\ writable
    IN  /\ Runs("SELECT")
        /\ at' = Head0.on /\ refusedSelect' = None
        /\ selectedFolder' = Head0.on /\ selectedRW' = writable
        /\ queuedRW' = (queuedRW /\ ~(~writable /\ queuedFolder = Head0.on))
        /\ jobs' = IF moving THEN Append(Rest, Command("MOVE", Head0.on, "none")) ELSE Rest
        /\ UNCHANGED <<session, queuedFolder, strayed, misfiled>>

\* issueSelect()'s handler on an error.
SelectRefused ==
    /\ Runs("SELECT")
    /\ at' \in {None, at} /\ refusedSelect' = Head0.on
    /\ selectedFolder' = None /\ selectedRW' = FALSE
    /\ IF queuedFolder = Head0.on THEN queuedFolder' = None /\ queuedRW' = FALSE
                                  ELSE UNCHANGED <<queuedFolder, queuedRW>>
    /\ jobs' = Rest
    /\ UNCHANGED <<session, strayed, misfiled>>

\* A write acts on the mailbox that is selected, not on the one it is for.
Strays == at \notin {None, Head0.on}

\* How it came there: the SELECT it was queued behind was refused, and the
\* server kept the previous mailbox, or the last SELECT was another caller's.
Stray == [cmd |-> Head0.cmd, refused |-> refusedSelect = Head0.on]

\* setFlags()' and deleteMessages()' handlers: the follow-up command is queued
\* through selectThenQueue() once more.
WriteDone ==
    /\ session /\ jobs # <<>> /\ Head0.cmd \in Writes /\ at # None
    /\ strayed' = IF Strays THEN {Stray} ELSE strayed
    /\ IF Head0.next = "none"
       THEN jobs' = Rest /\ UNCHANGED <<queuedFolder, queuedRW>>
       ELSE Queue(SelectThenQueue(Rest, queuedFolder, queuedRW, Head0.on,
                                  Command(Head0.next, Head0.on, "none")))
    /\ UNCHANGED <<session, at, selectedFolder, selectedRW, refusedSelect, misfiled>>

\* The server refuses the command.  After a STORE answered READ-ONLY,
\* noteWriteRefusal() distrusts the finished selection, not the queued one.
CommandRefused(readOnly) ==
    LET noted == readOnly /\ Head0.cmd = "STORE" /\ selectedFolder = Head0.on
    IN  /\ session /\ jobs # <<>> /\ Head0.cmd # "SELECT"
        /\ jobs' = Rest
        /\ selectedFolder' = IF noted THEN None ELSE selectedFolder
        /\ selectedRW' = (selectedRW /\ ~noted)
        /\ UNCHANGED <<session, at, queuedFolder, queuedRW, refusedSelect, strayed, misfiled>>

\* Mutant: the answer is taken to be of the folder it was asked for.
SessionHasSelectedAsked(f) == TRUE

\* ImapBackend::sessionHasSelected() for this session.
SessionHasSelected(f) == selectedFolder = f

\* ImapBackend::runHeaderFetch() and startBodyFetchJob(): what arrives is filed
\* under the folder asked for, provided the client believes it to be the
\* selected one; the FETCH of the texts still owed goes to the end of the queue.
MessagesArrive ==
    /\ Runs("FETCH") /\ at # None
    /\ misfiled' = (misfiled \/ (SessionHasSelected(Head0.on) /\ at # Head0.on))
    /\ \/ jobs' = Rest
       \/ Head0.next = "TEXT" /\ SessionHasSelected(Head0.on)
          /\ jobs' = Append(Rest, Command("FETCH", Head0.on, "none"))
    /\ UNCHANGED <<session, at, client, refusedSelect, strayed>>

\* ImapBackend::closeSessions(), for a lost connection or a deliberate end: what
\* was queued fails, and nothing is known to be selected any more.
CloseSessions ==
    /\ session /\ session' = FALSE
    /\ jobs' = <<>> /\ at' = None /\ refusedSelect' = None
    /\ queuedFolder' = None /\ queuedRW' = FALSE
    /\ selectedFolder' = None /\ selectedRW' = FALSE
    /\ UNCHANGED <<strayed, misfiled>>

\* ImapBackend::connectAccount() and its login.
Connect == ~session /\ session' = TRUE
           /\ UNCHANGED <<jobs, at, client, refusedSelect, strayed, misfiled>>

Next == \/ \E f \in Folders : \/ \E next \in {"none", "STORE", "EXPUNGE"} : StoreFlags(f, next)
                              \/ MoveMessages(f)
                              \/ OpenFolder(f)
                              \/ FetchBodiesOnMainSession(f)
                              \/ \E b \in BOOLEAN : FetchHeaders(f, b)
        \/ \E rw \in BOOLEAN : SelectAnswered(rw)
        \/ SelectRefused
        \/ WriteDone
        \/ \E ro \in BOOLEAN : CommandRefused(ro)
        \/ MessagesArrive
        \/ CloseSessions
        \/ Connect

Spec == Init /\ [][Next]_mailboxVars

----------------------------------------------------------------------------
(* Properties.                                                             *)

TypeOK == /\ session \in BOOLEAN /\ jobs \in Seq(Job) /\ Len(jobs) <= MaxQueue
          /\ {at, queuedFolder, selectedFolder, refusedSelect} \subseteq Folders \cup {None}
          /\ queuedRW \in BOOLEAN /\ selectedRW \in BOOLEAN
          /\ strayed \subseteq [cmd : Writes, refused : BOOLEAN] /\ misfiled \in BOOLEAN

\* No other caller's SELECT leads a STORE or an EXPUNGE to another mailbox than
\* the one it was made for, however many are queued around it: both commands
\* name messages by numbers that mean other messages there (selectThenQueue,
\* deleteMessages).  Where one runs elsewhere all the same, the SELECT of its
\* own mailbox was refused and the server kept the previous one.
OnlyRefusalsStray == \A w \in strayed : w.cmd \in {"STORE", "EXPUNGE"} => w.refused

\* Does not hold of the code, see the findings.
\* The same without the exception: nothing in the write path asks whether its
\* SELECT succeeded, as runHeaderFetch() does for a FETCH.
WritesStayInPlace == \A w \in strayed : w.cmd \notin {"STORE", "EXPUNGE"}

\* Does not hold of the code, see the findings.
\* The same of a MOVE, which waits for its SELECT instead of being queued
\* behind it (moveMessages).  selectThenQueue() and withSyncSession() say why
\* that is not enough.
MovesStayInPlace == \A w \in strayed : w.cmd # "MOVE"

\* Headers and bodies are never stored under a folder they were not read from
\* (sessionHasSelected, runHeaderFetch, startBodyFetchJob).
MailIsOfItsFolder == ~misfiled

\* What the client believes to be selected is what the server has selected: the
\* test in sessionHasSelected(), and so MailIsOfItsFolder, rests on it.
BeliefIsTrue == selectedFolder # None => selectedFolder = at

\* Does not hold of the code, see the findings.
\* After a refused write the next one selects the mailbox anew
\* (noteWriteRefusal's comment): while the finished selection is distrusted the
\* queue must not be taken to be headed to that mailbox read-write with no
\* SELECT in it.
DistrustReselects ==
    (queuedFolder # None /\ selectedFolder = None /\ session)
        => \E i \in DOMAIN jobs : jobs[i].cmd = "SELECT"
=============================================================================
