----------------------------- MODULE FolderOps -----------------------------
(***************************************************************************)
(* Renaming, moving and deleting folders: made in the cache by a worker    *)
(* and in the tree at once, told to the server by the journal, undone when *)
(* it refuses, with changes to messages queued in between.  A path is a    *)
(* sequence of names; a mailbox is known by the path it has at first.      *)
(***************************************************************************)
EXTENDS Naturals, Sequences, FiniteSets

CONSTANTS Boxes, \* the mailboxes
          Leaves, Parents, \* names and parents the user thinks of
          MaxGestures, MaxRefusals \* bounds

FolderOpsAssumption == /\ IsFiniteSet(Boxes) /\ Boxes \subseteq Seq(STRING) /\ <<>> \notin Boxes
                       /\ Parents \subseteq Seq(STRING)
                       /\ MaxGestures \in Nat /\ MaxRefusals \in Nat

Inbox == <<"inbox">>
Trash == <<"trash">>
Gone  == <<>>

VARIABLES srv,    \* path of each mailbox on the server, or Gone
          rows,   \* cached mail: pairs of mailbox and the path it is filed under
          stored, \* account_folders
          tree,   \* the folder model
          open,   \* m_selectedFolder
          shown,  \* the mailboxes whose mail it lists
          queue,  \* live folder and message ops of the journal, in id order
          jobs,   \* m_folderOpThread; a second one shares its slot
          tangled,\* history: names no longer say whose mail is meant, see below
          missed, \* history: a change was sent for another folder than its mail's
          gestures, refusals

vars == <<srv, rows, stored, tree, open, shown, queue, jobs, tangled, missed, gestures, refusals>>

Paths == {p \in {srv[b] : b \in Boxes} : p # Gone} \cup {Inbox, Trash}

Init == /\ srv = [b \in Boxes |-> b] /\ rows = {<<b, b>> : b \in Boxes}
        /\ stored = Paths /\ tree = Paths /\ open = Inbox /\ shown = {}
        /\ queue = <<>> /\ jobs = <<>> /\ tangled = FALSE /\ missed = FALSE
        /\ gestures = MaxGestures /\ refusals = MaxRefusals

Under(p, root) == Len(root) <= Len(p) /\ SubSeq(p, 1, Len(root)) = root
\* MailStore::renameFolderOn(): the folder and everything below it.
Repath(p, from, to) == IF Under(p, from) THEN to \o SubSeq(p, Len(from) + 1, Len(p)) ELSE p

\* MailClient::folderDisplayParent(): the nearest ancestor that is a mailbox.
DisplayParent(p) == LET above == {n \in 0 .. Len(p) - 1 : n = 0 \/ SubSeq(p, 1, n) \in tree}
                    IN  SubSeq(p, 1, CHOOSE n \in above : \A k \in above : k <= n)
DisplayLeaf(p)   == SubSeq(p, Len(DisplayParent(p)) + 1, Len(p))
FolderLeaf(p)    == p[Len(p)]
Protected(p)     == p \in {Inbox, Trash}

FolderSubtree(p) == {q \in tree : Under(q, p)}
\* Every folder before the one it is in; std::sort() leaves the rest open.
DeepestFirst(S) == {q \in [1 .. Cardinality(S) -> S] :
                      \A i, j \in DOMAIN q : i < j => ~Under(q[j], q[i])}
FreeChildPath(parent, leaf) ==
    LET path(name) == Append(parent, name)
    IN  IF path(leaf) \notin tree THEN path(leaf) ELSE path(leaf \o "2")
DeleteIsPermanent(p) == Under(p, Trash)

\* MailClient::canMoveFolder()
CanMove(p, parent) ==
    /\ ~Protected(p) /\ p # parent /\ DisplayParent(p) # parent /\ ~Under(parent, p)
    /\ parent \in tree \cup {<<>>} /\ parent \o DisplayLeaf(p) \notin tree

Gesture == gestures > 0 /\ gestures' = gestures - 1 /\ UNCHANGED <<srv, tangled, missed, refusals>>

(***************************************************************************)
(* What leaves the names in the queue to stand for other mail than the     *)
(* user meant (tangled), besides a process that ends with a rename half    *)
(* done and a refused rename that later ones were made upon.               *)
(***************************************************************************)
\* A rename to a name that mail is filed, or listed, under: the two are merged.
Taken(p) == (\E r \in rows : Under(r[2], p)) \/ (shown # {} /\ Under(open, p))
\* Mail synced below a folder that a queued rename, or one being undone, moves:
\* journalFolders() names the folder and not what is below it.
Unsettled(p) ==
    \/ \E i \in DOMAIN queue : /\ queue[i].op = "rename"
                              /\ (Under(p, queue[i].folder) \/ Under(p, queue[i].to))
    \/ \E i \in DOMAIN jobs : jobs[i].then = "undo" /\ Under(p, jobs[i].from)
\* A rename answered "no such folder" where there are folders below the name.
Hollow(p) == \E b \in Boxes : srv[b] # Gone /\ Under(srv[b], p)

\* MaintenanceScheduler::renameCachedFolder() and purgeCachedFolders().
Rekey(from, to, then) == jobs' = Append(jobs, [does |-> "key", from |-> from, to |-> to, then |-> then])
Purge(p)              == jobs' = Append(jobs, [does |-> "purge", from |-> p, to |-> p, then |-> "nothing"])

\* MailClient::renameFolderOnServer(): the op is queued when the worker is done.
RenameOnServer(p, to) == /\ Rekey(p, to, "queue")
                         /\ UNCHANGED <<rows, stored, tree, open, shown, queue>>

----------------------------------------------------------------------------
MoveFolder(p, parent) == /\ p \in tree /\ CanMove(p, parent) /\ Gesture
                         /\ RenameOnServer(p, parent \o DisplayLeaf(p))

RenameFolder(p, leaf) ==
    LET to == Append(DisplayParent(p), leaf) IN
    /\ p \in tree /\ ~Protected(p) /\ to \notin tree
    /\ Gesture /\ RenameOnServer(p, to)

OpenAt(p, r) == open' = p /\ shown' = {b \in Boxes : <<b, p>> \in r}

\* MailClient::dropFoldersFromTree()
DropFromTree(gone) ==
    /\ stored' = stored \ gone /\ tree' = stored \ gone
    /\ IF open \in gone THEN OpenAt(Inbox, rows) ELSE UNCHANGED <<open, shown>>

\* MailClient::deleteFolder(): into the trash, or for good and deepest first.
DeleteFolder(p) ==
    /\ p \in tree /\ ~Protected(p) /\ Gesture
    /\ \/ ~DeleteIsPermanent(p) /\ RenameOnServer(p, FreeChildPath(Trash, FolderLeaf(p)))
       \/ /\ DeleteIsPermanent(p) /\ DropFromTree(FolderSubtree(p))
          /\ \E doomed \in DeepestFirst(FolderSubtree(p)) :
               queue' = queue \o [i \in DOMAIN doomed |-> [op |-> "delete", folder |-> doomed[i]]]
          /\ UNCHANGED <<rows, jobs>>

\* The open folder's name may be about to be undone.
Undoing == \E i \in DOMAIN jobs : jobs[i].then = "undo"

\* A change to a message of mailbox b, listed in the open folder.
Change(b) ==
    /\ b \in shown /\ Gesture
    /\ queue' = Append(queue, [op |-> "change", folder |-> open, box |-> b,
                               late |-> Undoing])
    /\ UNCHANGED <<rows, stored, tree, open, shown, jobs>>

OpenFolder(p) == /\ p \in tree /\ p # open /\ OpenAt(p, rows)
                 /\ UNCHANGED <<srv, rows, stored, tree, queue, jobs, tangled, missed, gestures, refusals>>

----------------------------------------------------------------------------
(* The worker.                                                             *)

Committed(job) == IF job.does = "key" THEN {<<r[1], Repath(r[2], job.from, job.to)>> : r \in rows}
                  ELSE {r \in rows : r[2] # job.from}
Restored(job)  == IF job.does = "key" THEN {Repath(p, job.from, job.to) : p \in stored} ELSE stored

\* The worker ends: MailClient::renameFolderPaths(), and the op is queued.
JobDone ==
    LET job == jobs[1] IN
    /\ Len(jobs) = 1 /\ jobs' = <<>>
    /\ rows' = Committed(job) /\ stored' = Restored(job)
    /\ tree' = IF job.does = "key" THEN stored' ELSE tree
    /\ IF job.does = "key" /\ Under(open, job.from)
       THEN OpenAt(Repath(open, job.from, job.to), Committed(job)) ELSE UNCHANGED <<open, shown>>
    /\ queue' = IF job.then # "queue" THEN queue
                ELSE Append(queue, [op |-> "rename", folder |-> job.from, to |-> job.to])
    /\ tangled' = (tangled \/ (job.then = "queue" /\ Taken(job.to)))
    /\ UNCHANGED <<srv, missed, gestures, refusals>>

\* The process ends with work in hand, at the user's wish or because two jobs
\* met: the slot of the first deletes the running thread of the second.  What
\* was committed stays, and nothing follows it.
Ended == /\ ~tangled /\ jobs # <<>> /\ jobs' = <<>> /\ tangled' = TRUE \* bound: once
         /\ \/ rows' = Committed(jobs[1]) /\ stored' = Restored(jobs[1])
            \/ UNCHANGED <<rows, stored>>
         /\ tree' = stored' /\ OpenAt(Inbox, rows')
         /\ UNCHANGED <<srv, queue, missed, gestures, refusals>>

----------------------------------------------------------------------------
(* The server.                                                             *)

\* MailClient::applyFolderListing(): the tree is what the server says.
Listing == /\ tree # Paths \/ stored # Paths
           /\ stored' = Paths /\ tree' = Paths
           /\ OpenAt(IF open \in Paths THEN open ELSE Inbox, rows)
           /\ UNCHANGED <<srv, rows, queue, jobs, tangled, missed, gestures, refusals>>

\* Headers of a folder no op waits for (folderHasPendingOps).
Sync(p) ==
    /\ p \in tree \cap Paths /\ \A i \in DOMAIN queue : p # queue[i].folder /\ (queue[i].op = "rename" => p # queue[i].to)
    /\ rows' = {r \in rows : r[2] # p} \cup {<<b, p>> : b \in {c \in Boxes : srv[c] = p}}
    /\ rows' # rows /\ shown' = IF open = p THEN {b \in Boxes : <<b, p>> \in rows'} ELSE shown
    /\ tangled' = (tangled \/ Unsettled(p))
    /\ UNCHANGED <<srv, stored, tree, open, queue, jobs, missed, gestures, refusals>>

Exists(p) == p \in Paths

\* What no server does: a name taken, a folder inside itself, a parent deleted
\* before its children.
MustRefuse(op) == /\ Exists(op.folder)
                  /\ \/ op.op = "rename" /\ (Exists(op.to) \/ Under(op.to, op.folder))
                     \/ op.op = "delete" /\ \E p \in Paths : p # op.folder /\ Under(p, op.folder)

\* An op of the queue is sent and confirmed (MailClient::confirmJournalOp), or
\* what it names is not there, which counts as done already.
Confirm ==
    LET op == Head(queue) IN
    /\ queue # <<>> /\ ~MustRefuse(op) /\ queue' = Tail(queue)
    /\ \/ /\ op.op = "change"
          /\ missed' = (missed \/ (~op.late /\ ~tangled /\ srv[op.box] # op.folder /\ srv[op.box] # Gone))
          /\ UNCHANGED <<srv, jobs, tangled>>
       \/ /\ op.op = "rename" /\ Exists(op.folder)
          /\ srv' = [b \in Boxes |-> IF srv[b] = Gone THEN Gone ELSE Repath(srv[b], op.folder, op.to)]
          /\ UNCHANGED <<jobs, tangled, missed>>
       \/ /\ op.op = "delete" /\ Exists(op.folder)
          /\ srv' = [b \in Boxes |-> IF srv[b] = op.folder THEN Gone ELSE srv[b]]
          /\ Purge(op.folder) /\ UNCHANGED <<tangled, missed>>
       \/ /\ op.op \in {"rename", "delete"} /\ ~Exists(op.folder)
          /\ tangled' = (tangled \/ (op.op = "rename" /\ Hollow(op.folder)))
          /\ UNCHANGED <<srv, jobs, missed>>
    /\ UNCHANGED <<rows, stored, tree, open, shown, gestures, refusals>>

\* Mutant: only ops on the folder itself are pointed back.
RewriteFolderOnly(ops, from, to) ==
    [i \in DOMAIN ops |-> IF ops[i].folder = from THEN [ops[i] EXCEPT !.folder = to] ELSE ops[i]]

\* MailStore::rewriteJournalFolder()
RewriteJournalFolder(ops, from, to) ==
    [i \in DOMAIN ops |->
        IF ops[i].op = "rename"
        THEN [ops[i] EXCEPT !.folder = Repath(@, from, to), !.to = Repath(@, from, to)]
        ELSE [ops[i] EXCEPT !.folder = Repath(@, from, to)]]

\* It is refused for good: MailClient::rollbackJournalOp() of a folder op.
Refuse ==
    LET op == Head(queue) IN
    /\ queue # <<>> /\ op.op \in {"rename", "delete"} /\ Exists(op.folder)
    /\ IF MustRefuse(op) THEN UNCHANGED refusals ELSE refusals > 0 /\ refusals' = refusals - 1
    /\ \/ /\ op.op = "rename" /\ Rekey(op.to, op.folder, "undo")
          /\ queue' = RewriteJournalFolder(Tail(queue), op.to, op.folder)
          /\ tangled' = (tangled \/ \E i \in 2 .. Len(queue) : queue[i].op = "rename")
          /\ UNCHANGED <<stored, tree>>
       \/ /\ op.op = "delete" /\ queue' = Tail(queue)
          /\ stored' = stored \cup {op.folder} /\ tree' = stored' /\ UNCHANGED <<jobs, tangled>>
    /\ UNCHANGED <<srv, rows, open, shown, missed, gestures>>

Next == \/ \E p \in tree : \/ \E q \in Parents : MoveFolder(p, q)
                           \/ \E n \in Leaves : RenameFolder(p, n)
                           \/ DeleteFolder(p) \/ OpenFolder(p) \/ Sync(p)
        \/ \E b \in Boxes : Change(b)
        \/ JobDone \/ Ended \/ Listing \/ Confirm \/ Refuse

----------------------------------------------------------------------------
\* However folders are renamed, moved, deleted and undone under them, queued
\* changes are sent for the folder that holds their mail on the server
\* (rewriteJournalFolder and the order of the journal), except those made while a
\* refused rename is being undone, and as long as nothing has tangled the names.
ChangesReachTheirFolder == ~missed

\* Does not hold of the code, see the findings.
\* "one maintenance worker at a time" (MaintenanceScheduler::renameCachedFolder).
OneFolderJob == Len(jobs) < 2

\* Does not hold of the code, see the findings.
\* "That copy is what a rollback restores from": mail is purged only for a
\* mailbox the server no longer has (confirmJournalOp, purgeCachedFolders).
PurgedIsGone == \A i \in DOMAIN jobs : jobs[i].does = "purge" =>
                  \A r \in rows : r[2] = jobs[i].from => srv[r[1]] = Gone
=============================================================================
