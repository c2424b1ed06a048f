----------------------------- MODULE Maintenance -----------------------------
(***************************************************************************)
(* The workers of maintenancescheduler.cpp that share the cache with the   *)
(* client: the body writer, the attachment migration, the purge of the     *)
(* archive, a folder job, the index rebuild, the one-time migrations, the  *)
(* compaction that wants the rest of them out of the way, and the recount  *)
(* of the unread pills.  A worker is its thread pointer; what it commits   *)
(* is told apart only as made before or after the compaction's snapshot.   *)
(***************************************************************************)
EXTENDS Naturals, FiniteSets

CONSTANTS MaxBodies, MaxReclaims, MaxLaunches, MaxCounts  \* bounds

MaintenanceAssumption == {MaxBodies, MaxReclaims, MaxLaunches, MaxCounts} \subseteq Nat

VARIABLES writer,     \* the body writer: "none", "running", "flushing" or "finished"
          stop,       \* m_bodyWriterStop
          bodies,     \* length of m_bodyWriteQueue
          reclaim,    \* "no", "waiting" for the writers, "copying", "copied" or "failed"
          paused,     \* the sync engine is paused for maintenance
          reindex,    \* m_reindexTimer runs
          batch,      \* m_reindexThread has bodies to index
          workers,    \* running threads of {"attach", "purge", "folder", "index"}
          cancelled,  \* ... that were asked to stop
          migration,  \* "none", "light" (recipients only) or "quiet" (writers pause)
          todo,       \* what the cache still lacks, persistent
          due,        \* single-shot timers of the launch
          after,      \* something was committed after the snapshot
          lost,       \* history: ... and the compacted file was swapped in
          recount     \* m_unreadThread and what the pills lack

VARIABLES launches, reclaims, fetched, counts

cvars == <<recount, counts>>
vars == <<writer, stop, bodies, reclaim, paused, reindex, batch, workers, cancelled,
          migration, todo, due, after, lost, recount, launches, reclaims, fetched, counts>>
bound == <<launches, reclaims, fetched>>
writing == <<writer, stop, bodies>>
background == <<workers, cancelled>>
oneTime == <<migration, todo, due>>

Jobs == {"steps", "recipients", "attach", "archive", "index"}
NoCount == [thread |-> "none", again |-> FALSE, debounce |-> FALSE, behind |-> FALSE]

Launch == /\ writer = "none" /\ stop = FALSE /\ bodies = 0 /\ reclaim = "no" /\ paused = FALSE
          /\ reindex = TRUE /\ batch = FALSE /\ workers = {} /\ cancelled = {}
          /\ migration = "none" /\ due = {"migrations"} /\ after = FALSE /\ recount = NoCount

Init == /\ Launch /\ todo \in SUBSET Jobs /\ lost = FALSE
        /\ launches = 0 /\ reclaims = 0 /\ fetched = 0 /\ counts = 0

\* A commit to the file at the cache's path; VACUUM INTO has read it by then.
Commit == after' = (after \/ reclaim \in {"copying", "copied"})
Reclaiming == reclaim # "no"

----------------------------------------------------------------------------
(* The body writer.                                                        *)

Start == writer' = "running" /\ stop' = FALSE

\* Mutant: a compaction waiting for the writer does not hold it back.
ReviveAnyway(reclaiming, n) ==
    \/ /\ writer \in {"none", "finished"} /\ n > 0 /\ Start
    \/ /\ writer \in {"none", "finished"} /\ n = 0 /\ writer' = "none" /\ UNCHANGED stop
    \/ /\ writer \in {"running", "flushing"} /\ UNCHANGED <<writer, stop>>

Revive(reclaiming, n) ==
    \/ /\ ~reclaiming /\ writer \in {"none", "finished"} /\ n > 0 /\ Start
    \/ /\ ~reclaiming /\ writer \in {"none", "finished"} /\ n = 0 /\ writer' = "none" /\ UNCHANGED stop
    \/ /\ reclaiming \/ writer \in {"running", "flushing"}
       /\ UNCHANGED <<writer, stop>>

QueueBodyWrite ==
    /\ fetched < MaxBodies /\ fetched' = fetched + 1
    /\ bodies' = bodies + 1 /\ Revive(Reclaiming, bodies')
    /\ UNCHANGED <<reclaim, paused, reindex, batch, background, oneTime, after, lost, cvars, launches, reclaims>>

\* What has piled up goes in one transaction; when asked to stop, the writer
\* takes the rest, commits it and is finished some time later.
WriteBatch ==
    /\ writer = "running" /\ (stop \/ bodies > 0)
    /\ bodies' = 0
    /\ IF stop THEN writer' = "flushing" /\ UNCHANGED after ELSE Commit /\ UNCHANGED writer
    /\ UNCHANGED <<stop, reclaim, paused, reindex, batch, background, oneTime, lost, cvars, bound>>

WriterFinished ==
    /\ writer = "flushing" /\ writer' = "finished" /\ Commit
    /\ UNCHANGED <<stop, bodies, reclaim, paused, reindex, batch, background, oneTime, lost, cvars, bound>>

AskWriterToStop == stop' = (stop \/ writer # "none")

----------------------------------------------------------------------------
(* Compaction.                                                             *)

ReclaimDiskSpace ==
    /\ ~Reclaiming /\ reclaims < MaxReclaims /\ reclaims' = reclaims + 1
    /\ reclaim' = "waiting" /\ paused' = TRUE /\ reindex' = FALSE
    /\ cancelled' = cancelled \cup (workers \cap {"attach", "purge"}) /\ AskWriterToStop
    /\ UNCHANGED <<writer, bodies, batch, workers, oneTime, after, lost, cvars, launches, fetched>>

WritersIdle == workers \cap {"attach", "purge"} = {} /\ writer \in {"none", "finished"}

StartVacuum ==
    /\ reclaim = "waiting" /\ WritersIdle
    /\ writer' = "none" /\ reclaim' = "copying" /\ after' = FALSE
    /\ UNCHANGED <<stop, bodies, paused, reindex, batch, background, oneTime, lost, cvars, bound>>

\* MailStore::vacuumInto() ends, or runs out of disk.
Vacuumed(ok) ==
    /\ reclaim = "copying" /\ reclaim' = (IF ok THEN "copied" ELSE "failed")
    /\ UNCHANGED <<writing, paused, reindex, batch, background, oneTime, after, lost, cvars, bound>>

\* startAllMailPurge() and startAttachmentMigration(), m_reclaiming as given.
Startable(reclaiming, job) ==
    /\ ~reclaiming /\ job \notin workers
    /\ CASE job = "purge" -> "archive" \in todo
         [] OTHER -> job \in todo
Begin(jobs) == workers' = workers \cup jobs /\ cancelled' = cancelled \ jobs

\* syncResumeRequested: the engine goes on, and so does the archive's purge.
Resume(reclaiming, more) ==
    /\ paused' = FALSE /\ reindex' = TRUE
    /\ Begin({j \in {"purge"} \cup more : Startable(reclaiming, j)})

\* The compacted file is renamed over the cache (MailStore::swapInCompacted).
SwapIn ==
    /\ reclaim \in {"copied", "failed"} /\ reclaim' = "no"
    /\ lost' = (lost \/ (reclaim = "copied" /\ after)) /\ after' = FALSE
    /\ Resume(FALSE, {"attach"})
    /\ UNCHANGED <<writing, batch, oneTime, cvars, bound>>

----------------------------------------------------------------------------
(* The other workers.                                                      *)

Work(job) ==
    /\ job \in workers /\ Commit
    /\ UNCHANGED <<writing, reclaim, paused, reindex, batch, background, oneTime, lost, cvars, bound>>

Done(job) == CASE job = "purge" -> {"archive"} [] OTHER -> {job}

\* The thread ends: done, or asked to stop between two slices.
WorkerEnds(job) ==
    /\ job \in workers
    /\ workers' = workers \ {job} /\ cancelled' = cancelled \ {job}
    /\ todo' = IF job \in cancelled THEN todo ELSE todo \ Done(job)
    /\ UNCHANGED <<writing, reclaim, paused, reindex, batch, migration, due, after, lost, cvars, bound>>

\* A listing arrives with an archive to drop; a folder was deleted or renamed;
\* a timer of the launch.
StartWorker(job) ==
    /\ \/ job = "purge" /\ Startable(Reclaiming, "purge") /\ UNCHANGED due
       \/ job = "folder" /\ "folder" \notin workers /\ UNCHANGED due
       \/ /\ job \in {"attach", "index"} \cap due /\ due' = due \ {job}
          /\ Startable(Reclaiming, job)
    /\ Begin({job})
    /\ UNCHANGED <<writing, reclaim, paused, reindex, batch, migration, todo, after, lost, cvars, bound>>
\* purgeCachedFolders() joins the archive's purge, which has the same connection.
PurgeFolders ==
    /\ "purge" \in workers /\ "folder" \notin workers
    /\ workers' = (workers \ {"purge"}) \cup {"folder"} /\ cancelled' = cancelled \ {"purge"}
    /\ UNCHANGED <<writing, reclaim, paused, reindex, batch, oneTime, after, lost, cvars, bound>>
TooLate(job) ==
    /\ job \in due \cap {"attach", "index"} /\ ~Startable(Reclaiming, job) /\ due' = due \ {job}
    /\ UNCHANGED <<writing, reclaim, paused, reindex, batch, background, migration, todo, after, lost, cvars, bound>>

\* A batch is read and parsed by a thread; the client writes what it found.
ReindexPendingBodies ==
    /\ reindex /\ ~batch /\ ~Reclaiming
    /\ \/ batch' = TRUE /\ UNCHANGED reindex
       \/ reindex' = FALSE /\ UNCHANGED batch
    /\ UNCHANGED <<writing, reclaim, paused, background, oneTime, after, lost, cvars, bound>>
FinishBodyIndexBatch ==
    /\ batch /\ batch' = FALSE /\ Commit
    /\ UNCHANGED <<writing, reclaim, paused, reindex, background, oneTime, lost, cvars, bound>>

\* The client writes whenever it likes: the outbox, the journal, the flags.
ClientWrites ==
    /\ ~after /\ Commit /\ after'
    /\ UNCHANGED <<writing, reclaim, paused, reindex, batch, background, oneTime, lost, cvars, bound>>

----------------------------------------------------------------------------
(* One-time migrations.                                                    *)

\* cacheMigrationsFinished: the two long jobs are next.
Finished(left) == due' = (due \ {"migrations"}) \cup ({"attach", "index"} \cap left)

StartCacheMigrations ==
    /\ "migrations" \in due /\ migration = "none"
    /\ IF todo \cap {"steps", "recipients"} = {}
       THEN Finished(todo) /\ UNCHANGED <<migration, paused, reindex, stop>>
       ELSE /\ due' = due \ {"migrations"}
            /\ migration' = IF "steps" \in todo THEN "quiet" ELSE "light"
            /\ IF "steps" \in todo THEN paused' = TRUE /\ reindex' = FALSE /\ AskWriterToStop
               ELSE UNCHANGED <<paused, reindex, stop>>
    /\ UNCHANGED <<writer, bodies, reclaim, batch, background, todo, after, lost, cvars, bound>>

MigrationCommits ==
    /\ migration # "none" /\ Commit
    /\ UNCHANGED <<writing, reclaim, paused, reindex, batch, background, oneTime, lost, cvars, bound>>

\* Mutant: no connection, no migration, and the sync stays paused.
MigrationsSkippedQuietly ==
    /\ migration # "none" /\ migration' = "none" /\ Finished(todo)
    /\ UNCHANGED <<writing, reclaim, paused, reindex, batch, background, todo, after, lost, cvars, bound>>

\* The worker has no connection: the writers are let back in all the same.
MigrationsSkipped ==
    /\ migration # "none" /\ migration' = "none" /\ Finished(todo)
    /\ IF migration = "quiet" THEN Resume(Reclaiming, {}) ELSE UNCHANGED <<paused, reindex, background>>
    /\ UNCHANGED <<writing, reclaim, batch, todo, after, lost, cvars, bound>>

MigrationsDone ==
    LET left == todo \ {"steps", "recipients"} IN
    /\ migration # "none" /\ migration' = "none" /\ todo' = left /\ Finished(left)
    /\ IF migration = "quiet"
       THEN Resume(Reclaiming, {}) /\ Revive(Reclaiming, bodies)
       ELSE UNCHANGED <<paused, reindex, background, writer, stop>>
    /\ UNCHANGED <<bodies, reclaim, batch, after, lost, cvars, bound>>

\* The destructor joins every worker, in the middle of its work; the next
\* launch finds what was committed, and a half-made copy is thrown away.
Quit ==
    /\ launches < MaxLaunches /\ launches' = launches + 1
    /\ writer' = "none" /\ stop' = FALSE /\ bodies' = 0 /\ reclaim' = "no" /\ paused' = FALSE
    /\ reindex' = TRUE /\ batch' = FALSE /\ workers' = {} /\ cancelled' = {}
    /\ migration' = "none" /\ due' = {"migrations"} /\ after' = FALSE /\ recount' = NoCount
    /\ UNCHANGED <<todo, lost, reclaims, fetched, counts>>

----------------------------------------------------------------------------
(* The unread pills, counted by a thread 700 ms after the last change.     *)

Recounting == UNCHANGED <<writing, reclaim, paused, reindex, batch, background, oneTime, after, lost, bound>>

\* A flag changes in the cache and scheduleUnreadRecount() is called.
UnreadChanged ==
    /\ counts < MaxCounts /\ counts' = counts + 1
    /\ recount' = [recount EXCEPT !.debounce = TRUE, !.behind = TRUE,
                                  !.thread = IF @ = "read" THEN "stale" ELSE @]
    /\ Recounting

StartUnreadRecount ==
    /\ recount.debounce
    /\ recount' = IF recount.thread # "none" THEN [recount EXCEPT !.debounce = FALSE, !.again = TRUE]
                  ELSE [recount EXCEPT !.debounce = FALSE, !.thread = "reading"]
    /\ UNCHANGED counts /\ Recounting
UnreadRead ==
    /\ recount.thread = "reading" /\ recount' = [recount EXCEPT !.thread = "read"]
    /\ UNCHANGED counts /\ Recounting

\* Mutant: a change made while the thread counted is not counted again.
RecountDoneOnce ==
    /\ recount.thread \in {"read", "stale"}
    /\ recount' = [recount EXCEPT !.thread = "none", !.again = FALSE,
                                  !.behind = @ /\ recount.thread = "stale"]
    /\ UNCHANGED counts /\ Recounting
RecountDone ==
    /\ recount.thread \in {"read", "stale"}
    /\ recount' = [recount EXCEPT !.thread = "none", !.again = FALSE,
                                  !.debounce = @ \/ recount.again,
                                  !.behind = @ /\ recount.thread = "stale"]
    /\ UNCHANGED counts /\ Recounting

Workers ==
    \/ QueueBodyWrite \/ WriteBatch \/ WriterFinished
    \/ ReclaimDiskSpace \/ StartVacuum \/ SwapIn \/ \E ok \in BOOLEAN : Vacuumed(ok)
    \/ \E job \in {"attach", "purge", "folder", "index"} :
          Work(job) \/ WorkerEnds(job) \/ StartWorker(job) \/ TooLate(job)
    \/ PurgeFolders \/ ReindexPendingBodies \/ FinishBodyIndexBatch \/ ClientWrites
    \/ StartCacheMigrations \/ MigrationCommits \/ MigrationsSkipped \/ MigrationsDone \/ Quit
Pills == UnreadChanged \/ StartUnreadRecount \/ UnreadRead \/ RecountDone

Next == Workers \/ Pills
Spec == Init /\ [][Next]_vars

----------------------------------------------------------------------------
\* "A VACUUM needs every other writer *finished*, not merely asked to stop":
\* while it copies, nothing brings one of the three back (reviveBodyWriter,
\* startAttachmentMigration, startAllMailPurge).
CompactionIsQuiet == reclaim \in {"copying", "copied"} => WritersIdle /\ writer = "none"

\* Whoever paused the sync lets it go on, however it ended (reclaimDiskSpace,
\* startCacheMigrations).
SyncComesBack == ~Reclaiming /\ migration # "quiet" => ~paused

\* No pill is behind the cache with nothing on its way to count it again
\* (startUnreadRecount).
PillsCatchUp == recount.behind => recount.debounce \/ recount.again \/ recount.thread \in {"reading", "read"}

\* Does not hold of the code, see the findings.
\* "GUI thread only, and only with every worker stopped" (mailstore.h): the
\* compacted file has everything that was committed to the one it replaces.
CompactionKeepsWrites == ~lost
=============================================================================
