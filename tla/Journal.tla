------------------------------- MODULE Journal -------------------------------
(***************************************************************************)
(* The offline-first write path of MailClient: the journal table, the      *)
(* cached rows it is provisional about, and the server it is replayed to.  *)
(*                                                                         *)
(* A user's change is made in the cache at once and recorded as a row of   *)
(* the journal; drainJournal() replays the rows one at a time in id order, *)
(* and finishJournalOp() confirms, forgets, defers, retries or retires the *)
(* row by the error the backend answers with.  A retired row is undone     *)
(* together with the later rows that depend on it.                         *)
(*                                                                         *)
(* One account is modelled.  A message is the cached row it has in its     *)
(* home mailbox; after a move the server files it under a new name, so the *)
(* arrival elsewhere is not one of these rows any more.                    *)
(***************************************************************************)
EXTENDS Naturals, FiniteSets

CONSTANTS
    Msgs,               \* messages, each named by its uid in its home mailbox
    Folders,            \* mailboxes
    NoFolder,           \* the empty target of an op that is not a move
    HomeOf,             \* [Msgs -> Folders]: where each message is filed
    Kinds,              \* the kinds of change the user makes
    MaxNamed,           \* how many messages one gesture may select
    MaxOps,             \* how many ops the user makes in a behaviour
    kJournalMaxTries,   \* refusals before an op is given up on (3 in the code)
    Proto,              \* which backend answers: "imap" or "jmap"
    Chunked,            \* a JMAP server limits maxObjectsInSet below MaxNamed
    Forbidden,          \* messages whose mailbox a JMAP server answers "forbidden" for
    Budget              \* how often each fault of Faults happens, and "any" of them

FlagKinds    == {"seen", "unseen", "forwarded"}
RemovalKinds == {"move", "delete"}
Flags        == {"seen", "forwarded"}
Faults       == {"drop", "refuse", "throttle", "switch", "restart", "crash", "week",
                 "retry", "foreign", "nospace"}
Errors       == {"None", "Auth", "Connection", "Throttled", "NotFound", "Protocol"}
Ids          == 1..MaxOps

ASSUME JournalAssumption ==
    /\ IsFiniteSet(Msgs) /\ HomeOf \in [Msgs -> Folders]
    /\ NoFolder \notin Folders
    /\ Kinds \subseteq FlagKinds \cup RemovalKinds
    /\ MaxNamed \in Nat /\ MaxOps \in Nat /\ kJournalMaxTries \in Nat \ {0}
    /\ Proto \in {"imap", "jmap"} /\ Chunked \in BOOLEAN
    /\ Forbidden \subseteq Msgs
    /\ Budget \in [Faults \cup {"any"} -> Nat]

VARIABLES
    \* the server
    where,      \* [Msgs -> {"home", "moved", "gone"}]
    srvFlags,   \* [Msgs -> SUBSET Flags]
    defied,     \* history: messages a change of which was taken back that it had made
    \* the cache (mail.db)
    cached,     \* messages that have a row
    hidden,     \* rows with soft_deleted = 1
    flags,      \* [Msgs -> SUBSET Flags], the seen and forwarded columns
    journal,    \* the journal table, a set of Op records
    nextId,     \* what AUTOINCREMENT hands out next
    \* MailClient's memory
    open,       \* this account is the one on screen
    connected,  \* connected()
    inFlight,   \* m_journalInFlight; 0 when m_journalBusy is false
    pending,    \* m_journalPending, the count the UI shows
    timer,      \* a drainJournal() single shot is armed
    resync,     \* the drain asked the sync engine for another pass
    \* the backend's connection
    wire,       \* requests sent, with the answer once the server gave one
    budget      \* faults still allowed

server  == <<where, srvFlags, defied>>
cache   == <<cached, hidden, flags>>
table   == <<journal, nextId>>
memory  == <<open, connected, inFlight, pending, timer, resync>>
vars    == <<server, cache, table, memory, wire, budget>>

Op == [id : Ids, kind : FlagKinds \cup RemovalKinds, folder : Folders,
       target : Folders \cup {NoFolder}, names : SUBSET Msgs,
       tries : Nat, old : BOOLEAN, retired : BOOLEAN]

\* A request the backend holds a callback for; "previous" once an account
\* switch has stopped waiting for it.
Request == [op : Op, answer : Errors \cup {"awaited"}, leg : {"current", "previous"}]

TypeOK ==
    /\ where \in [Msgs -> {"home", "moved", "gone"}]
    /\ srvFlags \in [Msgs -> SUBSET Flags]
    /\ defied \subseteq Msgs
    /\ cached \subseteq Msgs
    /\ hidden \subseteq cached
    /\ flags \in [Msgs -> SUBSET Flags]
    /\ journal \subseteq Op /\ IsFiniteSet(journal)
    /\ nextId \in 1..(MaxOps + 1)
    /\ open \in BOOLEAN
    /\ connected \in BOOLEAN
    /\ inFlight \in 0..MaxOps
    /\ pending \in Nat
    /\ timer \in BOOLEAN
    /\ resync \in BOOLEAN
    /\ wire \subseteq Request
    /\ budget \in [Faults \cup {"any"} -> Nat]

-----------------------------------------------------------------------------
(* The journal table, as MailStore reads and writes it.                     *)

\* journalOps(): the rows still to be replayed.
Live(j) == {o \in j : ~o.retired}

\* journalSelect(... ORDER BY id): the two ends of the order.
Newest(T) == CHOOSE o \in T : \A p \in T : p.id <= o.id
Oldest(T) == CHOOSE o \in T : \A p \in T : o.id <= p.id

\* takeStaleJournalOps(): live rows queued before the seven-day cutoff.
Stale(j) == {o \in Live(j) : o.old}

\* rewriteJournalIds() called with no new names: every later live op of the
\* mailbox the move emptied is unnameable.
Unnameable(j, op) == {o \in Live(j) : o.id > op.id /\ o.folder = op.folder}

\* Mutant of Chain: the failed op comes back alone.
OnlyTheFailedOp(j, op) == {o \in j : o.id = op.id}

\* retireJournalOp()'s chain: the op and the later live ops of the same
\* mailbox that name one of its messages.
Chain(j, op) ==
    {o \in j : o.id = op.id}
    \cup {o \in Live(j) : o.id > op.id /\ o.folder = op.folder /\ o.names \cap op.names # {}}

Retired(j, T) == {IF o \in T THEN [o EXCEPT !.retired = TRUE] ELSE o : o \in j}
Dropped(j, id) == {o \in j : o.id # id}

-----------------------------------------------------------------------------
(* What an op does to the cache, and what undoing it does.                  *)

FlagOf(kind)  == IF kind = "forwarded" THEN "forwarded" ELSE "seen"
Sets(kind)    == kind # "unseen"

\* The flag ops of T that name m with this flag.
Naming(T, m, flag) ==
    {o \in T : o.kind \in FlagKinds /\ m \in o.names /\ FlagOf(o.kind) = flag}

\* The messages the removals of T hide.
Removed(T) == UNION {o.names : o \in {p \in T : p.kind \in RemovalKinds}}

\* applySeenLocally() and applyForwardedLocally(): one flag written on the
\* rows of S.
Marked(f, kind, S) ==
    [m \in Msgs |-> IF m \notin S THEN f[m]
                    ELSE IF Sets(kind) THEN f[m] \cup {FlagOf(kind)}
                    ELSE f[m] \ {FlagOf(kind)}]

\* Mutant of Undone: always in queue order, so the newest op decides.
UndoneInQueueOrder(f, T, first) ==
    [m \in Msgs |-> {flag \in Flags :
        LET ops == Naming(T, m, flag)
        IN  IF ops = {} THEN flag \in f[m] ELSE ~Sets(Newest(ops).kind)}]

\* rollbackJournalOp() over the ops of T, the newest or the oldest first.  Each
\* writes the complement of its flag, so the one rolled back last decides.
Undone(f, T, first) ==
    [m \in Msgs |-> {flag \in Flags :
        LET ops  == Naming(T, m, flag)
            last == IF first = "newest" THEN Oldest(ops) ELSE Newest(ops)
        IN  IF ops = {} THEN flag \in f[m] ELSE ~Sets(last.kind)}]

-----------------------------------------------------------------------------
Init ==
    /\ where = [m \in Msgs |-> "home"]
    /\ srvFlags \in [Msgs -> {{}, {"seen"}}]
    /\ defied = {}
    /\ cached = Msgs
    /\ hidden = {}
    /\ flags = srvFlags
    /\ journal = {}
    /\ nextId = 1
    /\ open = TRUE
    /\ connected = FALSE
    /\ inFlight = 0
    /\ pending = 0
    /\ timer = FALSE
    /\ resync = FALSE
    /\ wire = {}
    /\ budget = Budget

Spend(fault) ==
    /\ budget[fault] > 0 /\ budget["any"] > 0
    /\ budget' = [budget EXCEPT ![fault] = @ - 1, !["any"] = @ - 1]

\* drainJournal() past its guard, at the end of a handler that leaves the table as j, the
\* hidden rows as h, the flags as f, the shown count as shown and the requests
\* as w: expire what is too old, then send the first row or, with none left,
\* ask the sync engine to look again if the count still showed some.
Drain(j, h, f, shown, w) ==
    LET stale == Stale(j)
        left  == j \ stale
    IN  /\ journal' = left
        /\ hidden' = h \ Removed(stale)
        /\ flags' = Undone(f, stale, "newest")
        /\ IF Live(left) = {}
           THEN /\ inFlight' = 0
                /\ resync' = (resync \/ shown > 0)
                /\ pending' = 0
                /\ wire' = w
           ELSE LET next == Oldest(Live(left))
                IN  /\ inFlight' = next.id
                    /\ wire' = w \cup {[op |-> next, answer |-> "awaited", leg |-> "current"]}
                    /\ pending' = shown
                    /\ UNCHANGED resync

\* A handler that ends without a drain.
Rest(j, h, f, shown, w, busy) ==
    /\ journal' = j
    /\ hidden' = h
    /\ flags' = f
    /\ pending' = shown
    /\ wire' = w
    /\ inFlight' = busy
    /\ UNCHANGED resync

\* Mutant of CountAndDrain: the drain does not look at m_journalBusy.
CountAndDrainAlways(j, h, f, w, busy, up) ==
    LET shown == Cardinality(Live(j))
    IN  IF up THEN Drain(j, h, f, shown, w) ELSE Rest(j, h, f, shown, w, busy)

\* refreshJournalCounts(); drainJournal(): the drain returns at once while an
\* op is in flight (busy # 0) or there is no session (~up).
CountAndDrain(j, h, f, w, busy, up) ==
    LET shown == Cardinality(Live(j))
    IN  IF busy = 0 /\ up THEN Drain(j, h, f, shown, w) ELSE Rest(j, h, f, shown, w, busy)

-----------------------------------------------------------------------------
(* What the user does.                                                      *)

Visible(F) == {m \in cached \ hidden : HomeOf[m] = F}

\* The visible rows not yet in the state a mark asks for.
Changing(kind, F) == {m \in Visible(F) : (FlagOf(kind) \in flags[m]) # Sets(kind)}

NewOp(kind, F, target, S) ==
    [id |-> nextId, kind |-> kind, folder |-> F, target |-> target, names |-> S,
     tries |-> 0, old |-> FALSE, retired |-> FALSE]

\* journalAppend(): the row is inserted, or the insert fails and only a
\* message on screen says so.
Record(kind, F, target, S, h, f) ==
    /\ nextId <= MaxOps
    /\ \/ /\ nextId' = nextId + 1
          /\ CountAndDrain(journal \cup {NewOp(kind, F, target, S)}, h, f, wire, inFlight, connected)
          /\ UNCHANGED budget
       \/ /\ Spend("nospace")
          /\ Rest(journal, h, f, pending, wire, inFlight)
          /\ UNCHANGED nextId

\* markMessagesSeen(), markFolderRead() and markForwarded(): only the rows
\* not yet in the wanted state are written and named.
Mark(kind, F, S) ==
    /\ open
    /\ kind \in Kinds \cap FlagKinds
    /\ S \subseteq Changing(kind, F)
    /\ S # {}
    /\ Record(kind, F, NoFolder, S, hidden, Marked(flags, kind, S))
    /\ UNCHANGED <<server, cached, open, connected, timer>>

\* journalRemoval(): deleteMessages(), moveMessagesTo() and the spam gestures
\* hide the rows and record the op.
Remove(kind, F, target, S) ==
    /\ open
    /\ kind \in Kinds \cap RemovalKinds
    /\ (kind = "move") = (target # NoFolder)
    /\ target # F
    /\ S \subseteq Visible(F)
    /\ S # {}
    /\ Record(kind, F, target, S, hidden \cup S, flags)
    /\ UNCHANGED <<server, cached, open, connected, timer>>

\* Mutant of HiddenAgain: rows the cache no longer has are counted as hidden.
HiddenUnseen(op) == IF op.kind \in RemovalKinds THEN hidden \cup op.names ELSE hidden

\* reapplyJournalOp(): the rows hidden, the flags written once more.
HiddenAgain(op) ==
    IF op.kind \in RemovalKinds THEN hidden \cup (op.names \cap cached) ELSE hidden
MarkedAgain(op) ==
    IF op.kind \in FlagKinds THEN Marked(flags, op.kind, op.names \cap cached) ELSE flags

\* retryFailedChange(): made again in the cache, then put back in the queue
\* under the id it always had.
RetryFailedChange(op) ==
    /\ open
    /\ op \in journal /\ op.retired
    /\ Spend("retry")
    /\ LET revived == [op EXCEPT !.retired = FALSE, !.tries = 0, !.old = FALSE]
       IN  CountAndDrain((journal \ {op}) \cup {revived}, HiddenAgain(op), MarkedAgain(op),
                         wire, inFlight, connected)
    /\ UNCHANGED <<server, cached, nextId, open, connected, timer>>

\* discardFailedChange()
DiscardFailedChange(op) ==
    /\ open
    /\ op \in journal /\ op.retired
    /\ Rest(Dropped(journal, op.id), hidden, flags, Cardinality(Live(journal)), wire, inFlight)
    /\ UNCHANGED <<server, cached, nextId, open, connected, timer, budget>>

\* Mutant of DiscardAllFailedChanges: DELETE without AND retired = 1.
DiscardEverything ==
    /\ open
    /\ Live(journal) # journal
    /\ Rest({}, hidden, flags, 0, wire, inFlight)
    /\ UNCHANGED <<server, cached, nextId, open, connected, timer, budget>>

\* discardAllFailedChanges()
DiscardAllFailedChanges ==
    /\ open
    /\ Live(journal) # journal
    /\ Rest(Live(journal), hidden, flags, Cardinality(Live(journal)), wire, inFlight)
    /\ UNCHANGED <<server, cached, nextId, open, connected, timer, budget>>

-----------------------------------------------------------------------------
(* What the server does with a request it holds.                            *)

\* The messages of the op it can still act on: IMAP names a copy in its
\* mailbox, JMAP a message wherever it is.
Reachable(op) ==
    {m \in op.names : where[m] = "home" \/ (Proto = "jmap" /\ where[m] = "moved")}

ApplyAtServer(op, S) ==
    IF op.kind \in FlagKinds
    THEN /\ srvFlags' = Marked(srvFlags, op.kind, S)
         /\ UNCHANGED where
    ELSE /\ where' = [m \in Msgs |-> IF m \notin S THEN where[m]
                                     ELSE IF op.kind = "move" THEN "moved" ELSE "gone"]
         /\ UNCHANGED srvFlags

\* How much of S a server that stops half way may have done: JMAP chunks of
\* maxObjectsInSet, each sent once the one before it worked.
Partly(S) == IF Chunked THEN SUBSET S ELSE {{}}

Answer(r, error) ==
    wire' = (wire \ {r}) \cup {[r EXCEPT !.answer = error]}

Gone(op) == {m \in op.names : where[m] = "gone"}

ServerAccepts(r) ==
    /\ Proto = "jmap" => Gone(r.op) = {} /\ r.op.names \cap Forbidden = {}
    /\ ApplyAtServer(r.op, Reachable(r.op))
    /\ Answer(r, "None")
    /\ UNCHANGED budget

\* notUpdated/notDestroyed: the objects the server does not reject are done, but
\* the chunks after the first with a rejected one are not sent.
UpToRejection(op) ==
    LET allowed == Reachable(op) \ Forbidden
    IN  IF Chunked THEN SUBSET allowed ELSE {allowed}

\* The first rejected object is of type notFound.
ServerMisses(r) ==
    /\ Proto = "jmap"
    /\ Gone(r.op) # {}
    /\ \E done \in UpToRejection(r.op) : ApplyAtServer(r.op, done)
    /\ Answer(r, "NotFound")
    /\ UNCHANGED budget

\* It is of type forbidden, which JmapRequest::errorForType() calls Auth.
ServerForbids(r) ==
    /\ Proto = "jmap"
    /\ r.op.names \cap Forbidden # {}
    /\ \E done \in UpToRejection(r.op) : ApplyAtServer(r.op, done)
    /\ Answer(r, "Auth")
    /\ UNCHANGED budget

\* Whatever the op asks for, one resent after it was done included.
ServerRefuses(r) ==
    /\ Spend("refuse")
    /\ \E done \in Partly(Reachable(r.op)) : ApplyAtServer(r.op, done)
    /\ Answer(r, "Protocol")

ServerThrottles(r) ==
    /\ Proto = "jmap"
    /\ Spend("throttle")
    /\ \E done \in Partly(Reachable(r.op)) : ApplyAtServer(r.op, done)
    /\ Answer(r, "Throttled")

\* The HTTP request dies, before the server acted on it or after.
RequestLost(r) ==
    /\ Proto = "jmap"
    /\ Spend("drop")
    /\ \E done \in {{}, Reachable(r.op)} : ApplyAtServer(r.op, done)
    /\ Answer(r, "Connection")

ServerAnswers(r) ==
    /\ r \in wire /\ r.answer = "awaited"
    /\ \/ ServerAccepts(r) \/ ServerMisses(r) \/ ServerForbids(r)
       \/ ServerRefuses(r) \/ ServerThrottles(r) \/ RequestLost(r)
    /\ UNCHANGED <<defied, cache, table, memory>>

\* Another client of the mailbox deletes or files a message.
ChangedElsewhere(m) ==
    /\ Spend("foreign")
    /\ where[m] = "home"
    /\ \E place \in {"moved", "gone"} : where' = [where EXCEPT ![m] = place]
    /\ UNCHANGED <<srvFlags, defied, cache, table, memory, wire>>

-----------------------------------------------------------------------------
(* finishJournalOp(): one action for each way a reply ends.                 *)

\* Mutant of Reply: the error is not looked at.
AnyReply(r, errors) ==
    /\ r \in wire
    /\ r.answer # "awaited"
    /\ inFlight = r.op.id

\* A reply to the op in flight that carries one of these errors.
Reply(r, errors) ==
    /\ r \in wire
    /\ r.answer \in errors
    /\ inFlight = r.op.id

\* m_journalInFlight names another op, or none.  The errorOccurred() a JMAP
\* callback is followed by tears the session down all the same.
FinishStale(r) ==
    /\ r \in wire /\ r.answer # "awaited"
    /\ inFlight # r.op.id
    /\ wire' = wire \ {r}
    /\ connected' = (connected /\ r.answer \notin {"Auth", "Connection"})
    /\ UNCHANGED <<server, cache, table, open, inFlight, pending, timer, resync, budget>>

\* The callback is gone; a request the guard still waited for is not any more.
Settled(r) == {[q EXCEPT !.leg = "previous"] : q \in wire \ {r}}

\* confirmJournalOp() and the drop: a confirmed removal destroys its rows,
\* and a confirmed move retires, in id order, whatever it made unnameable.
FinishConfirmed(r) ==
    /\ Reply(r, {"None"})
    /\ LET op   == r.op
           lost == IF op.kind = "move" THEN Unnameable(journal, op) ELSE {}
           gone == IF op.kind \in RemovalKinds THEN op.names ELSE {}
       IN  /\ cached' = cached \ gone
           /\ CountAndDrain(Dropped(Retired(journal, lost), op.id),
                            (hidden \ gone) \ Removed(lost),
                            Undone(flags, lost, "oldest"),
                            Settled(r), 0, connected)
    /\ UNCHANGED <<server, nextId, open, connected, timer, budget>>

FinishNotFound(r) ==
    /\ Reply(r, {"NotFound"})
    /\ CountAndDrain(Dropped(journal, r.op.id), hidden, flags, Settled(r), 0, connected)
    /\ UNCHANGED <<server, cached, nextId, open, connected, timer, budget>>

\* recordJournalFailure()
Failed(j, id) ==
    {IF o.id = id THEN [o EXCEPT !.tries = @ + 1] ELSE o : o \in j}

\* Mutant of FinishDeferred: a lost connection costs a try.
FinishDeferredAsFailure(r) ==
    /\ Reply(r, {"Auth", "Connection"})
    /\ Rest(Failed(journal, r.op.id), hidden, flags, Cardinality(Live(journal)), Settled(r), 0)
    /\ connected' = FALSE
    /\ UNCHANGED <<server, cached, nextId, open, timer, budget>>

\* Auth and Connection: left queued; the errorOccurred() that follows the
\* callback tears the session down.
FinishDeferred(r) ==
    /\ Reply(r, {"Auth", "Connection"})
    /\ Rest(journal, hidden, flags, Cardinality(Live(journal)), Settled(r), 0)
    /\ connected' = FALSE
    /\ UNCHANGED <<server, cached, nextId, open, timer, budget>>

FinishThrottled(r) ==
    /\ Reply(r, {"Throttled"})
    /\ Rest(journal, hidden, flags, Cardinality(Live(journal)), Settled(r), 0)
    /\ timer' = TRUE
    /\ UNCHANGED <<server, cached, nextId, open, connected, budget>>

\* Mutant of FinishRefused: nothing is armed to try again.
FinishRefusedForGood(r) ==
    /\ Reply(r, {"Protocol"})
    /\ r.op.tries + 1 < kJournalMaxTries
    /\ Rest(Failed(journal, r.op.id), hidden, flags, Cardinality(Live(journal)), Settled(r), 0)
    /\ UNCHANGED <<server, cached, nextId, open, connected, timer, budget>>

FinishRefused(r) ==
    /\ Reply(r, {"Protocol"})
    /\ r.op.tries + 1 < kJournalMaxTries
    /\ Rest(Failed(journal, r.op.id), hidden, flags, Cardinality(Live(journal)), Settled(r), 0)
    /\ timer' = TRUE
    /\ UNCHANGED <<server, cached, nextId, open, connected, budget>>

\* The messages at home that the server shows as the op asks.
Done(op) ==
    {m \in op.names : /\ where[m] = "home" /\ op.kind \in FlagKinds
                      /\ (FlagOf(op.kind) \in srvFlags[m]) = Sets(op.kind)}

\* retireJournalOp(): the op and its dependents are undone newest first, made
\* at the server or not.
FinishGivenUp(r) ==
    /\ Reply(r, {"Protocol"})
    /\ r.op.tries + 1 >= kJournalMaxTries
    /\ LET failed == Failed(journal, r.op.id)
           chain  == Chain(failed, r.op)
       IN  CountAndDrain(Retired(failed, chain), hidden \ Removed(chain),
                         Undone(flags, chain, "newest"), Settled(r), 0, connected)
    /\ defied' = defied \cup Done(r.op)
    /\ UNCHANGED <<where, srvFlags, cached, nextId, open, connected, timer, budget>>

Finish(r) ==
    \/ FinishStale(r) \/ FinishConfirmed(r) \/ FinishNotFound(r) \/ FinishDeferred(r)
    \/ FinishThrottled(r) \/ FinishRefused(r) \/ FinishGivenUp(r)

-----------------------------------------------------------------------------
(* Sessions, timers, the clock and the process.                             *)

\* connectedChanged(true).  The jobs of a closed IMAP session fail a turn of
\* the event loop after it closes, well before the next one has logged in.
Connect ==
    /\ open /\ ~connected
    /\ Proto = "imap" => \A r \in wire : r.answer = "awaited"
    /\ connected' = TRUE
    /\ IF inFlight = 0 THEN Drain(journal, hidden, flags, pending, wire)
       ELSE Rest(journal, hidden, flags, pending, wire, inFlight)
    /\ UNCHANGED <<server, cached, nextId, open, timer, budget>>

\* The jobs of a closed IMAP session fail, and ImapBackend reports a failed
\* job as Protocol whatever failed it.  A JMAP request outlives the session.
Closed(w) ==
    IF Proto = "imap" THEN {[r EXCEPT !.answer = "Protocol"] : r \in w} ELSE w

\* handleConnectionLost(), or a teardown another request's error caused.
ConnectionLost ==
    /\ connected
    /\ Spend("drop")
    /\ connected' = FALSE
    /\ wire' = Closed(wire)
    /\ UNCHANGED <<server, cache, table, open, inFlight, pending, timer, resync>>

\* switchAccountInternal() to another account: the guard is cleared, the
\* request is not waited for.
SwitchAway ==
    /\ open
    /\ Spend("switch")
    /\ open' = FALSE
    /\ connected' = FALSE
    /\ inFlight' = 0
    /\ wire' = {[r EXCEPT !.leg = "previous"] : r \in Closed(wire)}
    /\ UNCHANGED <<server, cache, table, pending, timer, resync>>

\* ... and back: refreshJournalCounts() for the account switched to.
SwitchBack ==
    /\ ~open
    /\ open' = TRUE
    /\ pending' = Cardinality(Live(journal))
    /\ UNCHANGED <<server, cache, table, connected, inFlight, timer, resync, wire, budget>>

\* The single shot a throttled or refused op armed.
TimerFires ==
    /\ timer
    /\ timer' = FALSE
    /\ IF open /\ connected /\ inFlight = 0
       THEN Drain(journal, hidden, flags, pending, wire)
       ELSE Rest(journal, hidden, flags, pending, wire, inFlight)
    /\ UNCHANGED <<server, cached, nextId, open, connected, budget>>

\* kJournalMaxAgeDays pass over everything queued by now.
WeekPasses ==
    /\ Spend("week")
    /\ journal' = {[o EXCEPT !.old = TRUE] : o \in journal}
    /\ UNCHANGED <<server, cache, nextId, memory, wire>>

\* Mutant of ReconcileSoftDeletes: hidden rows are taken for justified.
TrustHidden(j, h) == h

\* reconcileSoftDeletes(): rows no live op justifies are shown again.
ReconcileSoftDeletes(j, h) == h \cap Removed(Live(j))

\* The process ends and MailClient is constructed again on this account.
\* h and f are what the interrupted handler had already written.
RestartFrom(j, h, f) ==
    /\ journal' = j
    /\ hidden' = ReconcileSoftDeletes(j, h)
    /\ flags' = f
    /\ open' = TRUE
    /\ connected' = FALSE
    /\ inFlight' = 0
    /\ pending' = Cardinality(Live(j))
    /\ timer' = FALSE
    /\ resync' = FALSE
    /\ wire' = {}
    /\ UNCHANGED <<server, nextId>>

Restart ==
    /\ Spend("restart")
    /\ RestartFrom(journal, hidden, flags)
    /\ UNCHANGED cached

\* Between the cache write of a gesture and its journal row.
CrashInMark(kind, F, S) ==
    /\ open
    /\ kind \in Kinds \cap FlagKinds
    /\ S \subseteq Changing(kind, F)
    /\ S # {}
    /\ Spend("crash")
    /\ RestartFrom(journal, hidden, Marked(flags, kind, S))
    /\ UNCHANGED cached

CrashInRemove(F, S) ==
    /\ open
    /\ Kinds \cap RemovalKinds # {}
    /\ S \subseteq Visible(F)
    /\ S # {}
    /\ Spend("crash")
    /\ RestartFrom(journal, hidden \cup S, flags)
    /\ UNCHANGED cached

\* Between removeMessages() and dropJournalOp() of a confirmed removal, with
\* the first of the ops it made unnameable already retired or none.
CrashInConfirm(r) ==
    /\ Reply(r, {"None"})
    /\ r.op.kind \in RemovalKinds
    /\ cached' = cached \ r.op.names
    /\ Spend("crash")
    /\ RestartFrom(journal, hidden \ r.op.names, flags)

\* Inside the cascade: the newest of the chain is undone, its row not yet
\* retired.
CrashInRetire(r) ==
    /\ Reply(r, {"Protocol"})
    /\ r.op.tries + 1 >= kJournalMaxTries
    /\ Spend("crash")
    /\ LET failed == Failed(journal, r.op.id)
           newest == Newest(Chain(failed, r.op))
       IN  RestartFrom(failed, hidden \ Removed({newest}), Undone(flags, {newest}, "oldest"))
    /\ UNCHANGED cached

-----------------------------------------------------------------------------
Gestures ==
    \E F \in Folders : \E S \in SUBSET {m \in Msgs : HomeOf[m] = F} :
        /\ Cardinality(S) <= MaxNamed
        /\ \/ CrashInRemove(F, S)
           \/ \E kind \in FlagKinds : Mark(kind, F, S) \/ CrashInMark(kind, F, S)
           \/ \E kind \in RemovalKinds, target \in Folders \cup {NoFolder} :
                 Remove(kind, F, target, S)

FailedList ==
    \/ \E op \in journal : RetryFailedChange(op) \/ DiscardFailedChange(op)
    \/ DiscardAllFailedChanges

Replies ==
    \E r \in wire : ServerAnswers(r) \/ Finish(r) \/ CrashInConfirm(r) \/ CrashInRetire(r)

Environment ==
    \/ \E m \in Msgs : ChangedElsewhere(m)
    \/ ConnectionLost \/ SwitchAway \/ WeekPasses \/ Restart

Next ==
    Gestures \/ FailedList \/ Replies \/ Environment
    \/ Connect \/ SwitchBack \/ TimerFires

Spec == Init /\ [][Next]_vars

\* The event loop delivers what is due: an outstanding request is answered or
\* fails, its callback runs, timers fire, and an account left is come back to
\* and connects again.  Faults stop when Budget is spent.
FairSpec ==
    /\ Spec
    /\ WF_vars(\E r \in wire : ServerAnswers(r))
    /\ WF_vars(\E r \in wire : Finish(r))
    /\ WF_vars(Connect) /\ WF_vars(SwitchBack) /\ WF_vars(TimerFires)

-----------------------------------------------------------------------------
(* Correctness.                                                             *)

\* The cached copy of a message is destroyed only once the server has agreed
\* that it is no longer in this mailbox: until confirmJournalOp() a removal
\* can still be undone from it, whatever is lost, repeated, cut short by a
\* crash or left behind by an account switch.
NoCopyLost == \A m \in Msgs : where[m] = "home" => m \in cached

\* m_journalBusy never latches: while an op is in flight its row is still
\* live and exactly one request is waited for, and it is that op's.
GuardHasReply ==
    /\ \A r \in wire : r.leg = "current" => r.op.id = inFlight
    /\ \A r, q \in wire : r.leg = "current" /\ q.leg = "current" => r = q
    /\ inFlight # 0 =>
          /\ \E r \in wire : r.leg = "current"
          /\ \E o \in Live(journal) : o.id = inFlight

\* No gesture has ended on a full disk, with its effect in the cache and no row
\* in the journal.
EveryGestureRecorded == budget["nospace"] = Budget["nospace"]

\* Mail of this mailbox is hidden from the user only while an op that will
\* remove it is still queued: no confirmation, cascade, expiry, retry or
\* crash leaves a message nobody can see and nothing will delete.
HiddenIsJustified ==
    EveryGestureRecorded => \A m \in hidden : where[m] = "home" => m \in Removed(Live(journal))

\* What the server will say of a flag once the queue has drained: the op in
\* flight runs first, the others in id order.
Expected(m, flag) ==
    LET queued  == Naming(Live(journal), m, flag)
        waiting == {o \in queued : o.id # inFlight}
    IN  IF queued = {} THEN flag \in srvFlags[m]
        ELSE Sets(Newest(IF waiting = {} THEN queued ELSE waiting).kind)

\* The cache shows the server's state with the queued ops applied in order:
\* a message is hidden exactly while a removal of it is queued, and each flag
\* has the value the drained queue will give it.  The flags of a message of
\* which a change was given up on that the server had made are not, see the
\* findings.
OptimisticView ==
    EveryGestureRecorded => \A m \in cached : where[m] = "home" =>
        /\ m \in hidden <=> m \in Removed(Live(journal))
        /\ m \notin hidden \cup defied => \A flag \in Flags : flag \in flags[m] <=> Expected(m, flag)

\* drainJournal(): strictly one op at a time.  While one is in flight no
\* request for another is still to be acted on by the server.
StrictlyOneAtATime ==
    inFlight # 0 => \A r \in wire : r.answer = "awaited" => r.op.id = inFlight

\* finishJournalOp(): a try is spent only on a refusal.  No op has counted
\* more of them than the server has refused commands.
TriesAreRefusals ==
    \A o \in Live(journal) : o.tries <= Budget["refuse"] - budget["refuse"]

\* retireJournalOp(): when an op is retired, no later op on one of its
\* messages stays queued to be replayed against a change that was undone.
DependentsGoTogether ==
    [][\A o \in journal' : o.retired /\ (\E b \in Live(journal) : b.id = o.id) =>
          \A p \in Live(journal') :
             ~(p.id > o.id /\ p.folder = o.folder /\ p.names \cap o.names # {})]_vars

\* Does not hold of the code, see the findings.
\* An op is retired only on account of the op just answered, and only when
\* the two name a message in common.
RetiredForCause ==
    [][\A o \in Live(journal) : (\E p \in journal' : p.id = o.id /\ p.retired) =>
          \E f \in journal : f.id = inFlight /\ f.names \cap o.names # {}]_vars

\* Does not hold of the code, see the findings.
\* drainJournal(): when the reply to the last op empties the queue, the sync
\* engine is asked again for what it skipped meanwhile.
DrainedAsksAgain ==
    [][Live(journal) # {} /\ Live(journal') = {} /\ inFlight # 0 /\ inFlight' = 0 /\ connected'
          => resync']_vars

\* Every queued change is eventually confirmed, found done, retired for the
\* user to see or expired: none stays at the head of the queue for ever.
EveryChangeSettles ==
    \A id \in Ids : (\E o \in Live(journal) : o.id = id) ~> ~(\E o \in Live(journal) : o.id = id)
=============================================================================
