------------------------------ MODULE SyncEngine ------------------------------
(***************************************************************************)
(* The sync engine: what brings the cache and the visible list in step     *)
(* with the server.                                                        *)
(*                                                                         *)
(* The folder on screen is opened, its newest page fetched, and its older  *)
(* history pulled in windows by a one-shot timer that each window re-arms; *)
(* then its bodies; then a pass walks the account's other folders the same *)
(* way.  Throttling makes the timer back off and, after too many attempts, *)
(* pauses the whole of it.  Meanwhile the user opens folders and searches, *)
(* mail arrives, queued changes forbid a folder to be read, a vacuum       *)
(* pauses the engine and connections drop.                                 *)
(*                                                                         *)
(* Messages of a folder are 1 .. mailbox[f] by arrival; nothing is         *)
(* expunged while it is synced.  The engine is one record, e, and each     *)
(* method an operator from such a record to the next: what it sends to     *)
(* the backend is added to e.out.                                          *)
(***************************************************************************)
EXTENDS Naturals, FiniteSets, Sequences, SequencesExt, FiniteSetsExt

CONSTANTS
    Folders,      \* the selectable mailboxes, in list order
    NoFolder,
    Sizes,        \* the sizes the mailboxes may have at the start
    MaxSize,      \* bound: no mailbox grows past it
    FirstPage,    \* the first window of a folder (100 in the code)
    TopUp,        \* the window of a refresh (20)
    Window,       \* sync/headerWindow and sync/backfillFolderWindow
    BodyBatch,    \* bodies queued by one tick (50)
    QueueMax,     \* what a hover leaves in the prefetch queue (4)
    MaxAttempts,  \* sync/backoffMaxAttempts
    MaxOut,       \* bound: requests outstanding at once
    Events,       \* what may disturb the sync, see EventNames
    Budget        \* how many disturbances there are

EventNames == {"mail", "open", "walked", "search", "hover", "owe", "overtake", "overlap", "poll",
               "delta", "vacuum", "void", "strand", "unheard", "drop", "shed", "slow", "bodies", "refuse", "denied", "gone"}

ASSUME SyncAssumption ==
    /\ Folders \in Seq(Range(Folders)) /\ Folders # <<>> /\ NoFolder \notin Range(Folders)
    /\ MaxSize \in Nat /\ Sizes \subseteq 0 .. MaxSize
    /\ {FirstPage, TopUp, Window, BodyBatch, QueueMax, MaxOut} \subseteq Nat \ {0}
    /\ Events \subseteq EventNames
    /\ Budget \in Nat

VARIABLES
    mailbox,  \* on the server: how many messages each folder has had
    cached,   \* the headers the cache holds of each folder
    bodies,   \* and the bodies
    link,     \* [up, sync]: isConnected(), and the background connection is ready
    watch,    \* the folder push watches
    news,     \* and a notification of it is on its way
    owing,    \* folders with changes the server has not been told about
    vacuum,   \* a vacuum holds the database
    e,        \* the engine, with the client's busy flag and open folder
    first,    \* how much of each folder was there when it was opened with nothing cached
    offered,  \* what was handed to the arrival filter
    budget

disk == <<cached, bodies, first, offered>>
vars == <<mailbox, disk, link, watch, news, owing, vacuum, e, budget>>

Boxes    == Range(Folders)
Highest(S) == Max(S \cup {0})
NoStream == [id |-> 0, folder |-> NoFolder, known |-> 0, empty |-> FALSE, added |-> FALSE]

\* A call to the backend that has not been answered: an "open", a header
\* "window", the headers "since" the newest cached one, the same as a "delta"
\* of a folder nobody looks at, a folder "list", or a batch of "bodies".
\* `left' are the rows still to come, `ask' the rest of what was asked.
Request(kind, f, rows, ask) ==
    [id |-> 0, kind |-> kind, folder |-> f, left |-> rows, ask |-> ask, dead |-> FALSE]

NoAsk == [from |-> 0, n |-> 0, append |-> FALSE, back |-> FALSE, arrivals |-> FALSE, base |-> 0]

HeaderKinds == {"window", "since", "delta"}

FreeId(x) == CHOOSE i \in 1 .. Cardinality(x.out) + 2 :
                 /\ i # x.stream.id
                 /\ \A r \in x.out : r.id # i
                 /\ \A p \in x.pending : p.by # i

Sent(x, r) ==
    [x EXCEPT !.out = @ \cup {[r EXCEPT !.id = FreeId(x)]},
              !.crossed = @ \/ \E q \in x.out : /\ q.folder = r.folder
                                              /\ {q.kind, r.kind} \subseteq HeaderKinds]

Init ==
    /\ mailbox \in [Boxes -> Sizes]
    /\ cached = [f \in Boxes |-> {}] /\ bodies = cached
    /\ first = [f \in Boxes |-> 0] /\ offered = [f \in Boxes |-> {}]
    /\ link = [up |-> FALSE, sync |-> FALSE]
    /\ watch = NoFolder /\ news = FALSE /\ owing = {} /\ vacuum = FALSE
    /\ e = [selected |-> NoFolder, searching |-> FALSE, busy |-> FALSE,
            shown |-> {}, anchor |-> 0,
            armed |-> FALSE, backfill |-> FALSE, fetching |-> FALSE,
            attempt |-> 0, paused |-> FALSE,
            intent |-> "none", total |-> 0, fetched |-> 0,
            queue |-> <<>>, primed |-> FALSE, done |-> FALSE,
            walking |-> NoFolder, asking |-> FALSE, sized |-> FALSE, count |-> 0, reached |-> 0,
            prefetch |-> <<>>, stream |-> NoStream, pending |-> {}, out |-> {}, crossed |-> FALSE, holed |-> FALSE, dozed |-> FALSE,
            skipped |-> FALSE]
    /\ budget = Budget

\* One of the events that disturb the sync, if the run allows it.
Happens(event) == event \in Events /\ budget > 0 /\ budget' = budget - 1

-----------------------------------------------------------------------------
(* Pacing *)

Scheduled(x)    == [x EXCEPT !.armed = TRUE]
BackoffReset(x) == [x EXCEPT !.attempt = 0, !.paused = FALSE]

\* Mutant of BackedOff: the timer is left for the next success to arm.
BackedOffUnarmed(x) ==
    IF x.attempt >= MaxAttempts THEN [x EXCEPT !.paused = TRUE, !.armed = FALSE]
    ELSE [x EXCEPT !.attempt = @ + 1]

BackedOff(x)    == IF x.attempt >= MaxAttempts
                   THEN [x EXCEPT !.paused = TRUE, !.armed = FALSE]
                   ELSE Scheduled([x EXCEPT !.attempt = @ + 1])

ResetForFolderChange(x) ==
    BackoffReset([x EXCEPT !.armed = FALSE, !.backfill = FALSE, !.prefetch = <<>>])

Teardown(x) ==
    BackoffReset([x EXCEPT !.armed = FALSE, !.backfill = FALSE, !.prefetch = <<>>,
                           !.queue = <<>>, !.primed = FALSE, !.done = FALSE,
                           !.walking = NoFolder, !.asking = FALSE, !.intent = "none"])

RestartQueue(x) == [x EXCEPT !.done = FALSE, !.primed = FALSE, !.queue = <<>>]

\* Mutant of RestartPass: nothing starts it.
RestartPassUnarmed(x, granted) ==
    IF ~x.done \/ x.paused \/ ~granted THEN x
    ELSE [x EXCEPT !.done = FALSE, !.primed = FALSE]

RestartPass(x, granted) ==
    IF ~x.done \/ x.paused \/ ~granted THEN x
    ELSE Scheduled([x EXCEPT !.done = FALSE, !.primed = FALSE])

Throttled(x) ==
    LET was == x.backfill \/ \E r \in x.out : r.kind = "bodies"
        y   == [x EXCEPT !.backfill = FALSE]
    IN  IF was THEN BackedOff(y) ELSE y

-----------------------------------------------------------------------------
(* Header windows and the stream that shows their rows as they land *)

\* Mutant of Rows: a window starts one message too far down.
RowsBelow(f, from, n) == {u \in 1 .. mailbox[f] : u + from < mailbox[f] /\ mailbox[f] <= u + from + n}

\* The n messages of f below the newest `from'.
Rows(f, from, n) == {u \in 1 .. mailbox[f] : u + from <= mailbox[f] /\ mailbox[f] < u + from + n}

BeginStream(x, f, id) ==
    IF f # x.selected \/ (x.stream.id # 0 /\ x.stream.folder = f) THEN x
    ELSE [x EXCEPT !.stream = [id |-> id, folder |-> f, known |-> Highest(cached[f]),
                               empty |-> x.shown = {}, added |-> FALSE]]

EndStream(x, id) == IF x.stream.id = id THEN [x EXCEPT !.stream = NoStream] ELSE x

Streaming(x, r) == BeginStream(Sent(x, r), r.folder, FreeId(x))

RequestWindow(x, f, from, n, append, back, arrivals) ==
    Streaming([x EXCEPT !.fetching = TRUE],
              Request("window", f, Rows(f, from, n),
                      [from |-> from, n |-> n, append |-> append, back |-> back,
                       arrivals |-> arrivals, base |-> 0]))

FetchOlder(x) ==
    IF ~link.up \/ x.busy \/ x.fetching \/ x.fetched >= x.total THEN [x EXCEPT !.backfill = FALSE]
    ELSE RequestWindow([x EXCEPT !.busy = ~x.backfill], x.selected, x.fetched, Window,
                       TRUE, x.backfill, FALSE)

\* Older rows from the cache first, the server only below its end; c is what
\* the cache holds of the open folder.
LoadMore(x, c) ==
    LET older == {u \in c : u < x.anchor}
    IN  IF x.searching THEN x
        ELSE IF older # {} THEN [x EXCEPT !.shown = @ \cup older, !.anchor = Min(older)]
        ELSE FetchOlder(x)

\* A refresh has lifted the pause and neither asks for more nor arms the timer.
Dozing(x, y) == [y EXCEPT !.dozed = @ \/ (e.paused /\ y.out = x.out)]

\* The cached page on the list; paging goes on below it if the list was empty.
Merged(x, c, empty) ==
    [x EXCEPT !.shown = @ \cup c, !.anchor = IF ~empty THEN @ ELSE IF c = {} THEN 0 ELSE Min(c)]

\* Mutant of OpenSelected: taken for a refresh of what is open already.
OpenSelectedAgain(x) == Sent([x EXCEPT !.intent = "refresh"], Request("open", x.selected, {}, NoAsk))

OpenSelected(x) ==
    Sent([x EXCEPT !.intent = "open", !.skipped = FALSE], Request("open", x.selected, {}, NoAsk))

Refreshing(x) == Sent([x EXCEPT !.intent = "refresh"], Request("open", x.selected, {}, NoAsk))

\* No refresh while the folder owes the server a change, and none is due later.
RefreshSelected(x) ==
    IF x.selected \in owing THEN [x EXCEPT !.skipped = TRUE] ELSE Refreshing([x EXCEPT !.skipped = FALSE])

\* MailClient::openFolder: the list is refilled from the cache unless the
\* folder is already on it, then the server is asked.
FolderShown(x, f) ==
    LET y == [ResetForFolderChange(x) EXCEPT !.searching = FALSE, !.selected = f]
        z == IF f = x.selected /\ x.shown # {} THEN y
             ELSE [y EXCEPT !.shown = cached[f], !.anchor = IF cached[f] = {} THEN 0 ELSE Min(cached[f])]
    IN  IF link.up THEN OpenSelected([z EXCEPT !.busy = TRUE]) ELSE z

-----------------------------------------------------------------------------
(* Bodies *)

Missing(f) == cached[f] \ bodies[f]

\* One batch: everything queued for the folder at the head, if a connection
\* for bodies is free.
ProcessPrefetch(x) ==
    IF x.prefetch = <<>> \/ ~link.up \/ ~link.sync \/ \E r \in x.out : r.kind = "bodies" THEN x
    ELSE LET f == Head(x.prefetch).folder
             batch == {p.uid : p \in {q \in Range(x.prefetch) : q.folder = f}}
         IN  Sent([x EXCEPT !.prefetch = SelectSeq(@, LAMBDA p : p.folder # f)],
                  Request("bodies", f, batch, NoAsk))

BackfillBodies(x, f) ==
    LET newest == CHOOSE S \in SUBSET Missing(f) :
                      /\ Cardinality(S) = Min({BodyBatch, Cardinality(Missing(f))})
                      /\ \A u \in S, v \in Missing(f) \ S : u > v
        added  == SetToSeq({[folder |-> f, uid |-> u] : u \in newest} \ Range(x.prefetch))
    IN  Scheduled(ProcessPrefetch([x EXCEPT !.prefetch = @ \o added]))

-----------------------------------------------------------------------------
(* The pass over the other folders, and the timer *)

\* The next folder of the queue that may be walked, and what is left after it.
NextWalked(x, q) ==
    LET fit  == {i \in DOMAIN q : q[i] \notin owing /\ q[i] # x.selected}
    IN  IF fit = {} THEN [x EXCEPT !.queue = <<>>, !.done = TRUE, !.primed = FALSE]
        ELSE [x EXCEPT !.queue = SubSeq(q, Min(fit) + 1, Len(q)), !.primed = TRUE,
                       !.walking = q[Min(fit)], !.sized = FALSE, !.reached = 0]

ContinuePass(x) ==
    LET y == IF x.walking # NoFolder THEN x
             ELSE NextWalked(x, IF x.queue = <<>> /\ ~x.primed THEN Folders ELSE x.queue)
        f == y.walking
    IN  IF f = NoFolder THEN y
        ELSE IF ~y.sized THEN Sent([y EXCEPT !.asking = TRUE], Request("open", f, {}, NoAsk))
        ELSE IF y.reached < y.count
             THEN RequestWindow([y EXCEPT !.backfill = TRUE], f, y.reached, Window, TRUE, TRUE, FALSE)
        ELSE IF Missing(f) # {} THEN BackfillBodies(y, f)
        ELSE Scheduled([y EXCEPT !.walking = NoFolder])

\* Something the user waits for, or a transfer, is under way.
Occupied(x) == x.busy \/ x.fetching \/ x.prefetch # <<>> \/ \E r \in x.out : r.kind = "bodies"

Ticked(x) ==
    IF ~link.up \/ x.searching \/ x.paused THEN x
    ELSE IF ~link.sync \/ Occupied(x) THEN Scheduled(x)
    ELSE IF x.fetched < x.total THEN FetchOlder([x EXCEPT !.backfill = TRUE])
    ELSE IF x.selected # NoFolder /\ Missing(x.selected) # {} THEN BackfillBodies(x, x.selected)
    ELSE IF x.done THEN x ELSE ContinuePass(x)

Tick ==
    /\ e.armed
    /\ e' = Ticked([e EXCEPT !.armed = FALSE])
    /\ UNCHANGED <<mailbox, disk, link, watch, news, owing, vacuum, budget>>

-----------------------------------------------------------------------------
(* What the backend answers *)

Noted(f, rows)   == cached' = [cached EXCEPT ![f] = @ \cup rows] /\ UNCHANGED <<bodies, first>>
Offered(f, rows) == offered' = [offered EXCEPT ![f] = @ \cup rows]

\* Mutant of Streamed: rows are shown whatever folder is open by now.
StreamedAnyway(r) == e.stream.id # 0 /\ e.stream.folder = r.folder

Streamed(r) == e.stream.id # 0 /\ e.stream.folder = r.folder /\ r.folder = e.selected

\* A batch of headers.  Rows of the folder being streamed are filtered, stored
\* and shown at once; others wait in the buffer of their folder.
Deliver(r) ==
    /\ r.kind \in HeaderKinds /\ ~r.dead /\ r.left # {}
    /\ \E batch \in {{Min(r.left)}, r.left} :
        LET f    == r.folder
            live == Streamed(r)
            fresh == {u \in batch : e.stream.known > 0 /\ u > e.stream.known}
        IN  /\ e' = [e EXCEPT !.out = (@ \ {r}) \cup {[r EXCEPT !.left = @ \ batch]},
                              !.pending = @ \cup {[folder |-> f, uid |-> u, by |-> r.id, streamed |-> live] :
                                                  u \in batch},
                              !.shown = IF live /\ ~e.searching THEN @ \cup batch ELSE @,
                              !.stream.added = @ \/ (live /\ ~e.searching /\ ~(batch \subseteq e.shown))]
            /\ IF live THEN Noted(f, batch) /\ Offered(f, fresh) ELSE UNCHANGED disk
    /\ UNCHANGED <<mailbox, link, watch, news, owing, vacuum, budget>>

Buffered(f)  == {p \in e.pending : p.folder = f}
Unhandled(f) == {p.uid : p \in Buffered(f)} \ {p.uid : p \in {q \in Buffered(f) : q.streamed}}
Answered(r)  == [EndStream(e, r.id) EXCEPT !.out = @ \ {r},
                                           !.pending = @ \ Buffered(r.folder)]

WindowFailed(r) ==
    LET x == [Answered(r) EXCEPT !.fetching = FALSE,
                                 !.backfill = @ /\ ~r.ask.back,
                                 !.busy = @ /\ r.ask.back]
    IN  /\ e' = IF r.ask.back THEN BackedOff(x) ELSE x
        /\ UNCHANGED disk

WindowFetched(r) ==
    LET f   == r.folder
        x   == BackoffReset([Answered(r) EXCEPT !.fetching = FALSE,
                                                !.backfill = @ /\ ~r.ask.back,
                                                !.busy = @ /\ r.ask.back])
        size    == IF f = e.selected THEN e.total ELSE e.count
        reached == IF size > 0 THEN Min({r.ask.from + r.ask.n, size}) ELSE r.ask.from + r.ask.n
        known   == Highest(cached[f])
        rows    == Unhandled(f)
        c       == cached[f] \cup rows
        all     == {p.uid : p \in Buffered(f)}
        y       == [x EXCEPT !.fetched = Max({@, reached})]
        more    == y.fetched < y.total
        mine    == e.stream.id = r.id
        stale   == r.ask.append /\ ~r.ask.back /\ more /\ all \subseteq e.shown
                   /\ ~(mine /\ e.stream.added)
    IN  /\ Noted(f, rows)
        /\ Offered(f, {u \in rows : r.ask.arrivals /\ known > 0 /\ u > known})
        /\ e' = IF f # e.selected /\ f = e.walking
                THEN Scheduled([x EXCEPT !.reached = Max({@, reached})])
                ELSE IF f # e.selected \/ e.searching THEN x
                ELSE IF stale THEN Dozing(y, LoadMore(y, c))
                ELSE Scheduled(IF r.ask.append THEN [y EXCEPT !.shown = @ \cup all]
                               ELSE Merged(y, c, e.shown = {} \/ (mine /\ e.stream.empty)))

SinceFailed(r) == e' = [Answered(r) EXCEPT !.busy = FALSE] /\ UNCHANGED disk

SinceFetched(r) ==
    LET f == r.folder
        x == [Answered(r) EXCEPT !.busy = FALSE]
        c == cached[f] \cup Unhandled(f)
        y == [Merged(x, c, x.shown = {}) EXCEPT !.fetched = Min({x.total, r.ask.base + Cardinality(Buffered(f))})]
    IN  /\ Noted(f, Unhandled(f)) /\ Offered(f, Unhandled(f))
        /\ e' = IF f # e.selected \/ e.searching THEN x ELSE Scheduled(y)

DeltaAnswered(r, ok) ==
    LET rows == IF ok THEN Unhandled(r.folder) ELSE {}
    IN  /\ Noted(r.folder, rows) /\ Offered(r.folder, rows)
        /\ e' = Answered(r)

\* A message is missing between two cached ones.
Broken(c) == \E u, v \in c : ~(u .. v \subseteq c)

\* The folder has been opened and reported its size; c is what the cache holds
\* of it by then, and is taken for an unbroken block.
SelectedOpened(x, f, size, c) ==
    LET y == [x EXCEPT !.total = size, !.fetched = 0, !.shown = IF c = {} /\ ~x.searching THEN {} ELSE @,
                       !.holed = @ \/ Broken(c)]
    IN  IF size = 0 THEN [y EXCEPT !.busy = FALSE]
        ELSE IF c # {} THEN Streaming(y, Request("since", f, {u \in 1 .. size : u > Highest(c)},
                                                 [NoAsk EXCEPT !.base = Cardinality(c)]))
        ELSE RequestWindow(y, f, 0, FirstPage, FALSE, FALSE, FALSE)

\* The refresh reads fewer than have come since the folder was last sized.
Outgrown(x, size) == x.fetched > TopUp /\ size > x.total + TopUp

FolderOpened(x, f, c) ==
    LET size == mailbox[f]
        y    == [x EXCEPT !.intent = "none"]
    IN  IF f = x.selected /\ x.intent = "open" THEN SelectedOpened(y, f, size, c)
        ELSE IF f = x.selected /\ x.intent = "refresh"
        THEN IF size = 0 THEN y
             ELSE RequestWindow([y EXCEPT !.total = size, !.holed = @ \/ Outgrown(x, size)],
                                f, 0, TopUp, TRUE, FALSE, TRUE)
        ELSE IF f # x.walking THEN x
        ELSE Scheduled([x EXCEPT !.asking = FALSE, !.sized = TRUE, !.count = size,
                                 !.reached = IF Cardinality(c) >= size THEN size ELSE @])

\* The folder was regenerated: everything cached of it goes, and is re-read if
\* it is on screen.
Invalidated(x, f) ==
    IF f # x.selected \/ x.searching THEN x
    ELSE RequestWindow([x EXCEPT !.shown = {}, !.fetched = 0], f, 0, FirstPage, FALSE, FALSE, FALSE)

Opened(r, void) ==
    LET f == r.folder
        x == [e EXCEPT !.out = @ \ {r}]
        c == IF void THEN {} ELSE cached[f]
    IN  /\ e' = FolderOpened(IF void THEN Invalidated(x, f) ELSE x, f, c)
        /\ watch' = IF f = e.selected /\ e.intent = "open" THEN f ELSE watch
        /\ news' = (news /\ watch' = watch)
        /\ owing' = IF void THEN owing \ {f} ELSE owing
        /\ cached' = [cached EXCEPT ![f] = c]
        /\ bodies' = [bodies EXCEPT ![f] = @ \cap c]
        /\ first'  = [first EXCEPT ![f] = IF c = {} THEN mailbox[f] ELSE @]
        /\ offered' = [offered EXCEPT ![f] = IF void THEN {} ELSE @]

OpenRefused(r) ==
    LET x == [e EXCEPT !.out = @ \ {r}, !.busy = FALSE]
    IN  /\ e' = IF e.asking THEN Scheduled([x EXCEPT !.asking = FALSE, !.walking = NoFolder, !.sized = FALSE])
                ELSE x
        /\ UNCHANGED <<disk, watch, news, owing>>

\* Each body is stored as it arrives; those a failed batch did not bring, and
\* those the backend declined, are asked for again by a later tick.
BodiesFetched(r) ==
    LET x == ProcessPrefetch(BackoffReset([e EXCEPT !.out = @ \ {r}]))
    IN  /\ e' = IF x.prefetch = <<>> /\ ~ \E q \in x.out : q.kind = "bodies" THEN Scheduled(x) ELSE x
        /\ bodies' = [bodies EXCEPT ![r.folder] = @ \cup (r.left \cap cached[r.folder])]
        /\ UNCHANGED <<cached, first, offered>>

BodiesFailed(r) ==
    /\ e' = BackedOff([e EXCEPT !.out = @ \ {r}])
    /\ UNCHANGED disk

Listed(r) ==
    LET x == RestartQueue([e EXCEPT !.out = @ \ {r}, !.busy = FALSE])
        f == IF e.selected = NoFolder THEN Folders[1] ELSE e.selected
    IN  e' = IF e.searching THEN x ELSE FolderShown(x, f)

Reply(r) ==
    /\ r.left = {} \/ r.kind = "bodies"
    /\ ~r.dead
    /\ \/ r.kind = "window" /\ WindowFetched(r) /\ UNCHANGED <<watch, news, owing, budget>>
       \/ r.kind = "since"  /\ SinceFetched(r) /\ UNCHANGED <<watch, news, owing, budget>>
       \/ r.kind = "delta"  /\ DeltaAnswered(r, TRUE) /\ UNCHANGED <<watch, news, owing, budget>>
       \/ r.kind = "bodies" /\ BodiesFetched(r) /\ UNCHANGED <<watch, news, owing, budget>>
       \/ r.kind = "list"   /\ Listed(r) /\ UNCHANGED <<disk, watch, news, owing, budget>>
       \/ r.kind = "open"   /\ Opened(r, FALSE) /\ UNCHANGED budget
       \/ r.kind = "open"   /\ Happens("void") /\ cached[r.folder] # {} /\ Opened(r, TRUE)
    /\ UNCHANGED <<mailbox, link, vacuum>>

\* The request is refused, or its connection has gone.
Fail(r) ==
    /\ \/ r.dead /\ UNCHANGED budget
       \/ ~r.dead /\ Happens(CASE r.kind = "window" -> IF r.ask.back THEN "slow" ELSE "refuse"
                                [] r.kind = "since"  -> "refuse"
                                [] r.kind = "bodies" -> IF e.prefetch = <<>> THEN "bodies" ELSE "strand"
                                [] r.kind = "open" /\ e.asking /\ r.folder = e.walking -> "gone"
                                [] OTHER             -> "denied")
    /\ \/ r.kind = "window" /\ WindowFailed(r) /\ UNCHANGED <<watch, news, owing>>
       \/ r.kind = "since"  /\ SinceFailed(r) /\ UNCHANGED <<watch, news, owing>>
       \/ r.kind = "delta"  /\ DeltaAnswered(r, FALSE) /\ UNCHANGED <<bodies, watch, news, owing>>
       \/ r.kind = "bodies" /\ BodiesFailed(r) /\ UNCHANGED <<watch, news, owing>>
       \/ r.kind = "list"   /\ e' = [e EXCEPT !.out = @ \ {r}, !.busy = FALSE]
                            /\ UNCHANGED <<disk, watch, news, owing>>
       \/ r.kind = "open"   /\ OpenRefused(r)
    /\ UNCHANGED <<mailbox, link, vacuum>>

-----------------------------------------------------------------------------
(* Connections *)

Connect ==
    /\ ~link.up /\ ~ \E r \in e.out : r.dead
    /\ link' = [up |-> TRUE, sync |-> FALSE]
    /\ e' = Sent(e, Request("list", NoFolder, {}, NoAsk))
    /\ UNCHANGED <<mailbox, disk, watch, news, owing, vacuum, budget>>

SyncReady ==
    /\ link.up /\ ~link.sync
    /\ link' = [link EXCEPT !.sync = TRUE]
    /\ UNCHANGED <<mailbox, disk, watch, news, owing, vacuum, e, budget>>

Drop ==
    /\ link.up /\ Happens("drop")
    /\ link' = [up |-> FALSE, sync |-> FALSE]
    /\ watch' = NoFolder /\ news' = FALSE
    /\ e' = [Teardown(e) EXCEPT !.busy = FALSE, !.out = {[r EXCEPT !.dead = TRUE] : r \in @}]
    /\ UNCHANGED <<mailbox, disk, owing, vacuum>>

\* The server sheds the background connection and leaves the other alone.
Shed ==
    /\ link.up /\ link.sync /\ Happens("shed")
    /\ link' = [link EXCEPT !.sync = FALSE]
    /\ e' = [Throttled(e) EXCEPT !.out = {[r EXCEPT !.dead = @ \/ r.ask.back \/ r.kind \in {"bodies", "delta"}] :
                                           r \in @}]
    /\ UNCHANGED <<mailbox, disk, watch, news, owing, vacuum>>

-----------------------------------------------------------------------------
(* The user, the clock and the rest of the client *)

Room == Cardinality(e.out) < MaxOut

\* Headers of f are on their way for a request made before it is opened, or
\* the folder list is, which opens a folder itself.
Overlap(f) ==
    \E r \in e.out : r.kind = "list" \/ (r.folder = f /\ r.kind # "bodies")

OpenFolder(f) ==
    /\ Room /\ f # e.selected
    /\ Happens(IF f = e.walking THEN "walked" ELSE IF Overlap(f) THEN "overlap" ELSE "open")
    /\ e' = FolderShown(e, f)
    /\ UNCHANGED <<mailbox, disk, link, watch, news, owing, vacuum>>

Search ==
    /\ e.selected # NoFolder /\ ~e.searching /\ Happens("search")
    /\ e' = [e EXCEPT !.searching = TRUE, !.shown = {}, !.fetched = e.total]
    /\ UNCHANGED <<mailbox, disk, link, watch, news, owing, vacuum>>

ClearSearch ==
    /\ e.searching /\ Room /\ (Overlap(e.selected) => "overlap" \in Events)
    /\ e' = FolderShown([e EXCEPT !.shown = {}], e.selected)
    /\ UNCHANGED <<mailbox, disk, link, watch, news, owing, vacuum, budget>>

Hover(u) ==
    LET p == [folder |-> e.selected, uid |-> u]
    IN  /\ link.up /\ Room /\ p \notin Range(e.prefetch) /\ u \notin bodies[e.selected]
        /\ Happens("hover") /\ (~link.sync => "strand" \in Events)
        /\ e' = ProcessPrefetch([e EXCEPT !.prefetch = SubSeq(<<p>> \o @, 1, Min({Len(@) + 1, QueueMax}))])
        /\ UNCHANGED <<mailbox, disk, link, watch, news, owing, vacuum>>

MailArrives(f) ==
    /\ Happens("mail")
    /\ \E n \in mailbox[f] + 1 .. MaxSize : mailbox' = [mailbox EXCEPT ![f] = n]
    /\ news' = (news \/ watch = f)
    /\ UNCHANGED <<disk, link, watch, owing, vacuum, e>>

Overtaking ==
    /\ e.intent = "open" => "overtake" \in Events
    /\ e.backfill => "overlap" \in Events

\* The user changes mail of a folder; later the last change has been pushed.
Owe(f) ==
    /\ f \notin owing /\ Happens("owe")
    /\ owing' = owing \cup {f}
    /\ UNCHANGED <<mailbox, disk, link, watch, news, vacuum, e>>

Refreshed(x) == IF x.selected = NoFolder \/ x.busy THEN x ELSE RefreshSelected(x)

\* The last change of a folder has been answered for.  When the queue is found
\* empty, m_journalPending has been refreshed before: nothing is asked again.
Pushed(f) ==
    /\ f \in owing /\ link.up
    /\ owing' = owing \ {f}
    /\ UNCHANGED <<mailbox, disk, link, watch, news, vacuum, e, budget>>

\* All changes left were too old, and drainJournal() finds none where it had
\* counted some: only then does the sync ask again.
Drained(granted) ==
    /\ owing # {} /\ link.up /\ Room /\ Overtaking
    /\ owing' = {}
    /\ e' = LET x == RestartPass(e, granted)
            IN  IF x.selected = NoFolder THEN x ELSE Refreshing([x EXCEPT !.skipped = FALSE])
    /\ UNCHANGED <<mailbox, disk, link, watch, news, vacuum, budget>>

\* Push reports the folder it watches.  The word is not repeated: one that
\* comes while the client is busy is lost.
Push ==
    /\ news /\ Room /\ Overtaking /\ (e.busy => "unheard" \in Events)
    /\ news' = FALSE
    /\ e' = IF watch # e.selected \/ e.busy THEN e ELSE RefreshSelected(e)
    /\ UNCHANGED <<mailbox, disk, link, watch, owing, vacuum, budget>>

\* The poll timer: at rest, or, Budget permitting, in the middle of anything.
Poll(pushing) ==
    /\ link.up /\ Room /\ Overtaking
    /\ IF e.out = {} /\ ~e.armed THEN UNCHANGED budget ELSE Happens("poll")
    /\ e' = LET x == IF pushing \/ e.busy THEN e ELSE Refreshed(e)
            IN  IF e.busy THEN x ELSE RestartPass(x, TRUE)
    /\ UNCHANGED <<mailbox, disk, link, watch, news, owing, vacuum>>

\* The unread count of a folder nobody looks at has grown.
CountsMoved(f) ==
    /\ link.up /\ ~e.paused /\ Room /\ Happens("delta")
    /\ f # e.selected /\ f \notin owing /\ cached[f] # {}
    /\ e' = Sent(e, Request("delta", f, {u \in 1 .. mailbox[f] : u > Highest(cached[f])}, NoAsk))
    /\ UNCHANGED <<mailbox, disk, link, watch, news, owing, vacuum>>

VacuumBegins ==
    /\ ~vacuum /\ Happens("vacuum") /\ (e.selected = NoFolder => "walked" \in Events)
    /\ vacuum' = TRUE
    /\ e' = [e EXCEPT !.paused = TRUE, !.armed = FALSE]
    /\ UNCHANGED <<mailbox, disk, link, watch, news, owing>>

VacuumEnds ==
    /\ vacuum
    /\ vacuum' = FALSE
    /\ e' = Scheduled([e EXCEPT !.paused = FALSE])
    /\ UNCHANGED <<mailbox, disk, link, watch, news, owing, budget>>

-----------------------------------------------------------------------------
(* Properties *)

TypeOK ==
    /\ mailbox \in [Boxes -> 0 .. MaxSize]
    /\ cached \in [Boxes -> SUBSET (1 .. MaxSize)] /\ bodies \in [Boxes -> SUBSET (1 .. MaxSize)]
    /\ watch \in Boxes \cup {NoFolder} /\ owing \subseteq Boxes
    /\ e.selected \in Boxes \cup {NoFolder} /\ e.walking \in Boxes \cup {NoFolder}
    /\ e.intent \in {"none", "open", "refresh"} /\ e.attempt \in 0 .. MaxAttempts
    /\ Cardinality(e.out) <= MaxOut + 2

\* Rows on the list belong to the folder that is open and are in the cache,
\* whatever stream delivered them and whatever the user opened meanwhile.
ListIsOfOpenFolder ==
    ~e.searching /\ e.selected # NoFolder /\ ~e.crossed => e.shown \subseteq cached[e.selected]

\* What the cursor counts as fetched is fetched: once the open folder has no
\* header request outstanding and its size is the server's, its newest
\* e.fetched messages are in the cache, so that a resumed backfill skips none,
\* unless a refresh was too short or the open found the cached block broken.
CursorIsHonest ==
    ~e.crossed /\ ~e.holed /\ ~e.searching /\ link.up /\ watch # NoFolder /\ watch = e.selected
        /\ e.intent = "none" /\ e.total = mailbox[e.selected] /\ (\A r \in e.out : r.folder = e.selected => r.kind = "bodies")
        => \A u \in 1 .. e.total : u + e.fetched > e.total => u \in cached[e.selected]

\* The user is watching the folder on screen: an open that has been answered
\* has moved push to it, and rebuilt the list from it.
OpenIsHonoured ==
    link.up /\ ~e.searching /\ e.selected # NoFolder /\ e.intent = "none" /\ (\A r \in e.out : r.kind \notin {"open", "list"})
        => watch = e.selected

\* Does not hold of the code, see the findings.
\* The first listing of a mailbox never reaches the arrival filter, which
\* would move mail the user has lived with.
FirstListingStays == \A f \in Boxes : \A u \in offered[f] : u > first[f]

Mirrored == \A f \in Boxes : cached[f] = 1 .. mailbox[f] /\ bodies[f] = cached[f]

\* The timer is re-armed on every path: unless the server made the engine give
\* up, the user stays in search results, or the sync met one of the known
\* faults, everything ends up in the cache.  A refresh that was skipped for an
\* unsent change is one of them, for as long as none is made.
EventuallyMirrored ==
    <>[](Mirrored \/ e.paused \/ e.searching \/ e.crossed \/ e.holed \/ e.dozed \/ e.skipped)

\* The pass over all folders latches itself done once per connect.
PassLatches == []<>(e.done \/ e.paused \/ e.searching \/ e.dozed)

-----------------------------------------------------------------------------
Server  == \E r \in e.out : Deliver(r) \/ Reply(r) \/ Fail(r)
Session == Connect \/ SyncReady \/ Drop \/ Shed
User    == \/ \E f \in Boxes : OpenFolder(f) \/ Owe(f)
           \/ \E u \in e.shown : Hover(u)
           \/ Search \/ ClearSearch
World   == \/ \E f \in Boxes : MailArrives(f) \/ CountsMoved(f) \/ Pushed(f)
           \/ Push \/ VacuumBegins \/ VacuumEnds
           \/ \E b \in BOOLEAN : Drained(b) \/ Poll(b)

Next == Tick \/ Server \/ Session \/ User \/ World
Spec == Init /\ [][Next]_vars

\* The timer fires, the server answers or the connection is found dead, the
\* client redials, queued changes are pushed, a vacuum ends, push keeps its
\* word, and the poll timer, which leaves the open folder to push, fires until
\* the rate limit grants it a pass.
FairSpec ==
    /\ Spec
    /\ WF_vars(Tick) /\ WF_vars(Server) /\ WF_vars(Connect) /\ WF_vars(SyncReady)
    /\ WF_vars(\E f \in Boxes : Pushed(f)) /\ WF_vars(VacuumEnds)
    /\ WF_vars(Poll(TRUE)) /\ WF_vars(Push)
=============================================================================
