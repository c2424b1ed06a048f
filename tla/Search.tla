------------------------------- MODULE Search -------------------------------
(* The mailbox search (mailclient.cpp, mailstore.cpp, both backends).  A     *)
(* query starts a worker over the local index and, when connected, a search *)
(* on the server whose hits top the list up; every answer carries the       *)
(* sequence number of its query and is dropped once a newer one owns the    *)
(* list.  The worker's rows and its end reach the GUI thread as posted      *)
(* events, in order; one server search is out at a time and only the newest *)
(* of those waiting is kept.                                                *)
EXTENDS Naturals, Sequences, FiniteSets, Functions

CONSTANTS Folders, Queries,
          Cached,        \* uids of a folder with a header row
          Local,         \* Local[q][f]: those the local index finds
          Remote,        \* Remote[q][f]: those the server finds
          None, MaxSearches

SearchAssumption == /\ MaxSearches \in Nat /\ None \notin Queries
                    /\ \A q \in Queries, f \in Folders : Local[q][f] \subseteq Cached[f]

VARIABLES folder,        \* m_selectedFolder
          list,          \* the message model: uid -> folder whose header the row shows
          filter,        \* the text filter on the model: None, a query, or "regex"
          active,        \* m_searchActive
          pattern,       \* the last query was a /pattern/
          query, seq,    \* the newest word query (of m_searchSeq)
          searching, localDone, serverPending, found,   \* found: m_searchSeen
          workers,       \* local scans: [seq, folder, query, left, sent]
          posted,        \* events of theirs on their way to the GUI thread
          inFlight,      \* m_searchServerInFlight
          ask,           \* the search an answer is due for, at most one
          queued,        \* m_searchServerQueued, at most one
          fetches,       \* header fetches of hits the cache does not hold
          dropped,       \* queries whose fetch went with a replaced backend
          online, protocol

vars == <<folder, list, filter, active, pattern, query, seq, searching, localDone,
          serverPending, found, workers, posted, inFlight, ask, queued, fetches, dropped, online, protocol>>
server == <<inFlight, ask, queued, fetches>>
wire   == <<dropped, online, protocol>>
search == <<query, seq, searching, localDone, serverPending, found>>

Listing(f) == [u \in Cached[f] |-> f]

Init == /\ folder \in Folders /\ list = Listing(folder) /\ filter = None
        /\ active = FALSE /\ pattern = FALSE /\ query = None /\ seq = 0 /\ searching = FALSE
        /\ localDone = FALSE /\ serverPending = FALSE /\ found = {} /\ workers = {}
        /\ posted = <<>> /\ inFlight = FALSE /\ ask = {} /\ queued = {} /\ fetches = {}
        /\ dropped = {} /\ online \in BOOLEAN /\ protocol \in {"imap", "jmap"}

Visible == {u \in DOMAIN list : \/ filter \in {None, "regex"}
                                \/ u \in Local[filter][list[u]]}

(***************************************************************************)
(* The list.                                                               *)
(***************************************************************************)
\* appendHeaders(): a uid already listed is refreshed in place.
Appended(f, us) == [u \in DOMAIN list \cup us |-> IF u \in us THEN f ELSE list[u]]

\* pruneSearchResults(): rows the search did not deliver go, unless it was left.
Pruned(l, us) == IF active THEN Restrict(l, DOMAIN l \cap us) ELSE l

(***************************************************************************)
(* The server half.                                                        *)
(***************************************************************************)
\* startServerSearch(): behind a running one only the newest waits; the folder
\* is the one selected when the query goes out.
StartServerSearch(r, busy, f) ==
  IF busy THEN queued' = {r} /\ UNCHANGED <<inFlight, ask>>
          ELSE /\ ask' = {[seq |-> r.seq, query |-> r.query, folder |-> f]}
               /\ inFlight' = TRUE /\ queued' = {}

\* The connection freed, and nobody looking at what waited.
NextServerSearchForgotten == inFlight' = FALSE /\ ask' = {} /\ UNCHANGED queued

\* The first half of an answer: the connection is free for whatever waited.
NextServerSearch ==
  LET wanted == {r \in queued : r.seq = seq}
  IN IF wanted = {} THEN inFlight' = FALSE /\ ask' = {} /\ queued' = {}
                    ELSE \E r \in wanted : StartServerSearch(r, FALSE, folder)

\* finishServerSearch() and finishSearch(), given what the query delivered.
FinishServerSearch(l, us) ==
  /\ serverPending' = FALSE
  /\ searching' = (searching /\ ~localDone)
  /\ list' = IF localDone THEN Pruned(l, us) ELSE l

Ids(a) == Remote[a.query][a.folder] \ found

\* The answer: cached hits are listed at once, the others are fetched.
ServerAnswers(a) ==
  /\ NextServerSearch
  /\ IF a.seq # seq THEN UNCHANGED <<list, searching, serverPending, found, fetches>>
     ELSE LET known == Ids(a) \cap Cached[folder]
              rest  == Ids(a) \ known
              l     == Appended(folder, known)
          IN /\ found' = found \cup known
             /\ IF rest = {}
                THEN FinishServerSearch(l, found') /\ UNCHANGED fetches
                ELSE /\ fetches' = fetches \cup {[seq |-> seq, folder |-> folder, uids |-> rest]}
                     /\ list' = l /\ UNCHANGED <<searching, serverPending>>
  /\ UNCHANGED <<folder, filter, active, pattern, query, seq, localDone, workers, posted, wire>>

\* Refused, the connection lost, or none to ask on: the local answer stands.
ServerFails(a) ==
  /\ NextServerSearch
  /\ IF a.seq = seq THEN FinishServerSearch(list, found)
                      ELSE UNCHANGED <<list, searching, serverPending>>
  /\ UNCHANGED <<folder, filter, active, pattern, query, seq, localDone, found, workers,
                 posted, fetches, wire>>

\* fetchHeadersById()'s answer, for IMAP: JMAP is asked for ids that are the
\* uids in decimal, which it does not know.
Fetched(t) == IF protocol = "imap" THEN t.uids ELSE t.uids \cap Cached[t.folder]

FetchAnswers(t) ==
  /\ fetches' = fetches \ {t}
  /\ IF t.seq # seq THEN UNCHANGED <<list, searching, serverPending, found>>
     ELSE \E us \in {Fetched(t), {}} :      \* {}: the fetch failed
            /\ found' = found \cup us /\ FinishServerSearch(Appended(t.folder, us), found')
  /\ UNCHANGED <<folder, filter, active, pattern, query, seq, localDone, workers, posted,
                 inFlight, ask, queued, wire>>

(***************************************************************************)
(* The local half.                                                         *)
(***************************************************************************)
\* searchMessages() with words: the rows shown stay until the query completes.
SearchWords(q) ==
  /\ seq < MaxSearches
  /\ active' = TRUE /\ pattern' = FALSE /\ filter' = None
  /\ seq' = seq + 1 /\ query' = q /\ searching' = TRUE /\ localDone' = FALSE /\ found' = {}
  /\ workers' = workers \cup {[seq |-> seq + 1, folder |-> folder, query |-> q,
                               left |-> Local[q][folder], sent |-> FALSE]}
  /\ serverPending' = online
  /\ IF online THEN StartServerSearch([seq |-> seq + 1, query |-> q], inFlight, folder)
               ELSE UNCHANGED <<inFlight, ask, queued>>
  /\ UNCHANGED <<folder, list, posted, fetches, wire>>

\* searchMessages() with /pattern/: a filter over what is loaded, and no more.
SearchPattern ==
  /\ seq > 0 /\ ~pattern /\ active' = TRUE /\ pattern' = TRUE /\ filter' = "regex"
  /\ UNCHANGED <<folder, list, search, workers, posted, server, wire>>

\* searchOn()'s sink: a batch is posted while the query is still wanted.
ScanBatch(w) ==
  /\ w.left # {} /\ w.seq = seq
  /\ \E u \in w.left :
       /\ workers' = (workers \ {w}) \cup {[w EXCEPT !.left = @ \ {u}, !.sent = TRUE]}
       /\ posted' = Append(posted, [seq |-> w.seq, uids |-> {u}, folder |-> w.folder])
  /\ UNCHANGED <<folder, list, filter, active, pattern, search, server, wire>>

\* The scan is through, or interrupted because nobody waits for it.
ScanEnds(w) ==
  /\ w.left = {} \/ w.seq # seq
  /\ workers' = workers \ {w}
  /\ posted' = Append(posted, [seq |-> w.seq, sent |-> w.sent, query |-> w.query])
  /\ UNCHANGED <<folder, list, filter, active, pattern, search, server, wire>>

\* localKeywordFilter()'s finished handler: the list settles on the local
\* answer; with nothing found and no server to wait for, on a filter.
LocalFinished(e) ==
  /\ localDone' = TRUE /\ UNCHANGED <<found, serverPending>>
  /\ list' = Pruned(list, found)
  /\ searching' = serverPending
  /\ filter' = IF serverPending \/ e.sent THEN filter ELSE e.query

RowsArrive(e) ==
  /\ found' = found \cup e.uids /\ list' = Appended(e.folder, e.uids)
  /\ UNCHANGED <<filter, searching, localDone, serverPending>>

Deliver ==
  /\ posted # <<>> /\ posted' = Tail(posted)
  /\ LET e == Head(posted)
     IN IF e.seq # seq
        THEN UNCHANGED <<list, filter, searching, localDone, serverPending, found>>
        ELSE IF "uids" \in DOMAIN e THEN RowsArrive(e) ELSE LocalFinished(e)
  /\ UNCHANGED <<folder, active, pattern, query, seq, workers, server, wire>>

(***************************************************************************)
(* Leaving the search.                                                     *)
(***************************************************************************)
\* clearSearch(): the sequence moves on, the folder is opened anew.
ClearSearch ==
  /\ seq > 0 /\ seq < MaxSearches
  /\ active' = FALSE /\ pattern' = FALSE /\ seq' = seq + 1 /\ query' = None
  /\ serverPending' = FALSE /\ searching' = FALSE /\ filter' = None
  /\ list' = Listing(folder)
  /\ UNCHANGED <<folder, localDone, found, workers, posted, server, wire>>

\* openFolder(): the search is switched off, its sequence goes on.  Rows of the
\* folder already shown stay.
OpenFolder(f) ==
  /\ active' = FALSE /\ pattern' = FALSE /\ folder' = f
  /\ LET reopening == f = folder /\ Visible # {}
     IN IF reopening THEN UNCHANGED <<list, filter>>
                     ELSE list' = Listing(f) /\ filter' = None
  /\ UNCHANGED <<search, workers, posted, server, wire>>

\* setBackendProtocol() on the way to an account of the other protocol: the old
\* backend goes with its outstanding callbacks.
SwitchProtocol(f) ==
  /\ f # folder /\ active' = FALSE /\ pattern' = FALSE /\ folder' = f
  /\ list' = Listing(f) /\ filter' = None
  /\ protocol' = IF protocol = "imap" THEN "jmap" ELSE "imap"
  /\ ask' = {} /\ fetches' = {} /\ dropped' = dropped \cup {t.seq : t \in fetches}
  /\ UNCHANGED <<search, workers, posted, inFlight, queued, online>>

Connection == /\ online' = ~online
              /\ UNCHANGED <<folder, list, filter, active, pattern, search, workers, posted,
                             server, dropped, protocol>>

Next == \/ \E q \in Queries : SearchWords(q)
        \/ SearchPattern \/ ClearSearch \/ Deliver \/ Connection
        \/ \E a \in ask : ServerAnswers(a) \/ ServerFails(a)
        \/ \E f \in Folders : OpenFolder(f) \/ SwitchProtocol(f)
        \/ \E w \in workers : ScanBatch(w) \/ ScanEnds(w)
        \/ \E t \in fetches : FetchAnswers(t)
Spec == Init /\ [][Next]_vars

(***************************************************************************)
(* Properties.                                                             *)
(***************************************************************************)
\* The answer the spinner waits for is on its way.
Awaited == \/ ~localDone /\ (\/ \E w \in workers : w.seq = seq
                             \/ \E i \in DOMAIN posted : posted[i].seq = seq)
           \/ serverPending /\ (\/ ask # {} /\ \E r \in ask \cup queued : r.seq = seq
                                \/ \E t \in fetches : t.seq = seq)
\* The backend took the answer with it when it was replaced.
Deaf == (inFlight /\ ask = {}) \/ seq \in dropped

\* While the list says it is searching, something is under way that will end
\* it, whatever was typed, cleared, opened or lost in between (m_searching).
SearchEnds == searching => Awaited \/ Deaf

\* A settled word search shows all the local hits of its query and nothing but
\* local and server hits of it, although the rows of the queries before were
\* merged into the same list and late answers kept arriving.
SettledOnQuery ==
  active /\ ~searching /\ ~pattern =>
    /\ Local[query][folder] \subseteq DOMAIN list
    /\ DOMAIN list \subseteq Local[query][folder] \cup Remote[query][folder]

\* Does not hold of the code, see the findings.
\* Every row is of the folder shown: a search left behind is abandoned
\* ("switching scope or folder all land here", abandonLocalSearch).
HitsAreOfTheFolder == \A u \in DOMAIN list : list[u] = folder
=============================================================================
