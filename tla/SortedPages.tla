---------------------------- MODULE SortedPages ----------------------------
(* A folder browsed in another order than newest first (mailclient.cpp,     *)
(* syncengine.cpp, maintenancescheduler.cpp, mailstore.cpp).  The list is a *)
(* run of keyset pages from the folder's first row in that order; each next *)
(* page starts after the anchor, the last row of the page before.  By date  *)
(* a page is read inline, by any other column by a worker: one at a time,   *)
(* with one slot for the page asked for meanwhile.                          *)
EXTENDS Naturals, FiniteSets

CONSTANTS Folders, Orders,   \* "newest" (the default window), "oldest", and columns
          Cached,            \* uids of a folder, positive
          Rank,              \* Rank[o][u]: the place of a row in an order
          PageSize

SortedPagesAssumption ==
  /\ {"newest", "oldest"} \subseteq Orders /\ PageSize \in Nat \ {0}
  /\ \A f \in Folders : IsFiniteSet(Cached[f]) /\ 0 \notin Cached[f]
  /\ \A o \in Orders, f \in Folders : \A u, v \in Cached[f] :
       Rank[o][u] \in Nat /\ (Rank[o][u] = Rank[o][v] => u = v)

VARIABLES folder, order,     \* m_sortColumn, m_sortDescending
          list,              \* uids listed
          window,            \* m_pageUid: the oldest row of the default window
          anchor,            \* m_sortAnchor, 0 while there is none
          exhausted, inFlight,
          worker, pending,   \* the page being read, the page asked for meanwhile
          searchShown,       \* m_searchActive
          crossed            \* a page asked for before the last seed was taken after it

vars == <<folder, order, list, window, anchor, exhausted, inFlight, worker, pending,
          searchShown, crossed>>
jobs == <<inFlight, worker, pending>>

SortedBrowse == order # "newest"
UpTo(f, o, u) == {v \in Cached[f] : Rank[o][v] <= Rank[o][u]}

\* sortedHeadersOn(), cachedHeaders() and cachedHeadersBefore(): the rows that
\* follow one, or the first of all.
Page(f, o, after) ==
  LET rest == IF after = 0 THEN Cached[f] ELSE Cached[f] \ UpTo(f, o, after)
  IN {u \in rest : Cardinality(UpTo(f, o, u) \cap rest) <= PageSize}
Last(o, rows) == IF rows = {} THEN 0 ELSE CHOOSE u \in rows : \A v \in rows : Rank[o][v] <= Rank[o][u]

Init == /\ folder \in Folders /\ order = "newest" /\ list = Page(folder, "newest", 0)
        /\ window = Last("newest", list) /\ anchor = 0 /\ exhausted = FALSE
        /\ inFlight = FALSE /\ worker = {} /\ pending = {} /\ searchShown = FALSE /\ crossed = FALSE

(***************************************************************************)
(* Pages.                                                                  *)
(***************************************************************************)
\* applySortPage(), and applySortedPage(), which leaves search results alone.
ApplyPage(append, rows, shown) ==
  /\ exhausted' = IF rows = {} THEN TRUE ELSE exhausted
  /\ anchor' = IF rows = {} THEN anchor ELSE Last(order, rows)
  /\ list' = IF rows = {} \/ searchShown THEN shown
             ELSE IF append THEN shown \cup rows ELSE rows

\* startSortPage(): the newest ask has the slot.
StartPage(j) == IF worker = {} THEN worker' = {j} /\ pending' = {}
                ELSE pending' = {j} /\ UNCHANGED worker

\* requestSortSeed(): the first page under the order, inline by date.
Seed(f, o, shown) ==
  /\ crossed' = FALSE
  /\ IF o = "oldest"
     THEN LET rows == Page(f, o, 0)
          IN /\ exhausted' = (rows = {}) /\ anchor' = Last(o, rows)
             /\ list' = IF rows = {} THEN shown ELSE rows
             /\ UNCHANGED jobs
     ELSE /\ anchor' = 0 /\ exhausted' = FALSE /\ list' = shown /\ inFlight' = TRUE
          /\ StartPage([folder |-> f, order |-> o, after |-> 0, append |-> FALSE])

Unsorted(shown) == /\ list' = shown /\ anchor' = 0 /\ exhausted' = FALSE /\ crossed' = FALSE
                   /\ UNCHANGED jobs

\* seedSortOrder(): back to the default the window is put back.
SeedSortOrder(o) ==
  /\ o # order /\ order' = o
  /\ IF searchShown
     THEN /\ anchor' = 0 /\ exhausted' = FALSE /\ UNCHANGED <<list, window, crossed, jobs>>
     ELSE IF o = "newest"
     THEN /\ Unsorted(Page(folder, o, 0)) /\ window' = Last(o, list')
     ELSE Seed(folder, o, list) /\ UNCHANGED window
  /\ UNCHANGED <<folder, searchShown>>

\* openFolder() of another folder, or clearSearch(), which empties the list and
\* opens the same one: the window from the cache, then the first sorted page.
Opened(f) ==
  /\ folder' = f /\ searchShown' = FALSE /\ window' = Last("newest", Page(f, "newest", 0))
  /\ IF SortedBrowse THEN Seed(f, order, Page(f, "newest", 0))
     ELSE list' = Page(f, "newest", 0) /\ UNCHANGED <<anchor, exhausted, crossed, jobs>>
  /\ UNCHANGED order

OpenFolder(f) == f # folder /\ Opened(f)
ClearSearch   == searchShown /\ Opened(folder)
SearchStarts  == /\ ~searchShown /\ searchShown' = TRUE
                 /\ UNCHANGED <<folder, order, list, window, anchor, exhausted, jobs, crossed>>

\* loadMoreMessages() in a sorted browse.
LoadMoreSorted ==
  /\ SortedBrowse /\ anchor # 0 /\ ~exhausted /\ ~inFlight
  /\ IF order = "oldest"
     THEN ApplyPage(TRUE, Page(folder, order, anchor), list) /\ UNCHANGED jobs
     ELSE /\ inFlight' = TRUE
          /\ StartPage([folder |-> folder, order |-> order, after |-> anchor, append |-> TRUE])
          /\ UNCHANGED <<list, anchor, exhausted>>
  /\ UNCHANGED <<folder, order, window, searchShown, crossed>>

\* ... in the default one; below the end of the cache the server is asked.
LoadMore ==
  /\ ~SortedBrowse /\ ~searchShown /\ window # 0
  /\ LET older == Page(folder, order, window)
     IN older # {} /\ list' = list \cup older /\ window' = Last(order, older)
  /\ UNCHANGED <<folder, order, anchor, exhausted, jobs, searchShown, crossed>>

LoadAll ==
  /\ ~SortedBrowse /\ ~searchShown /\ window # 0
  /\ LET rest == Cached[folder] \ UpTo(folder, order, window)
     IN rest # {} /\ list' = list \cup rest /\ window' = Last(order, rest)
  /\ UNCHANGED <<folder, order, anchor, exhausted, jobs, searchShown, crossed>>

\* sortPageReady's check that the page is of what is still showing.
WantedOfFolder(j) == j.folder = folder /\ ~searchShown /\ SortedBrowse    \* whatever the sort
Wanted(j) == j.order = order /\ j.folder = folder /\ ~searchShown /\ SortedBrowse

\* The page has been read: applied if it is still wanted, then the next ask.
PageReady(j) ==
  /\ inFlight' = FALSE
  /\ IF ~Wanted(j) THEN UNCHANGED <<list, anchor, exhausted, crossed>>
     ELSE /\ ApplyPage(j.append, Page(j.folder, j.order, j.after), list)
          /\ crossed' = (crossed \/ (j.append /\ anchor = 0))
  /\ worker' = pending /\ pending' = {}
  /\ UNCHANGED <<folder, order, window, searchShown>>

Next == \/ \E o \in Orders : SeedSortOrder(o)
        \/ \E f \in Folders : OpenFolder(f)
        \/ ClearSearch \/ SearchStarts \/ LoadMoreSorted \/ LoadMore \/ LoadAll
        \/ \E j \in worker : PageReady(j)
Spec == Init /\ [][Next]_vars

(***************************************************************************)
(* Properties.                                                             *)
(***************************************************************************)
Browsing == SortedBrowse /\ ~searchShown

\* What is listed in a sorted browse is the folder's beginning in that order:
\* paging on leaves no hole that no later page would fill.
NoHoles == Browsing /\ anchor # 0 => list = UpTo(folder, order, anchor)

\* Paging never stops short: it ends with everything listed, and a browse with
\* no page to go on from has its first one on the way.
NeverStuck ==
  Browsing => /\ exhausted => list = Cached[folder] \/ Cached[folder] = {}
              /\ anchor = 0 /\ ~exhausted =>
                   \E j \in worker \cup pending :
                     j.order = order /\ j.folder = folder /\ ~j.append

\* Both, unless a page asked for before the last seed was taken after it: folder,
\* order and sort are compared when a page lands, not which ask it answers.
PagesAreWhole == ~crossed => NoHoles /\ NeverStuck
=============================================================================
