------------------------------ MODULE JmapSync ------------------------------
(* One folder of a JMAP account kept in step with the server                *)
(* (jmapbackend.cpp, syncengine.cpp, mailstore.cpp).  JMAP has one change   *)
(* log per account, read a bounded call at a time from a state string.  Two *)
(* copies of that position exist: the one in memory, which a delta moves,   *)
(* and the one stored with the folder, which only an open moves, to the     *)
(* state the server is in at that moment.  HTTP does not serialize: the     *)
(* answers of several requests land in any order.                           *)
EXTENDS Naturals, FiniteSets, Sequences

CONSTANTS Messages,          \* 1, 2, ...: a later one is newer
          WindowSize,        \* headers a refresh tops up with (20 in the code)
          MaxLog, MaxAsks,   \* bounds: changes on the server, requests of one kind in flight
          MaxGestures        \* bound: opens, refreshes, restarts and refused requests

JmapSyncAssumption == /\ Messages \subseteq Nat /\ WindowSize \in Nat \ {0}
                      /\ {MaxLog, MaxAsks, MaxGestures} \subseteq Nat

VARIABLES log,        \* the account's states: what each message was, state by state
          floor,      \* the oldest state Email/changes still reaches back to
          rows,       \* cached rows of the folder, "none" where there is no row
          token,      \* sync_state of the folder, 0 for none
          state,      \* m_emailState of the folder
          intent,     \* m_folderOpenIntent
          requests,   \* in flight, with the answer once the server has made it
          owes,       \* pendingOps(folder)
          consumed,   \* the state up to which every change has been heard
          excuses,    \* what was skipped, dropped or overtaken on the way
          gestures

vars == <<log, floor, rows, token, state, intent, requests, owes, consumed, excuses, gestures>>

\* "unborn" and "elsewhere" (another mailbox, or none) are not in this folder.
Here      == {"unread", "seen"}
Becomes   == {<<"unborn", "unread">>, <<"unborn", "elsewhere">>, <<"unread", "seen">>,
              <<"elsewhere", "unread">>, <<"unread", "elsewhere">>, <<"seen", "elsewhere">>,
              <<"unread", "destroyed">>, <<"seen", "destroyed">>}
Now       == Len(log)
InFolder(n) == {m \in Messages : log[n][m] \in Here}
Newest(n) == {m \in InFolder(n) : Cardinality({k \in InFolder(n) : k >= m}) <= WindowSize}
None      == [m \in Messages |-> "none"]
Listed    == {m \in Messages : rows[m] # "none"}

Init == /\ log = <<[m \in Messages |-> IF m = 1 THEN "unread" ELSE "unborn"]>>
        /\ floor = 1 /\ rows = None /\ token = 0 /\ state = 0 /\ intent = "none"
        /\ requests = {} /\ owes = FALSE /\ consumed = 0 /\ excuses = {} /\ gestures = 0

server == <<log, floor>>
client == <<rows, token, state, intent, owes, consumed, excuses>>

Post(r)  == requests' = requests \cup r
Ask(kind, since) == [kind |-> kind, since |-> since, at |-> 0]

(***************************************************************************)
(* The server.                                                             *)
(***************************************************************************)
Change(m) ==
  /\ Now < MaxLog
  /\ \E b \in Becomes : log[Now][m] = b[1] /\ log' = Append(log, [log[Now] EXCEPT ![m] = b[2]])
  /\ UNCHANGED <<floor, client, requests, gestures>>

Forget == floor < Now /\ floor' = Now /\ UNCHANGED <<log, client, requests, gestures>>

\* A request is answered from the state of that moment, or refused on the way.
Answer(r) ==
  /\ r.at = 0 /\ requests' = (requests \ {r}) \cup {[r EXCEPT !.at = Now]}
  /\ UNCHANGED <<server, client, gestures>>

(***************************************************************************)
(* What each answer carries.                                               *)
(***************************************************************************)
\* Email/changes from a state, one change to a call, and the two Email/get.
Changed(since)    == {m \in Messages : log[since + 1][m] # log[since][m]}
NewState(r)       == IF r.since = r.at THEN r.at ELSE r.since + 1
HasMore(r)        == NewState(r) < r.at
CannotCalculate(r) == r.since < floor
Named(r)          == IF r.since = r.at THEN {} ELSE Changed(r.since)
Mine(r)           == Named(r) \cap InFolder(r.at)
IsUpdate(r, m)    == log[r.since][m] # "unborn"
VanishedDestroyed(r) == {m \in Named(r) : log[NewState(r)][m] = "destroyed"}  \* moves left out
Vanished(r)       == {m \in Named(r) : IsUpdate(r, m) /\ log[r.at][m] \notin Here}

\* emitHeaders(): the rows as the server had them when it answered.
Stored(r, ms)   == [m \in Messages |-> IF m \in ms THEN log[r.at][m] ELSE rows[m]]

(***************************************************************************)
(* The client.                                                             *)
(***************************************************************************)
\* JmapBackend::openFolder(): the stored position replaces the one in memory.
OpenFolder(why) ==
  /\ gestures < MaxGestures /\ gestures' = gestures + 1
  /\ Cardinality({r \in requests : r.kind = "open"}) < MaxAsks
  /\ why = "refresh" => ~owes /\ consumed > 0
  /\ intent' = why /\ state' = (IF token # 0 THEN token ELSE state)
  /\ Post({Ask("open", 0)})
  /\ excuses' = IF token > consumed /\ consumed > 0 THEN excuses \cup {"skipped"} ELSE excuses
  /\ UNCHANGED <<server, rows, token, owes, consumed>>

\* Which header request an open leads to.  The background pass opens a folder
\* too (intent none): it pages the headers it misses by position.
Follow(why) ==
  IF why = "refresh" THEN Ask("top", 0)
  ELSE IF why = "none" THEN Ask("page", 0)
  ELSE IF Listed = {} \/ state = 0 THEN Ask("all", 0)
  ELSE Ask("delta", state)

\* folderOpened(): applySyncToken() stores the state the server is in now.
Opened(r) ==
  /\ r.kind = "open" /\ r.at # 0
  /\ token' = r.at /\ intent' = "none"
  /\ requests' = (requests \ {r}) \cup (IF InFolder(r.at) = {} THEN {} ELSE {Follow(intent)})
  /\ UNCHANGED <<server, rows, state, owes, consumed, excuses, gestures>>

Overtaken(r) == IF r.at < consumed THEN {"overtaken"} ELSE {}

\* The answer of a positional window: rows are added and refreshed, never removed.
Window(r) ==
  /\ r.kind \in {"top", "all", "page"} /\ r.at # 0
  /\ LET ms == IF r.kind = "top" THEN Newest(r.at) ELSE InFolder(r.at)
     IN /\ rows' = Stored(r, ms)
        /\ consumed' = IF r.kind = "all" /\ Listed = {} THEN r.at ELSE consumed
        /\ excuses' = excuses \cup (IF ms # {} THEN Overtaken(r) ELSE {})
  /\ requests' = requests \ {r}
  /\ UNCHANGED <<server, token, state, intent, owes, gestures>>

\* One call of fetchHeadersSince(), and applyMessagesVanished(): what left is
\* dropped unless the folder still owes the server a change.
Delta(r) ==
  /\ r.kind = "delta" /\ r.at # 0 /\ ~CannotCalculate(r)
  /\ LET gone == Vanished(r)
     IN /\ rows' = [m \in Messages |-> IF m \in gone /\ ~owes THEN "none" ELSE Stored(r, Mine(r))[m]]
        /\ excuses' = excuses \cup (IF owes /\ gone \cap Listed # {} THEN {"dropped"} ELSE {})
                              \cup (IF Named(r) # {} THEN Overtaken(r) ELSE {})
  /\ state' = NewState(r)
  /\ consumed' = IF r.since <= consumed /\ NewState(r) > consumed THEN NewState(r) ELSE consumed
  /\ requests' = (requests \ {r}) \cup (IF HasMore(r) THEN {Ask("delta", NewState(r))} ELSE {})
  /\ UNCHANGED <<server, token, intent, owes, gestures>>

\* cannotCalculateChanges: folderInvalidated() empties the folder and reads it
\* again, and so does the backend.
Invalidated(r) ==
  /\ r.kind = "delta" /\ r.at # 0 /\ CannotCalculate(r)
  /\ rows' = None /\ state' = 0 /\ consumed' = 0 /\ owes' = FALSE
  /\ requests' = (requests \ {r}) \cup {Ask("all", 0)}
  /\ UNCHANGED <<server, token, intent, excuses, gestures>>

Refused(r) ==
  /\ gestures < MaxGestures /\ gestures' = gestures + 1
  /\ r.at # 0 /\ requests' = requests \ {r}
  /\ UNCHANGED <<server, client>>

\* Ops of the folder are queued and drained (Journal); a drain refreshes.
Owe   == ~owes /\ owes' = TRUE
         /\ UNCHANGED <<server, rows, token, state, intent, requests, consumed, excuses, gestures>>
Drain == owes /\ owes' = FALSE
         /\ UNCHANGED <<server, rows, token, state, intent, requests, consumed, excuses, gestures>>

\* disconnectAccount() drops the position in memory, a quit the requests too.
Restart ==
  /\ gestures < MaxGestures /\ gestures' = gestures + 1
  /\ state' = 0 /\ intent' = "none" /\ requests' = {}
  /\ UNCHANGED <<server, rows, token, owes, consumed, excuses>>

Next == \/ \E m \in Messages : Change(m)
        \/ \E why \in {"open", "refresh", "none"} : OpenFolder(why)
        \/ \E r \in requests : \/ Answer(r) \/ Opened(r) \/ Window(r) \/ Delta(r)
                               \/ Invalidated(r) \/ Refused(r)
        \/ Forget \/ Owe \/ Drain \/ Restart
Spec == Init /\ [][Next]_vars

(***************************************************************************)
(* Properties.                                                             *)
(***************************************************************************)
\* The cache is never older than what the client has heard: once a delta has
\* brought it to a state, no row shows, and no row is missing, what the folder
\* has not been since, unless a change was skipped, dropped or overtaken.
Row(n, m) == IF log[n][m] \in Here THEN log[n][m] ELSE "none"
FollowsTheServer ==
  excuses = {} /\ consumed > 0 =>
    \A m \in Messages : rows[m] \in {Row(n, m) : n \in consumed..Now}

\* Does not hold: a refresh, a pass of the background or an open whose delta
\* fails moves the stored position past changes nobody reads any more.
NothingSkipped == "skipped" \notin excuses
\* Does not hold: vanished() returns early, the position has moved on.
NothingDropped == "dropped" \notin excuses
\* Does not hold: a window answered before a delta can land after it.
NothingOvertaken == "overtaken" \notin excuses
=============================================================================
