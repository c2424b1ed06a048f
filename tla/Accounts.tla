------------------------------ MODULE Accounts ------------------------------
(* The list of accounts in the settings and the one that is open           *)
(* (accountstore.cpp, mailclient.cpp).  An account is named by its position, *)
(* which saving, removing, dragging and importing all change; its cache, its *)
(* queue and its wallet entry are named by its key.                         *)
EXTENDS Naturals, Sequences, FiniteSets, SequencesExt

CONSTANTS Servers, None,
          Dialogs, \* what the account dialog may be left with
          Names,   \* what an archive is imported as
          MaxIds, MaxSaves, MaxDrags, MaxQuits \* bounds: accounts ever made, ...

AccountsAssumption == None \notin Servers \cup Names /\ {MaxIds, MaxSaves, MaxDrags, MaxQuits} \subseteq Nat

VARIABLES rows,    \* the accounts array of the settings
          current, \* m_current, counted from 1
          open,    \* m_acct, Blank before any account exists
          session, \* the row the live connection was made from, or Blank
          queued,  \* account keys the journal or the outbox holds rows of
          import,  \* the archive being imported, and whether mail of it was stored
          kept,    \* archives with mail in the cache
          listed,  \* archives whose folders are stored
          ids, saves, drags, quits,
          rekeyed, \* ghost: keys an edit took from an account with changes queued
          undone   \* ghost: an import that found nothing took its account back out

books == <<queued, kept, listed, rekeyed, undone>>
count == <<ids, saves, drags, quits>>
vars  == <<rows, current, open, session, import, books, count>>

Row(id, server, key, local, prefs) ==
  [id |-> id, server |-> server, key |-> key, local |-> local, prefs |-> prefs]
Blank == Row(0, None, None, FALSE, 0)   \* AccountConfig()
\* An archive keeps its storage key for good; any other account is user@host.
KeyOf(r)  == IF r.key # None THEN r.key ELSE r.server
\* kSessionKeys: what a live connection depends on.
SessionOf(r) == <<r.server, r.key, r.local>>
Positions == DOMAIN rows
Bound(i, s) == IF s = <<>> THEN i ELSE IF i > Len(s) THEN Len(s) ELSE i
NoImport  == [name |-> None, found |-> FALSE]

(***************************************************************************)
(* Opening an account.                                                     *)
(***************************************************************************)
\* switchAccountInternal() over the list s: the fields are read, bounded, anew.
SwitchTo(i, s) == /\ current' = Bound(i, s) /\ session' = Blank
                  /\ open' = (IF s = <<>> THEN Blank ELSE s[Bound(i, s)])
SwitchAccount(i) == /\ i \in Positions /\ SwitchTo(i, rows) /\ UNCHANGED <<rows, import, books, count>>

\* The session connects; a local archive never does.
Connected ==
  /\ session = Blank /\ open # Blank /\ ~open.local /\ session' = open
  /\ UNCHANGED <<rows, current, open, import, books, count>>
ConnectionLost ==
  /\ session # Blank /\ session' = Blank /\ UNCHANGED <<rows, current, open, import, books, count>>

Change == /\ open # Blank /\ queued' = queued \cup {KeyOf(open)}
          /\ UNCHANGED <<rows, current, open, session, import, kept, listed, rekeyed, undone, count>>

(***************************************************************************)
(* Editing the list.                                                       *)
(***************************************************************************)
\* saveDetails(): an index out of range appends.  An archive stops being one when
\* a server is filled in, unless the dialog says which it is.
Saved(r, d) == [r EXCEPT !.server = d.server, !.prefs = d.prefs,
                         !.local  = IF d.local = "unsaid" THEN r.local /\ d.server = None ELSE d.local = "yes"]
SessionChanged(old, new) == SessionOf(old) # SessionOf(new)
SaveDetails(i, d) ==
  /\ saves < MaxSaves /\ saves' = saves + 1 /\ UNCHANGED <<drags, quits, import, queued, kept, listed, undone>>
  /\ IF i \notin Positions
     THEN /\ ids < MaxIds /\ ids' = ids + 1 /\ UNCHANGED rekeyed
          /\ rows' = Append(rows, Saved(Row(ids', None, None, FALSE, 0), d)) /\ SwitchTo(Len(rows'), rows')
     ELSE LET r == Saved(rows[i], d) IN
          /\ rows' = [rows EXCEPT ![i] = r] /\ UNCHANGED ids
          /\ rekeyed' = rekeyed \cup ({KeyOf(rows[i])} \ {KeyOf(r)})
          /\ IF i # current \/ session = Blank \/ SessionChanged(rows[i], r) THEN SwitchTo(i, rows')
             ELSE open' = [open EXCEPT !.prefs = r.prefs] /\ UNCHANGED <<current, session>>

\* The settings page at i: everything but the session's keys, if it changed.
WithPrefs(i, p) == [rows EXCEPT ![i].prefs = p]
SavePrefs(i, p) ==
  /\ i \in Positions /\ saves < MaxSaves /\ saves' = saves + 1
  /\ rows' = WithPrefs(i, p) /\ rows' # rows
  /\ open' = (IF i = current /\ open # Blank THEN [open EXCEPT !.prefs = p] ELSE open)
  /\ UNCHANGED <<current, session, import, books, ids, drags, quits>>

\* What is queued for the account goes with it.
Without(i) == RemoveAt(rows, i)
RemoveAccount(i) ==
  /\ i \in Positions /\ rows' = Without(i) /\ queued' = queued \ {KeyOf(rows[i])}
  /\ IF rows' = <<>> THEN open' = Blank /\ session' = Blank /\ UNCHANGED current
     ELSE SwitchTo(current, rows')
  /\ UNCHANGED <<import, kept, listed, rekeyed, undone, count>>

\* The position follows the account it is of.
FollowedDown(at, from, to) == IF at = from THEN to ELSE IF from < at /\ at < to THEN at - 1   \* < for <=
                              ELSE IF to <= at /\ at < from THEN at + 1 ELSE at
Followed(at, from, to) ==
  IF at = from THEN to
  ELSE IF from < at /\ at <= to THEN at - 1
  ELSE IF to <= at /\ at < from THEN at + 1 ELSE at
Dragged(from, to) == InsertAt(RemoveAt(rows, from), to, rows[from])
MoveAccount(from, to) ==
  /\ {from, to} \subseteq Positions /\ from # to /\ drags < MaxDrags /\ drags' = drags + 1
  /\ rows' = Dragged(from, to)
  /\ current' = Followed(current, from, to)
  /\ UNCHANGED <<open, session, import, books, ids, saves, quits>>

(***************************************************************************)
(* Importing an archive: an account at once, its folders at the end.       *)
(***************************************************************************)
ImportThunderbird(n) ==
  /\ import = NoImport /\ ids < MaxIds /\ n \notin {rows[i].key : i \in Positions}
  /\ n \notin kept /\ ids' = ids + 1 /\ import' = [name |-> n, found |-> FALSE]
  /\ rows' = Append(rows, Row(ids', None, n, TRUE, 0))
  /\ UNCHANGED <<current, open, session, books, saves, drags, quits>>
\* Fifty messages at a time.
Flushed == /\ import # NoImport /\ import' = [import EXCEPT !.found = TRUE]
           /\ kept' = kept \cup {import.name}
           /\ UNCHANGED <<rows, current, open, session, queued, listed, rekeyed, undone, count>>
Discarded(n) == SelectSeq(rows, LAMBDA r : r.key # n)
\* Its last step, on the window's thread.
ImportEnds ==
  /\ import # NoImport /\ import' = NoImport /\ UNCHANGED <<queued, kept, rekeyed, count>>
  /\ LET at == {i \in Positions : rows[i].key = import.name} IN
     IF import.found
     THEN /\ listed' = listed \cup {import.name} /\ UNCHANGED <<rows, undone>>
          /\ IF current \in at THEN SwitchTo(current, rows) ELSE UNCHANGED <<current, open, session>>
     ELSE /\ rows' = (IF at = {} THEN rows ELSE Discarded(import.name))
          /\ undone' = (at # {} \/ undone)
          /\ UNCHANGED <<listed, current, open, session>>

\* The importer is joined, and what it had left to say is never heard.
Quit ==
  /\ quits < MaxQuits /\ quits' = quits + 1 /\ import' = NoImport
  /\ current' = Bound(current, rows) /\ session' = Blank
  /\ open' = (IF rows = <<>> THEN Blank ELSE rows[current'])
  /\ UNCHANGED <<undone, rows, queued, kept, listed, rekeyed, ids, saves, drags>>

Init ==
  /\ rows \in {<<>>} \cup {<<Row(1, s, None, FALSE, 0)>> : s \in Servers}
  /\ current = 1 /\ open = (IF rows = <<>> THEN Blank ELSE rows[1]) /\ session = Blank
  /\ queued = {} /\ import = NoImport /\ kept = {} /\ listed = {}
  /\ ids = 1 /\ saves = 0 /\ drags = 0 /\ quits = 0 /\ rekeyed = {} /\ undone = FALSE

Next ==
  \/ Connected \/ ConnectionLost \/ Change \/ Flushed \/ ImportEnds \/ Quit
  \/ \E i \in 1..(Len(rows) + 1), d \in Dialogs : SaveDetails(i, d)
  \/ \E i \in Positions : \/ SwitchAccount(i) \/ RemoveAccount(i)
                          \/ \E p \in {0, 1} : SavePrefs(i, p)
                          \/ \E to \in Positions : MoveAccount(i, to)
  \/ \E n \in Names : ImportThunderbird(n)
Spec == Init /\ [][Next]_vars

(***************************************************************************)
(* Properties.                                                             *)
(***************************************************************************)
\* The account on screen is the one its position names, with the settings stored
\* for it, and the connection was made from what is stored for that account: no
\* sequence of saves, drags and removals leaves mail of one account under
\* another, or a connection on settings that were edited.  (The first import of
\* a new installation is opened when it ends; an import that found nothing
\* moves the others under the position, see the findings.)
OpenIsCurrent ==
  ~undone /\ rows # <<>> /\ open # Blank =>
    /\ current \in Positions /\ open = rows[current]
    /\ session # Blank => SessionOf(session) = SessionOf(open) /\ ~open.local

\* No change is queued for an account that is gone, to be replayed against one
\* that takes its key, or to wait for ever.  (An edit of the login that takes the
\* key away from its queue, and an import that takes back an account given a
\* server meanwhile, are findings.)
ChangesAreOwned == ~undone => queued \subseteq {KeyOf(rows[i]) : i \in Positions} \cup rekeyed

AccountsAgree == OpenIsCurrent /\ ChangesAreOwned

\* Does not hold of the code, see the findings.
\* "A partial import stays browsable" (mailclient.cpp:4952).
PartialImportIsBrowsable ==
  \A n \in kept : (\E i \in Positions : rows[i].key = n) /\ n # import.name => n \in listed
\* Does not hold of the code, see the findings.
\* Removing an account that is not open leaves the open one open.
OthersStayOpen ==
  [][\A i \in Positions : RemoveAccount(i) /\ open # Blank /\ open # rows[i] => open' = open]_vars
=============================================================================
