------------------------------ MODULE JmapTree ------------------------------
(* The mailbox tree of a JMAP account (jmapbackend.cpp): listed once, then  *)
(* topped up from the server's change log, a bounded call at a time; every  *)
(* full path is built by walking up the parents.  The client's own folder   *)
(* operations (FolderOps) are not part of it.                               *)
EXTENDS Naturals, Sequences, FiniteSets

CONSTANTS Mailboxes,          \* positive numbers
          MaxLog, MaxAsks     \* bounds: states of the server's tree, listings under way

JmapTreeAssumption == Mailboxes \subseteq Nat \ {0} /\ {MaxLog, MaxAsks} \subseteq Nat

VARIABLES log,       \* the tree state by state; {p} for a mailbox below p, {} for none
          floor,     \* the oldest state the server still computes changes from
          boxes,     \* m_mailboxes
          state,     \* m_mailboxState, 0 for none
          requests,  \* in flight: since which state, answered at which (0 not yet)
          listed,    \* what foldersListed() last said, a set of at most one listing
          overlapped \* a listing was asked for while another was under way

vars   == <<log, floor, boxes, state, requests, listed, overlapped>>
server == <<log, floor>>
client == <<boxes, state, listed, overlapped>>

Top   == 0           \* the parent of a top-level mailbox
Known(t) == {b \in Mailboxes : t[b] # {}}
Now   == Len(log)
Depth == Cardinality(Mailboxes)

\* rebuildPaths(): a parent that is not there ends the walk, and so does a depth
\* no tree has.
Path(t, b) ==
  LET walk[c \in Mailboxes \cup {Top}, d \in 0..Depth] ==
        IF d = 0 \/ c \notin Known(t) THEN <<>>
        ELSE Append(walk[CHOOSE p \in t[c] : TRUE, d - 1], c)
  IN walk[b, Depth]
Paths(t) == [b \in Known(t) |-> Path(t, b)]

Init == /\ log = <<[b \in Mailboxes |-> IF b = 1 THEN {Top} ELSE {}]>> /\ floor = 1
        /\ boxes = [b \in Mailboxes |-> {}] /\ state = 0 /\ requests = {} /\ listed = {}
        /\ overlapped = FALSE

\* The server: a mailbox is created, moved, or destroyed when it has no children.
Below(t, b, c) == \E i \in DOMAIN Path(t, b) : Path(t, b)[i] = c
Change(b, at) ==
  /\ Now < MaxLog /\ at # log[Now][b]
  /\ at = {} => \A c \in Known(log[Now]) : log[Now][c] # {b}
  /\ \A p \in at : p = Top \/ (p \in Known(log[Now]) /\ ~Below(log[Now], p, b))
  /\ log' = Append(log, [log[Now] EXCEPT ![b] = at])
  /\ UNCHANGED <<floor, client, requests>>
Forget == floor < Now /\ floor' = Now /\ UNCHANGED <<log, client, requests>>
Answer(r) == /\ r.at = 0 /\ requests' = (requests \ {r}) \cup {[r EXCEPT !.at = Now]}
             /\ UNCHANGED <<server, client>>

\* listFolders(): the whole list without a position, the changes from one.
Ask(s) == [since |-> IF boxes = [b \in Mailboxes |-> {}] THEN 0 ELSE s, at |-> 0]
ListFolders ==
  /\ Cardinality(requests) < MaxAsks /\ requests' = requests \cup {Ask(state)}
  /\ overlapped' = (overlapped \/ requests # {}) /\ UNCHANGED <<server, boxes, state, listed>>

ListAllMailboxes(r) ==
  /\ r.at # 0 /\ r.since = 0
  /\ boxes' = log[r.at] /\ state' = r.at /\ listed' = {Paths(log[r.at])}
  /\ requests' = requests \ {r} /\ UNCHANGED <<server, overlapped>>

\* One Mailbox/changes with its two Mailbox/get: one change to a call.
NewState(r) == IF r.since = r.at THEN r.at ELSE r.since + 1
MergedHalf(r) == \* destroyed ids left alone
  [b \in Mailboxes |-> IF log[NewState(r)][b] = log[r.since][b] \/ log[r.at][b] = {}
                       THEN boxes[b] ELSE log[r.at][b]]
Merged(r) ==
  [b \in Mailboxes |-> IF log[NewState(r)][b] = log[r.since][b] THEN boxes[b]
                       ELSE IF log[NewState(r)][b] = {} THEN {}
                       ELSE IF log[r.at][b] = {} THEN boxes[b] ELSE log[r.at][b]]

\* Another page before anyone is told, from wherever the position is by then.
HasMore(r) == NewState(r) < r.at
ListChangedMailboxes(r) ==
  /\ r.at # 0 /\ r.since # 0 /\ r.since >= floor
  /\ boxes' = Merged(r) /\ state' = NewState(r)
  /\ requests' = (requests \ {r}) \cup (IF HasMore(r) THEN {[since |-> state', at |-> 0]} ELSE {})
  /\ listed' = IF HasMore(r) THEN listed ELSE {Paths(boxes')}
  /\ UNCHANGED <<server, overlapped>>

CannotCalculate(r) ==
  /\ r.at # 0 /\ r.since # 0 /\ r.since < floor
  /\ state' = 0 /\ requests' = (requests \ {r}) \cup {[since |-> 0, at |-> 0]}
  /\ UNCHANGED <<server, boxes, listed, overlapped>>

Refused(r) == r.at # 0 /\ requests' = requests \ {r} /\ UNCHANGED <<server, client>>

Next == \/ \E b \in Mailboxes, at \in {{}} \cup {{p} : p \in Mailboxes \cup {Top}} : Change(b, at)
        \/ Forget \/ ListFolders
        \/ \E r \in requests : \/ Answer(r) \/ ListAllMailboxes(r) \/ ListChangedMailboxes(r)
                               \/ CannotCalculate(r) \/ Refused(r)
Spec == Init /\ [][Next]_vars

(***************************************************************************)
(* Properties.                                                             *)
(***************************************************************************)
\* A listing is of a tree the account once had: every folder at its whole path,
\* none truncated where a parent had not arrived, none that is gone.
ListedAsItWas == \A l \in listed : \E n \in 1..Now : l = Paths(log[n])

\* What is remembered is no older than the position the next listing starts
\* from, or of a mailbox the next one will hear is gone.
TreeIsCurrent ==
  state # 0 => \A b \in Mailboxes :
                 LET since == {log[n][b] : n \in state..Now} IN boxes[b] \in since \/ {} \in since

\* Both hold while listings do not overlap.  (Where they do, the position of one
\* runs ahead of the tree the other leaves behind.)
TreeIsWhole == ~overlapped => ListedAsItWas /\ TreeIsCurrent
=============================================================================
