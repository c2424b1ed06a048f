----------------------------- MODULE AccountPoll -----------------------------
(* Mail of the accounts that are not open (mailclient.cpp): a round visits  *)
(* them one at a time, and a visit walks the account's folders one at a     *)
(* time, on a backend of its own.  Both go on when a server answers, and    *)
(* neither can count on one: each step has a deadline, and each answer may  *)
(* come after it.                                                           *)
EXTENDS Naturals, Sequences, FiniteSets

CONSTANTS Polled,            \* accounts, in the order of the settings
          Folders,           \* folders of the account a pass walks
          MaxTicks, MaxOpens \* bounds: rounds started, times an account is opened

Open      == {Polled[i] : i \in DOMAIN Polled}
Mailboxes == {Folders[i] : i \in DOMAIN Folders}

\* A pass of an account that was never synced walks its INBOX.
AccountPollAssumption ==
  Polled \in Seq(Open) /\ Folders \in Seq(Mailboxes) \ {<<>>} /\ {MaxTicks, MaxOpens} \subseteq Nat

VARIABLES busy,      \* m_accountPollBusy
          queue,     \* accounts the round has still to visit
          visits,    \* visits with something outstanding: an answer or their deadline
          ticks,
          left,      \* folders the pass has still to walk
          current,   \* the folder it is at, a set of at most one
          gen,       \* which step it is at
          rows,      \* headers collected, by the folder they are of
          replies,   \* answers that may come, with the step that asked
          deadlines, \* steps whose deadline is armed
          live,      \* the pass's backend still exists
          cached,    \* rows cached: the folder they are of, by folder filed under
          numbered,  \* UIDVALIDITY the cached rows of a folder were fetched under
          token,     \* sync_state stored for it
          validity,  \* the server's UIDVALIDITY
          opens

rounds == <<busy, queue, visits, ticks>>
pass   == <<left, current, gen, rows, replies, deadlines, live, cached, numbered, token,
            validity, opens>>
vars   == <<rounds, pass>>

(***************************************************************************)
(* The round.                                                              *)
(***************************************************************************)
Visit(a) == [account |-> a, advanced |-> FALSE, running |-> TRUE, armed |-> TRUE, tick |-> ticks']
Pending(v) == v.running \/ v.armed

\* The next visit, or the end of the round.
Step(vs, q) ==
  IF q = <<>> THEN busy' = FALSE /\ queue' = q /\ visits' = {v \in vs : Pending(v)}
  ELSE busy' = TRUE /\ queue' = Tail(q) /\ visits' = {v \in vs : Pending(v)} \cup {Visit(Head(q))}

\* A visit's callback and its deadline both move the round on; the second is a no-op.
AdvanceTwice(v, after) == Step((visits \ {v}) \cup {[after EXCEPT !.advanced = TRUE]}, queue)   \* no guard
Advance(v, after) ==
  IF v.advanced THEN /\ visits' = {w \in (visits \ {v}) \cup {after} : Pending(w)}
                     /\ UNCHANGED <<busy, queue>>
  ELSE Step((visits \ {v}) \cup {[after EXCEPT !.advanced = TRUE]}, queue)

Tick(open) ==
  /\ ~busy /\ ticks < MaxTicks /\ ticks' = ticks + 1
  /\ LET q == SelectSeq(Polled, LAMBDA a : a # open) IN q # <<>> /\ Step(visits, q)
  /\ UNCHANGED pass
Done(v)     == v.running /\ UNCHANGED <<ticks, pass>> /\ Advance(v, [v EXCEPT !.running = FALSE])
Deadline(v) == v.armed /\ UNCHANGED <<ticks, pass>> /\ Advance(v, [v EXCEPT !.armed = FALSE])

Rounds == \/ \E a \in Open : Tick(a)
          \/ \E v \in visits : Done(v) \/ Deadline(v)

(***************************************************************************)
(* The pass over one account's folders.                                    *)
(***************************************************************************)
Ask(kind, f) == [kind |-> kind, folder |-> f, step |-> gen', token |-> token[f]]
folders == <<cached, numbered, validity, opens>>

\* next(): the step before is retired, and the next folder is opened.
Walk(rs, ds) ==
  /\ gen' = gen + 1
  /\ IF left = <<>>
     THEN live' = FALSE /\ replies' = {} /\ deadlines' = ds /\ UNCHANGED <<left, current, rows>>
     ELSE /\ left' = Tail(left) /\ current' = {Head(left)} /\ rows' = {}
          /\ replies' = rs \cup {Ask("open", Head(left))}
          /\ deadlines' = ds \cup {gen'} /\ UNCHANGED live

\* folderInvalidated() comes before the answer of the open that found it out.
Invalidates(r) == r.token # 0 /\ r.token # validity[r.folder]

\* folderOpened(): the token is stored; a voided folder is left as it is, any
\* other is fetched under a deadline of its own.
FolderOpened(r) ==
  /\ r.kind = "open"
  /\ IF r.folder \notin current
     THEN replies' = replies \ {r} /\ UNCHANGED <<left, current, gen, rows, deadlines, live, token>>
     ELSE /\ token' = [token EXCEPT ![r.folder] = validity[r.folder]]
          /\ \/ Invalidates(r) /\ Walk(replies \ {r}, deadlines)
             \/ /\ ~Invalidates(r) /\ gen' = gen + 1 /\ deadlines' = deadlines \cup {gen'}
                /\ replies' = (replies \ {r}) \cup {Ask("fetch", r.folder)}
                /\ UNCHANGED <<left, current, rows, live>>
  /\ UNCHANGED <<folders, rounds>>

\* headersFetched(): a batch, of whichever fetch is still being answered.
HeadersFetched(r) ==
  /\ r.kind = "fetch" /\ r.folder \in current /\ rows' = rows \cup {r.folder}
  /\ UNCHANGED <<left, current, gen, replies, deadlines, live, folders, token, rounds>>

\* The fetch is complete: an answer that outlived its step stores nothing.
\* Spam among the arrivals is moved before the pass goes on.
AnyTime(r) == r.step <= gen                    \* the counter not looked at
InTime(r) == r.step = gen
Stored(r) ==
  /\ r.kind = "fetch"
  /\ IF ~InTime(r)
     THEN replies' = replies \ {r} /\ UNCHANGED <<left, current, gen, rows, deadlines, live, cached, numbered>>
     ELSE /\ cached' = [cached EXCEPT ![r.folder] = @ \cup rows]
          /\ numbered' = [numbered EXCEPT ![r.folder] = IF rows = {} THEN @ ELSE @ \cup {validity[r.folder]}]
          /\ \/ Walk(replies \ {r}, deadlines)
             \/ /\ rows # {} /\ replies' = (replies \ {r}) \cup {[r EXCEPT !.kind = "move"]}
                /\ UNCHANGED <<left, current, gen, rows, deadlines, live>>
  /\ UNCHANGED <<validity, opens, token, rounds>>
Moved(r) ==
  /\ r.kind = "move"
  /\ IF InTime(r) THEN Walk(replies \ {r}, deadlines)
     ELSE replies' = replies \ {r} /\ UNCHANGED <<left, current, gen, rows, deadlines, live>>
  /\ UNCHANGED <<folders, token, rounds>>

\* A deadline moves on the step it was armed for, if that is still the step and
\* the pass still exists.
TimesOut(d) ==
  /\ IF live /\ d = gen THEN Walk(replies, deadlines \ {d})
     ELSE deadlines' = deadlines \ {d} /\ UNCHANGED <<left, current, gen, rows, replies, live>>
  /\ UNCHANGED <<folders, token, rounds>>

\* errorOccurred() or connectionLost(): the backend goes, and what it owned.
Finish == /\ live /\ live' = FALSE /\ replies' = {}
          /\ UNCHANGED <<left, current, gen, rows, deadlines, folders, token, rounds>>

Start == /\ ~live /\ opens < MaxOpens /\ opens' = opens + 1
         /\ live' = TRUE /\ gen' = 1 /\ rows' = {} /\ deadlines' = {1}
         /\ left' = Tail(Folders) /\ current' = {Head(Folders)}
         /\ replies' = {Ask("open", Head(Folders))}
         /\ UNCHANGED <<cached, numbered, validity, token, rounds>>

\* The server numbers a folder's messages anew.
Renumber(f) == /\ validity[f] = 1 /\ validity' = [validity EXCEPT ![f] = 2]
               /\ UNCHANGED <<left, current, gen, rows, replies, deadlines, live, cached, numbered, token, opens, rounds>>

\* The user opens the account: a folder found voided is emptied and read again.
OpenAccount(f) ==
  /\ opens < MaxOpens /\ opens' = opens + 1
  /\ token' = [token EXCEPT ![f] = validity[f]]
  /\ IF token[f] # validity[f]
     THEN cached' = [cached EXCEPT ![f] = {f}] /\ numbered' = [numbered EXCEPT ![f] = {validity[f]}]
     ELSE cached' = [cached EXCEPT ![f] = @ \cup {f}] /\ numbered' = [numbered EXCEPT ![f] = @ \cup {validity[f]}]
  /\ UNCHANGED <<left, current, gen, rows, replies, deadlines, live, validity, rounds>>

Init == /\ busy = FALSE /\ queue = <<>> /\ visits = {} /\ ticks = 0
        /\ left = <<>> /\ current = {} /\ gen = 0 /\ rows = {} /\ replies = {} /\ deadlines = {}
        /\ live = FALSE /\ opens = 0
        /\ cached = [f \in Mailboxes |-> {f}] /\ numbered = [f \in Mailboxes |-> {1}]
        /\ token = [f \in Mailboxes |-> 1] /\ validity = [f \in Mailboxes |-> 1]

Passes == \/ Start \/ Finish
          \/ \E r \in replies : FolderOpened(r) \/ HeadersFetched(r) \/ Stored(r) \/ Moved(r)
          \/ \E d \in deadlines : TimesOut(d)
          \/ \E f \in Mailboxes : Renumber(f) \/ OpenAccount(f)
Next == Rounds \/ Passes
Spec == Init /\ [][Next]_vars

(***************************************************************************)
(* Properties.                                                             *)
(***************************************************************************)
\* "One at a time": a round is busy exactly while one visit of it has not moved
\* it on, however late earlier visits end, and that visit has a deadline; no
\* account that never answers can keep the others from being visited.
OneAtATime ==
  LET waiting == {v \in visits : ~v.advanced}
  IN Cardinality(waiting) = (IF busy THEN 1 ELSE 0) /\ \A v \in waiting : v.armed

\* Headers are filed under the folder they were fetched from, whatever answers
\* late, and a pass that exists has a deadline for the step it is at.
FiledWhereFetched ==
  /\ \A f \in Mailboxes : cached[f] \subseteq {f}
  /\ live => gen \in deadlines

PollsGoOn == OneAtATime /\ FiledWhereFetched

\* Does not hold: a folder the server has voided "is skipped and left to the next
\* switch to this account" (mailclient.cpp:6307): the token stored for it still
\* tells that switch that its rows are of an older numbering.
VoidedIsLeftForTheSwitch == \A f \in Mailboxes : numbered[f] \subseteq {token[f]}
=============================================================================
