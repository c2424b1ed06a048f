------------------------------- MODULE BulkSend -------------------------------
(***************************************************************************)
(* Bulk sending: one message for each address of a list, queued as one     *)
(* batch of the outbox and sent, row by row, over a connection of its own, *)
(* the bulk leg.                                                           *)
(*                                                                         *)
(* The leg is credentialed from the open account and survives a switch to  *)
(* another.  When it dies it reopens itself after a wait; a batch of an    *)
(* account that is not open waits for it.  Each sent row stays until its   *)
(* copy is in the Sent folder.                                             *)
(*                                                                         *)
(* The client's side is one record, b, and each method an operator from    *)
(* such a record to the next.                                              *)
(***************************************************************************)
EXTENDS Naturals, FiniteSets, FiniteSetsExt

CONSTANTS
    Accounts, NoAccount,
    Size,      \* addresses in a batch
    MaxRows,   \* bound: rows there ever are
    Protos,    \* the protocols an account may speak: "imap", "jmap"
    Events,    \* what may go wrong or be done, see EventNames
    Budget     \* how many of them happen

EventNames == {"switch", "lost", "leg", "filing", "dial", "auth", "expire", "refuse", "throttle",
               "broken", "mute", "restart", "elsewhere", "cancel", "pick", "retry", "older"}

ASSUME BulkAssumption ==
    /\ NoAccount \notin Accounts
    /\ Size \in Nat \ {0} /\ MaxRows \in Nat /\ Budget \in Nat
    /\ Protos \subseteq {"imap", "jmap"} /\ Events \subseteq EventNames

VARIABLES
    proto,      \* fixed in a behaviour
    account,    \* the open account
    up,         \* connected()
    listed,     \* its folders are known, the Sent folder among them
    composing,  \* the messages of a batch are being built and signed
    b,          \* the outbox rows and the client's bulk state
    wire,       \* sendMessage() calls of a leg not reported back
    asked, copies,  \* of each row: how often the user asked, how often it was sent
    unheard,    \* of each row: the copies above these that a JMAP server took, the
                \* answer being lost
    filed,      \* rows whose copy is in the Sent folder
    budget

vars == <<proto, account, up, listed, composing, b, wire, asked, copies, unheard, filed, budget>>

Ids   == 1 .. MaxRows
NoLeg == [on |-> 0, up |-> FALSE, row |-> 0, folder |-> FALSE]

Init ==
    /\ proto \in Protos
    /\ account \in Accounts /\ up = FALSE /\ listed = FALSE /\ composing = FALSE
    /\ b = [rows |-> {}, next |-> 1, batch |-> 0, owner |-> NoAccount, leg |-> NoLeg,
            filing |-> {}, pause |-> FALSE, reopen |-> FALSE,
            valid |-> TRUE, parked |-> {}, out |-> {}]
    /\ wire = {}
    /\ asked = [i \in Ids |-> 0] /\ copies = asked /\ unheard = asked /\ filed = {}
    /\ budget = Budget

Happens(event) == event \in Events /\ budget > 0 /\ budget' = budget - 1

-----------------------------------------------------------------------------
(* The outbox table *)

Live(r)       == r.state \in {"queued", "sending"}
Of(x)         == {r \in x.rows : r.account = x.owner /\ r.batch = x.batch}
Set(R, id, state, later) ==
    {IF r.id = id THEN [r EXCEPT !.state = state, !.later = later] ELSE r : r \in R}

Marked(R, id, state) == {IF r.id = id THEN [r EXCEPT !.state = state] ELSE r : r \in R}
Dropped(R, id) == {r \in R : r.id # id}

Waiting(x) == {r \in Of(x) : r.state = "queued"}
Active(x)  == {r.batch : r \in {q \in x.rows : q.account = account /\ Live(q)}}

-----------------------------------------------------------------------------
(* The leg *)

\* The banner's counts; the batch is over when nothing of it is left to send.
RefreshedProgress(x) ==
    IF x.batch # 0 /\ \A r \in Of(x) : ~Live(r) THEN [x EXCEPT !.batch = 0, !.owner = NoAccount] ELSE x

\* Mutant of EndLeg: the row on the wire is put back in the queue.
EndLegRequeues(x, reason) ==
    IF x.leg.on = 0 THEN x
    ELSE LET y == RefreshedProgress([x EXCEPT
                      !.rows = IF x.leg.row = 0 THEN @ ELSE Marked(@, x.leg.row, "queued"),
                      !.filing = {}, !.leg = NoLeg])
         IN  [y EXCEPT !.reopen = @ \/ (reason /\ y.batch # 0)]

\* Mutant of EndLeg: the leg does not reopen itself.
EndLegForGood(x, reason) ==
    IF x.leg.on = 0 THEN x
    ELSE RefreshedProgress([x EXCEPT
             !.rows = IF x.leg.row = 0 THEN @ ELSE Set(@, x.leg.row, "failed", FALSE),
             !.filing = {}, !.leg = NoLeg])

\* A row on the wire is ambiguous; the copies being filed over the leg are cut
\* off with it.  For a reason, the leg reopens itself after a while.
EndLeg(x, reason) ==
    IF x.leg.on = 0 THEN x
    ELSE LET y == RefreshedProgress([x EXCEPT
                      !.rows = IF x.leg.row = 0 THEN @ ELSE Set(@, x.leg.row, "failed", FALSE),
                      !.filing = {}, !.leg = NoLeg])
         IN  [y EXCEPT !.reopen = @ \/ (reason /\ y.batch # 0)]

\* Mutant of DrainLeg: a second row goes out while one is on the wire.
DrainLegTwice(x) ==
    IF x.leg.on = 0 \/ ~x.leg.up \/ x.batch = 0 THEN x
    ELSE IF Waiting(x) = {} THEN EndLeg(RefreshedProgress(x), FALSE)
    ELSE LET i == Min({r.id : r \in Waiting(x)})
         IN  [x EXCEPT !.rows = Marked(@, i, "sending"), !.leg.row = i,
                       !.out = @ \cup {[leg |-> x.leg.on, row |-> i]}]

DrainLeg(x) ==
    LET due == {r \in Waiting(x) : ~r.later}
        i   == Min({r.id : r \in due})
    IN  IF x.leg.on = 0 \/ x.leg.row # 0 \/ ~x.leg.up THEN x
        ELSE IF x.batch = 0 THEN EndLeg(x, FALSE)
        ELSE IF Waiting(x) = {} THEN EndLeg(RefreshedProgress(x), FALSE)
        ELSE IF due = {} THEN [x EXCEPT !.pause = TRUE]
        ELSE [x EXCEPT !.rows = Marked(@, i, "sending"), !.leg.row = i,
                       !.out = @ \cup {[leg |-> x.leg.on, row |-> i]}]

\* No older leg has a call on the wire under the number of a new one.
FreeLeg == CHOOSE n \in 1 .. Cardinality(wire) + 1 : \A w \in wire : w.leg # n

LegOpened(x) == [x EXCEPT !.leg = [on |-> FreeLeg, up |-> FALSE, row |-> 0, folder |-> listed]]

StartLeg(x, connected) ==
    IF x.leg.on # 0 \/ x.batch = 0 \/ x.owner # account \/ ~connected THEN x
    ELSE IF x.valid THEN LegOpened(x)
    ELSE [x EXCEPT !.parked = @ \cup {x.batch}]

ResumeBatch(x, connected) ==
    LET y == IF x.batch # 0 \/ Active(x) = {} THEN x
             ELSE [x EXCEPT !.batch = Min(Active(x)), !.owner = account]
    IN  IF x.leg.on # 0 THEN x ELSE StartLeg(RefreshedProgress(y), connected)

\* The client's next state, and the calls it makes.
Becomes(x) ==
    /\ b' = [x EXCEPT !.out = {}]
    /\ wire' = wire \cup {[leg |-> w.leg, row |-> w.row, answer |-> "awaited"] : w \in x.out}

-----------------------------------------------------------------------------
(* The user *)

\* A batch is composed when none is in progress ...
SendBulk ==
    /\ ~composing /\ b.batch = 0 /\ b.next + Size <= MaxRows + 1
    /\ composing' = TRUE
    /\ UNCHANGED <<proto, account, up, listed, b, wire, asked, copies, unheard, filed, budget>>

\* ... and queued whole once every message is built, or not at all.
Composed ==
    /\ composing
    /\ composing' = FALSE
    /\ \/ LET new == b.next .. b.next + Size - 1
              x   == [b EXCEPT !.next = @ + Size,
                               !.rows = @ \cup {[id |-> i, batch |-> b.next, account |-> account,
                                                 state |-> "queued", later |-> FALSE] : i \in new}]
              y   == IF x.batch # 0 THEN x ELSE [x EXCEPT !.batch = b.next, !.owner = account]
          IN  /\ Becomes(StartLeg(RefreshedProgress(y), up))
              /\ asked' = [i \in Ids |-> IF i \in new THEN 1 ELSE asked[i]]
       \/ UNCHANGED <<b, wire, asked>>
    /\ UNCHANGED <<proto, account, up, listed, copies, unheard, filed, budget>>

\* Taken back: queued and not sent.
Withdrawn(R) ==
    asked' = [i \in Ids |-> IF \E r \in R : r.id = i /\ r.state = "queued" THEN asked[i] - 1 ELSE asked[i]]

CancelBulk ==
    /\ b.batch # 0 /\ Happens(IF b.filing = {} THEN "cancel" ELSE "filing")
    /\ LET gone == {r \in Of(b) : r.state # "sending"}
       IN  Becomes(DrainLeg(RefreshedProgress([b EXCEPT !.rows = @ \ gone]))) /\ Withdrawn(gone)
    /\ UNCHANGED <<proto, account, up, listed, composing, copies, unheard, filed>>

\* The Cancel button of one row of the open account's Outbox.
CancelRow(r) ==
    /\ r.account = account /\ r.state # "sending" /\ r.id # b.leg.row /\ Happens("pick")
    /\ Becomes(RefreshedProgress([b EXCEPT !.rows = @ \ {r}])) /\ Withdrawn({r})
    /\ UNCHANGED <<proto, account, up, listed, composing, copies, unheard, filed>>

RetryRow(r) ==
    /\ r.account = account /\ r.state = "failed"
    /\ Happens(IF b.filing # {} THEN "filing"
               ELSE IF b.batch = r.batch \/ (b.batch = 0 /\ b.leg.on = 0 /\ ~composing) THEN "retry" ELSE "older")
    /\ LET x == RefreshedProgress([b EXCEPT !.rows = Set(@, r.id, "queued", FALSE)])
       IN  Becomes(DrainLeg(ResumeBatch(x, up)))
    /\ asked' = [asked EXCEPT ![r.id] = @ + 1]
    /\ UNCHANGED <<proto, account, up, listed, composing, copies, unheard, filed>>

Switch(to) ==
    /\ to # account /\ Happens("switch")
    /\ account' = to /\ up' = FALSE /\ listed' = FALSE
    /\ UNCHANGED <<proto, composing, b, wire, asked, copies, unheard, filed>>

-----------------------------------------------------------------------------
(* The server's side, and what is reported of a row *)

Answer(w, error) == wire' = (wire \ {w}) \cup {[w EXCEPT !.answer = error]}

ServerTakes(w) ==
    /\ Answer(w, "None")
    /\ copies' = [copies EXCEPT ![w.row] = @ + 1]
    /\ UNCHANGED <<unheard, budget>>

ServerRefuses(w) ==
    /\ \/ Happens("refuse") /\ Answer(w, "Protocol")
       \/ Happens("auth") /\ Answer(w, "Auth")
       \/ proto = "jmap" /\ Happens("throttle") /\ Answer(w, "Throttled")
    /\ UNCHANGED <<copies, unheard>>

\* The connection breaks before the message was taken, or before the answer
\* came: the SMTP send job fails and is reported as Protocol.
SendBroken(w) ==
    /\ Happens("broken")
    /\ \/ /\ Answer(w, IF proto = "imap" THEN "Protocol" ELSE "Connection")
          /\ UNCHANGED <<copies, unheard>>
       \/ /\ proto = "imap" /\ Answer(w, "Protocol")
          /\ copies' = [copies EXCEPT ![w.row] = @ + 1]
          /\ UNCHANGED unheard
       \/ /\ proto = "jmap" /\ Answer(w, "Connection")
          /\ unheard' = [unheard EXCEPT ![w.row] = @ + 1]
          /\ UNCHANGED copies

\* The SMTP session never gets to NotAuthenticated: nothing calls back.
DialFails(w) ==
    /\ proto = "imap" /\ Happens("mute")
    /\ wire' = wire \ {w}
    /\ UNCHANGED <<copies, unheard>>

ServerAnswers(w) ==
    /\ w.answer = "awaited"
    /\ ServerTakes(w) \/ ServerRefuses(w) \/ SendBroken(w) \/ DialFails(w)
    /\ UNCHANGED <<proto, account, up, listed, composing, b, asked, filed>>

Paced(x) == [RefreshedProgress(x) EXCEPT !.pause = TRUE]

\* JmapBackend::report() raises errorOccurred() after the callback, which ends
\* the leg.
AfterReport(x, w) == IF proto = "jmap" /\ w.answer # "None" /\ x.leg.on = w.leg THEN EndLeg(x, TRUE) ELSE x

\* Over JMAP the server files the copy itself.
FilesCopy(x) == proto = "imap" /\ x.leg.folder

RowSent(w, x) ==
    IF FilesCopy(x) THEN [x EXCEPT !.filing = @ \cup {w.row}]
    ELSE Paced([x EXCEPT !.rows = Dropped(@, w.row)])

\* An expired token is renewed if it is still the open account's.
RowRefusedLogin(w, x) ==
    LET y == [x EXCEPT !.rows = Marked(@, w.row, "queued")]
    IN  IF x.owner = account THEN [y EXCEPT !.valid = FALSE, !.parked = @ \cup {0}] ELSE EndLeg(y, TRUE)

FinishSend(w) ==
    LET x == [b EXCEPT !.leg.row = 0]
    IN  CASE w.answer = "None"       -> RowSent(w, x)
          [] w.answer = "Auth"       -> RowRefusedLogin(w, x)
          [] w.answer = "Connection" -> EndLeg([x EXCEPT !.rows = Marked(@, w.row, "queued")], TRUE)
          [] w.answer = "Throttled"  -> Paced([x EXCEPT !.rows = Set(@, w.row, "queued", TRUE)])
          [] w.answer = "Protocol"   -> Paced([x EXCEPT !.rows = Set(@, w.row, "failed", FALSE)])

Report(w) ==
    /\ w.answer # "awaited"
    /\ LET x == IF w.leg = b.leg.on /\ w.row = b.leg.row THEN AfterReport(FinishSend(w), w) ELSE b
       IN  /\ b' = [x EXCEPT !.out = {}]
           /\ wire' = wire \ {w}
    /\ UNCHANGED <<proto, account, up, listed, composing, asked, copies, unheard, filed, budget>>

CopyFiled(i) ==
    /\ i \in b.filing
    /\ Becomes(Paced([b EXCEPT !.rows = Dropped(@, i), !.filing = @ \ {i}]))
    /\ filed' = filed \cup {i}
    /\ UNCHANGED <<proto, account, up, listed, composing, asked, copies, unheard, budget>>

-----------------------------------------------------------------------------
(* Connections, timers and the process *)

Connect ==
    /\ ~up
    /\ up' = TRUE
    /\ Becomes(ResumeBatch(b, TRUE))
    /\ UNCHANGED <<proto, account, listed, composing, asked, copies, unheard, filed, budget>>

FoldersListed ==
    /\ up /\ ~listed
    /\ listed' = TRUE
    /\ UNCHANGED <<proto, account, up, composing, b, wire, asked, copies, unheard, filed, budget>>

SessionLost ==
    /\ up /\ Happens("lost")
    /\ up' = FALSE
    /\ UNCHANGED <<proto, account, listed, composing, b, wire, asked, copies, unheard, filed>>

LegConnects ==
    /\ b.leg.on # 0 /\ ~b.leg.up
    /\ Becomes(DrainLeg([b EXCEPT !.leg.up = TRUE]))
    /\ UNCHANGED <<proto, account, up, listed, composing, asked, copies, unheard, filed, budget>>

LegFails ==
    /\ b.leg.on # 0
    /\ Happens(IF ~b.leg.up THEN "dial" ELSE IF b.filing # {} THEN "filing" ELSE "leg")
    /\ Becomes(EndLeg(b, TRUE))
    /\ UNCHANGED <<proto, account, up, listed, composing, asked, copies, unheard, filed>>

\* Draining the leg closes it when no row is left to be sent, even while a copy
\* is being filed over it.
MayDisturb == b.filing = {} \/ "filing" \in Events

\* The pause between rows ends, or a throttled row falls due.  A wait that is
\* left over from an earlier leg may end while a copy is being filed.
PauseEnds ==
    /\ b.pause /\ MayDisturb
    /\ Becomes(DrainLeg([b EXCEPT !.pause = FALSE]))
    /\ UNCHANGED <<proto, account, up, listed, composing, asked, copies, unheard, filed, budget>>

BackoffEnds(r) ==
    /\ r.later
    /\ Becomes([b EXCEPT !.rows = Set(@, r.id, r.state, FALSE)])
    /\ UNCHANGED <<proto, account, up, listed, composing, asked, copies, unheard, filed, budget>>

LegReopens ==
    /\ b.reopen
    /\ Becomes(ResumeBatch([b EXCEPT !.reopen = FALSE], up))
    /\ UNCHANGED <<proto, account, up, listed, composing, asked, copies, unheard, filed, budget>>

TokenExpires ==
    /\ b.valid /\ Happens("expire")
    /\ b' = [b EXCEPT !.valid = FALSE]
    /\ UNCHANGED <<proto, account, up, listed, composing, wire, asked, copies, unheard, filed>>

\* The waiters of a renewed token: 0 for a leg whose login was refused, and
\* the batch for one that is to be opened.
TokenAnswered(ok) ==
    /\ b.parked # {} /\ MayDisturb
    /\ IF ok THEN UNCHANGED budget ELSE Happens("auth")
    /\ LET x == [b EXCEPT !.parked = {}, !.valid = ok]
           y == IF 0 \notin b.parked \/ x.leg.on = 0 THEN x
                ELSE IF ok THEN DrainLeg(x) ELSE EndLeg(x, TRUE)
           open == y.leg.on = 0 /\ y.batch # 0 /\ y.batch \in b.parked /\ y.owner = account
       IN  Becomes(IF open THEN LegOpened(y) ELSE y)
    /\ UNCHANGED <<proto, account, up, listed, composing, asked, copies, unheard, filed>>

Recovered(R) ==
    {IF r.account = account /\ r.state = "sending" THEN [r EXCEPT !.state = "failed"] ELSE r : r \in R}

\* The process ends, or is killed, and is started again with the account that
\* was open: recoverStaleOutbox() looks at that account's rows.
Restart ==
    /\ Happens(IF b.owner \in {account, NoAccount} THEN "restart" ELSE "elsewhere")
    /\ up' = FALSE /\ listed' = FALSE /\ composing' = FALSE
    /\ b' = ResumeBatch([b EXCEPT !.rows = Recovered(@), !.batch = 0, !.owner = NoAccount, !.leg = NoLeg,
                                  !.filing = {}, !.pause = FALSE, !.reopen = FALSE, !.parked = {}], FALSE)
    /\ UNCHANGED <<proto, account, wire, asked, copies, unheard, filed>>

-----------------------------------------------------------------------------
Client == SendBulk \/ Composed \/ CancelBulk \/ \E r \in b.rows : CancelRow(r) \/ RetryRow(r)
Server == \/ \E w \in wire : ServerAnswers(w) \/ Report(w)
          \/ \E i \in Ids : CopyFiled(i)
Links  == Connect \/ FoldersListed \/ SessionLost \/ LegConnects \/ LegFails
Clock  == PauseEnds \/ LegReopens \/ TokenExpires \/ \E r \in b.rows : BackoffEnds(r)
Rest   == Restart \/ \E to \in Accounts : Switch(to) \/ \E ok \in BOOLEAN : TokenAnswered(ok)

Next == Client \/ Server \/ Links \/ Clock \/ Rest
Spec == Init /\ [][Next]_vars

\* Connections come up, servers answer, waits and renewals end.
FairSpec ==
    /\ Spec
    /\ WF_vars(Composed) /\ WF_vars(Server) /\ WF_vars(Connect) /\ WF_vars(LegConnects)
    /\ WF_vars(PauseEnds) /\ WF_vars(LegReopens) /\ WF_vars(TokenAnswered(TRUE))
    /\ WF_vars(\E r \in b.rows : BackoffEnds(r))

-----------------------------------------------------------------------------
(* Properties *)

TypeOK ==
    /\ account \in Accounts /\ b.owner \in Accounts \cup {NoAccount}
    /\ \A r \in b.rows : r.id \in Ids /\ r.batch \in Ids /\ r.state \in {"queued", "sending", "failed"}
    /\ \A r, q \in b.rows : r.id = q.id => r = q
    /\ b.leg.row \in 0 .. MaxRows /\ b.filing \subseteq Ids
    /\ asked \in [Ids -> Nat] /\ copies \in [Ids -> Nat]
    /\ unheard \in [Ids -> Nat] /\ filed \subseteq Ids

\* No address of a batch gets a message more often than the user asked for,
\* through dead legs, refused logins, switches and restarts: never over SMTP, and
\* over JMAP only once more for each answer lost after the server took the
\* message, see the findings.
SentAsAsked ==
    \A i \in Ids :
        copies[i] + unheard[i] <= asked[i] + (IF proto = "jmap" THEN unheard[i] ELSE 0)

\* The leg is serial, and a row that is shown as being sent, and which no
\* button can touch, is the one it waits for or is having its copy filed.
SendingIsServed ==
    /\ Cardinality({w \in wire : w.leg = b.leg.on}) <= 1
    /\ \A r \in b.rows : r.state = "sending" => r.id = b.leg.row \/ r.id \in b.filing

\* Does not hold of the code, see the findings.
\* What the banner counts as sent, the rows that are neither left nor failed,
\* was sent.
BannerHonest ==
    LET left == {r.id : r \in Of(b)}
    IN  b.batch # 0 /\ left # {} => \A i \in (b.batch .. b.batch + Size - 1) \ left : copies[i] > 0

\* Does not hold of the code, see the findings.
\* Over IMAP a message that was sent and has left the outbox is in Sent.
CopiesFiled ==
    proto = "imap" => \A i \in Ids : copies[i] > 0 /\ i \notin {r.id : r \in b.rows} => i \in filed

\* The leg waits for a send that nothing will ever report, see the findings.
WaitsForNothing == b.leg.row # 0 /\ \A w \in wire : w.leg # b.leg.on

\* A batch ends: in the long run the open account has no row left to be sent,
\* and none is in progress, so that another may be started; unless the leg is
\* left with an SMTP session that was never established.
BatchEnds ==
    <>[]( \/ WaitsForNothing
          \/ /\ \A r \in b.rows : r.account = account => ~Live(r)
             /\ b.batch # 0 => b.owner # account )

Owed == {i \in Ids : copies[i] < asked[i] /\ \E r \in b.rows : r.id = i /\ Live(r)}
Promise == INSTANCE Delivery WITH Items <- Ids, owed <- Owed

\* Bulk sending implements Delivery, which is told of no copy that is unheard of.
Delivers == Promise!Spec
=============================================================================
