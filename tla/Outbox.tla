-------------------------------- MODULE Outbox --------------------------------
(***************************************************************************)
(* Sending mail: the compose window's Send, the outbox table, and the      *)
(* drain that hands its rows to the server one at a time.                  *)
(*                                                                         *)
(* With a session and no undo hold a message goes straight to the wire and *)
(* its window closes on success; everything else is a row of the outbox,   *)
(* written before the network is tried.  drainOutbox() sends the rows of   *)
(* the open account that are due, in id order, and finishOutboxSend()      *)
(* drops, defers, delays or fails the row by the error that comes back.    *)
(* Over IMAP a sent row is kept until its copy is in the Sent folder.      *)
(*                                                                         *)
(* The bulk leg, which sends the rows of a batch over a connection of its  *)
(* own, is not part of this module.                                        *)
(***************************************************************************)
EXTENDS Naturals, FiniteSets

CONSTANTS
    Mails,      \* messages the user writes
    Signed,     \* those whose Send waits for gpg first
    Accounts,   \* mail accounts; one is open at a time
    NoAccount,  \* the account of a message not sent yet
    Proto,      \* which backend sends: "imap" (over SMTP) or "jmap"
    Oauth,      \* the accounts sign in with tokens, which expire
    Holds,      \* what the undo-send setting may be at a Send
    DiskFull,   \* the cache may refuse an INSERT
    Budget      \* how often each event of Events happens

Faults == {"drop", "refuse", "throttle", "auth", "dial", "switch", "restart"}
Events == Faults \cup {"send", "retry", "any"}

ASSUME OutboxAssumption ==
    /\ Signed \subseteq Mails
    /\ NoAccount \notin Accounts
    /\ Proto \in {"imap", "jmap"}
    /\ Oauth \in BOOLEAN /\ DiskFull \in BOOLEAN
    /\ Holds \subseteq BOOLEAN
    /\ Budget \in [Events -> Nat]

VARIABLES
    rows,       \* the outbox table, a set of Row records
    nextId,     \* what AUTOINCREMENT hands out next
    account,    \* the account that is open
    connected,  \* connected()
    inFlight,   \* m_outboxInFlight; 0 when m_outboxBusy is false
    undoable,   \* m_lastHeldSend
    alarm,      \* m_outboxTimer is running
    parked,     \* m_tokenWaiters, as the row or the message each will send
    wire,       \* sendMessage() calls not reported back yet
    sends,      \* how many there have been
    filing,     \* rows sent whose copy is being appended to the Sent folder
    fate,       \* what the user was told of each message
    from,       \* the account each message was written from
    asked,      \* how many times the user asked for each to be sent
    delivered,  \* how many times each was sent
    budget      \* events still allowed

memory == <<account, connected, inFlight, undoable, alarm, parked>>
user   == <<fate, from, asked>>
vars   == <<rows, nextId, memory, wire, sends, filing, user, delivered, budget>>

\* state 0, 1 and 2 of the table; next_try is 0, in the future or passed.
Row == [id : Nat \ {0}, mail : Mails, account : Accounts,
        state : {"queued", "sending", "failed"}, next : {"zero", "later", "passed"}]

\* row is 0 for a message sent straight from its window.
Waiter  == [row : Nat, mail : Mails]
Request == [n : Nat, row : Nat, mail : Mails,
            answer : {"awaited", "None", "Auth", "Connection", "Throttled", "Protocol"}]

TypeOK ==
    /\ rows \subseteq Row /\ \A r, q \in rows : r.id = q.id => r = q
    /\ nextId \in Nat \ {0} /\ \A r \in rows : r.id < nextId
    /\ account \in Accounts
    /\ connected \in BOOLEAN
    /\ inFlight \in 0..(nextId - 1)
    /\ undoable \in 0..(nextId - 1)
    /\ alarm \in BOOLEAN
    /\ parked \subseteq Waiter
    /\ wire \subseteq Request
    /\ sends \in Nat /\ \A r \in wire : r.n < sends
    /\ filing \subseteq 1..(nextId - 1)
    /\ fate \in [Mails -> {"composing", "signing", "sending", "accepted", "cancelled"}]
    /\ from \in [Mails -> Accounts \cup {NoAccount}]
    /\ asked \in [Mails -> Nat]
    /\ delivered \in [Mails -> Nat]
    /\ budget \in [Events -> Nat]

Init ==
    /\ rows = {}
    /\ nextId = 1
    /\ account \in Accounts
    /\ connected = FALSE
    /\ inFlight = 0
    /\ undoable = 0
    /\ alarm = FALSE
    /\ parked = {}
    /\ wire = {}
    /\ sends = 0
    /\ filing = {}
    /\ fate = [m \in Mails |-> "composing"]
    /\ from = [m \in Mails |-> NoAccount]
    /\ asked = [m \in Mails |-> 0]
    /\ delivered = [m \in Mails |-> 0]
    /\ budget = Budget

Spend(fault) ==
    /\ budget[fault] > 0 /\ budget["any"] > 0
    /\ budget' = [budget EXCEPT ![fault] = @ - 1, !["any"] = @ - 1]

-----------------------------------------------------------------------------
(* The outbox table, as MailStore reads and writes it.                      *)

Queued(R) == {r \in R : r.account = account /\ r.state = "queued"}

\* nextOutboxMessage(): ORDER BY id LIMIT 1 over what may go out by now.
Due(R) == {r \in Queued(R) : r.next # "later"}
First(R) == CHOOSE r \in R : \A q \in R : r.id <= q.id

\* UPDATE outbox SET ... WHERE id = ?
Updated(R, id, state, next) ==
    {IF r.id = id THEN [r EXCEPT !.state = state, !.next = next] ELSE r : r \in R}
Sending(R, id)  == {IF r.id = id THEN [r EXCEPT !.state = "sending"] ELSE r : r \in R}
Deferred(R, id) == {IF r.id = id THEN [r EXCEPT !.state = "queued"] ELSE r : r \in R}
Dropped(R, id)  == {r \in R : r.id # id}

\* Mutant of Recovered: what was being sent is put back in the queue.
RecoveredAsQueued(R) ==
    {IF r.account = account /\ r.state = "sending" THEN [r EXCEPT !.state = "queued"] ELSE r
     : r \in R}

\* recoverStaleOutbox()
Recovered(R) ==
    {IF r.account = account /\ r.state = "sending" THEN [r EXCEPT !.state = "failed"] ELSE r
     : r \in R}

\* Mutant of Armed: MIN(next_try) of every row, the failed ones included.
ArmedByAll(R) ==
    LET own == {r \in R : r.account = account}
    IN  own # {} /\ \A r \in own : r.next # "zero"

\* armOutboxTimer(): MIN(next_try) of what is queued, and no timer when that is 0.
Armed(R) == Queued(R) # {} /\ \A r \in Queued(R) : r.next # "zero"

-----------------------------------------------------------------------------
(* drainOutbox()                                                            *)

\* ensureAccessToken() and sendMessage(): at once, or when a token has come.
HandOver(row, m, w) ==
    \/ /\ wire' = w \cup {[n |-> sends, row |-> row, mail |-> m, answer |-> "awaited"]}
       /\ sends' = sends + 1
       /\ UNCHANGED parked
    \/ /\ Oauth
       /\ parked' = parked \cup {[row |-> row, mail |-> m]}
       /\ wire' = w
       /\ UNCHANGED sends

\* The handler leaves the table as R, the row in flight as busy, the requests
\* as w, the timer as a and the session as up.
Drain(R, busy, w, a, up) ==
    /\ undoable' = IF \E r \in R : r.id = undoable /\ r.next # "later" THEN 0 ELSE undoable
    /\ IF busy # 0 \/ ~up \/ Due(R) = {}
       THEN /\ rows' = R
            /\ inFlight' = busy
            /\ alarm' = IF busy = 0 /\ up THEN Armed(R) ELSE a
            /\ wire' = w
            /\ UNCHANGED <<parked, sends>>
       ELSE LET msg == First(Due(R))
            IN  /\ rows' = Sending(R, msg.id)
                /\ inFlight' = msg.id
                /\ alarm' = a
                /\ HandOver(msg.id, msg.mail, w)

-----------------------------------------------------------------------------
(* sendMail()                                                               *)

\* Mutant of Enqueue: an id is handed out twice.
EnqueueUnderOldId(R, m, next) ==
    /\ rows' = R \cup {[id |-> nextId, mail |-> m, account |-> account,
                        state |-> "queued", next |-> next]}
    /\ fate' = [fate EXCEPT ![m] = "accepted"]
    /\ UNCHANGED nextId

\* enqueueOutbox(): the row takes the account that is open by now.  When the
\* INSERT fails the window stays open.
Enqueue(R, m, next) ==
    \/ /\ rows' = R \cup {[id |-> nextId, mail |-> m, account |-> account,
                           state |-> "queued", next |-> next]}
       /\ nextId' = nextId + 1
       /\ fate' = [fate EXCEPT ![m] = "accepted"]
    \/ /\ DiskFull
       /\ rows' = R
       /\ fate' = [fate EXCEPT ![m] = "composing"]
       /\ UNCHANGED nextId

\* The continuation of the crypto step.
SendNow(m, hold) ==
    IF connected /\ ~hold
    THEN /\ fate' = [fate EXCEPT ![m] = "sending"]
         /\ HandOver(0, m, wire)
         /\ UNCHANGED <<rows, nextId, undoable, alarm>>
    ELSE /\ Enqueue(rows, m, IF hold THEN "later" ELSE "zero")
         /\ IF nextId' = nextId
            THEN UNCHANGED <<undoable, alarm>>
            ELSE /\ undoable' = IF hold THEN nextId ELSE 0
                 /\ alarm' = IF hold THEN Armed(rows') ELSE alarm
         /\ UNCHANGED <<wire, sends, parked>>

\* The window of m, the only one open, takes the address of the open account.
Send(m) ==
    /\ fate[m] = "composing"
    /\ \A other \in Mails : fate[other] \notin {"signing", "sending"}
    /\ budget["send"] > 0
    /\ budget' = [budget EXCEPT !["send"] = @ - 1]
    /\ from' = [from EXCEPT ![m] = account]
    /\ asked' = [asked EXCEPT ![m] = @ + 1]
    /\ IF m \in Signed
       THEN /\ fate' = [fate EXCEPT ![m] = "signing"]
            /\ UNCHANGED <<rows, nextId, undoable, alarm, parked, wire, sends>>
       ELSE \E hold \in Holds : SendNow(m, hold)
    /\ UNCHANGED <<account, connected, inFlight, filing, delivered>>

\* gpg-agent has answered, or the passphrase was not given.
CryptoDone(m) ==
    /\ fate[m] = "signing"
    /\ \/ \E hold \in Holds : SendNow(m, hold)
       \/ /\ fate' = [fate EXCEPT ![m] = "composing"]
          /\ UNCHANGED <<rows, nextId, undoable, alarm, parked, wire, sends>>
    /\ UNCHANGED <<account, connected, inFlight, filing, from, asked, delivered, budget>>

\* finishTokenWaiters(ok): the drain's waiter sends if it is still the one in
\* flight and there is something to send over, and defers if not; the window's
\* sends whatever became of the token, or queues when the session has gone.
TokenAnswered(ok) ==
    /\ parked # {}
    /\ IF ok THEN UNCHANGED budget ELSE Spend("auth")
    /\ parked' = {}
    /\ LET row    == {p \in parked : p.row # 0 /\ p.row = inFlight}
           window == {p \in parked : p.row = 0}
           sent   == IF connected THEN window \cup (IF ok THEN row ELSE {}) ELSE {}
           left   == IF row \subseteq sent THEN rows ELSE Deferred(rows, inFlight)
       IN  /\ wire' = wire \cup {[n |-> sends + p.row, row |-> p.row, mail |-> p.mail,
                                  answer |-> "awaited"] : p \in sent}
           /\ sends' = sends + nextId
           /\ inFlight' = IF row \subseteq sent THEN inFlight ELSE 0
           /\ IF window \subseteq sent
              THEN rows' = left /\ UNCHANGED <<nextId, fate, alarm>>
              ELSE \E p \in window :
                      /\ Enqueue(left, p.mail, "zero")
                      /\ alarm' = IF nextId' = nextId THEN alarm ELSE Armed(rows')
    /\ UNCHANGED <<account, connected, undoable, filing, from, asked, delivered>>

-----------------------------------------------------------------------------
(* The mail server's side of sendMessage().                                 *)

Answer(r, error) == wire' = (wire \ {r}) \cup {[r EXCEPT !.answer = error]}
Deliver(m) == delivered' = [delivered EXCEPT ![m] = @ + 1]

ServerAccepts(r) ==
    /\ Answer(r, "None")
    /\ Deliver(r.mail)
    /\ UNCHANGED budget

\* The message itself is refused.
ServerRefuses(r) ==
    /\ Spend("refuse")
    /\ Answer(r, "Protocol")
    /\ UNCHANGED delivered

\* The SMTP login, or the JMAP request's authorization.
LoginRefused(r) ==
    /\ Spend("auth")
    /\ Answer(r, "Auth")
    /\ UNCHANGED delivered

\* A JMAP send whose session was closed before its last request.
SessionGone(r) ==
    /\ Proto = "jmap" /\ ~connected
    /\ Answer(r, "Auth")
    /\ UNCHANGED <<delivered, budget>>

ServerThrottles(r) ==
    /\ Proto = "jmap"
    /\ Spend("throttle")
    /\ Answer(r, "Throttled")
    /\ UNCHANGED delivered

\* The connection breaks before the message was taken or before the answer
\* came: the SMTP send job fails and is reported as Protocol.
SendBroken(r) ==
    /\ Spend("drop")
    /\ Answer(r, IF Proto = "imap" THEN "Protocol" ELSE "Connection")
    /\ Deliver(r.mail) \/ UNCHANGED delivered

\* The SMTP session never gets to NotAuthenticated: nothing calls back.
DialFails(r) ==
    /\ Proto = "imap"
    /\ Spend("dial")
    /\ wire' = wire \ {r}
    /\ UNCHANGED delivered

ServerAnswers(r) ==
    /\ r \in wire /\ r.answer = "awaited"
    /\ \/ ServerAccepts(r) \/ ServerRefuses(r) \/ LoginRefused(r) \/ SessionGone(r)
       \/ ServerThrottles(r) \/ SendBroken(r) \/ DialFails(r)
    /\ UNCHANGED <<rows, nextId, memory, sends, filing, user>>

-----------------------------------------------------------------------------
(* The callbacks of sendMessage(): one action for each way a send ends.     *)

\* JmapBackend::report() emits errorOccurred() after the callback, which tears
\* the session down for these two.
Up(r) == connected /\ ~(Proto = "jmap" /\ r.answer \in {"Auth", "Connection"})

Reported(r, errors) ==
    /\ r \in wire /\ r.answer \in errors
    /\ connected' = Up(r)
    /\ UNCHANGED <<account, filing, from, asked, delivered, budget>>

Reply(r, errors) == r.row # 0 /\ r.row = inFlight /\ Reported(r, errors)

\* Nothing waits for this reply any more.
ReplyStale(r) ==
    /\ r.row # 0 /\ r.row # inFlight
    /\ Reported(r, {"None", "Auth", "Connection", "Throttled", "Protocol"})
    /\ wire' = wire \ {r}
    /\ UNCHANGED <<rows, nextId, inFlight, undoable, alarm, parked, sends, fate>>

\* Sent, and no copy to file: JMAP files its own, and over IMAP there may be
\* no session or no Sent folder known.
RowSent(r) ==
    /\ Reply(r, {"None"})
    /\ Drain(Dropped(rows, r.row), 0, wire \ {r}, alarm, connected)
    /\ UNCHANGED <<nextId, fate>>

\* Sent, the copy on its way to the Sent folder: the drain waits for it.
RowFiled(r) ==
    /\ Proto = "imap" /\ connected
    /\ r.row # 0 /\ r.row = inFlight
    /\ r \in wire /\ r.answer = "None"
    /\ filing' = filing \cup {r.row}
    /\ inFlight' = 0
    /\ wire' = wire \ {r}
    /\ UNCHANGED <<rows, nextId, account, connected, undoable, alarm, parked, sends,
                   user, delivered, budget>>

\* Mutant of RowDeferred: m_outboxBusy is not cleared for a session that is down.
RowDeferredBusy(r) ==
    /\ Reply(r, {"Auth", "Connection"})
    /\ rows' = Deferred(rows, r.row)
    /\ wire' = wire \ {r}
    /\ UNCHANGED <<nextId, inFlight, undoable, alarm, parked, sends, fate>>

RowDeferred(r) ==
    /\ Reply(r, {"Auth", "Connection"})
    /\ rows' = Deferred(rows, r.row)
    /\ inFlight' = 0
    /\ wire' = wire \ {r}
    /\ UNCHANGED <<nextId, undoable, alarm, parked, sends, fate>>

RowThrottled(r) ==
    /\ Reply(r, {"Throttled"})
    /\ Drain(Updated(rows, r.row, "queued", "later"), 0, wire \ {r}, alarm, connected)
    /\ UNCHANGED <<nextId, fate>>

\* Mutant of RowRejected: a refused message is thrown away.
RowRejectedAndDropped(r) ==
    /\ Reply(r, {"Protocol"})
    /\ Drain(Dropped(rows, r.row), 0, wire \ {r}, alarm, connected)
    /\ UNCHANGED <<nextId, fate>>

RowRejected(r) ==
    /\ Reply(r, {"Protocol"})
    /\ Drain(Updated(rows, r.row, "failed", "zero"), 0, wire \ {r}, alarm, connected)
    /\ UNCHANGED <<nextId, fate>>

\* The window closes; over IMAP a copy is appended that nothing waits for.
WindowSent(r) ==
    /\ r.row = 0
    /\ Reported(r, {"None"})
    /\ fate' = [fate EXCEPT ![r.mail] = "accepted"]
    /\ wire' = wire \ {r}
    /\ UNCHANGED <<rows, nextId, inFlight, undoable, alarm, parked, sends>>

\* Transport, not the message's fault: queued after all.
WindowQueued(r) ==
    /\ r.row = 0
    /\ Reported(r, {"Auth", "Connection", "Throttled"})
    /\ Enqueue(rows, r.mail, IF r.answer = "Throttled" THEN "later" ELSE "zero")
    /\ alarm' = IF nextId' = nextId THEN alarm ELSE Armed(rows')
    /\ wire' = wire \ {r}
    /\ UNCHANGED <<inFlight, undoable, parked, sends>>

WindowRefused(r) ==
    /\ r.row = 0
    /\ Reported(r, {"Protocol"})
    /\ fate' = [fate EXCEPT ![r.mail] = "composing"]
    /\ wire' = wire \ {r}
    /\ UNCHANGED <<rows, nextId, inFlight, undoable, alarm, parked, sends>>

Finish(r) ==
    \/ ReplyStale(r) \/ RowSent(r) \/ RowFiled(r) \/ RowDeferred(r) \/ RowThrottled(r)
    \/ RowRejected(r) \/ WindowSent(r) \/ WindowQueued(r) \/ WindowRefused(r)

\* The APPEND has ended, filed, refused or cut off with its session.
CopyFiled(id) ==
    /\ id \in filing
    /\ filing' = filing \ {id}
    /\ Drain(Dropped(rows, id), inFlight, wire, alarm, connected)
    /\ UNCHANGED <<nextId, account, connected, user, delivered, budget>>

-----------------------------------------------------------------------------
(* Sessions, the timer, the clock and the process.                          *)

\* connectedChanged(true).  An account that signs in with tokens connects when
\* the one being fetched has come.
Connect ==
    /\ ~connected
    /\ parked = {}
    /\ connected' = TRUE
    /\ Drain(rows, inFlight, wire, alarm, TRUE)
    /\ UNCHANGED <<nextId, account, filing, user, delivered, budget>>

\* SMTP has a connection of its own, and a JMAP request outlives the session.
ConnectionLost ==
    /\ connected
    /\ Spend("drop")
    /\ connected' = FALSE
    /\ UNCHANGED <<rows, nextId, account, inFlight, undoable, alarm, parked, wire, sends,
                   filing, user, delivered>>

\* Mutant of Switch: the row in flight is forgotten with the session.
SwitchOnly(to) ==
    /\ to # account
    /\ Spend("switch")
    /\ account' = to
    /\ connected' = FALSE
    /\ inFlight' = 0
    /\ undoable' = 0
    /\ alarm' = FALSE
    /\ UNCHANGED <<rows, nextId, parked, wire, sends, filing, user, delivered>>

\* switchAccountInternal(): a row in flight is ambiguous the way a crash is.
Switch(to) ==
    /\ to # account
    /\ Spend("switch")
    /\ account' = to
    /\ connected' = FALSE
    /\ rows' = Updated(rows, inFlight, "failed", "zero")
    /\ inFlight' = 0
    /\ undoable' = 0
    /\ alarm' = FALSE
    /\ UNCHANGED <<nextId, parked, wire, sends, filing, user, delivered>>

\* The process ends, at any point, and MailClient is constructed again.  What
\* a window had not handed over yet is written again by the user or not at all.
Restart ==
    /\ Spend("restart")
    /\ rows' = Recovered(rows)
    /\ connected' = FALSE
    /\ inFlight' = 0
    /\ undoable' = 0
    /\ alarm' = FALSE
    /\ parked' = {}
    /\ wire' = {}
    /\ filing' = {}
    /\ fate' = [m \in Mails |-> IF fate[m] \in {"signing", "sending"} THEN "composing" ELSE fate[m]]
    /\ UNCHANGED <<nextId, account, sends, from, asked, delivered>>

\* m_outboxTimer: never later than the earliest hold or backoff it was set for,
\* and with nothing due when that row has gone meanwhile.
TimerFires ==
    /\ alarm
    /\ Drain(rows, inFlight, wire, FALSE, connected)
    /\ UNCHANGED <<nextId, account, connected, filing, user, delivered, budget>>

\* A row's hold or backoff runs out.
HoldPasses(r) ==
    /\ r \in rows /\ r.next = "later"
    /\ rows' = Updated(rows, r.id, r.state, "passed")
    /\ UNCHANGED <<nextId, memory, wire, sends, filing, user, delivered, budget>>

-----------------------------------------------------------------------------
(* The Outbox list and the undo key.                                        *)

\* A row of the list whose Cancel and Edit buttons show.
Listed(r) == r \in rows /\ r.account = account /\ r.state # "sending"

TakenBack(r) ==
    asked' = IF r.state = "queued" THEN [asked EXCEPT ![r.mail] = @ - 1] ELSE asked

\* cancelOutboxMessage(), called by Cancel and, once the window has the
\* message again, by Edit.
CancelOrEdit(r) ==
    /\ Listed(r)
    /\ r.id # inFlight
    /\ rows' = Dropped(rows, r.id)
    /\ \E to \in {"cancelled", "composing"} : fate' = [fate EXCEPT ![r.mail] = to]
    /\ TakenBack(r)
    /\ UNCHANGED <<nextId, memory, wire, sends, filing, from, delivered, budget>>

\* retryOutboxMessage()
Retry(r) ==
    /\ Listed(r) /\ r.state = "failed"
    /\ Spend("retry")
    /\ asked' = [asked EXCEPT ![r.mail] = @ + 1]
    /\ Drain(Updated(rows, r.id, "queued", "zero"), inFlight, wire, alarm, connected)
    /\ UNCHANGED <<nextId, account, connected, filing, fate, from, delivered>>

\* undoLastSend(): within the hold the message is opened again, or, when its
\* text cannot be had back, kept as a failed row.
Undo ==
    LET held == {r \in rows : r.id = undoable /\ r.state = "queued" /\ r.next = "later"}
    IN  /\ undoable # 0
        /\ undoable' = 0
        /\ \/ \E r \in held :
                 /\ TakenBack(r)
                 /\ \/ /\ rows' = Dropped(rows, r.id)
                       /\ fate' = [fate EXCEPT ![r.mail] = "composing"]
                    \/ rows' = Updated(rows, r.id, "failed", "zero") /\ UNCHANGED fate
           \/ held = {} /\ UNCHANGED <<rows, fate, asked>>
        /\ UNCHANGED <<nextId, account, connected, inFlight, alarm, parked, wire, sends, filing,
                       from, delivered, budget>>

-----------------------------------------------------------------------------
Next ==
    \/ \E m \in Mails : Send(m) \/ CryptoDone(m)
    \/ \E ok \in BOOLEAN : TokenAnswered(ok)
    \/ \E r \in wire : ServerAnswers(r) \/ Finish(r)
    \/ \E id \in filing : CopyFiled(id)
    \/ \E r \in rows : HoldPasses(r) \/ CancelOrEdit(r) \/ Retry(r)
    \/ \E to \in Accounts : Switch(to)
    \/ Connect \/ ConnectionLost \/ Restart \/ TimerFires \/ Undo

Spec == Init /\ [][Next]_vars

\* The event loop delivers what is due: servers answer, callbacks run, gpg and
\* the sign-in end, holds pass, the timer fires, and the account that is open
\* connects again.
FairSpec ==
    /\ Spec
    /\ WF_vars(\E m \in Mails : CryptoDone(m))
    /\ WF_vars(TokenAnswered(TRUE))
    /\ WF_vars(\E r \in wire : ServerAnswers(r))
    /\ WF_vars(\E r \in wire : Finish(r))
    /\ WF_vars(\E id \in filing : CopyFiled(id))
    /\ WF_vars(\E r \in rows : HoldPasses(r))
    /\ WF_vars(Connect) /\ WF_vars(TimerFires)

-----------------------------------------------------------------------------
(* Correctness.                                                             *)

\* Nothing is sent more often than the user asked for: through retries, undo,
\* lost answers, switches and crashes no message goes out a second time
\* without a second Send or Retry now.
SentAsAsked == \A m \in Mails : delivered[m] <= asked[m]

\* A pressed Send is never lost: a message whose window closed has been sent,
\* or its row is still in the outbox, until the user takes it back.
NothingForgotten ==
    \A m \in Mails : fate[m] = "accepted" =>
        delivered[m] > 0 \/ \E r \in rows : r.mail = m

\* m_outboxBusy never latches: the row in flight is being sent from the open
\* account, and a token or a callback is still to come for it.
InFlightAnswered ==
    inFlight # 0 =>
        /\ \E r \in rows : r.id = inFlight /\ r.state = "sending" /\ r.account = account
        /\ \/ \E r \in wire : r.row = inFlight
           \/ \E p \in parked : p.row = inFlight

\* A row marked as being sent, which no button of the list can touch, is the
\* one in flight or one whose copy is being filed.
SendingIsWatched ==
    \A r \in rows : r.state = "sending" => r.id = inFlight \/ r.id \in filing

\* Does not hold of the code, see the findings.
\* A row is sent from the account whose address the message carries.
OwnRowsOnly == \A r \in rows : r.account = from[r.mail]

\* A message the user still waits to leave: its window has not let go of it,
\* or a row of it will be sent.
Owed ==
    {m \in Mails : /\ delivered[m] < asked[m]
                   /\ \/ fate[m] \in {"signing", "sending"}
                      \/ \E r \in rows : r.mail = m /\ r.state # "failed"}

Promise == INSTANCE Delivery WITH Items <- Mails, copies <- delivered, owed <- Owed

\* The outbox implements Delivery: seen from outside a message is asked for,
\* leaves or is taken back, whatever waits, timers and sessions do.
Delivers == Promise!Spec

\* Whatever was sent ends: in the long run no row of the open account is left
\* queued or being sent, and no window waits.
EventuallySettled ==
    <>[](/\ \A r \in rows : r.account = account => r.state = "failed"
         /\ \A m \in Mails : fate[m] \notin {"signing", "sending"})
=============================================================================
