---------------------------- MODULE JmapSession ----------------------------
(* The JMAP connection (jmapsession.cpp, jmaprequest.cpp, the session and   *)
(* push parts of jmapbackend.cpp) and the client's hand on it.  One backend *)
(* object serves every JMAP account in turn: connecting discovers a session *)
(* and disconnecting forgets it, while the HTTP requests posted meanwhile   *)
(* are answered whenever they are.  A 401 parks a request on a discovery of *)
(* the session and posts it once more.                                      *)
EXTENDS Naturals, FiniteSets

CONSTANTS Accounts, Nobody,
          MaxSwitches, MaxFaults    \* bounds: account switches, failed or expired exchanges

JmapSessionAssumption == Nobody \notin Accounts /\ {MaxSwitches, MaxFaults} \subseteq Nat

VARIABLES user,        \* the account that is open, accountKey()
          session,     \* whose session object is held: m_valid and what it names
          login,       \* m_credentials
          discovery,   \* the session request in flight, a set of at most one account
          connected,
          requests,    \* JmapRequests: what they ask, of which account, posted or parked
          wanted, stream, retry,   \* m_pushWanted, m_pushReply, m_pushRetryTimer
          cache,       \* <<cache it was written to, account it is of>>
          wire,        \* <<account asked for, account whose session carried it>>
          late,        \* a request outlived its connection and was answered before the next
          switches, faults

vars == <<user, session, login, discovery, connected, requests, wanted, stream, retry,
          cache, wire, late, switches, faults>>
push == <<wanted, stream, retry>>
link == <<session, login, discovery, connected>>

Kinds == {"folders", "open", "headers"}
Init == /\ user \in Accounts /\ session = Nobody /\ login = Nobody /\ discovery = {}
        /\ connected = FALSE /\ requests = {} /\ wanted = FALSE /\ stream = "none" /\ retry = FALSE
        /\ cache = {} /\ wire = {} /\ late = FALSE /\ switches = 0 /\ faults = 0

\* JmapRequest::send(), over the session there is; none without one.
Sent(k) == IF session = Nobody THEN {}
           ELSE {[kind |-> k, of |-> session, at |-> session, phase |-> "posted", again |-> FALSE]}

(***************************************************************************)
(* Connecting and disconnecting.                                           *)
(***************************************************************************)
\* disconnectAccount(): the stream and the discovery end.  The requests do not.
Closed == /\ session' = Nobody /\ discovery' = {} /\ connected' = FALSE
          /\ wanted' = FALSE /\ stream' = "none" /\ retry' = FALSE

\* switchAccountInternal(), of which only the change of hands matters here.
SwitchAccount(a) ==
  /\ a # user /\ switches < MaxSwitches /\ switches' = switches + 1
  /\ user' = a /\ Closed /\ UNCHANGED <<login, requests, cache, wire, late, faults>>

\* connectAccount(): a teardown, then discover() of the open account.
Connect ==
  /\ ~connected /\ discovery = {}
  /\ login' = user /\ discovery' = {user} /\ session' = Nobody /\ connected' = FALSE
  /\ wanted' = FALSE /\ stream' = "none" /\ retry' = FALSE
  /\ UNCHANGED <<user, requests, cache, wire, late, switches, faults>>

\* ready(): parked requests are posted again with the new session's
\* Authorization; a first one connects, and the folders are listed.
Ready(a) ==
  /\ session' = a /\ connected' = TRUE /\ discovery' = {}
  /\ requests' = {IF r.phase = "parked" THEN [r EXCEPT !.phase = "posted", !.at = a] ELSE r : r \in requests}
                 \cup (IF connected THEN {} ELSE
                       {[kind |-> "folders", of |-> a, at |-> a, phase |-> "posted", again |-> FALSE]})
  /\ wire' = wire \cup {<<r.of, a>> : r \in {q \in requests : q.phase = "parked"}}
  /\ UNCHANGED <<user, login, push, cache, late, switches, faults>>

Posted == {r \in requests : r.phase = "posted"}

\* failed() with no word to those who wait.
DiscoveryFailedQuietly ==
  /\ faults < MaxFaults /\ faults' = faults + 1
  /\ discovery' = {} /\ UNCHANGED <<user, login, requests, session, connected, push, cache, wire, late, switches>>
\* failed(): parked requests end with the error, and the client tears the
\* session down (Auth, Connection, or a connection that was up).  A server that
\* asks for a slower pace before there was one leaves things as they are.
DiscoveryFailed ==
  /\ faults < MaxFaults /\ faults' = faults + 1
  /\ requests' = Posted
  /\ \/ Closed
     \/ ~connected /\ discovery' = {} /\ UNCHANGED <<session, connected, push>>
  /\ UNCHANGED <<user, login, cache, wire, late, switches>>

(***************************************************************************)
(* Push.                                                                   *)
(***************************************************************************)
\* startPush(): openPushStream() where there is neither a stream nor a reason
\* against one.  A stream of the account covers all of its folders.
StartPush == /\ wanted' = TRUE
             /\ stream' = IF stream = "none" /\ session # Nobody THEN "dialing" ELSE stream
             /\ UNCHANGED retry

StreamOpens == stream = "dialing" /\ stream' = "open"
               /\ UNCHANGED <<user, link, requests, wanted, retry, cache, wire, late, switches, faults>>

\* A stream that ended, or was throttled: another one later.
StreamEnds ==
  /\ stream # "none" /\ stream' = "none" /\ retry' = TRUE
  /\ UNCHANGED <<user, link, requests, wanted, cache, wire, late, switches, faults>>
\* A 401 discovers the session again besides, in place of a discovery under way.
StreamExpires ==
  /\ stream = "dialing" /\ faults < MaxFaults /\ faults' = faults + 1
  /\ stream' = "none" /\ retry' = TRUE /\ discovery' = {login}
  /\ UNCHANGED <<user, session, login, connected, requests, wanted, cache, wire, late, switches>>
\* A definite answer: this server has no EventSource.
StreamRefused ==
  /\ stream = "dialing" /\ stream' = "none" /\ wanted' = FALSE
  /\ UNCHANGED <<user, link, requests, retry, cache, wire, late, switches, faults>>

\* schedulePushRetry()'s timer.
Retry ==
  /\ retry /\ retry' = FALSE
  /\ stream' = IF wanted /\ stream = "none" /\ session # Nobody THEN "dialing" ELSE stream
  /\ UNCHANGED <<user, link, requests, wanted, cache, wire, late, switches, faults>>

(***************************************************************************)
(* Requests.                                                               *)
(***************************************************************************)
\* A reply from the account that was asked.  What it says goes to the account
\* that is open; a listing opens a folder, an opened folder asks for headers.
Answered(r) ==
  /\ r.of = r.at
  /\ cache' = cache \cup {<<user, r.of>>}
  /\ requests' = (requests \ {r}) \cup (CASE r.kind = "folders" -> Sent("open")
                                          [] r.kind = "open" -> Sent("headers")
                                          [] OTHER -> {})
  /\ wire' = wire /\ late' = (late \/ session = Nobody)
  /\ IF r.kind = "open" THEN StartPush ELSE UNCHANGED push
  /\ UNCHANGED <<user, link, switches, faults>>

\* The user refreshes, or the background pass goes on.
Ask(k) ==
  /\ connected /\ requests = {} /\ requests' = Sent(k)
  /\ UNCHANGED <<user, link, push, cache, wire, late, switches, faults>>

\* handleReply() of a 401: a discovery, whose end every parked request awaits.
Expired(r) ==
  /\ ~r.again /\ faults < MaxFaults /\ faults' = faults + 1
  /\ requests' = (requests \ {r}) \cup {[r EXCEPT !.phase = "parked", !.again = TRUE]}
  /\ discovery' = {login}
  /\ UNCHANGED <<user, session, login, connected, push, cache, wire, late, switches>>

\* A request is refused: the server has no such account, or throttles, and the
\* one who asked hears of it.
Refused(r) ==
  /\ r.of # r.at \/ faults < MaxFaults
  /\ faults' = IF r.of # r.at THEN faults ELSE faults + 1
  /\ requests' = requests \ {r}
  /\ UNCHANGED <<user, link, push, cache, wire, late, switches>>

\* A listing or an open that ended on Auth or Connection tears the session down.
Broken(r) ==
  /\ r.kind # "headers" /\ faults < MaxFaults /\ faults' = faults + 1
  /\ requests' = requests \ {r} /\ Closed
  /\ UNCHANGED <<user, login, cache, wire, late, switches>>

Next == \/ \E a \in Accounts : SwitchAccount(a)
        \/ \E a \in discovery : Ready(a) \/ DiscoveryFailed
        \/ Connect \/ StreamOpens \/ StreamEnds \/ StreamExpires \/ StreamRefused \/ Retry
        \/ \E k \in Kinds : Ask(k)
        \/ \E r \in Posted : Answered(r) \/ Expired(r) \/ Refused(r) \/ Broken(r)
Spec == Init /\ [][Next]_vars

(***************************************************************************)
(* Properties.                                                             *)
(***************************************************************************)
\* A request parked on a 401 has a discovery to be woken by, now or, where the
\* account was disconnected meanwhile, at the next connect.
ParkedIsWoken ==
  (\E r \in requests : r.phase = "parked") => discovery # {} \/ session = Nobody

\* A wanted stream of a session is open, being opened or about to be.  (An answer
\* that comes between two connections wants a stream nobody can open; the next
\* open makes up for it.)
PushIsWatched ==
  wanted /\ session # Nobody => stream # "none" \/ retry \/ late

NothingWaitsInVain == ParkedIsWoken /\ PushIsWatched

\* Does not hold: what a server says of an account is kept in that account's
\* cache ("cancels work in flight", mailbackend.h:164).
MailIsOfItsAccount == \A p \in cache : p[1] = p[2]

\* Does not hold: a request replayed after a 401 goes where it was meant to.
AskedWhereMeant == \A p \in wire : p[1] = p[2]
=============================================================================
