----------------------------- MODULE ReadingPane -----------------------------
(* The reading pane and a window detached from it (mailclient.cpp,         *)
(* messageverifier.cpp): a click presents the message from the cache or asks *)
(* for it, and what is then established about it - its DKIM signature, its   *)
(* OpenPGP one, its plaintext - arrives later, from workers and timers, while *)
(* the reader clicks on.                                                    *)
EXTENDS Naturals, FiniteSets, FiniteSetsExt

CONSTANTS Messages,     \* uids, positive
          Kind,         \* of a message: "plain", "signed", "encrypted"
          Cached,       \* messages whose body is cached, ...
          Stale,        \* ... those whose cached octets are not the ones that arrived, ...
          Externalized, \* ... and those put back together from detached attachments
          Altered,      \* messages whose signature does not hold on the wire either
          Retries,      \* attempts after a temporary DNS failure
          MaxClicks, MaxFaults \* bounds: clicks, and failures of network, DNS or keys

ReadingPaneAssumption == /\ Messages \subseteq Nat \ {0} /\ {Retries, MaxClicks, MaxFaults} \subseteq Nat
                         /\ Stale \cup Externalized \subseteq Cached /\ Cached \cup Altered \subseteq Messages

VARIABLES ctx,      \* MessageContext of the pane and of the window
          opened,   \* a window was opened
          detach,   \* m_detachPending and m_detachUid, 0 for none
          bodies,   \* the cached body: "none", "stale" or "wire"
          requests, \* body requests of the pane, the one asleep for its retry included
          serial,   \* m_bodyRequestSerial
          online,
          checks,   \* m_dkimPending: whose octets are being verified, for which context
          retries,  \* DNS retries armed: context and uid, and (ghost) the presentation
          heals,    \* refetches under way: context, uid and reason
          healed,   \* m_dkimHealed
          verdict,  \* the stored verdict, and the message it was established on (ghost)
          jobs,     \* gpg jobs and the contexts waiting for them
          clicks, faults,
          strayed   \* ghost: a result or a retry met another presentation than it was asked for, a window's
                    \* check was told that cached octets came off the wire, or a refetch
                    \* landed while the octets it replaces were still being checked

pane  == <<ctx, opened, detach>>
fetch == <<bodies, requests, serial, online>>
dkim  == <<checks, retries, heals, healed, verdict>>
vars  == <<pane, fetch, dkim, jobs, clicks, faults, strayed>>

Contexts == {"pane", "window"}
Unset == [status |-> "", of |-> 0]
\* turn (ghost) counts what the context has presented.
Empty == [uid |-> 0, shown |-> 0, turn |-> 0, octets |-> "none", cached |-> FALSE, dkim |-> "",
          checking |-> FALSE, tries |-> 0, sig |-> Unset, sigBusy |-> FALSE, sigCached |-> FALSE,
          verify |-> 0, decrypt |-> 0]
Reading(c) == ctx[c].shown # 0
Fresh(s)   == IF s = {} THEN 1 ELSE Max({x.id : x \in s}) + 1
World      == [ctx |-> ctx, checks |-> checks, jobs |-> jobs]
Commit(w)  == ctx' = w.ctx /\ checks' = w.checks /\ jobs' = w.jobs

(***************************************************************************)
(* Presenting.                                                             *)
(***************************************************************************)
\* clear() leaves the DKIM fields.
Clear(x) == [Empty EXCEPT !.turn = x.turn, !.dkim = x.dkim, !.checking = x.checking, !.cached = x.cached]

SubmitDkim(w, c) ==
  [w EXCEPT !.ctx[c].checking = TRUE,
            !.checks = @ \cup {[id |-> Fresh(@), ctx |-> c, of |-> w.ctx[c].shown,
                                octets |-> w.ctx[c].octets, turn |-> w.ctx[c].turn]}]
\* Verified once, not once per open.
StartDkim(w, c, cached) ==
  LET m == w.ctx[c].uid
      x == [w EXCEPT !.ctx[c].tries = 0, !.ctx[c].checking = FALSE, !.ctx[c].cached = cached,
                     !.ctx[c].dkim = verdict[m].status]
  IN  IF verdict[m] # Unset THEN [x EXCEPT !.ctx[c].cached = FALSE] ELSE SubmitDkim(x, c)

StartJob(w, c, kind, cached) ==
  [w EXCEPT !.ctx[c].sigBusy = TRUE,
            !.ctx[c].sigCached = IF kind = "verify" THEN cached ELSE w.ctx[c].sigCached,
            !.ctx[c].verify = IF kind = "verify" THEN Fresh(w.jobs) ELSE w.ctx[c].verify,
            !.ctx[c].decrypt = IF kind = "decrypt" THEN Fresh(w.jobs) ELSE w.ctx[c].decrypt,
            !.jobs = @ \cup {[id |-> Fresh(@), kind |-> kind, of |-> w.ctx[c].shown,
                              octets |-> w.ctx[c].octets, waiting |-> {c}]}]

\* detachReading(): the jobs are joined, the DKIM check is run again.
Detached(w, cached) ==
  LET x == [w EXCEPT !.ctx["window"] = [w.ctx["pane"] EXCEPT !.tries = 0, !.checking = FALSE],
                     !.jobs = {[j EXCEPT !.waiting = j.waiting \cup
                                  (IF j.id \in {w.ctx["pane"].verify, w.ctx["pane"].decrypt}
                                   THEN {"window"} ELSE {})] : j \in w.jobs}]
  IN  IF w.ctx["pane"].checking THEN StartDkim(x, "window", cached) ELSE x

\* presentMessage(): a message m is put under the uid the pane has by now.
Presented(u, m, octets, cached) ==
  LET w == [World EXCEPT !.ctx["pane"] = [ctx["pane"] EXCEPT !.uid = u, !.shown = m, !.turn = @ + 1,
                                            !.octets = octets, !.sigBusy = FALSE, !.decrypt = 0]]
      k == CASE Kind[m] = "signed"    -> StartJob(w, "pane", "verify", cached)
             [] Kind[m] = "encrypted" -> StartJob(w, "pane", "decrypt", FALSE)
             [] OTHER -> w
  IN  StartDkim(k, "pane", cached)
PresentMessage(u, m, octets, cached) ==
  LET w == Presented(u, m, octets, cached) IN
  /\ detach' = 0
  /\ IF detach = u /\ ~opened THEN opened' = TRUE /\ Commit(Detached(w, cached))
     ELSE UNCHANGED opened /\ Commit(w)

(***************************************************************************)
(* Asking for a body.                                                      *)
(***************************************************************************)
RequestMessageBody(m, retry, rs) ==
  /\ serial' = serial + 1
  /\ requests' = rs \cup {[uid |-> m, serial |-> serial + 1, retry |-> retry, asleep |-> FALSE]}

FetchMessage(m) ==
  IF bodies[m] # "none"
  THEN PresentMessage(m, m, bodies[m], TRUE) /\ UNCHANGED fetch
  ELSE /\ UNCHANGED <<bodies, online, checks, jobs, opened>>
       /\ IF online THEN /\ ctx' = [ctx EXCEPT !["pane"].uid = m] /\ RequestMessageBody(m, FALSE, requests)
                         /\ UNCHANGED detach
          ELSE ctx' = [ctx EXCEPT !["pane"] = Clear(@)] /\ detach' = 0 /\ UNCHANGED <<requests, serial>>

Click(m) ==
  /\ clicks < MaxClicks /\ clicks' = clicks + 1 /\ FetchMessage(m)
  /\ UNCHANGED <<retries, heals, healed, verdict, faults, strayed>>

OpenMessageInWindow(m) ==
  /\ clicks < MaxClicks /\ clicks' = clicks + 1 /\ ~opened
  /\ UNCHANGED <<fetch, retries, heals, healed, verdict, faults>>
  /\ IF Reading("pane") /\ ctx["pane"].uid = m
     THEN /\ opened' = TRUE /\ Commit(Detached(World, FALSE)) /\ UNCHANGED detach
          /\ strayed' = (strayed \/ (ctx["pane"].checking /\ ctx["pane"].cached))
     ELSE /\ detach' = m /\ bodies[m] = "none" /\ online /\ UNCHANGED <<ctx, opened, checks, jobs, strayed>>
\* The click of a double-click came first; the rest of it is FetchMessage again.

StillWantedBySerial(r) == r.serial = serial   \* a cached click makes no request
StillWanted(r) == r.serial = serial /\ ctx["pane"].uid = r.uid
Answered(r) == r \in requests /\ ~r.asleep /\ requests' = requests \ {r}

BodyArrives(r) ==
  /\ Answered(r) /\ bodies' = [bodies EXCEPT ![r.uid] = "wire"]
  /\ IF StillWanted(r) THEN PresentMessage(ctx["pane"].uid, r.uid, "wire", FALSE) ELSE UNCHANGED <<pane, checks, jobs>>
  /\ UNCHANGED <<serial, online, retries, heals, healed, verdict, clicks, faults, strayed>>

\* Declined with "no error": asked again, once.
BodyDeclined(r) ==
  /\ r \in requests /\ ~r.asleep /\ ~r.retry /\ faults < MaxFaults /\ faults' = faults + 1
  /\ requests' = (requests \ {r}) \cup (IF StillWanted(r) THEN {[r EXCEPT !.asleep = TRUE]} ELSE {})
  /\ UNCHANGED <<pane, bodies, serial, online, dkim, jobs, clicks, strayed>>
AskAgain(r) ==
  /\ r \in requests /\ r.asleep
  /\ IF ctx["pane"].uid = r.uid THEN RequestMessageBody(r.uid, TRUE, requests \ {r})
     ELSE requests' = requests \ {r} /\ UNCHANGED serial
  /\ UNCHANGED <<pane, bodies, online, dkim, jobs, clicks, faults, strayed>>
BodyFails(r) ==
  /\ Answered(r) /\ faults < MaxFaults /\ faults' = faults + 1
  /\ IF StillWanted(r) THEN ctx' = [ctx EXCEPT !["pane"] = Clear(@)] /\ detach' = 0
     ELSE UNCHANGED <<ctx, detach>>
  /\ UNCHANGED <<opened, bodies, serial, online, dkim, jobs, clicks, strayed>>
Connection == /\ faults < MaxFaults /\ faults' = faults + 1 /\ online' = ~online
              /\ UNCHANGED <<pane, bodies, requests, serial, dkim, jobs, clicks, strayed>>

(***************************************************************************)
(* A better copy to work from.                                             *)
(***************************************************************************)
CanHeal(c) == ctx[c].uid # 0 /\ ctx[c].uid \notin healed /\ online
Heal(c, reason) == heals' = heals \cup {[ctx |-> c, uid |-> ctx[c].uid, reason |-> reason]}
Here(h) == Reading(h.ctx) /\ ctx[h.ctx].uid = h.uid

Refetched(h) ==
  /\ h \in heals /\ heals' = heals \ {h}
  /\ UNCHANGED <<opened, detach, requests, serial, online, retries, verdict, clicks, faults>>
  /\ strayed' = (strayed \/ (Here(h) /\ \E k \in checks : k.ctx = h.ctx))
  /\ IF ~Here(h) THEN UNCHANGED <<ctx, checks, jobs, healed, bodies>>
     ELSE LET w == [World EXCEPT !.ctx[h.ctx].octets = "wire"] IN
          /\ healed' = healed \cup {h.uid}
          /\ bodies' = (IF h.uid \in Externalized THEN bodies ELSE [bodies EXCEPT ![h.uid] = "wire"])
          /\ Commit(IF h.reason = "dkim" THEN SubmitDkim([w EXCEPT !.ctx[h.ctx].cached = FALSE], h.ctx)
                    ELSE StartJob(w, h.ctx, "verify", FALSE))

GaveUpQuietly(h, x) == IF h.reason = "dkim" THEN [x EXCEPT !.dkim = "unverified"] ELSE x   \* still "checking"
GaveUp(h, x) == IF h.reason = "dkim" THEN [x EXCEPT !.dkim = "unverified", !.checking = FALSE]
                ELSE [x EXCEPT !.sig.status = "unverified", !.sigBusy = FALSE]
RefetchFails(h) ==
  /\ h \in heals /\ heals' = heals \ {h} /\ faults < MaxFaults /\ faults' = faults + 1
  /\ IF Here(h) THEN ctx' = [ctx EXCEPT ![h.ctx] = GaveUp(h, @)] ELSE UNCHANGED ctx
  /\ UNCHANGED <<opened, detach, fetch, checks, retries, healed, verdict, jobs, clicks, strayed>>

(***************************************************************************)
(* What was established.                                                   *)
(***************************************************************************)
\* What the octets yield: those that arrived, or some others.
Results(k) == (IF k.octets = "stale" THEN {"fail", "mismatch"}
               ELSE IF k.of \in Altered THEN {"fail", "mismatch"} ELSE {"pass"})
              \cup (IF faults < MaxFaults THEN {"temperror"} ELSE {})
Word(res, cached) == IF res = "mismatch" THEN (IF cached THEN "unverified" ELSE "modified") ELSE res

EarnedAny(x, status) == TRUE \/ x = status   \* a failure read off the cache is kept too
Earned(x, status) == ~x.cached \/ status = "pass"
Keeps(x, status) == status \notin {"temperror", "unverified"} /\ Earned(x, status)

\* applyDkimResult(): the context is looked at, the message is not.
ApplyDkimResult(k, res) ==
  LET c == k.ctx  x == ctx[c]  status == Word(res, x.cached)
      again == res = "temperror" /\ x.tries < Retries
  IN
  /\ k \in checks /\ checks' = checks \ {k} /\ res \in Results(k)
  /\ faults' = (IF res = "temperror" THEN faults + 1 ELSE faults)
  /\ strayed' = (strayed \/ (k.turn # x.turn) \/ x.uid # x.shown)
  /\ UNCHANGED <<opened, detach, fetch, healed, jobs, clicks>>
  /\ IF res \in {"fail", "mismatch"} /\ x.cached /\ CanHeal(c)
     THEN Heal(c, "dkim") /\ ctx' = [ctx EXCEPT ![c].checking = TRUE] /\ UNCHANGED <<retries, verdict>>
     ELSE /\ ctx' = [ctx EXCEPT ![c].dkim = status, ![c].checking = again,
                                ![c].tries = IF again THEN @ + 1 ELSE @]
          /\ retries' = (IF again THEN retries \cup {[ctx |-> c, uid |-> x.uid, turn |-> x.turn]} ELSE retries)
          /\ verdict' = (IF x.uid # 0 /\ Keeps(x, status)
                         THEN [verdict EXCEPT ![x.uid] = [status |-> status, of |-> k.of]] ELSE verdict)
          /\ UNCHANGED heals

DkimRetry(t) ==
  /\ t \in retries /\ retries' = retries \ {t}
  /\ IF Here(t) THEN Commit(SubmitDkim(World, t.ctx)) ELSE UNCHANGED <<ctx, checks, jobs>>
  /\ strayed' = (strayed \/ (Here(t) /\ t.turn # ctx[t.ctx].turn))
  /\ UNCHANGED <<opened, detach, fetch, heals, healed, verdict, clicks, faults>>

\* Verdicts(j): of gpg on a detached signature.
Verdicts(j) == IF j.octets = "stale" \/ j.of \in Altered THEN {"notverified"} ELSE {"valid", "unknownKey"}
ApplyVerification(j, v) ==
  LET healing == {c \in j.waiting : /\ v = "notverified" /\ Reading(c) /\ ctx[c].sigCached /\ CanHeal(c)}
      word(c) == IF v # "notverified" THEN v ELSE IF ctx[c].sigCached THEN "unverified" ELSE "modified"
  IN
  /\ j \in jobs /\ j.kind = "verify" /\ v \in Verdicts(j) /\ jobs' = jobs \ {j}
  /\ heals' = heals \cup {[ctx |-> c, uid |-> ctx[c].uid, reason |-> "pgp"] : c \in healing}
  /\ ctx' = [c \in Contexts |->
               IF c \notin j.waiting \/ ~Reading(c) THEN ctx[c]
               ELSE IF c \in healing THEN [ctx[c] EXCEPT !.verify = 0, !.sigBusy = TRUE]
               ELSE [ctx[c] EXCEPT !.sig = [status |-> word(c), of |-> j.of], !.verify = 0,
                                      !.sigBusy = ctx[c].decrypt # 0]]
  /\ UNCHANGED <<opened, detach, fetch, checks, retries, healed, verdict, clicks, faults, strayed>>

\* applyDecryption(): dropped by a context that has moved on; a signature inside is
\* checked in turn.
ApplyDecryption(j, inner) ==
  LET now   == {c \in j.waiting : ctx[c].decrypt = j.id}
      plain == [ctx |-> [c \in Contexts |-> IF c \in now THEN [ctx[c] EXCEPT !.decrypt = 0, !.sigBusy = FALSE]
                                            ELSE ctx[c]],
                checks |-> checks, jobs |-> jobs \ {j}]
      sign(w, c) == IF c \in now THEN StartJob(w, c, "verify", FALSE) ELSE w
  IN
  /\ j \in jobs /\ j.kind = "decrypt"
  /\ Commit(IF inner = "signed" THEN sign(sign(plain, "pane"), "window") ELSE plain)
  /\ UNCHANGED <<opened, detach, fetch, retries, heals, healed, verdict, clicks, faults, strayed>>

Init ==
  /\ ctx = [c \in Contexts |-> Empty] /\ opened = FALSE /\ detach = 0
  /\ bodies = [m \in Messages |-> IF m \in Stale THEN "stale" ELSE IF m \in Cached THEN "wire" ELSE "none"]
  /\ requests = {} /\ serial = 0 /\ online \in BOOLEAN
  /\ checks = {} /\ retries = {} /\ heals = {} /\ healed = {} /\ verdict = [m \in Messages |-> Unset]
  /\ jobs = {} /\ clicks = 0 /\ faults = 0 /\ strayed = FALSE

Next ==
  \/ \E m \in Messages : Click(m) \/ OpenMessageInWindow(m)
  \/ \E r \in requests : BodyArrives(r) \/ BodyDeclined(r) \/ AskAgain(r) \/ BodyFails(r)
  \/ Connection
  \/ \E h \in heals : Refetched(h) \/ RefetchFails(h)
  \/ \E k \in checks, res \in {"pass", "fail", "mismatch", "temperror"} : ApplyDkimResult(k, res)
  \/ \E t \in retries : DkimRetry(t)
  \/ \E j \in jobs : \/ \E v \in {"valid", "unknownKey", "notverified"} : ApplyVerification(j, v)
                     \/ \E inner \in {"failed", "plain", "signed"} : ApplyDecryption(j, inner)
Spec == Init /\ [][Next]_vars

(***************************************************************************)
(* Properties.                                                             *)
(***************************************************************************)
Loading == \E r \in requests : r.uid = ctx["pane"].uid /\ (r.asleep \/ StillWanted(r))

\* Once nothing is loading, the message in the pane is the one its row names:
\* no answer paints an older message over a newer click, and a load that fails
\* leaves nothing of the former one.
PaneAgrees == Reading("pane") /\ ~Loading => ctx["pane"].shown = ctx["pane"].uid

\* A badge that says "checking" is being checked: by the worker, by a retry that is
\* armed, by a refetch or by gpg.  (A window detached while its signature is being
\* refetched is told nothing, see the findings.)
ChecksEnd ==
  \A c \in Contexts : Reading(c) /\ ctx[c].shown = ctx[c].uid =>
    /\ ctx[c].checking =>
         \/ \E k \in checks : k.ctx = c
         \/ \E t \in retries \cup heals : t.ctx = c /\ t.uid = ctx[c].uid
    /\ c = "pane" /\ ctx[c].sigBusy =>
         \/ \E j \in jobs : c \in j.waiting
         \/ \E h \in heals : h.ctx = c /\ h.uid = ctx[c].uid

\* No message is recorded as failed or modified on the strength of a copy that is
\* not what arrived, whatever the order of refetches, retries and answers; and the
\* verdict recorded is one on that message.  (Where no result and no retry met
\* another presentation than it was asked for and no window was told that cached
\* octets are the original ones, see the findings.)
AccusationsAreEarned ==
  ~strayed => \A m \in Messages :
    /\ verdict[m] # Unset => verdict[m].of = m
    /\ verdict[m].status \in {"fail", "modified"} => m \in Altered

\* Does not hold of the code, see the findings.
\* "A verdict for the old message must never be attached to the new one"
\* (messageverifier.cpp:175).
VerdictsAreOfTheirMessage == \A m \in Messages : verdict[m] # Unset => verdict[m].of = m
\* Does not hold of the code, see the findings.
\* The same of the signature on the badge.
SignaturesAreOfTheirMessage == Reading("pane") /\ ctx["pane"].sig.status # "" => ctx["pane"].sig.of = ctx["pane"].shown
\* Does not hold of the code, see the findings.
\* A window shows the message it was opened for.
WindowShowsItsMessage == Reading("window") => ctx["window"].shown = ctx["window"].uid
\* Does not hold of the code, see the findings.
\* "Earned only against bytes known to be the original" (messageverifier.cpp:313).
ShownAccusationsAreEarned ==
  ~strayed /\ Reading("pane") /\ ctx["pane"].dkim = "fail" => ctx["pane"].shown \in Altered
=============================================================================
