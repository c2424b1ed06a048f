----------------------------- MODULE Migrations -----------------------------
(***************************************************************************)
(* The one-time migrations of the cache (mailstore.cpp, runMigration()):   *)
(* each works a slice at a time while the client goes on writing, may be   *)
(* cut short after any slice, and is flagged done at its end or not at     *)
(* all.  The two that touch the search index are left out.                 *)
(*                                                                         *)
(* A row is known by its scope, "old" (no account in the key) or "acct",   *)
(* and its uid; what it holds is the letter it came from.                  *)
(***************************************************************************)
EXTENDS Naturals, Sequences

CONSTANTS Uids, Letters, None, Ghost,  \* Ghost: a header row with nothing in it
          Recent, Attached,            \* letters of the last 30 days, with attachments
          Nameless,                    \* letters with no Message-ID
          Caches, Numbering,           \* what an upgrade may find; the server's uids
          MaxLaunches, MaxOpened       \* bounds

Scopes == {"old", "acct"}
Keys   == Scopes \X Uids

\* What a uid is shown as once both scopes are one: the account's row, if there is one.
Effective(t, u) == IF t[<<"acct", u>>] # None THEN t[<<"acct", u>>] ELSE t[<<"old", u>>]

\* A ghost "can never be opened" (mailstore.cpp:753) and a body is fetched for the row
\* it is opened from: no cached body is a ghost's, or nobody's.
MigrationsAssumption ==
    /\ Recent \cup Attached \cup Nameless \subseteq Letters /\ {MaxLaunches, MaxOpened} \subseteq Nat
    /\ None # Ghost /\ {None, Ghost} \cap Letters = {} /\ Numbering \in [Uids -> Letters \cup {None}]
    /\ \A c \in Caches : /\ c.header \in [Keys -> Letters \cup {None, Ghost}]
                         /\ c.msgid \in [Keys -> (Letters \ Nameless) \cup {None}]
                         /\ \A k \in Keys : c.header[k] = None => c.msgid[k] = None
                         /\ c.body \in [Keys -> Letters \cup {None}]
                         /\ \A u \in Uids : Effective(c.body, u) # None => Effective(c.header, u) \in Letters

Steps  == <<"legacy_adopt1", "ghost_sweep1", "raw_refetch_29", "body_msgid_heal1",
            "attach_backfill", "junk_hash1">>

VARIABLES header,   \* messages: the letter of a row, None or Ghost
          msgid,    \* messages.msgid: the letter it is the Message-ID of; None: NULL or ''
          body,     \* bodies: the letter whose text it is, or None
          verdict,  \* the letter a row's DKIM and spam verdicts were made on, or None
          clip,     \* rows with attach = 1
          learned,  \* junk_content_hashes
          done,     \* meta_flags
          todo,     \* steps left of this run, taken in the order of Steps
          seen,     \* rows behind the cursor of the step at hand
          aborted,  \* history: a statement failed, and will on every launch
          late,     \* history: a later step was done before the adoption
          orphaned, \* history: rows whose verdicts were made on a body dropped as a twin
          untold,   \* history: rows with another letter's body that the heal had no ids to tell by
          now,      \* the server's numbering
          launches, opened

vars == <<header, msgid, body, verdict, clip, learned, done, todo, seen, aborted, late,
          orphaned, untold, now, launches, opened>>
tables == <<header, msgid, body, verdict, clip, learned>>
history == <<orphaned, untold>>
bound == <<now, launches, opened>>

Init == /\ \E c \in Caches : header = c.header /\ msgid = c.msgid /\ body = c.body
        /\ verdict = [k \in Keys |-> IF header[k] = None THEN None ELSE body[k]]
        /\ clip = {} /\ learned = {} /\ done = {} /\ todo = {} /\ seen = {}
        /\ aborted = FALSE /\ late = FALSE /\ orphaned = {} /\ untold = {}
        /\ now = Numbering /\ launches = 0 /\ opened = 0

Rows(t) == {k \in Keys : t[k] # None}
At(step) == \E n \in DOMAIN Steps : /\ step = Steps[n] /\ step \in todo
                                    /\ \A i \in 1 .. n - 1 : Steps[i] \notin todo
Erase(t, S) == [k \in Keys |-> IF k \in S THEN None ELSE t[k]]

\* pendingMigrations(): an imported archive (no account) does not adopt.
Launch(local) ==
    /\ todo = {} /\ launches < MaxLaunches /\ launches' = launches + 1
    /\ todo' = {Steps[n] : n \in DOMAIN Steps} \ (done \cup (IF local THEN {"legacy_adopt1"} ELSE {}))
    /\ seen' = {} /\ UNCHANGED <<tables, done, aborted, late, history, now, opened>>

\* Cancelled between two slices, or the process is gone.
Quit == /\ todo # {} /\ todo' = {} /\ seen' = {}
        /\ UNCHANGED <<tables, done, aborted, late, history, bound>>

\* runInChunks() has found nothing left: markMigrationDone().
Finish(step) == /\ done' = done \cup {step} /\ todo' = todo \ {step} /\ seen' = {}
                /\ late' = (late \/ (step # "legacy_adopt1" /\ "legacy_adopt1" \notin done))
                /\ UNCHANGED <<tables, aborted, history, bound>>

----------------------------------------------------------------------------
(* legacy_adopt1: the rows get the account's key, the headers and then the *)
(* bodies, after the rows the sync has made meanwhile are out of the way.  *)

Old(t) == {k \in Rows(t) : k[1] = "old"}
Scoped(k) == <<"acct", k[2]>>
Moved(t, k) == [t EXCEPT ![k] = None, ![Scoped(k)] = t[k]]

DropTwin(k) ==
    \/ /\ k \in Old(header) /\ header' = Erase(header, {k}) /\ verdict' = Erase(verdict, {k})
       /\ msgid' = Erase(msgid, {k}) /\ clip' = clip \ {k} /\ UNCHANGED <<body, orphaned>>
    \/ /\ Old(header) = {} /\ k \in Old(body) /\ body' = Erase(body, {k})
       /\ orphaned' = orphaned \cup {q \in {Scoped(k)} : verdict[q] = body[k] /\ body[q] # body[k]}
       /\ UNCHANGED <<header, msgid, verdict, clip>>
Rename(k) ==
    \/ /\ k \in Old(header) /\ header' = Moved(header, k) /\ verdict' = Moved(verdict, k)
       /\ msgid' = Moved(msgid, k)
       /\ clip' = (clip \ {k, Scoped(k)}) \cup {Scoped(q) : q \in clip \cap {k}}
       /\ UNCHANGED <<body, orphaned>>
    \/ /\ Old(header) = {} /\ k \in Old(body) /\ body' = Moved(body, k)
       /\ UNCHANGED <<header, msgid, verdict, clip, orphaned>>
Taken(k) == Scoped(k) \in Rows(IF Old(header) # {} THEN header ELSE body)
Table    == IF Old(header) # {} THEN header ELSE body

Adopting == UNCHANGED <<learned, done, todo, seen, late, untold, bound>>

\* Mutant: the rows are renamed onto whatever is there.
AdoptOverTwins(k) ==
    /\ At("legacy_adopt1") /\ k \in Old(Table)
    /\ IF Taken(k) THEN aborted' = TRUE /\ UNCHANGED <<header, msgid, body, verdict, clip, orphaned>>
       ELSE Rename(k) /\ UNCHANGED aborted
    /\ Adopting
Adopt(k) ==
    /\ At("legacy_adopt1") /\ k \in Old(Table)
    /\ \/ Taken(k) /\ DropTwin(k)
       \/ (\A q \in Old(Table) : ~Taken(q)) /\ Rename(k)
    /\ UNCHANGED aborted /\ Adopting
Adopted == /\ At("legacy_adopt1") /\ Old(header) \cup Old(body) = {} /\ Finish("legacy_adopt1")

----------------------------------------------------------------------------
(* The sweeps: each slice takes rows the last one left.                    *)

Ghosts == {k \in Keys : header[k] = Ghost}
SweepGhost(k) ==
    /\ At("ghost_sweep1") /\ k \in Ghosts
    /\ header' = Erase(header, {k}) /\ verdict' = Erase(verdict, {k})
    /\ msgid' = Erase(msgid, {k}) /\ clip' = clip \ {k}
    /\ UNCHANGED <<body, learned, done, todo, seen, aborted, late, history, bound>>
Swept == At("ghost_sweep1") /\ Ghosts = {} /\ Finish("ghost_sweep1")

Stale == {k \in Rows(body) : header[k] \in Recent}
Unclear == {k \in Rows(verdict) : header[k] \in Recent}
Refetch(k) ==
    /\ At("raw_refetch_29")
    /\ \/ k \in Stale /\ body' = Erase(body, {k}) /\ UNCHANGED verdict
       \/ Stale = {} /\ k \in Unclear /\ verdict' = Erase(verdict, {k}) /\ UNCHANGED body
    /\ UNCHANGED <<header, msgid, clip, learned, done, todo, seen, aborted, late, history, bound>>
Refetched == /\ At("raw_refetch_29") /\ Stale \cup Unclear = {} /\ Finish("raw_refetch_29")

----------------------------------------------------------------------------
(* The walks: a cursor over the bodies, begun anew by every run.           *)

Pass(k) == seen' = seen \cup {k} /\ UNCHANGED <<header, msgid, done, todo, aborted, late, orphaned, bound>>
Paired == {k \in Rows(body) : header[k] # None}

\* The scan leaves out a row without an id, and passes by a body without one; an id
\* taken from the body itself tells nothing (BackfillMessageIds).
Told(k) == msgid[k] # None /\ body[k] \notin Nameless
Heal(k) ==
    /\ At("body_msgid_heal1") /\ k \in Paired \ seen /\ Pass(k)
    /\ LET misfiled == {q \in {k} : Told(q) /\ msgid[q] # body[q]} IN
       /\ body' = Erase(body, misfiled) /\ verdict' = Erase(verdict, misfiled)
       /\ untold' = (untold \ {k}) \cup {q \in {k} \ misfiled : header[q] # body[q]}
    /\ UNCHANGED <<clip, learned>>
Healed == /\ At("body_msgid_heal1") /\ Paired \subseteq seen /\ Finish("body_msgid_heal1")

AttachBackfill(k) ==
    /\ At("attach_backfill") /\ k \in Rows(body) \ seen /\ Pass(k)
    /\ clip' = clip \cup {q \in {k} : body[q] \in Attached /\ header[q] # None}
    /\ UNCHANGED <<body, verdict, learned, untold>>
LearnJunk(k) ==
    /\ At("junk_hash1") /\ k \in Rows(body) \ seen /\ Pass(k)
    /\ learned' = learned \cup {body[k]} /\ UNCHANGED <<body, verdict, clip, untold>>
Walked == \E step \in {"attach_backfill", "junk_hash1"} :
             At(step) /\ Rows(body) \subseteq seen /\ Finish(step)

----------------------------------------------------------------------------
(* The client, which writes rows of the account only.                      *)

Client == UNCHANGED <<learned, done, todo, seen, aborted, late, history, bound>>

\* A new row has no verdicts; that of a refreshed one stays, and so does an id the
\* server's headers do not show (COALESCE).
StoreHeader(u) ==
    LET k == <<"acct", u>> IN
    /\ now[u] # None /\ header[k] \in {None, now[u]} /\ header' = [header EXCEPT ![k] = now[u]]
    /\ msgid' = IF now[u] \in Nameless THEN msgid ELSE [msgid EXCEPT ![k] = now[u]]
    /\ clip' = IF now[u] \in Attached THEN clip \cup {k} ELSE clip \ {k}
    /\ UNCHANGED <<body, verdict>> /\ Client
StoreBody(u) ==
    LET k == <<"acct", u>> IN
    /\ header[k] = now[u] /\ now[u] # None /\ body[k] = None /\ body' = [body EXCEPT ![k] = now[u]]
    /\ clip' = IF now[u] \in Attached THEN clip \cup {k} ELSE clip \ {k}  \* refineAttachKind()
    /\ UNCHANGED <<header, msgid, verdict>> /\ Client
\* Rows older than the column get the id of the text cached under them, while no
\* migration runs.
BackfillMessageIds(k) ==
    /\ todo = {} /\ k \in Paired /\ msgid[k] = None /\ body[k] \notin Nameless
    /\ msgid' = [msgid EXCEPT ![k] = body[k]]
    /\ UNCHANGED <<header, body, verdict, clip>> /\ Client
\* A message is opened and its verdicts are made on the cached body.
Judge(u) ==
    LET k == <<"acct", u>> IN
    /\ opened < MaxOpened /\ opened' = opened + 1
    /\ k \in Paired /\ verdict' = [verdict EXCEPT ![k] = body[k]] /\ verdict' # verdict
    /\ UNCHANGED <<header, msgid, body, clip, learned, done, todo, seen, aborted, late, history, now, launches>>

Next == \/ \E local \in BOOLEAN : Launch(local)
        \/ Quit \/ Adopted \/ Swept \/ Refetched \/ Healed \/ Walked
        \/ \E k \in Keys : Adopt(k) \/ SweepGhost(k) \/ Refetch(k) \/ Heal(k)
                           \/ AttachBackfill(k) \/ LearnJunk(k) \/ BackfillMessageIds(k)
        \/ \E u \in Uids : StoreHeader(u) \/ StoreBody(u) \/ Judge(u)

Spec == Init /\ [][Next]_vars

----------------------------------------------------------------------------
\* "aborting it on every future launch too": however far an adoption got, and
\* whatever the sync stored since, the next one goes through, and once flagged
\* it has left nothing behind (runMigration, legacy_adopt1).
AdoptionGoesThrough ==
    /\ ~aborted
    /\ "legacy_adopt1" \in done => Old(header) \cup Old(body) = {}

\* Once flagged, no message has another one's text, or verdicts made on it, or
\* an attachment it does not show (body_msgid_heal1, attach_backfill), unless
\* a launch without an account ran them ahead of the adoption, the body its
\* verdicts were made on was dropped for one stored during the adoption, or
\* the heal had no two ids to compare.
HealedIsRight ==
    "body_msgid_heal1" \in done /\ ~late =>
        \A k \in Paired \ untold : /\ body[k] = header[k]
                                  /\ k \notin orphaned => verdict[k] \in {None, header[k]}

\* Does not hold of the code, see the findings.
\* "any cached body whose own Message-ID is not its header row's is dropped":
\* a body with a Message-ID is under its own header (body_msgid_heal1).
NoBodyIsMisfiled ==
    "body_msgid_heal1" \in done /\ ~late =>
        \A k \in Paired : {header[k], body[k]} \cap Nameless = {} => body[k] = header[k]

ClipsAreShown ==
    "attach_backfill" \in done /\ ~late =>
        \A k \in Paired : body[k] = header[k] /\ header[k] \in Attached => k \in clip
=============================================================================
