----------------------------- MODULE SpamFiling -----------------------------
(***************************************************************************)
(* What the client decides about spam in the inbox and the junk folder:    *)
(* verdicts from headers and later from bodies, the filing of arrivals     *)
(* into the junk folder, and what the user's own answers ("not spam", mark *)
(* as spam, dragging) teach.  How a message scores by itself is an input   *)
(* here (SpamScore models the rules); how a move is replayed is Journal's. *)
(***************************************************************************)
EXTENDS Naturals, Sequences, FiniteSets

CONSTANTS Letters, From, Text, \* who sent it, and what its text is
          MaxMoves  \* bound: gestures of the user and refusals of the server

SpamFilingAssumption == MaxMoves \in Nat /\ DOMAIN From = Letters /\ DOMAIN Text = Letters

Folders == {"inbox", "junk"}
Looks   == {"ham", "late", "spam"} \* "late": spam only by its body

VARIABLES look,    \* what the rules make of each letter
          authed,  \* its sender is authenticated by the receiving server
          srv,     \* folder it is in on the server; "no" before it is sent
          cache,   \* rows by folder: here, hidden or none; state and mark
          list,    \* spamState of the rows listed, 0 when not listed
          open,    \* the open folder
          queue,   \* journalled moves
          watch,   \* m_spamWatchArrivals of the inbox
          learned, \* junk_content_hashes
          allow,   \* not_spam_senders
          written, \* known correspondents
          said,    \* history: the user's last word on a letter's sender
          wronged, \* history: a letter was filed against that word
          moves

vars == <<look, authed, srv, cache, list, open, queue, watch, learned, allow, written, said, wronged, moves>>

\* spamState: 1 from headers, 2 with body, 3 exempt, 4 cleared by the user.
NoRow == [at |-> "none", state |-> 0, spam |-> FALSE, body |-> FALSE]

Init == /\ look \in [Letters -> Looks] /\ authed \in [Letters -> BOOLEAN]
        /\ srv = [l \in Letters |-> "no"] /\ cache = [f \in Folders |-> [l \in Letters |-> NoRow]]
        /\ list = [l \in Letters |-> 0] /\ open = "inbox" /\ queue = <<>>
        /\ watch = {} /\ learned = {} /\ allow = {} /\ written = {}
        /\ said = [l \in Letters |-> "nothing"] /\ wronged = FALSE /\ moves = MaxMoves

Here(f, l) == cache[f][l].at = "here"
Listed(l)  == Here(open, l) /\ list[l] # 0
Owes(f)    == \E i \in DOMAIN queue : queue[i].from = f

\* The user's answer reaches a letter by its Message-ID, on whatever row it was
\* given (hidden ones too), or by its sender (scoreHeader, userClearedMessageIds).
Allowed(l)     == From[l] \in allow
UserNotSpam(l) == Allowed(l) \/ \E f \in Folders : cache[f][l].state = 4
Exempt(l, f)   == From[l] \in written /\ authed[l] /\ f # "junk"

Verdict(l, f, base, isSpam) ==
    IF UserNotSpam(l) THEN [state |-> 4, spam |-> FALSE]
    ELSE IF Exempt(l, f) THEN [state |-> 3, spam |-> FALSE]
    ELSE [state |-> base, spam |-> isSpam \/ f = "junk"]

\* MailClient::scoreHeader(), and rescoreWithBody(), which alone sees the text.
HeadVerdict(l, f) == Verdict(l, f, 1, look[l] = "spam")
BodyVerdict(l, f) == Verdict(l, f, 2, look[l] # "ham" \/ (Text[l] \in learned /\ f # "junk"))

\* MailStore::storeHeadersOn(): a header refresh does not undo a richer verdict.
Stored(row, v) == IF row.state > v.state THEN row
                  ELSE [row EXCEPT !.state = v.state, !.spam = v.spam,
                                   !.at = IF @ = "none" THEN "here" ELSE @]

Teach == <<learned, allow, written, said>>

Hidden(rows, f, ls) == [rows EXCEPT ![f] = [l \in Letters |->
                          IF l \in ls THEN [rows[f][l] EXCEPT !.at = "hidden"] ELSE rows[f][l]]]
Move(ls, f, to) == Append(queue, [on |-> ls, from |-> f, to |-> to])

----------------------------------------------------------------------------
Deliver(l, f) == /\ srv[l] = "no" /\ srv' = [srv EXCEPT ![l] = f]
                 /\ UNCHANGED <<look, authed, cache, list, open, queue, watch, wronged, moves>> /\ UNCHANGED Teach

\* MailClient::appendScoredHeaders(): the rows a header window makes.
Arrivals(f, there) ==
    [l \in Letters |-> IF l \in there THEN Stored(cache[f][l], HeadVerdict(l, f)) ELSE cache[f][l]]

\* A header window and MailClient::autoFileSpamArrivals():
\* arrivals are what is new in an inbox listed before.
Sync(f) ==
    LET there == {l \in Letters : srv[l] = f}
        rows  == Arrivals(f, there)
        new   == {l \in there : cache[f][l].at = "none"}
        delta == f = "inbox" /\ \E l \in Letters : cache[f][l].at # "none"
        filed == {l \in new : delta /\ rows[l].state < 3 /\ rows[l].spam}
    IN  /\ ~Owes(f) /\ rows # cache[f]
        /\ cache' = Hidden([cache EXCEPT ![f] = rows], f, filed)
        /\ queue' = IF filed = {} THEN queue ELSE Move(filed, f, "junk")
        /\ watch' = IF delta THEN watch \cup {l \in new \ filed : rows[l].state < 3} ELSE watch
        /\ list' = IF open # f THEN list
                   ELSE [l \in Letters |-> IF l \in there \ filed THEN rows[l].state ELSE list[l]]
        /\ wronged' = (wronged \/ \E l \in filed : said[l] = "ham")
        /\ UNCHANGED <<look, authed, srv, open, moves>> /\ UNCHANGED Teach

\* MailClient::rescoreWithBody() when a body is cached or opened, and
\* autoFileSpamMessage() for an arrival on watch.  Whether the verdict is
\* settled is asked of the list for the open folder.
Rescore(l, f) ==
    LET known == IF open = f THEN list[l] ELSE cache[f][l].state
        v     == BodyVerdict(l, f)
        row   == [cache[f][l] EXCEPT !.body = TRUE, !.state = v.state, !.spam = v.spam]
        file  == f = "inbox" /\ l \in watch /\ v.state = 2 /\ v.spam
        rows  == [cache EXCEPT ![f][l] = row]
    IN  /\ Here(f, l) /\ known < 3
        /\ cache' = IF file THEN Hidden(rows, f, {l}) ELSE rows
        /\ queue' = IF file THEN Move({l}, f, "junk") ELSE queue
        /\ watch' = IF f = "inbox" THEN watch \ {l} ELSE watch
        /\ list' = IF open # f THEN list
                   ELSE [list EXCEPT ![l] = IF file THEN 0 ELSE IF @ = 0 THEN 0 ELSE v.state]
        /\ wronged' = (wronged \/ (file /\ said[l] = "ham"))
        /\ UNCHANGED <<look, authed, srv, open, moves>> /\ UNCHANGED Teach

\* The body of a settled row, cached without a new verdict.
CacheBody(l, f) == /\ Here(f, l) /\ ~cache[f][l].body /\ cache[f][l].state >= 3
                   /\ cache' = [cache EXCEPT ![f][l].body = TRUE]
                   /\ UNCHANGED <<look, authed, srv, list, open, queue, watch, wronged, moves>> /\ UNCHANGED Teach

----------------------------------------------------------------------------
(* The user's answers.                                                     *)

OfSender(l) == {k \in Letters : From[k] = From[l]}
Say(l, word) == said' = [k \in Letters |-> IF k \in OfSender(l) THEN word ELSE said[k]]

\* Mutant: only the rows that are listed are cleared.
ClearedShown(rows, ls) == [f \in Folders |-> [l \in Letters |->
    IF l \in ls /\ rows[f][l].at = "here" THEN [rows[f][l] EXCEPT !.state = 4, !.spam = FALSE] ELSE rows[f][l]]]

\* MailStore::clearSpamVerdictsFrom() and MessageListModel::clearSpamFrom().
Cleared(rows, ls) == [f \in Folders |-> [l \in Letters |->
    IF l \in ls /\ rows[f][l].at # "none" THEN [rows[f][l] EXCEPT !.state = 4, !.spam = FALSE] ELSE rows[f][l]]]

ClearedListed(ls) == [l \in Letters |-> IF l \in ls /\ list[l] # 0 THEN 4 ELSE list[l]]

\* What "not spam" teaches; a text is unlearned from the cached body.
Absolved(l) ==
    /\ moves > 0 /\ moves' = moves - 1
    /\ Listed(l) /\ Say(l, "ham")
    /\ allow' = allow \cup {From[l]} /\ written' = written \cup {From[l]}
    /\ learned' = IF cache[open][l].body THEN learned \ {Text[l]} ELSE learned
    /\ UNCHANGED <<look, authed, srv, open, watch, wronged>>

\* MailClient::markAsNotSpam() outside the junk folder.
NotSpamHere(l) == /\ open # "junk" /\ Absolved(l)
                  /\ cache' = Cleared(cache, OfSender(l)) /\ list' = ClearedListed(OfSender(l))
                  /\ UNCHANGED queue

\* In it, the rescue that MailClient::moveMessagesTo() also makes of a drag.
NotSpam(l) == /\ open = "junk" /\ Absolved(l)
              /\ cache' = Hidden(Cleared(cache, OfSender(l)), open, {l}) /\ queue' = Move({l}, open, "inbox")
              /\ list' = [ClearedListed(OfSender(l)) EXCEPT ![l] = 0]

\* MailClient::markAsJunk() withdraws the sender; a drag to the junk folder
\* (moveMessagesTo) only teaches the text.
Junk(l, withdraw) ==
    /\ moves > 0 /\ moves' = moves - 1
    /\ open = "inbox" /\ Listed(l)
    /\ allow' = IF withdraw THEN allow \ {From[l]} ELSE allow
    /\ IF withdraw THEN Say(l, "junk") ELSE said' = [said EXCEPT ![l] = "junk"]
    /\ learned' = IF cache[open][l].body THEN learned \cup {Text[l]} ELSE learned
    /\ cache' = Hidden(cache, open, {l}) /\ queue' = Move({l}, open, "junk")
    /\ list' = [list EXCEPT ![l] = 0]
    /\ UNCHANGED <<look, authed, srv, open, watch, written, wronged>>

OpenFolder(f) == /\ open # f /\ open' = f
                 /\ list' = [l \in Letters |-> IF Here(f, l) THEN cache[f][l].state ELSE 0]
                 /\ UNCHANGED <<look, authed, srv, cache, queue, watch, wronged, moves>> /\ UNCHANGED Teach

----------------------------------------------------------------------------
(* The replay.                                                             *)

\* The server moves the mail; MailClient::confirmJournalOp() destroys the rows.
\* The open account's drain or, for arrivals of another account, the poll's
\* connection (settleBackgroundSpamMove).
Confirm ==
    LET op == Head(queue) IN
    /\ queue # <<>> /\ queue' = Tail(queue)
    /\ srv' = [l \in Letters |-> IF l \in op.on THEN op.to ELSE srv[l]]
    /\ cache' = [cache EXCEPT ![op.from] = [l \in Letters |-> IF l \in op.on THEN NoRow ELSE @[l]]]
    /\ UNCHANGED <<look, authed, list, open, watch, wronged, moves>> /\ UNCHANGED Teach

\* The server refuses it: the rows come back.
Refuse ==
    LET op == Head(queue) IN
    /\ moves > 0 /\ moves' = moves - 1
    /\ queue # <<>> /\ queue' = Tail(queue)
    /\ cache' = [cache EXCEPT ![op.from] =
                   [l \in Letters |-> IF l \in op.on THEN [@[l] EXCEPT !.at = "here"] ELSE @[l]]]
    /\ list' = [l \in Letters |-> IF l \in op.on /\ open = op.from THEN cache[op.from][l].state ELSE list[l]]
    /\ UNCHANGED <<look, authed, srv, open, watch, wronged>> /\ UNCHANGED Teach

Next == \/ \E l \in Letters, f \in Folders : Deliver(l, f) \/ Rescore(l, f) \/ CacheBody(l, f)
        \/ \E f \in Folders : Sync(f) \/ OpenFolder(f)
        \/ \E l \in Letters : NotSpam(l) \/ NotSpamHere(l) \/ Junk(l, TRUE) \/ Junk(l, FALSE)
        \/ Confirm \/ Refuse

----------------------------------------------------------------------------
\* Mail of a sender the user called "not spam", and has not marked as spam
\* since, is never filed into the junk folder by the client nor marked in the
\* inbox, whenever it or its body arrives and wherever the answer was given
\* (scoreHeader, rescoreWithBody, clearSpamVerdictsFrom).
AnswersStand ==
    /\ ~wronged
    /\ \A l \in Letters : said[l] = "ham" /\ Here("inbox", l) => ~cache["inbox"][l].spam

\* Does not hold of the code, see the findings.
\* Taking the answer back works: "an override the user cannot take back is a
\* worse trap than the false positive it was fixing" (setNotSpamSender).
AnswersCanChange ==
    \A l \in Letters : said[l] = "junk" /\ look[l] = "spam" /\ Here("inbox", l)
                       => cache["inbox"][l].state \in {1, 2}

\* Does not hold of the code, see the findings.
\* "unlearned by content, or the identical copy arriving tomorrow is marked all
\* over again" (moveMessagesTo).
RescuedTextForgotten == \A l \in Letters : said[l] = "ham" => Text[l] \notin learned \/ \E k \in Letters :
    Text[k] = Text[l] /\ said[k] = "junk"
=============================================================================
