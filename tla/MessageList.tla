---------------------------- MODULE MessageList ----------------------------
(***************************************************************************)
(* MessageListModel: every loaded header (m_all), the rows shown of them   *)
(* (m_rows, indexes into m_all held in sort order so that a row is found   *)
(* by binary search), and the index by uid.  Dates, texts and filters are  *)
(* reduced to what the order and the filters tell apart.                   *)
(***************************************************************************)
EXTENDS Naturals, Sequences, FiniteSets, SequencesExt

CONSTANTS Uids,   \* uids, numbers
          Date,   \* uid -> date
          Hits,   \* uids whose subject or sender the text filter matches
          Colors, \* colour marks; 0 is none
          Learned,\* kinds of attachment a body can teach, of 2 and 3
          MaxListed,\* bound: headers loaded at a time
          MaxRows \* bound: rows shown, a message shown twice counted twice

MessageListAssumption == Uids \subseteq Nat /\ Date \in [Uids -> Nat] /\ 0 \in Colors /\ Learned \subseteq 2 .. 3 /\ {MaxListed, MaxRows} \subseteq Nat

VARIABLES all,       \* m_all
          rows,      \* m_rows
          byUid,     \* m_byUid
          filtered,  \* a text filter is set
          wanted,    \* m_colorFilter
          sort,      \* [by, down]
          moved      \* history: what a row is sorted or filtered by was changed
                     \* without moving the row, since the rows were rebuilt

vars == <<all, rows, byUid, filtered, wanted, sort, moved>>

Init == /\ all = <<>> /\ rows = <<>> /\ byUid = <<>> /\ filtered = FALSE /\ wanted = 0
        /\ sort = [by |-> "date", down |-> TRUE] /\ moved = FALSE

\* attach: 0 none, 1 something by the headers, 2 invitation and 3 nothing after
\* all, both learned from the body.
Header == [uid : Uids, attach : 0 .. 3, color : Colors]
HasAttachment(h) == h.attach \in {1, 2}

\* MessageListModel::lessThan(): by the column, then by uid, so that no two rows
\* compare equal.
LessThanBy(s, a, b) ==
    LET down == s.down
        x    == IF HasAttachment(a) THEN 1 ELSE 0
        y    == IF HasAttachment(b) THEN 1 ELSE 0
        Older(p, q) == IF down THEN p > q ELSE p < q
    IN  IF s.by = "attachment" /\ x # y THEN Older(x, y)
        ELSE IF Date[a.uid] # Date[b.uid]
             THEN Older(Date[a.uid], Date[b.uid]) # (s.by = "attachment")
             ELSE Older(a.uid, b.uid)
LessThan(a, b) == LessThanBy(sort, a, b)

MatchesBy(text, color, h) == /\ color # 0 => h.color = color
                             /\ text => h.uid \in Hits
Matches(h) == MatchesBy(filtered, wanted, h)

\* std::lower_bound and std::upper_bound over r: where the search can end, which
\* is one place only when r is in order.
LowerBounds(r, h) == {k \in 1 .. Len(r) + 1 : /\ k > 1 => LessThan(all[r[k-1]], h)
                                              /\ k <= Len(r) => ~LessThan(all[r[k]], h)}
UpperBounds(seen, r, h) == {k \in 1 .. Len(r) + 1 : /\ k > 1 => ~LessThan(h, seen[r[k-1]])
                                                    /\ k <= Len(r) => LessThan(h, seen[r[k]])}

\* MessageListModel::visibleRowOf() from the place k the search ended at; 0 for -1.
RowFrom(k, i) ==
    LET at == {j \in k .. Len(rows) : rows[j] = i /\ \A l \in k .. j : ~LessThan(all[i], all[rows[l]])}
    IN  IF at = {} THEN 0 ELSE CHOOSE j \in at : \A l \in at : j <= l

Positions(a) == [u \in {a[i].uid : i \in DOMAIN a} |-> CHOOSE i \in DOMAIN a : a[i].uid = u]

InOrder(a, idx) == SetToSortSeq(idx, LAMBDA i, j : LessThan(a[i], a[j]))

\* MessageListModel::rebuildVisible().
Rebuilt(a, text, color) ==
    /\ rows' = InOrder(a, {i \in DOMAIN a : MatchesBy(text, color, a[i])})
    /\ moved' = FALSE

SetHeaders(hs) ==
    /\ all' = hs /\ byUid' = Positions(hs)
    /\ UNCHANGED <<filtered, wanted, sort>> /\ Rebuilt(hs, filtered, wanted)

\* MessageListModel::appendHeaders(), a header already listed: refreshed in
\* place, what the list knows better kept.
Merged(old, h) ==
    [h EXCEPT !.attach = IF old.attach > 1 /\ h.attach = 1 THEN old.attach ELSE @,
              !.color = IF old.color # 0 THEN old.color ELSE @]

\* One new row more, at any place the search may find.
Placed(a, rs, i) == UNION {{InsertAt(r, k, i) : k \in UpperBounds(a, r, a[i])} : r \in rs}

AppendHeaders(hs) ==
    LET known  == {i \in DOMAIN hs : hs[i].uid \in DOMAIN byUid}
        News(h) == h.uid \notin DOMAIN byUid
        merged == [i \in DOMAIN all |->
                     IF \E j \in known : hs[j].uid = all[i].uid
                     THEN Merged(all[i], hs[CHOOSE j \in known : hs[j].uid = all[i].uid]) ELSE all[i]]
        new    == merged \o SelectSeq(hs, News)
        fresh  == {i \in Len(all) + 1 .. Len(new) : Matches(new[i])}
    IN  /\ Len(new) <= MaxListed /\ Len(rows) < MaxRows
        /\ all' = new /\ byUid' = Positions(new)
        /\ rows' \in FoldLeft(LAMBDA rs, i : Placed(new, rs, i), {rows}, InOrder(new, fresh))
        /\ moved' = (moved \/ \E i \in DOMAIN all :
                       \/ sort.by = "attachment" /\ HasAttachment(new[i]) # HasAttachment(all[i])
                       \/ Matches(new[i]) # Matches(all[i]))
        /\ UNCHANGED <<filtered, wanted, sort>>

\* MessageListModel::clear(): the colour filter stays.
Clear == /\ all # <<>> /\ all' = <<>> /\ rows' = <<>> /\ byUid' = <<>> /\ filtered' = FALSE
         /\ moved' = FALSE /\ UNCHANGED <<wanted, sort>>

ApplyFilter(on) == /\ on # filtered /\ filtered' = on
                   /\ UNCHANGED <<all, byUid, wanted, sort>> /\ Rebuilt(all, on, wanted)
SetColorFilter(c) == /\ c # wanted /\ wanted' = c
                     /\ UNCHANGED <<all, byUid, filtered, sort>> /\ Rebuilt(all, filtered, c)

\* MessageListModel::sortBy() and resortVisible(): the rows shown are sorted anew.
SortBy(by, down) ==
    LET s == [by |-> by, down |-> down] IN
    /\ sort # s /\ sort' = s
    /\ rows' = SortSeq(rows, LAMBDA i, j : LessThanBy(s, all[i], all[j]))
    /\ UNCHANGED <<all, byUid, filtered, wanted, moved>>

\* Mutant: the rows keep the indexes they had.
RemoveByUidsUnsplit(gone) ==
    LET Stays(h) == h.uid \notin gone
        left == SelectSeq(all, Stays)
    IN  /\ \E i \in DOMAIN all : ~Stays(all[i])
        /\ all' = left /\ byUid' = Positions(left)
        /\ rows' = SelectSeq(rows, LAMBDA i : Stays(all[i]) /\ i \in DOMAIN left)
        /\ UNCHANGED <<filtered, wanted, sort, moved>>

\* MessageListModel::removeByUids(): the indexes are those of the new m_all.
RemoveByUids(gone) ==
    LET Stays(h) == h.uid \notin gone
        left == SelectSeq(all, Stays)
        seen == SelectSeq(rows, LAMBDA i : Stays(all[i]))
    IN  /\ \E i \in DOMAIN all : ~Stays(all[i])
        /\ all' = left /\ byUid' = Positions(left)
        /\ rows' = [k \in DOMAIN seen |-> Positions(left)[all[seen[k]].uid]]
        /\ UNCHANGED <<filtered, wanted, sort, moved>>

\* MessageListModel::setAttachKind(): the key changes where the row stands.
SetAttachKind(u, kind) ==
    /\ u \in DOMAIN byUid /\ all[byUid[u]].attach # kind
    /\ all' = [all EXCEPT ![byUid[u]].attach = kind]
    /\ moved' = (moved \/ (sort.by = "attachment"
                           /\ HasAttachment(all'[byUid[u]]) # HasAttachment(all[byUid[u]])))
    /\ UNCHANGED <<rows, byUid, filtered, wanted, sort>>

\* MessageListModel::setColorLabel(): the mark can move the row into or out of
\* the colour filter.
SetColorLabel(u, c) ==
    LET i   == byUid[u]
        new == [all EXCEPT ![i].color = c]
    IN  /\ u \in DOMAIN byUid /\ all[i].color # c /\ Len(rows) < MaxRows
        /\ all' = new
        /\ \E k \in LowerBounds(rows, all[i]) :
             LET row == RowFrom(k, i) IN
             \/ row # 0 /\ rows' = IF Matches(new[i]) THEN rows ELSE RemoveAt(rows, row)
             \/ row = 0 /\ ~Matches(new[i]) /\ rows' = rows
             \/ row = 0 /\ Matches(new[i]) /\ rows' \in Placed(new, {rows}, i)
        /\ UNCHANGED <<byUid, filtered, wanted, sort, moved>>

\* A header as the server's answer gives it, or as the cache does.
Fetched(u) == [uid : {u}, attach : {1}, color : {0}]
Cached(u)  == [uid : {u}, attach : Learned, color : Colors]

Next == \/ \E u \in Uids : \E h \in Fetched(u) \cup Cached(u) :
             AppendHeaders(<<h>>) \/ SetHeaders(<<h>>)
        \/ \E u, v \in Uids : \E h \in Fetched(u), g \in Cached(v) : u # v /\ AppendHeaders(<<h, g>>)
        \/ Clear
        \/ \E on \in BOOLEAN : ApplyFilter(on)
        \/ \E c \in Colors : SetColorFilter(c) \/ \E u \in Uids : SetColorLabel(u, c)
        \/ \E by \in {"date", "attachment"}, down \in BOOLEAN : SortBy(by, down)
        \/ \E gone \in SUBSET Uids : RemoveByUids(gone)
        \/ \E u \in Uids, kind \in Learned : SetAttachKind(u, kind)

----------------------------------------------------------------------------
TypeOK == /\ all \in Seq(Header) /\ rows \in Seq(1 .. Len(all))
          /\ filtered \in BOOLEAN /\ wanted \in Colors /\ moved \in BOOLEAN
          /\ sort \in [by : {"date", "attachment"}, down : BOOLEAN]

ShownAreMatches == /\ ToSet(rows) = {i \in DOMAIN all : Matches(all[i])}
                   /\ \A i, j \in DOMAIN rows : i < j => LessThan(all[rows[i]], all[rows[j]])

\* Whatever is loaded, removed, marked, filtered and sorted, the list shows each
\* matching message once and in order, and uids lead to their own messages
\* (appendHeaders, removeByUids, setColorLabel), as long as no attachment was
\* learned of while the list is sorted by attachments, and no colour from the
\* cache while it is filtered by colour.
ListedOnce == /\ \A u \in DOMAIN byUid : all[byUid[u]].uid = u
              /\ ~moved => ShownAreMatches

\* Does not hold of the code, see the findings.
\* "m_rows is always held in sort order, so a row can be found by its sort key"
\* (visibleRowOf).
AlwaysInOrder == \A i, j \in DOMAIN rows : i < j => LessThan(all[rows[i]], all[rows[j]])
=============================================================================
