------------------------------ MODULE SyncProofs ------------------------------
(***************************************************************************)
(* Proofs about SyncEngine, for any folders, sizes, windows and number of  *)
(* disturbances: the list shows cached mail of the open folder, an open    *)
(* that was answered has moved push to the folder, and the cursor of the   *)
(* open folder counts nothing that has not been fetched.                   *)
(***************************************************************************)
EXTENDS SyncEngine, FiniteSetTheorems, WellFoundedInduction, TLAPS

------------------------------------------------------------------------------
(* Least and greatest numbers.                                              *)

LEMMA LeastIn ==
    ASSUME NEW R, IsWellFoundedOn(R, Nat), NEW S, S \subseteq Nat, S # {}
    PROVE  \E n \in S : \A k \in S : ~(<<k, n>> \in R)
BY WFMin

LEMMA MinOf ==
    ASSUME NEW S, S \subseteq Nat, S # {}
    PROVE  Min(S) \in S /\ \A k \in S : Min(S) <= k
<1>1. PICK n \in S : \A k \in S : ~(<<k, n>> \in OpToRel(<, Nat))
  BY LeastIn, NatLessThanWellFounded
<1>2. ASSUME NEW k \in S
      PROVE  n <= k
  <2>1. ~(k < n)
    BY <1>1 DEF OpToRel
  <2> QED BY <2>1
<1> QED BY <1>2, Zenon DEF Min

\* Naturals below a bound have a greatest: the one least far from the bound.
LEMMA MaxOf ==
    ASSUME NEW b \in Nat, NEW S, S \subseteq 0 .. b, S # {}
    PROVE  Max(S) \in S /\ \A y \in S : Max(S) >= y
<1> DEFINE far == {b - i : i \in S}
<1>1. far \subseteq Nat /\ far # {}
  OBVIOUS
<1>2. PICK d \in far : \A k \in far : ~(<<k, d>> \in OpToRel(<, Nat))
  BY <1>1, LeastIn, NatLessThanWellFounded
<1>3. ASSUME NEW k \in far
      PROVE  d <= k
  <2>1. d \in Nat /\ k \in Nat
    BY <1>1
  <2>2. ~(k < d)
    BY <1>2, <2>1 DEF OpToRel
  <2> QED BY <2>1, <2>2
<1>4. PICK x \in S : d = b - x
  OBVIOUS
<1>5. ASSUME NEW y \in S
      PROVE  x >= y
  <2>1. b - y \in far
    OBVIOUS
  <2>2. b - x <= b - y
    BY <1>3, <1>4, <2>1
  <2>3. x \in Nat /\ y \in Nat
    BY <1>4, <1>5
  <2> HIDE DEF far
  <2> QED BY <2>2, <2>3
<1> QED BY <1>5, Zenon DEF Max

LEMMA OfTwo ==
    ASSUME NEW a \in Nat, NEW b \in Nat
    PROVE  /\ Max({a, b}) \in Nat /\ Max({a, b}) \in {a, b} /\ Max({a, b}) >= a /\ Max({a, b}) >= b
           /\ Min({a, b}) \in Nat /\ Min({a, b}) \in {a, b} /\ Min({a, b}) <= a /\ Min({a, b}) <= b
<1>1. {a, b} \subseteq Nat /\ {a, b} # {} /\ {a, b} \subseteq 0 .. (a + b)
  OBVIOUS
<1>2. Min({a, b}) \in {a, b} /\ \A k \in {a, b} : Min({a, b}) <= k
  BY <1>1, MinOf
<1>3. Max({a, b}) \in {a, b} /\ \A k \in {a, b} : Max({a, b}) >= k
  BY <1>1, MaxOf
<1> QED BY <1>2, <1>3

LEMMA HighestOf ==
    ASSUME NEW n \in Nat, NEW c, c \subseteq 1 .. n
    PROVE  /\ Highest(c) \in 0 .. n /\ \A u \in c : u <= Highest(c)
           /\ c # {} => Highest(c) \in c
<1>1. c \cup {0} \subseteq 0 .. n /\ c \cup {0} # {}
  OBVIOUS
<1> DEFINE d == c \cup {0}
<1>2. Max(d) \in d /\ \A y \in d : Max(d) >= y
  BY <1>1, MaxOf
<1>3. Highest(c) = Max(d)
  BY DEF Highest
<1>4. 0 \in d /\ \A u \in c : u \in d
  OBVIOUS
<1>5. d \subseteq 0 .. n
  BY <1>1
<1> HIDE DEF d
<1>6. ASSUME NEW u \in c
      PROVE  u <= Highest(c)
  <2>1. u \in 0 .. n /\ Max(d) \in 0 .. n /\ Max(d) >= u
    BY <1>2, <1>4, <1>5, <1>6
  <2> QED BY <2>1, <1>3
<1>7. ASSUME c # {}
      PROVE  Highest(c) \in c
  <2>1. PICK u \in c : TRUE
    BY <1>7
  <2>2. u \in 1 .. n /\ Max(d) >= u /\ Max(d) \in 0 .. n
    BY <2>1, <1>2, <1>4, <1>5
  <2>3. Max(d) # 0
    BY <2>2
  <2>4. \A v \in d : v = 0 \/ v \in c
    BY DEF d
  <2> QED BY <2>3, <2>4, <1>2, <1>3
<1>8. Highest(c) \in 0 .. n
  BY <1>2, <1>3, <1>5
<1> QED BY <1>6, <1>7, <1>8, Zenon

------------------------------------------------------------------------------
(* The engine's record and its requests.                                    *)

Kinds == {"open", "window", "since", "delta", "list", "bodies"}
Somewhere == Boxes \cup {NoFolder}

Fields == {"selected", "searching", "busy", "shown", "anchor", "armed", "backfill", "fetching", "attempt",
           "paused", "intent", "total", "fetched", "queue", "primed", "done", "walking", "asking", "sized",
           "count", "reached", "prefetch", "stream", "pending", "out", "crossed", "holed", "dozed",
           "skipped"}

Engine(x) ==
    /\ x = [i \in Fields |-> x[i]]
    /\ x.selected \in Somewhere /\ x.walking \in Somewhere /\ x.queue \in Seq(Boxes)
    /\ x.total \in Nat /\ x.fetched \in Nat /\ x.count \in Nat /\ x.reached \in Nat
    /\ x.searching \in BOOLEAN /\ x.crossed \in BOOLEAN /\ x.holed \in BOOLEAN
    /\ x.selected = NoFolder => x.total = 0 /\ ~x.searching

Asked(r, M) ==
    /\ r = [i \in {"id", "kind", "folder", "left", "ask", "dead"} |-> r[i]]
    /\ r.kind \in Kinds /\ r.dead \in BOOLEAN /\ (r.ask.back => r.kind = "window")
    /\ r.kind \in {"open"} \cup HeaderKinds => r.folder \in Boxes
    /\ r.kind \in HeaderKinds =>
           /\ r.left \subseteq 1 .. M[r.folder]
           /\ r.ask.from \in Nat /\ r.ask.n \in Nat /\ r.ask.base \in Nat

\* One header request a folder, or the engine has crossed two.
One(x) == x.crossed \/ \A q, r \in x.out : {q.kind, r.kind} \subseteq HeaderKinds /\ q.folder = r.folder => q = r

\* What waits in the buffer belongs to a request that is still out.
Bound(x, M) ==
    \A p \in x.pending : /\ p.streamed \in BOOLEAN /\ p.uid \in 1 .. M[p.folder]
                          /\ \E r \in x.out : r.kind \in HeaderKinds /\ r.folder = p.folder

Sound(x, M) ==
    /\ Engine(x) /\ (\A r \in x.out : Asked(r, M))
    /\ IsFiniteSet(x.pending) /\ Bound(x, M) /\ One(x)

\* What the claims are about stays as it is.
Unmoved(x, y) ==
    /\ Engine(y)
    /\ y.selected = x.selected /\ y.searching = x.searching /\ y.shown = x.shown /\ y.pending = x.pending
    /\ y.total = x.total /\ y.fetched = x.fetched /\ y.holed = x.holed

Same(x, y) ==
    Unmoved(x, y) /\ y.crossed = x.crossed /\ y.intent = x.intent /\ y.out = x.out

\* A window of the open folder goes on from the cursor, or the cursor has
\* counted the whole folder.
Onward(x, q) ==
    /\ q.kind = "window"
    /\ x.fetched >= x.total \/ (q.ask.from = x.fetched /\ q.left = Rows(q.folder, q.ask.from, q.ask.n))

New(x, y, q) ==
    /\ Asked(q, mailbox) /\ ~q.dead
    /\ q.kind \in HeaderKinds =>
           /\ y.crossed \/ \A r \in x.out : r.kind \in HeaderKinds => r.folder # q.folder
           /\ q.folder = x.selected => Onward(x, q)

\* Nothing is said of the list, the cursor or what was asked before; more may
\* be asked.
Steady(x, y) ==
    /\ Unmoved(x, y)
    /\ x.crossed => y.crossed
    /\ x.intent = "open" /\ "overtake" \notin Events => y.intent = "open"
    /\ x.out \subseteq y.out
    /\ \A q \in y.out \ x.out : New(x, y, q)
    /\ One(x) => One(y)
    /\ y.out # x.out => link.up

LEMMA SameIsSteady ==
    ASSUME NEW x, NEW y, Same(x, y)
    PROVE  Steady(x, y)
BY DEF Same, Steady, Unmoved, One

LEMMA SteadySteady ==
    ASSUME NEW x, NEW y, NEW z, Steady(x, y), Steady(y, z)
    PROVE  Steady(x, z)
<1>1. ASSUME NEW q \in z.out \ x.out
      PROVE  New(x, z, q)
  <2>1. CASE q \in y.out
    <3>1. New(x, y, q)
      BY <2>1, <1>1 DEF Steady
    <3> QED BY <3>1 DEF New, Steady
  <2>2. CASE q \notin y.out
    <3>1. New(y, z, q)
      BY <2>2, <1>1 DEF Steady
    <3> QED BY <3>1 DEF New, Steady, Unmoved, Onward
  <2> QED BY <2>1, <2>2
<1>2. Unmoved(x, z)
  BY DEF Steady, Unmoved
<1> QED BY <1>1, <1>2 DEF Steady

\* Pacing.
LEMMA Pacing ==
    ASSUME NEW x, Engine(x)
    PROVE  /\ Same(x, Scheduled(x)) /\ Same(x, BackoffReset(x)) /\ Same(x, BackedOff(x))
           /\ Same(x, ResetForFolderChange(x)) /\ Same(x, RestartQueue(x)) /\ Same(x, Throttled(x))
<1>1. Same(x, Scheduled(x))
  BY DEF Same, Unmoved, Engine, Fields, Scheduled
<1>2. Same(x, BackoffReset(x))
  BY DEF Same, Unmoved, Engine, Fields, BackoffReset
<1>3. ASSUME NEW y, Engine(y)
      PROVE  Same(y, BackedOff(y))
  BY <1>3 DEF Same, Unmoved, Engine, Fields, BackedOff, Scheduled
<1>4. Same(x, ResetForFolderChange(x))
  BY ZenonT(60) DEF Same, Unmoved, Engine, Fields, ResetForFolderChange, BackoffReset
<1>5. Same(x, RestartQueue(x))
  <2>1. <<>> \in Seq(Boxes)
    OBVIOUS
  <2> QED BY <2>1 DEF Same, Unmoved, Engine, Fields, RestartQueue
<1>6. Same(x, Throttled(x))
  <2> DEFINE y == [x EXCEPT !.backfill = FALSE]
  <2>1. Same(x, y) /\ Engine(y)
    BY DEF Same, Unmoved, Engine, Fields
  <2>2. Throttled(x) = y \/ Throttled(x) = BackedOff(y)
    BY DEF Throttled
  <2> HIDE DEF y
  <2>3. Same(y, BackedOff(y))
    BY <2>1, <1>3
  <2> QED BY <2>1, <2>2, <2>3 DEF Same, Unmoved
<1> QED BY <1>1, <1>2, <1>3, <1>4, <1>5, <1>6

------------------------------------------------------------------------------
(* What the engine sends.                                                   *)

Alike(q, r) ==
    q.kind = r.kind /\ q.folder = r.folder /\ q.left = r.left /\ q.ask = r.ask /\ q.dead = r.dead

\* One request more, and nothing else.
Asks(x, y, q) ==
    /\ Unmoved(x, y) /\ y.intent = x.intent
    /\ y.out = x.out \cup {q}
    /\ y.crossed <=> (x.crossed \/ (q.kind \in HeaderKinds /\ \E p \in x.out : p.kind \in HeaderKinds /\ p.folder = q.folder))

LEMMA AskingIsSteady ==
    ASSUME NEW x, NEW y, NEW q, Asks(x, y, q), Asked(q, mailbox), ~q.dead, link.up,
           q.kind \in HeaderKinds /\ q.folder = x.selected => Onward(x, q)
    PROVE  Steady(x, y)
<1>1. New(x, y, q)
  BY DEF New, Asks
<1>2. One(x) => One(y)
  BY DEF Asks, One, HeaderKinds
<1> QED BY <1>1, <1>2 DEF Steady, Asks

LEMMA SendingAsks ==
    ASSUME NEW x, Engine(x), NEW r, Asked(r, mailbox)
    PROVE  \E q : Asks(x, Sent(x, r), q) /\ Alike(q, r) /\ Asked(q, mailbox)
<1> DEFINE q == [r EXCEPT !.id = FreeId(x)]
<1>1. Alike(q, r) /\ Asked(q, mailbox)
  BY DEF Alike, Asked
<1> HIDE DEF q
<1>2. (q.kind \in HeaderKinds /\ \E p \in x.out : p.kind \in HeaderKinds /\ p.folder = q.folder)
         <=> \E p \in x.out : p.folder = r.folder /\ {p.kind, r.kind} \subseteq HeaderKinds
  BY <1>1 DEF Alike, HeaderKinds
<1>3. Sent(x, r) = [x EXCEPT !.out = @ \cup {q},
              !.crossed = @ \/ \E p \in x.out : p.folder = r.folder /\ {p.kind, r.kind} \subseteq HeaderKinds]
  BY DEF Sent, q
<1>4. PICK k \in BOOLEAN : k <=> x.crossed \/ \E p \in x.out : p.folder = r.folder /\ {p.kind, r.kind} \subseteq HeaderKinds
  OBVIOUS
<1>5. Sent(x, r) = [x EXCEPT !.out = @ \cup {q}, !.crossed = k]
  BY <1>3, <1>4 DEF Engine
<1> DEFINE y == Sent(x, r)
           o == x.out \cup {q}
<1>6. y = [x EXCEPT !.out = o, !.crossed = k]
  BY <1>5
<1> HIDE DEF o, y
<1>7. Unmoved(x, y) /\ y.intent = x.intent /\ y.out = o /\ (y.crossed <=> k)
  BY <1>4, <1>6 DEF Unmoved, Engine, Fields
<1>8. Asks(x, y, q)
  BY <1>2, <1>4, <1>7 DEF Asks, o
<1> QED BY <1>1, <1>8 DEF y

LEMMA Streams ==
    ASSUME NEW x, Engine(x), NEW f, NEW i
    PROVE  Same(x, BeginStream(x, f, i)) /\ Same(x, EndStream(x, i))
BY ZenonT(60) DEF Same, Unmoved, Engine, Fields, BeginStream, EndStream

LEMMA StreamingAsks ==
    ASSUME NEW x, Engine(x), NEW r, Asked(r, mailbox)
    PROVE  \E q : Asks(x, Streaming(x, r), q) /\ Alike(q, r) /\ Asked(q, mailbox)
<1>1. PICK q : Asks(x, Sent(x, r), q) /\ Alike(q, r) /\ Asked(q, mailbox)
  BY SendingAsks
<1>2. Engine(Sent(x, r))
  BY <1>1 DEF Asks, Unmoved
<1>3. Same(Sent(x, r), Streaming(x, r))
  BY <1>2, Streams DEF Streaming
<1>4. Asks(x, Streaming(x, r), q)
  BY <1>1, <1>3 DEF Asks, Same, Unmoved
<1> QED BY <1>1, <1>4

LEMMA WindowAsks ==
    ASSUME NEW x, Engine(x), NEW f \in Boxes, NEW k, k.from \in Nat, k.n \in Nat, k.base \in Nat
    PROVE  \E q : /\ Asks(x, Streaming([x EXCEPT !.fetching = TRUE], Request("window", f, Rows(f, k.from, k.n), k)), q)
                  /\ Asked(q, mailbox) /\ ~q.dead
                  /\ q.kind = "window" /\ q.folder = f /\ q.left = Rows(f, k.from, k.n) /\ q.ask = k
<1> DEFINE r == Request("window", f, Rows(f, k.from, k.n), k)
           y == [x EXCEPT !.fetching = TRUE]
<1>1. Rows(f, k.from, k.n) \subseteq 1 .. mailbox[f]
  BY DEF Rows
<1>2. /\ Asked(r, mailbox) /\ ~r.dead /\ r.kind = "window" /\ r.folder = f
      /\ r.left = Rows(f, k.from, k.n) /\ r.ask = k
  BY <1>1 DEF Asked, Request, HeaderKinds, Kinds
<1>3. Same(x, y)
  BY DEF Same, Unmoved, Engine, Fields
<1> HIDE DEF r, y
<1>4. PICK q : Asks(y, Streaming(y, r), q) /\ Alike(q, r) /\ Asked(q, mailbox)
  BY <1>2, <1>3, StreamingAsks DEF Same, Unmoved
<1>5. Asks(x, Streaming(y, r), q)
  BY <1>3, <1>4 DEF Asks, Same, Unmoved
<1> QED BY <1>2, <1>4, <1>5 DEF Alike, r, y

\* A window that may be asked for at any time.
LEMMA WindowIsSteady ==
    ASSUME NEW x, Engine(x), NEW f \in Boxes, NEW k, k.from \in Nat, k.n \in Nat, k.base \in Nat, link.up,
           f = x.selected => x.fetched >= x.total \/ k.from = x.fetched
    PROVE  Steady(x, Streaming([x EXCEPT !.fetching = TRUE], Request("window", f, Rows(f, k.from, k.n), k)))
<1>1. PICK q : /\ Asks(x, Streaming([x EXCEPT !.fetching = TRUE], Request("window", f, Rows(f, k.from, k.n), k)), q)
               /\ Asked(q, mailbox) /\ ~q.dead
               /\ q.kind = "window" /\ q.folder = f /\ q.left = Rows(f, k.from, k.n) /\ q.ask = k
  BY WindowAsks
<1>2. q.folder = x.selected => Onward(x, q)
  BY <1>1 DEF Onward
<1> QED BY <1>1, <1>2, AskingIsSteady

LEMMA FetchingIsSteady ==
    ASSUME NEW x, Engine(x), SyncAssumption
    PROVE  Steady(x, FetchOlder(x))
<1> DEFINE z == [x EXCEPT !.backfill = FALSE]
           y == [x EXCEPT !.busy = ~x.backfill]
           k == [from |-> x.fetched, n |-> Window, append |-> TRUE, back |-> x.backfill, arrivals |-> FALSE, base |-> 0]
<1>1. Same(x, z) /\ Same(x, y)
  BY DEF Same, Unmoved, Engine, Fields
<1>2. k.from = x.fetched /\ k.from \in Nat /\ k.n \in Nat /\ k.base \in Nat /\ k.n = Window
  BY DEF Engine, SyncAssumption
<1>3. FetchOlder(x) = z \/ (link.up /\ x.fetched < x.total
          /\ FetchOlder(x) = Streaming([y EXCEPT !.fetching = TRUE], Request("window", x.selected, Rows(x.selected, k.from, k.n), k)))
  BY DEF FetchOlder, RequestWindow, Engine
<1> HIDE DEF z, y, k
<1>4. CASE FetchOlder(x) = z
  BY <1>1, <1>4, SameIsSteady
<1>5. CASE link.up /\ x.fetched < x.total
          /\ FetchOlder(x) = Streaming([y EXCEPT !.fetching = TRUE], Request("window", x.selected, Rows(x.selected, k.from, k.n), k))
  <2>1. x.selected \in Boxes
    BY <1>5 DEF Engine, Somewhere
  <2>2. Engine(y) /\ y.fetched = x.fetched
    BY <1>1 DEF Same, Unmoved
  <2>3. Steady(y, Streaming([y EXCEPT !.fetching = TRUE], Request("window", x.selected, Rows(x.selected, k.from, k.n), k)))
    BY <1>2, <1>5, <2>1, <2>2, WindowIsSteady
  <2> QED BY <1>1, <1>5, <2>3, SameIsSteady, SteadySteady
<1> QED BY <1>3, <1>4, <1>5

LEMMA OpeningAsks ==
    ASSUME NEW x, Engine(x), NEW f \in Boxes
    PROVE  \E q : /\ Asks(x, Sent(x, Request("open", f, {}, NoAsk)), q)
                  /\ Asked(q, mailbox) /\ ~q.dead /\ q.kind = "open" /\ q.folder = f
<1> DEFINE r == Request("open", f, {}, NoAsk)
<1>1. Asked(r, mailbox) /\ ~r.dead /\ r.kind = "open" /\ r.folder = f
  BY DEF Asked, Request, HeaderKinds, Kinds, NoAsk
<1> HIDE DEF r
<1>2. PICK q : Asks(x, Sent(x, r), q) /\ Alike(q, r) /\ Asked(q, mailbox)
  BY <1>1, SendingAsks
<1> QED BY <1>1, <1>2 DEF Alike, r

LEMMA OpeningIsSteady ==
    ASSUME NEW x, Engine(x), NEW f \in Boxes, link.up
    PROVE  Steady(x, Sent(x, Request("open", f, {}, NoAsk)))
<1>1. PICK q : /\ Asks(x, Sent(x, Request("open", f, {}, NoAsk)), q)
               /\ Asked(q, mailbox) /\ ~q.dead /\ q.kind = "open" /\ q.folder = f
  BY OpeningAsks
<1>2. q.kind \notin HeaderKinds
  BY <1>1 DEF HeaderKinds
<1> QED BY <1>1, <1>2, AskingIsSteady

\* A refresh takes the place of an open only where that may be overtaken.
LEMMA RefreshingIsSteady ==
    ASSUME NEW x, Engine(x), x.selected # NoFolder, x.intent = "open" => "overtake" \in Events, link.up
    PROVE  Steady(x, Sent([x EXCEPT !.intent = "refresh"], Request("open", x.selected, {}, NoAsk)))
<1> DEFINE y == [x EXCEPT !.intent = "refresh"]
<1>1. Unmoved(x, y) /\ y.out = x.out /\ y.crossed = x.crossed
  BY DEF Unmoved, Engine, Fields
<1> HIDE DEF y
<1>2. Steady(x, y)
  BY <1>1 DEF Steady, One
<1>3. x.selected \in Boxes
  BY DEF Engine, Somewhere
<1>4. Steady(y, Sent(y, Request("open", x.selected, {}, NoAsk)))
  BY <1>1, <1>3, OpeningIsSteady DEF Unmoved
<1> QED BY <1>2, <1>4, SteadySteady DEF y

LEMMA PrefetchIsSteady ==
    ASSUME NEW x, Engine(x)
    PROVE  Steady(x, ProcessPrefetch(x))
<1> DEFINE f == Head(x.prefetch).folder
           r == Request("bodies", f, {p.uid : p \in {q \in Range(x.prefetch) : q.folder = f}}, NoAsk)
           y == [x EXCEPT !.prefetch = SelectSeq(@, LAMBDA p : p.folder # f)]
<1>1. ProcessPrefetch(x) = x \/ (link.up /\ ProcessPrefetch(x) = Sent(y, r))
  BY DEF ProcessPrefetch
<1>2. Asked(r, mailbox) /\ ~r.dead /\ r.kind \notin HeaderKinds
  BY DEF Asked, Request, HeaderKinds, Kinds, NoAsk
<1> DEFINE p == SelectSeq(x.prefetch, LAMBDA i : i.folder # f)
<1>3. y = [x EXCEPT !.prefetch = p]
  OBVIOUS
<1> HIDE DEF p, y, r
<1>4. Same(x, y)
  BY <1>3 DEF Same, Unmoved, Engine, Fields
<1>5. ASSUME link.up
      PROVE  Steady(y, Sent(y, r))
  <2>1. PICK q : Asks(y, Sent(y, r), q) /\ Alike(q, r) /\ Asked(q, mailbox)
    BY <1>2, <1>4, SendingAsks DEF Same, Unmoved
  <2> QED BY <1>2, <1>5, <2>1, AskingIsSteady DEF Alike
<1>6. Same(x, x)
  BY DEF Same, Unmoved
<1> QED BY <1>1, <1>4, <1>5, <1>6, SameIsSteady, SteadySteady

LEMMA BackfillingIsSteady ==
    ASSUME NEW x, Engine(x), NEW f
    PROVE  Steady(x, BackfillBodies(x, f))
<1> DEFINE newest == CHOOSE S \in SUBSET Missing(f) :
                      /\ Cardinality(S) = Min({BodyBatch, Cardinality(Missing(f))})
                      /\ \A u \in S, v \in Missing(f) \ S : u > v
           added  == SetToSeq({[folder |-> f, uid |-> u] : u \in newest} \ Range(x.prefetch))
           p == x.prefetch \o added
           y == [x EXCEPT !.prefetch = p]
<1>1. BackfillBodies(x, f) = Scheduled(ProcessPrefetch(y))
  BY DEF BackfillBodies
<1> HIDE DEF newest, added, p
<1>2. Same(x, y)
  BY DEF Same, Unmoved, Engine, Fields
<1> HIDE DEF y
<1>3. Steady(y, ProcessPrefetch(y)) /\ Engine(ProcessPrefetch(y))
  BY <1>2, PrefetchIsSteady DEF Same, Unmoved, Steady
<1>4. Steady(ProcessPrefetch(y), Scheduled(ProcessPrefetch(y)))
  BY <1>3, Pacing, SameIsSteady
<1> QED BY <1>1, <1>2, <1>3, <1>4, SameIsSteady, SteadySteady

------------------------------------------------------------------------------
(* The pass over the other folders.                                         *)

LEMMA WalkingIsSame ==
    ASSUME NEW x, Engine(x), NEW q \in Seq(Boxes)
    PROVE  Same(x, NextWalked(x, q))
<1> DEFINE fit == {i \in DOMAIN q : q[i] \notin owing /\ q[i] # x.selected}
           z == [x EXCEPT !.queue = <<>>, !.done = TRUE, !.primed = FALSE]
<1>1. <<>> \in Seq(Boxes)
  OBVIOUS
<1>2. Same(x, z)
  BY <1>1 DEF Same, Unmoved, Engine, Fields
<1>3. CASE fit = {}
  BY <1>2, <1>3 DEF NextWalked
<1>4. CASE fit # {}
  <2>1. fit \subseteq Nat
    OBVIOUS
  <2>2. Min(fit) \in fit
    BY <1>4, <2>1, MinOf
  <2> DEFINE i == Min(fit)
             rest == SubSeq(q, i + 1, Len(q))
             f == q[i]
  <2>3. i \in 1 .. Len(q)
    BY <2>2
  <2>4. NextWalked(x, q) = [x EXCEPT !.queue = rest, !.primed = TRUE, !.walking = f, !.sized = FALSE, !.reached = 0]
    BY <1>4 DEF NextWalked
  <2> HIDE DEF i, fit
  <2>5. f \in Boxes
    BY <2>3
  <2>6. rest \in Seq(Boxes)
    BY <2>3
  <2> HIDE DEF f, rest
  <2> DEFINE w == [x EXCEPT !.queue = rest, !.primed = TRUE, !.walking = f, !.sized = FALSE, !.reached = 0]
  <2>7. f \in Somewhere
    BY <2>5 DEF Somewhere
  <2>8. Engine(w)
    BY ZenonT(60), <2>6, <2>7 DEF Engine, Fields
  <2>9. Same(x, w)
    BY <2>8 DEF Same, Unmoved, Engine, Fields
  <2> QED BY <2>4, <2>9, Zenon
<1> QED BY <1>3, <1>4

LEMMA PassIsSteady ==
    ASSUME NEW x, Engine(x), SyncAssumption, link.up, x.selected # NoFolder => x.fetched >= x.total
    PROVE  Steady(x, ContinuePass(x))
<1> DEFINE q == IF x.queue = <<>> /\ ~x.primed THEN Folders ELSE x.queue
           y == IF x.walking # NoFolder THEN x ELSE NextWalked(x, q)
           f == y.walking
<1>1. q \in Seq(Boxes)
  BY DEF Engine, SyncAssumption, Boxes
<1> HIDE DEF q
<1>2. Same(x, x)
  BY DEF Same, Unmoved
<1>3. Same(x, y)
  BY <1>1, <1>2, WalkingIsSame
<1>4. ContinuePass(x) =
        IF f = NoFolder THEN y
        ELSE IF ~y.sized THEN Sent([y EXCEPT !.asking = TRUE], Request("open", f, {}, NoAsk))
        ELSE IF y.reached < y.count
             THEN RequestWindow([y EXCEPT !.backfill = TRUE], f, y.reached, Window, TRUE, TRUE, FALSE)
        ELSE IF Missing(f) # {} THEN BackfillBodies(y, f)
        ELSE Scheduled([y EXCEPT !.walking = NoFolder])
  BY DEF ContinuePass, q
<1> HIDE DEF y
<1>5. Steady(x, y) /\ Engine(y)
  BY <1>3, SameIsSteady DEF Same, Unmoved
<1>6. f \in Somewhere
  BY <1>5 DEF Engine
<1> HIDE DEF f
<1>7. ASSUME f # NoFolder
      PROVE  Steady(y, Sent([y EXCEPT !.asking = TRUE], Request("open", f, {}, NoAsk)))
  <2> DEFINE z == [y EXCEPT !.asking = TRUE]
  <2>1. Same(y, z)
    BY <1>5 DEF Same, Unmoved, Engine, Fields
  <2> HIDE DEF z
  <2>2. Steady(z, Sent(z, Request("open", f, {}, NoAsk)))
    BY <1>6, <1>7, <2>1, OpeningIsSteady DEF Same, Unmoved, Somewhere
  <2> QED BY <2>1, <2>2, SameIsSteady, SteadySteady DEF z
<1>8. ASSUME f # NoFolder
      PROVE  Steady(y, RequestWindow([y EXCEPT !.backfill = TRUE], f, y.reached, Window, TRUE, TRUE, FALSE))
  <2> DEFINE z == [y EXCEPT !.backfill = TRUE]
             k == [from |-> y.reached, n |-> Window, append |-> TRUE, back |-> TRUE, arrivals |-> FALSE, base |-> 0]
  <2>1. Same(y, z)
    BY <1>5 DEF Same, Unmoved, Engine, Fields
  <2>2. k.from \in Nat /\ k.n \in Nat /\ k.base \in Nat
    BY <1>5 DEF Engine, SyncAssumption
  <2>3. RequestWindow(z, f, y.reached, Window, TRUE, TRUE, FALSE)
          = Streaming([z EXCEPT !.fetching = TRUE], Request("window", f, Rows(f, k.from, k.n), k))
    BY DEF RequestWindow
  <2> HIDE DEF z, k
  <2>4. f \in Boxes /\ Engine(z)
    BY <1>6, <1>8, <2>1 DEF Somewhere, Same, Unmoved
  <2>5. f = z.selected => z.fetched >= z.total
    BY <1>3, <1>8, <2>1 DEF Same, Unmoved
  <2>6. Steady(z, Streaming([z EXCEPT !.fetching = TRUE], Request("window", f, Rows(f, k.from, k.n), k)))
    BY <2>2, <2>4, <2>5, WindowIsSteady
  <2> QED BY <2>1, <2>3, <2>6, SameIsSteady, SteadySteady DEF z
<1>9. Steady(y, Scheduled([y EXCEPT !.walking = NoFolder]))
  <2>1. Same(y, Scheduled([y EXCEPT !.walking = NoFolder]))
    BY <1>5 DEF Same, Unmoved, Engine, Fields, Scheduled, Somewhere
  <2> QED BY <2>1, SameIsSteady
<1>10. Steady(y, BackfillBodies(y, f)) /\ Steady(y, y)
  BY <1>5, BackfillingIsSteady, SameIsSteady DEF Same, Unmoved
<1> QED BY <1>4, <1>5, <1>7, <1>8, <1>9, <1>10, SteadySteady

LEMMA TickingIsSteady ==
    ASSUME NEW x, Engine(x), SyncAssumption
    PROVE  Steady(x, Ticked(x))
<1> DEFINE y == [x EXCEPT !.backfill = TRUE]
<1>1. Same(x, x) /\ Same(x, y)
  BY DEF Same, Unmoved, Engine, Fields
<1>2. Steady(x, FetchOlder(y))
  <2> HIDE DEF y
  <2>1. Steady(y, FetchOlder(y))
    BY <1>1, FetchingIsSteady DEF Same, Unmoved
  <2> QED BY <1>1, <2>1, SameIsSteady, SteadySteady
<1>3. Steady(x, x) /\ Steady(x, Scheduled(x)) /\ Steady(x, BackfillBodies(x, x.selected))
  BY <1>1, Pacing, BackfillingIsSteady, SameIsSteady
<1>4. ASSUME link.up, ~(x.fetched < x.total)
      PROVE  Steady(x, ContinuePass(x))
  <2>1. x.fetched >= x.total
    BY <1>4 DEF Engine
  <2> QED BY <1>4, <2>1, PassIsSteady
<1> QED BY <1>2, <1>3, <1>4 DEF Ticked

LEMMA RestartingIsSame ==
    ASSUME NEW x, Engine(x), NEW granted
    PROVE  Same(x, RestartPass(x, granted))
<1>1. Same(x, x) /\ Same(x, Scheduled([x EXCEPT !.done = FALSE, !.primed = FALSE]))
  BY DEF Same, Unmoved, Engine, Fields, Scheduled
<1> QED BY <1>1 DEF RestartPass

------------------------------------------------------------------------------
(* What holds of the engine, its requests and its connection throughout.    *)

Footing ==
    /\ Sound(e, mailbox)
    /\ mailbox \in [Boxes -> Nat] /\ cached \in [Boxes -> SUBSET Nat]
    /\ \A f \in Boxes : cached[f] \subseteq 1 .. mailbox[f]
    /\ watch \in Somewhere /\ (news => watch # NoFolder)
    /\ link = [i \in {"up", "sync"} |-> link[i]] /\ link.up \in BOOLEAN
    /\ ~link.up => watch = NoFolder /\ ~news /\ \A r \in e.out : r.dead
    /\ link.up => \A r \in e.out : r.dead => r.ask.back \/ r.kind \in {"bodies", "delta"}

LEMMA SteadyIsSound ==
    ASSUME NEW x, NEW y, Steady(x, y), Sound(x, mailbox)
    PROVE  Sound(y, mailbox)
<1>1. Engine(y) /\ IsFiniteSet(y.pending) /\ One(y)
  BY DEF Steady, Sound, Unmoved
<1>2. \A r \in y.out : Asked(r, mailbox)
  BY DEF Steady, Sound, New
<1>3. Bound(y, mailbox)
  BY DEF Steady, Sound, Unmoved, Bound
<1> QED BY <1>1, <1>2, <1>3 DEF Sound

\* The steps that only ask.
LEMMA Refreshes ==
    ASSUME Engine(e), e.selected # NoFolder, Overtaking, link.up
    PROVE  Steady(e, RefreshSelected(e))
<1>1. Steady(e, e)
  <2>1. Same(e, e)
    BY DEF Same, Unmoved
  <2> QED BY <2>1, SameIsSteady
<1>2. ASSUME NEW s \in BOOLEAN
      PROVE  Same(e, [e EXCEPT !.skipped = s]) /\ Engine([e EXCEPT !.skipped = s])
  BY DEF Same, Unmoved, Engine, Fields
<1>3. Steady(e, [e EXCEPT !.skipped = TRUE])
  BY <1>2, SameIsSteady
<1>4. Steady(e, Refreshing([e EXCEPT !.skipped = FALSE]))
  <2> DEFINE x == [e EXCEPT !.skipped = FALSE]
  <2>1. Same(e, x) /\ Engine(x)
    BY <1>2
  <2> HIDE DEF x
  <2>2. x.selected # NoFolder /\ (x.intent = "open" => "overtake" \in Events)
    BY <2>1 DEF Same, Unmoved, Overtaking
  <2>3. Steady(x, Refreshing(x))
    BY <2>1, <2>2, RefreshingIsSteady DEF Refreshing
  <2>4. Steady(e, Refreshing(x))
    BY <2>1, <2>3, SameIsSteady, SteadySteady
  <2> QED BY <2>4 DEF x
<1> QED BY <1>3, <1>4 DEF RefreshSelected

Calm == \/ Tick \/ SyncReady \/ Push \/ VacuumBegins \/ VacuumEnds
        \/ \E f \in Boxes : Owe(f) \/ CountsMoved(f) \/ Pushed(f)
        \/ \E u \in e.shown : Hover(u)
        \/ \E b \in BOOLEAN : Drained(b) \/ Poll(b)

LEMMA CalmFrame ==
    ASSUME Footing, Calm
    PROVE  UNCHANGED <<mailbox, cached, watch>> /\ link'.up = link.up
           /\ link' = [i \in {"up", "sync"} |-> link'[i]] /\ (news' => news)
<1>1. Tick => UNCHANGED <<mailbox, cached, watch, link, news>>
  BY DEF Tick, disk
<1>2. SyncReady => UNCHANGED <<mailbox, cached, watch, news>> /\ link'.up = link.up /\ link' = [i \in {"up", "sync"} |-> link'[i]]
  BY DEF SyncReady, disk, Footing
<1>3. Push => UNCHANGED <<mailbox, cached, watch, link>> /\ ~news'
  BY DEF Push, disk
<1>4. VacuumBegins => UNCHANGED <<mailbox, cached, watch, link, news>>
  BY DEF VacuumBegins, disk
<1>5. VacuumEnds => UNCHANGED <<mailbox, cached, watch, link, news>>
  BY DEF VacuumEnds, disk
<1>6. ASSUME NEW f \in Boxes PROVE Owe(f) \/ CountsMoved(f) \/ Pushed(f) => UNCHANGED <<mailbox, cached, watch, link, news>>
  BY DEF Owe, CountsMoved, Pushed, disk
<1>7. ASSUME NEW u \in e.shown PROVE Hover(u) => UNCHANGED <<mailbox, cached, watch, link, news>>
  BY DEF Hover, disk
<1>8. ASSUME NEW b \in BOOLEAN PROVE Drained(b) \/ Poll(b) => UNCHANGED <<mailbox, cached, watch, link, news>>
  BY DEF Drained, Poll, disk
<1>9. link = [i \in {"up", "sync"} |-> link[i]]
  BY DEF Footing
<1> QED BY <1>1, <1>2, <1>3, <1>4, <1>5, <1>6, <1>7, <1>8, <1>9 DEF Calm

LEMMA CalmIsSteady ==
    ASSUME Footing, Calm, SyncAssumption
    PROVE  Steady(e, e')
<1>1. Engine(e) /\ Same(e, e) /\ Steady(e, e)
  <2>1. Engine(e) /\ Same(e, e)
    BY DEF Footing, Sound, Same, Unmoved
  <2> QED BY <2>1, SameIsSteady
<1>2. CASE Tick
  <2> DEFINE x == [e EXCEPT !.armed = FALSE]
  <2>1. Same(e, x) /\ Engine(x)
    BY <1>1 DEF Same, Unmoved, Engine, Fields
  <2>2. e' = Ticked(x)
    BY <1>2 DEF Tick
  <2> HIDE DEF x
  <2>3. Steady(x, Ticked(x))
    BY <2>1, TickingIsSteady
  <2> QED BY <2>1, <2>2, <2>3, SameIsSteady, SteadySteady
<1>3. CASE SyncReady
  BY <1>1, <1>3 DEF SyncReady
<1>4. CASE Push
  <2>1. link.up
    BY <1>4 DEF Push, Footing
  <2>2. watch = e.selected => e.selected # NoFolder
    BY <1>4 DEF Push, Footing
  <2> QED BY <1>1, <1>4, <2>1, <2>2, Refreshes DEF Push
<1>5. CASE VacuumBegins
  <2>1. Same(e, [e EXCEPT !.paused = TRUE, !.armed = FALSE])
    BY <1>1 DEF Same, Unmoved, Engine, Fields
  <2> QED BY <1>5, <2>1, SameIsSteady DEF VacuumBegins
<1>6. CASE VacuumEnds
  <2>1. Same(e, Scheduled([e EXCEPT !.paused = FALSE]))
    BY <1>1 DEF Same, Unmoved, Engine, Fields, Scheduled
  <2> QED BY <1>6, <2>1, SameIsSteady DEF VacuumEnds
<1>7. ASSUME NEW f \in Boxes, Owe(f) \/ Pushed(f)
      PROVE  Steady(e, e')
  BY <1>1, <1>7 DEF Owe, Pushed
<1>8. ASSUME NEW f \in Boxes, CountsMoved(f)
      PROVE  Steady(e, e')
  <2> DEFINE r == Request("delta", f, {u \in 1 .. mailbox[f] : u > Highest(cached[f])}, NoAsk)
  <2>1. Asked(r, mailbox) /\ ~r.dead /\ r.folder = f
    BY DEF Asked, Request, HeaderKinds, Kinds, NoAsk
  <2>2. e' = Sent(e, r) /\ f # e.selected /\ link.up
    BY <1>8 DEF CountsMoved
  <2> HIDE DEF r
  <2>3. PICK q : Asks(e, Sent(e, r), q) /\ Alike(q, r) /\ Asked(q, mailbox)
    BY <1>1, <2>1, SendingAsks
  <2>4. ~q.dead /\ q.folder # e.selected
    BY <2>1, <2>2, <2>3 DEF Alike
  <2> QED BY <2>2, <2>3, <2>4, AskingIsSteady
<1>9. ASSUME NEW u \in e.shown, Hover(u)
      PROVE  Steady(e, e')
  <2> DEFINE p == [folder |-> e.selected, uid |-> u]
             l == SubSeq(<<p>> \o e.prefetch, 1, Min({Len(e.prefetch) + 1, QueueMax}))
             x == [e EXCEPT !.prefetch = l]
  <2>1. e' = ProcessPrefetch(x)
    BY <1>9 DEF Hover
  <2> HIDE DEF l
  <2>2. Same(e, x) /\ Engine(x)
    BY <1>1 DEF Same, Unmoved, Engine, Fields
  <2> HIDE DEF x
  <2>3. Steady(x, ProcessPrefetch(x))
    BY <2>2, PrefetchIsSteady
  <2> QED BY <2>1, <2>2, <2>3, SameIsSteady, SteadySteady
<1>10. ASSUME NEW b \in BOOLEAN, Drained(b)
       PROVE  Steady(e, e')
  <2> DEFINE y == RestartPass(e, b)  x == [y EXCEPT !.skipped = FALSE]
  <2>1. Same(e, y) /\ Engine(y)
    BY <1>1, RestartingIsSame DEF Same, Unmoved
  <2>2. link.up /\ Overtaking
        /\ e' = IF y.selected = NoFolder THEN y ELSE Refreshing(x)
    BY <1>10 DEF Drained
  <2> HIDE DEF y
  <2>3. CASE y.selected = NoFolder
    BY <2>1, <2>2, <2>3, SameIsSteady
  <2>4. CASE y.selected # NoFolder
    <3>1. Same(e, x) /\ Engine(x) /\ x.selected # NoFolder
      BY <2>1, <2>4 DEF Same, Unmoved, Engine, Fields
    <3> HIDE DEF x
    <3>2. x.intent = "open" => "overtake" \in Events
      BY <2>2, <3>1 DEF Same, Overtaking
    <3>3. Steady(x, e')
      BY <2>2, <2>4, <3>1, <3>2, RefreshingIsSteady DEF Refreshing
    <3> QED BY <3>1, <3>3, SameIsSteady, SteadySteady
  <2> QED BY <2>3, <2>4
<1>11. ASSUME NEW b \in BOOLEAN, Poll(b)
       PROVE  Steady(e, e')
  <2> DEFINE x == IF b \/ e.busy THEN e ELSE Refreshed(e)
  <2>1. link.up /\ Overtaking /\ e' = IF e.busy THEN x ELSE RestartPass(x, TRUE)
    BY <1>11 DEF Poll
  <2>2. Steady(e, x)
    BY <1>1, <2>1, Refreshes DEF Refreshed
  <2> HIDE DEF x
  <2>3. Steady(x, RestartPass(x, TRUE))
    BY <2>2, RestartingIsSame, SameIsSteady DEF Steady, Unmoved
  <2> QED BY <2>1, <2>2, <2>3, SteadySteady
<1> QED BY <1>2, <1>3, <1>4, <1>5, <1>6, <1>7, <1>8, <1>9, <1>10, <1>11 DEF Calm

\* Calm steps keep the footing.
LEMMA CalmFooting ==
    ASSUME Footing, Calm, SyncAssumption
    PROVE  Footing'
<1>1. Steady(e, e')
  BY CalmIsSteady
<1>2. UNCHANGED <<mailbox, cached, watch>> /\ link'.up = link.up
           /\ link' = [i \in {"up", "sync"} |-> link'[i]] /\ (news' => news)
  BY CalmFrame
<1>3. Sound(e', mailbox')
  BY <1>1, <1>2, SteadyIsSound DEF Footing
<1>4. ~link.up => e'.out = e.out
  BY <1>1 DEF Steady
<1>5. \A q \in e'.out : q \in e.out \/ ~q.dead
  BY <1>1 DEF Steady, New
<1> QED BY <1>2, <1>3, <1>4, <1>5 DEF Footing

------------------------------------------------------------------------------
(* Another folder on screen.                                                *)

\* The open folder is f, and its list a copy of the cache unless it was on it.
Turned(x, f, y) ==
    /\ Engine(y)
    /\ y.selected = f /\ ~y.searching
    /\ y.shown = cached[f] \/ (f = x.selected /\ x.shown # {} /\ y.shown = x.shown)
    /\ y.pending = x.pending /\ y.total = x.total /\ y.fetched = x.fetched
    /\ y.holed = x.holed /\ (y.crossed <=> x.crossed)
    /\ x.out \subseteq y.out
    /\ \A q \in y.out \ x.out : Asked(q, mailbox) /\ ~q.dead /\ q.kind = "open"
    /\ link.up => y.intent = "open"
    /\ ~link.up => y.out = x.out

LEMMA Turning ==
    ASSUME NEW x, Engine(x), NEW f \in Boxes, SyncAssumption
    PROVE  Turned(x, f, FolderShown(x, f))
<1> DEFINE a == ResetForFolderChange(x)
           y == [a EXCEPT !.searching = FALSE, !.selected = f]
           low == IF cached[f] = {} THEN 0 ELSE Min(cached[f])
           z == IF f = x.selected /\ x.shown # {} THEN y
                ELSE [y EXCEPT !.shown = cached[f], !.anchor = low]
           o == [z EXCEPT !.busy = TRUE, !.intent = "open", !.skipped = FALSE]
<1>1. Same(x, a) /\ Engine(a)
  BY Pacing DEF Same, Unmoved
<1>2. FolderShown(x, f) = IF link.up THEN OpenSelected([z EXCEPT !.busy = TRUE]) ELSE z
  BY DEF FolderShown
<1> HIDE DEF a, low
<1>3. f \in Somewhere /\ f # NoFolder
  BY DEF Somewhere, SyncAssumption, Boxes
<1>4. /\ Engine(y) /\ y.selected = f /\ ~y.searching /\ y.shown = a.shown /\ y.pending = a.pending
      /\ y.total = a.total /\ y.fetched = a.fetched /\ y.holed = a.holed /\ y.crossed = a.crossed /\ y.out = a.out
      /\ y.intent = a.intent
  BY <1>1, <1>3 DEF Engine, Fields
<1> HIDE DEF y
<1>5. /\ Engine(z) /\ z.selected = f /\ ~z.searching /\ z.pending = a.pending
      /\ z.total = a.total /\ z.fetched = a.fetched /\ z.holed = a.holed /\ z.crossed = a.crossed /\ z.out = a.out
      /\ z.intent = a.intent
      /\ z.shown = IF f = x.selected /\ x.shown # {} THEN a.shown ELSE cached[f]
  BY <1>4 DEF Engine, Fields
<1> HIDE DEF z
<1>6. /\ Engine(o) /\ o.selected = f /\ ~o.searching /\ o.pending = z.pending /\ o.shown = z.shown
      /\ o.total = z.total /\ o.fetched = z.fetched /\ o.holed = z.holed /\ o.crossed = z.crossed /\ o.out = z.out
      /\ o.intent = "open"
  BY <1>5 DEF Engine, Fields
<1>7. OpenSelected([z EXCEPT !.busy = TRUE]) = Sent(o, Request("open", f, {}, NoAsk))
  BY <1>5 DEF OpenSelected, Engine, Fields
<1> HIDE DEF o
<1>8. PICK q : /\ Asks(o, Sent(o, Request("open", f, {}, NoAsk)), q)
               /\ Asked(q, mailbox) /\ ~q.dead /\ q.kind = "open" /\ q.folder = f
  BY <1>6, OpeningAsks
<1>9. Turned(x, f, z) \/ link.up
  BY <1>1, <1>5 DEF Turned, Same, Unmoved
<1> DEFINE w == Sent(o, Request("open", f, {}, NoAsk))
<1>10. ASSUME link.up
       PROVE  Turned(x, f, w)
  <2> HIDE DEF w
  <2>1. w.crossed <=> o.crossed
    BY <1>8 DEF Asks, HeaderKinds, w
  <2>2. w.out = o.out \cup {q} /\ Unmoved(o, w) /\ w.intent = "open"
    BY <1>6, <1>8 DEF Asks, w
  <2>3. /\ w.selected = f /\ ~w.searching /\ w.shown = z.shown /\ w.pending = x.pending /\ w.total = x.total
        /\ w.fetched = x.fetched /\ w.holed = x.holed /\ (w.crossed <=> x.crossed) /\ w.out = x.out \cup {q}
        /\ Engine(w)
    BY <1>1, <1>5, <1>6, <2>1, <2>2 DEF Same, Unmoved
  <2>4. z.shown = cached[f] \/ (f = x.selected /\ x.shown # {} /\ z.shown = x.shown)
    BY <1>1, <1>5 DEF Same, Unmoved
  <2> QED BY <1>8, <1>10, <2>2, <2>3, <2>4 DEF Turned
<1> QED BY <1>2, <1>7, <1>9, <1>10

------------------------------------------------------------------------------
(* Answers to requests for headers.                                         *)

\* What is left of the engine once r has been answered, but for its list and
\* its cursor.
Settled(x, r, z) ==
    /\ Engine(z)
    /\ z.selected = x.selected /\ z.searching = x.searching /\ z.total = x.total
    /\ z.holed = x.holed /\ z.crossed = x.crossed /\ z.intent = x.intent
    /\ z.out = x.out \ {r}
    /\ z.pending = {p \in x.pending : p.folder # r.folder}

Rest(x, r, z) == Settled(x, r, z) /\ z.shown = x.shown /\ z.fetched = x.fetched

LEMMA AnsweredIs ==
    ASSUME NEW r, Engine(e), NEW b, NEW c, NEW d
    PROVE  /\ Rest(e, r, [Answered(r) EXCEPT !.busy = b])
           /\ Rest(e, r, Answered(r))
           /\ Rest(e, r, [Answered(r) EXCEPT !.fetching = b, !.backfill = c, !.busy = d])
<1> DEFINE s == EndStream(e, r.id)
           rest == e.pending \ Buffered(r.folder)
           o == e.out \ {r}
<1>1. Same(e, s)
  BY Streams
<1>2. Answered(r) = [s EXCEPT !.out = o, !.pending = rest]
  BY <1>1 DEF Answered, Same, Unmoved
<1>3. rest = {p \in e.pending : p.folder # r.folder}
  BY DEF Buffered
<1> HIDE DEF s, rest, o
<1> DEFINE a == [s EXCEPT !.out = o, !.pending = rest]
<1>4. Engine(a) /\ a.selected = s.selected /\ a.searching = s.searching /\ a.total = s.total
      /\ a.holed = s.holed /\ a.crossed = s.crossed /\ a.intent = s.intent /\ a.out = o /\ a.pending = rest
      /\ a.shown = s.shown /\ a.fetched = s.fetched
  BY <1>1 DEF Same, Unmoved, Engine, Fields
<1> HIDE DEF a
<1>5. Rest(e, r, a)
  BY <1>1, <1>3, <1>4 DEF Rest, Settled, Same, Unmoved, o
<1>6. Same(a, [a EXCEPT !.busy = b]) /\ Same(a, [a EXCEPT !.fetching = b, !.backfill = c, !.busy = d])
  BY <1>4 DEF Same, Unmoved, Engine, Fields
<1>7. ASSUME NEW y, Same(a, y)
      PROVE  Rest(e, r, y)
  BY <1>5, <1>7 DEF Rest, Settled, Same, Unmoved
<1>8. Rest(e, r, [a EXCEPT !.busy = b]) /\ Rest(e, r, [a EXCEPT !.fetching = b, !.backfill = c, !.busy = d])
  BY <1>6, <1>7
<1> QED BY <1>2, <1>5, <1>8 DEF a

\* The same engine with another list.
Redrawn(y, z) ==
    /\ Engine(z)
    /\ z.selected = y.selected /\ z.searching = y.searching /\ z.total = y.total /\ z.fetched = y.fetched
    /\ z.holed = y.holed /\ z.crossed = y.crossed /\ z.intent = y.intent /\ z.out = y.out /\ z.pending = y.pending

LEMMA Redrawing ==
    ASSUME NEW y, Engine(y), NEW s, NEW a
    PROVE  /\ Redrawn(y, [y EXCEPT !.shown = s, !.anchor = a])
           /\ Redrawn(y, [y EXCEPT !.shown = s])
BY DEF Redrawn, Engine, Fields

\* An answer with nothing beyond what is in the cache draws the list further down.
LEMMA LoadingMore ==
    ASSUME NEW y, Engine(y), NEW c, SyncAssumption
    PROVE  \E z : Redrawn(y, z) /\ z.shown \subseteq y.shown \cup c /\ Steady(z, LoadMore(y, c))
<1> DEFINE older == {u \in c : u < y.anchor}
           s == y.shown \cup older
           a == Min(older)
           z == [y EXCEPT !.shown = s, !.anchor = a]
<1>1. LoadMore(y, c) = y \/ LoadMore(y, c) = z \/ LoadMore(y, c) = FetchOlder(y)
  BY DEF LoadMore
<1>2. s \subseteq y.shown \cup c
  OBVIOUS
<1> HIDE DEF older, s, a
<1>3. Redrawn(y, z) /\ z.shown = s
  BY Redrawing DEF Engine, Fields
<1>4. Redrawn(y, y)
  BY DEF Redrawn
<1> HIDE DEF z
<1>5. Steady(y, y) /\ Steady(z, z)
  <2>1. Same(y, y) /\ Same(z, z)
    BY <1>3 DEF Same, Unmoved, Redrawn
  <2> QED BY <2>1, SameIsSteady
<1>6. Steady(y, FetchOlder(y))
  BY FetchingIsSteady
<1> QED BY <1>1, <1>2, <1>3, <1>4, <1>5, <1>6

LEMMA Merging ==
    ASSUME NEW y, Engine(y), NEW c, NEW b
    PROVE  Redrawn(y, Merged(y, c, b)) /\ Merged(y, c, b).shown = y.shown \cup c
<1> DEFINE s == y.shown \cup c
           a == IF ~b THEN y.anchor ELSE IF c = {} THEN 0 ELSE Min(c)
<1>1. Merged(y, c, b) = [y EXCEPT !.shown = s, !.anchor = a]
  BY DEF Merged
<1> DEFINE w == [y EXCEPT !.shown = s, !.anchor = a]
<1> HIDE DEF s, a
<1>2. w.shown = s /\ Redrawn(y, w)
  BY Redrawing DEF Engine, Fields
<1> HIDE DEF w
<1> QED BY <1>1, <1>2 DEF s, w

Reach(r, size) == IF size > 0 THEN Min({r.ask.from + r.ask.n, size}) ELSE r.ask.from + r.ask.n

LEMMA ReachIsNat ==
    ASSUME NEW r, r.ask.from \in Nat, r.ask.n \in Nat, NEW size \in Nat
    PROVE  Reach(r, size) \in Nat
<1>1. r.ask.from + r.ask.n \in Nat
  OBVIOUS
<1>2. Min({r.ask.from + r.ask.n, size}) \in Nat
  BY <1>1, OfTwo
<1> QED BY <1>1, <1>2 DEF Reach

Uids(f) == {p.uid : p \in Buffered(f)}

\* What an answer to a window does to the open folder's list and cursor.
Drawn(r, z, at) ==
    /\ r.folder # e.selected \/ e.searching => z.shown = e.shown /\ z.fetched = e.fetched
    /\ r.folder = e.selected /\ ~e.searching =>
           /\ z.shown \subseteq e.shown \cup Uids(r.folder) \cup cached[r.folder]
           /\ z.fetched = at

LEMMA WindowAnswer ==
    ASSUME Footing, SyncAssumption, NEW r \in e.out, r.kind = "window", WindowFetched(r)
    PROVE  /\ cached' = [cached EXCEPT ![r.folder] = @ \cup Unhandled(r.folder)]
           /\ \E z : /\ Settled(e, r, z) /\ Steady(z, e')
                     /\ Drawn(r, z, Max({e.fetched, Reach(r, e.total)}))
<1> DEFINE f  == r.folder
           b  == FALSE
           bf == Answered(r).backfill /\ ~r.ask.back
           by == Answered(r).busy /\ r.ask.back
           x0 == [Answered(r) EXCEPT !.fetching = b, !.backfill = bf, !.busy = by]
           x  == BackoffReset(x0)
           reached == Reach(r, IF f = e.selected THEN e.total ELSE e.count)
           c  == cached[f] \cup Unhandled(f)
           at == Max({x.fetched, reached})
           y  == [x EXCEPT !.fetched = at]
           w  == [y EXCEPT !.shown = @ \cup Uids(f)]
<1>1. Engine(e) /\ r.ask.from \in Nat /\ r.ask.n \in Nat
  BY DEF Footing, Sound, Asked, HeaderKinds
<1>2. reached \in Nat
  BY <1>1, ReachIsNat DEF Engine
<1>3. PICK m \in BOOLEAN, stale \in BOOLEAN :
        /\ Noted(f, Unhandled(f))
        /\ e' = IF f # e.selected /\ f = e.walking
                THEN Scheduled([x EXCEPT !.reached = Max({@, reached})])
                ELSE IF f # e.selected \/ e.searching THEN x
                ELSE IF stale THEN Dozing(y, LoadMore(y, c))
                ELSE Scheduled(IF r.ask.append THEN w ELSE Merged(y, c, m))
  <2> DEFINE mine  == e.stream.id = r.id
             stale == r.ask.append /\ ~r.ask.back /\ y.fetched < y.total /\ Uids(f) \subseteq e.shown
                          /\ ~(mine /\ e.stream.added)
             m == e.shown = {} \/ (mine /\ e.stream.empty)
  <2>1. Noted(f, Unhandled(f))
        /\ e' = IF f # e.selected /\ f = e.walking
                THEN Scheduled([x EXCEPT !.reached = Max({@, reached})])
                ELSE IF f # e.selected \/ e.searching THEN x
                ELSE IF stale THEN Dozing(y, LoadMore(y, c))
                ELSE Scheduled(IF r.ask.append THEN w ELSE Merged(y, c, m))
    BY DEF WindowFetched, Reach, Uids
  <2>2. m \in BOOLEAN /\ stale \in BOOLEAN
    OBVIOUS
  <2> HIDE DEF m, stale, x, y, w, c, reached
  <2> QED BY <2>1, <2>2
<1>4. cached' = [cached EXCEPT ![f] = @ \cup Unhandled(f)]
  BY <1>3 DEF Noted
<1>5. Rest(e, r, x) /\ Engine(x)
  <2> HIDE DEF bf, by, b
  <2>1. Rest(e, r, x0)
    BY <1>1, AnsweredIs
  <2> HIDE DEF x0
  <2>2. Same(x0, x)
    BY <2>1, Pacing DEF Rest, Settled
  <2> QED BY <2>1, <2>2 DEF Rest, Settled, Same, Unmoved
<1> HIDE DEF x, reached
<1>6. at \in Nat
  <2>1. x.fetched \in Nat
    BY <1>5 DEF Engine
  <2> QED BY <1>2, <2>1, OfTwo
<1>7. f = e.selected => at = Max({e.fetched, Reach(r, e.total)})
  BY <1>5 DEF Rest, reached
<1> HIDE DEF at
<1>8. /\ Engine(y) /\ y.selected = x.selected /\ y.searching = x.searching /\ y.total = x.total /\ y.fetched = at
      /\ y.holed = x.holed /\ y.crossed = x.crossed /\ y.intent = x.intent /\ y.out = x.out /\ y.pending = x.pending
      /\ y.shown = x.shown
  BY <1>5, <1>6 DEF Engine, Fields
<1> HIDE DEF y
<1>9. Settled(e, r, y) /\ y.shown = e.shown
  BY <1>5, <1>8 DEF Rest, Settled
<1>10. ASSUME NEW z, Redrawn(y, z), z.shown \subseteq y.shown \cup Uids(f) \cup c, f = e.selected, ~e.searching
       PROVE  Settled(e, r, z) /\ Drawn(r, z, Max({e.fetched, Reach(r, e.total)}))
  <2>1. Settled(e, r, z)
    BY <1>9, <1>10 DEF Settled, Redrawn
  <2>2. c \subseteq cached[f] \cup Uids(f)
    BY DEF Unhandled, Uids
  <2>3. z.fetched = Max({e.fetched, Reach(r, e.total)})
    BY <1>7, <1>8, <1>10 DEF Redrawn
  <2>4. z.shown \subseteq e.shown \cup Uids(f) \cup cached[f]
    BY <1>9, <1>10, <2>2
  <2> HIDE DEF c
  <2> QED BY <1>10, <2>1, <2>3, <2>4 DEF Drawn
<1> HIDE DEF c
<1>11. CASE f # e.selected \/ e.searching
  <2> DEFINE v == [x EXCEPT !.reached = Max({@, reached})]
  <2>1. Same(x, x)
    BY <1>5 DEF Same, Unmoved
  <2>2. Same(x, Scheduled(v))
    <3>1. x.reached \in Nat
      BY <1>5 DEF Engine
    <3>2. Max({x.reached, reached}) \in Nat
      BY <3>1, <1>2, OfTwo
    <3> QED BY <1>5, <3>2 DEF Same, Unmoved, Engine, Fields, Scheduled
  <2>3. e' = x \/ e' = Scheduled(v)
    BY <1>3, <1>11
  <2>4. Steady(x, e')
    BY <2>1, <2>2, <2>3, SameIsSteady
  <2>5. Drawn(r, x, Max({e.fetched, Reach(r, e.total)}))
    BY <1>5, <1>11 DEF Rest, Drawn
  <2> QED BY <1>4, <1>5, <2>4, <2>5 DEF Rest
<1>12. CASE f = e.selected /\ ~e.searching /\ stale
  <2>1. PICK z : Redrawn(y, z) /\ z.shown \subseteq y.shown \cup c /\ Steady(z, LoadMore(y, c))
    BY <1>8, LoadingMore
  <2>2. e' = Dozing(y, LoadMore(y, c))
    BY <1>3, <1>12
  <2> DEFINE v == LoadMore(y, c)
  <2>3. Engine(v)
    BY <2>1 DEF Steady, Unmoved
  <2> HIDE DEF v
  <2>4. Same(v, Dozing(y, v))
    BY <2>3 DEF Same, Unmoved, Engine, Fields, Dozing
  <2>5. Steady(z, e')
    BY <2>1, <2>2, <2>4, SameIsSteady, SteadySteady DEF v
  <2> QED BY <1>4, <1>10, <1>12, <2>1, <2>5
<1>13. CASE f = e.selected /\ ~e.searching /\ ~stale
  <2> DEFINE z == IF r.ask.append THEN w ELSE Merged(y, c, m)
  <2>1. e' = Scheduled(z)
    BY <1>3, <1>13
  <2>2. Redrawn(y, w) /\ w.shown = y.shown \cup Uids(f)
    BY <1>8, Redrawing DEF Engine, Fields
  <2>3. Redrawn(y, z) /\ z.shown \subseteq y.shown \cup Uids(f) \cup c
    BY <1>8, <2>2, Merging
  <2> HIDE DEF z
  <2>4. Steady(z, e')
    BY <2>1, <2>3, Pacing, SameIsSteady DEF Redrawn
  <2> QED BY <1>4, <1>10, <1>13, <2>3, <2>4
<1> QED BY <1>11, <1>12, <1>13

LEMMA BufferedIsFinite ==
    ASSUME Footing, NEW f
    PROVE  IsFiniteSet(Buffered(f)) /\ Cardinality(Buffered(f)) \in Nat
<1>1. Buffered(f) \subseteq e.pending
  BY DEF Buffered
<1> QED BY <1>1, FS_Subset, FS_CardinalityType DEF Footing, Sound

LEMMA SinceAnswer ==
    ASSUME Footing, NEW r \in e.out, r.kind = "since", SinceFetched(r)
    PROVE  /\ cached' = [cached EXCEPT ![r.folder] = @ \cup Unhandled(r.folder)]
           /\ \E z : /\ Settled(e, r, z) /\ Steady(z, e')
                     /\ Drawn(r, z, Min({e.total, r.ask.base + Cardinality(Buffered(r.folder))}))
<1> DEFINE f == r.folder
           b == FALSE
           x == [Answered(r) EXCEPT !.busy = b]
           c == cached[f] \cup Unhandled(f)
           m == x.shown = {}
           v == Merged(x, c, m)
           at == Min({x.total, r.ask.base + Cardinality(Buffered(f))})
           y == [v EXCEPT !.fetched = at]
<1>1. Engine(e) /\ r.ask.base \in Nat
  BY DEF Footing, Sound, Asked, HeaderKinds
<1>2. Rest(e, r, x) /\ Engine(x)
  <2> HIDE DEF b
  <2>1. Rest(e, r, x)
    BY <1>1, AnsweredIs
  <2> QED BY <2>1 DEF Rest, Settled
<1>3. cached' = [cached EXCEPT ![f] = @ \cup Unhandled(f)] /\ e' = IF f # e.selected \/ e.searching THEN x ELSE Scheduled(y)
  BY DEF SinceFetched, Noted
<1> HIDE DEF x
<1>4. at \in Nat
  <2>1. r.ask.base + Cardinality(Buffered(f)) \in Nat /\ x.total \in Nat
    BY SMTT(40), <1>1, <1>2, BufferedIsFinite DEF Engine
  <2> QED BY <2>1, OfTwo
<1>5. at = Min({e.total, r.ask.base + Cardinality(Buffered(f))})
  BY <1>2 DEF Rest, Settled
<1>6. Redrawn(x, v) /\ v.shown = x.shown \cup c
  BY <1>2, Merging
<1>7. c \subseteq cached[f] \cup Uids(f)
  BY DEF Unhandled, Uids
<1> HIDE DEF v, at, c
<1>8. /\ Engine(y) /\ y.selected = v.selected /\ y.searching = v.searching /\ y.total = v.total /\ y.fetched = at
      /\ y.holed = v.holed /\ y.crossed = v.crossed /\ y.intent = v.intent /\ y.out = v.out /\ y.pending = v.pending
      /\ y.shown = v.shown
  BY <1>4, <1>6 DEF Redrawn, Engine, Fields
<1> HIDE DEF y
<1>9. CASE f # e.selected \/ e.searching
  <2>1. Steady(x, e')
    <3>1. Same(x, x)
      BY <1>2 DEF Same, Unmoved
    <3> QED BY <1>3, <1>9, <3>1, SameIsSteady
  <2>2. Drawn(r, x, Min({e.total, r.ask.base + Cardinality(Buffered(r.folder))}))
    BY <1>2, <1>9 DEF Rest, Drawn
  <2> QED BY <1>2, <1>3, <2>1, <2>2 DEF Rest
<1>10. CASE f = e.selected /\ ~e.searching
  <2>1. Steady(y, e')
    BY <1>3, <1>8, <1>10, Pacing, SameIsSteady
  <2>2. Settled(e, r, y)
    BY <1>2, <1>6, <1>8 DEF Rest, Settled, Redrawn
  <2>3. y.shown \subseteq e.shown \cup Uids(f) \cup cached[f]
    BY <1>2, <1>6, <1>7, <1>8 DEF Rest
  <2>4. y.fetched = Min({e.total, r.ask.base + Cardinality(Buffered(r.folder))})
    BY <1>5, <1>8
  <2>5. Drawn(r, y, Min({e.total, r.ask.base + Cardinality(Buffered(r.folder))}))
    BY <1>10, <2>3, <2>4 DEF Drawn
  <2> QED BY <1>3, <2>1, <2>2, <2>5
<1> QED BY <1>9, <1>10

LEMMA DeltaAnswer ==
    ASSUME Footing, NEW r \in e.out, r.kind = "delta", NEW ok, DeltaAnswered(r, ok)
    PROVE  /\ cached' = [cached EXCEPT ![r.folder] = @ \cup IF ok THEN Unhandled(r.folder) ELSE {}]
           /\ Rest(e, r, e') /\ Steady(e', e')
<1>1. Rest(e, r, Answered(r))
  BY AnsweredIs DEF Footing, Sound
<1>2. Rest(e, r, e') /\ Same(e', e')
  BY <1>1 DEF DeltaAnswered, Rest, Settled, Same, Unmoved
<1>3. cached' = [cached EXCEPT ![r.folder] = @ \cup IF ok THEN Unhandled(r.folder) ELSE {}]
  BY DEF DeltaAnswered, Noted
<1> QED BY <1>2, <1>3, SameIsSteady

LEMMA Failures ==
    ASSUME Footing, NEW r \in e.out, (r.kind = "window" /\ WindowFailed(r)) \/ (r.kind = "since" /\ SinceFailed(r))
    PROVE  UNCHANGED cached /\ \E z : Rest(e, r, z) /\ Steady(z, e')
<1> DEFINE b  == FALSE
           bf == Answered(r).backfill /\ ~r.ask.back
           by == Answered(r).busy /\ r.ask.back
           x  == [Answered(r) EXCEPT !.fetching = b, !.backfill = bf, !.busy = by]
           y  == [Answered(r) EXCEPT !.busy = b]
<1>1. UNCHANGED cached /\ (e' = x \/ e' = BackedOff(x) \/ e' = y)
  BY DEF WindowFailed, SinceFailed, disk
<1>2. Rest(e, r, x) /\ Rest(e, r, y)
  <2> HIDE DEF b, bf, by
  <2> QED BY AnsweredIs DEF Footing, Sound
<1> HIDE DEF x, y
<1>3. Steady(x, x) /\ Steady(x, BackedOff(x)) /\ Steady(y, y)
  <2>1. Same(x, x) /\ Same(y, y) /\ Same(x, BackedOff(x))
    BY <1>2, Pacing DEF Rest, Settled, Same, Unmoved
  <2> QED BY <2>1, SameIsSteady
<1> QED BY <1>1, <1>2, <1>3


------------------------------------------------------------------------------
(* Answers to an open.                                                      *)

\* The same engine without the request.
Gone(x, r, z) ==
    /\ Unmoved(x, z) /\ z.crossed = x.crossed /\ z.intent = x.intent /\ z.out = x.out \ {r}

LEMMA Dropping ==
    ASSUME NEW x, Engine(x), NEW r, NEW b
    PROVE  /\ Gone(x, r, [x EXCEPT !.out = @ \ {r}])
           /\ Gone(x, r, [x EXCEPT !.out = @ \ {r}, !.busy = b])
<1> DEFINE o == x.out \ {r}
<1> HIDE DEF o
<1>1. Gone(x, r, [x EXCEPT !.out = o]) /\ Gone(x, r, [x EXCEPT !.out = o, !.busy = b])
  BY DEF Gone, Unmoved, Engine, Fields, o
<1> QED BY <1>1 DEF o

\* What an open finds and asks for.
AsksNewer(f, c, q) ==
    /\ Asked(q, mailbox) /\ ~q.dead /\ q.kind = "since" /\ q.folder = f
    /\ q.left = {u \in 1 .. mailbox[f] : u > Highest(c)} /\ q.ask.base = Cardinality(c)

AsksPage(f, n, q) ==
    /\ Asked(q, mailbox) /\ ~q.dead /\ q.kind = "window" /\ q.folder = f
    /\ q.left = Rows(f, 0, n) /\ q.ask.from = 0 /\ q.ask.n = n /\ ~q.ask.back

LEMMA PageAsks ==
    ASSUME NEW x, Engine(x), NEW f \in Boxes, NEW n \in Nat, NEW append, NEW arrivals
    PROVE  \E q : Asks(x, RequestWindow(x, f, 0, n, append, FALSE, arrivals), q) /\ AsksPage(f, n, q)
<1> DEFINE k == [from |-> 0, n |-> n, append |-> append, back |-> FALSE, arrivals |-> arrivals, base |-> 0]
<1>1. k.from \in Nat /\ k.n \in Nat /\ k.base \in Nat /\ k.from = 0 /\ k.n = n /\ ~k.back
  OBVIOUS
<1>2. RequestWindow(x, f, 0, n, append, FALSE, arrivals)
        = Streaming([x EXCEPT !.fetching = TRUE], Request("window", f, Rows(f, k.from, k.n), k))
  BY DEF RequestWindow
<1> HIDE DEF k
<1>3. PICK q : /\ Asks(x, Streaming([x EXCEPT !.fetching = TRUE], Request("window", f, Rows(f, k.from, k.n), k)), q)
               /\ Asked(q, mailbox) /\ ~q.dead
               /\ q.kind = "window" /\ q.folder = f /\ q.left = Rows(f, k.from, k.n) /\ q.ask = k
  BY <1>1, WindowAsks
<1> QED BY <1>1, <1>2, <1>3 DEF AsksPage

LEMMA NewerAsks ==
    ASSUME NEW x, Engine(x), NEW f \in Boxes, NEW c, IsFiniteSet(c)
    PROVE  \E q : /\ Asks(x, Streaming(x, Request("since", f, {u \in 1 .. mailbox[f] : u > Highest(c)},
                                                  [NoAsk EXCEPT !.base = Cardinality(c)])), q)
                  /\ AsksNewer(f, c, q)
<1> DEFINE k == [NoAsk EXCEPT !.base = Cardinality(c)]
           l == {u \in 1 .. mailbox[f] : u > Highest(c)}
           r == Request("since", f, l, k)
<1>1. k.from \in Nat /\ k.n \in Nat /\ k.base \in Nat /\ ~k.back /\ k.base = Cardinality(c) /\ l \subseteq 1 .. mailbox[f]
  BY FS_CardinalityType DEF NoAsk
<1>2. /\ Asked(r, mailbox) /\ ~r.dead /\ r.kind = "since" /\ r.folder = f /\ r.left = l /\ r.ask = k
  <2> HIDE DEF k, l
  <2> QED BY <1>1 DEF Asked, Request, HeaderKinds, Kinds
<1> HIDE DEF r, k
<1>3. PICK q : Asks(x, Streaming(x, r), q) /\ Alike(q, r) /\ Asked(q, mailbox)
  BY <1>2, StreamingAsks
<1>4. AsksNewer(f, c, q)
  BY <1>1, <1>2, <1>3 DEF Alike, AsksNewer
<1> QED BY <1>3, <1>4 DEF r, k

LEMMA OpenedByUser ==
    ASSUME NEW x, Engine(x), NEW f \in Boxes, mailbox[f] \in Nat, NEW c, IsFiniteSet(c), SyncAssumption,
           f = x.selected, x.intent = "open"
    PROVE  \E y : /\ Engine(y) /\ y.selected = f /\ y.searching = x.searching /\ y.total = mailbox[f] /\ y.fetched = 0
                  /\ (y.holed <=> x.holed \/ Broken(c)) /\ y.crossed = x.crossed /\ y.out = x.out
                  /\ y.pending = x.pending /\ y.shown \subseteq x.shown /\ y.intent = "none"
                  /\ \/ mailbox[f] = 0 /\ Same(y, FolderOpened(x, f, c))
                     \/ c # {} /\ \E q : Asks(y, FolderOpened(x, f, c), q) /\ AsksNewer(f, c, q)
                     \/ c = {} /\ \E q : Asks(y, FolderOpened(x, f, c), q) /\ AsksPage(f, FirstPage, q)
<1> DEFINE size == mailbox[f]
           s == IF c = {} /\ ~x.searching THEN {} ELSE x.shown
<1>1. PICK h \in BOOLEAN : h <=> x.holed \/ Broken(c)
  OBVIOUS
<1> DEFINE y == [x EXCEPT !.intent = "none", !.total = size, !.fetched = 0, !.shown = s, !.holed = h]
           z == [y EXCEPT !.busy = FALSE]
           r == Request("since", f, {u \in 1 .. size : u > Highest(c)}, [NoAsk EXCEPT !.base = Cardinality(c)])
           n == "none"
<1>2. y = [[x EXCEPT !.intent = n] EXCEPT !.total = size, !.fetched = 0, !.shown = s, !.holed = x.holed \/ Broken(c)]
  BY <1>1 DEF Engine
<1>3. FolderOpened(x, f, c) = IF size = 0 THEN z
                              ELSE IF c # {} THEN Streaming(y, r)
                              ELSE RequestWindow(y, f, 0, FirstPage, FALSE, FALSE, FALSE)
  BY <1>2 DEF FolderOpened, SelectedOpened, Engine, Fields
<1>4. s \subseteq x.shown /\ size \in Nat
  OBVIOUS
<1> HIDE DEF s, size
<1>5. /\ Engine(y) /\ y.selected = x.selected /\ y.searching = x.searching /\ y.total = size /\ y.fetched = 0
      /\ y.holed = h /\ y.crossed = x.crossed /\ y.out = x.out
      /\ y.pending = x.pending /\ y.shown = s /\ y.intent = "none"
  <2>1. x.selected # NoFolder
    BY DEF Engine, SyncAssumption, Boxes
  <2> QED BY ZenonT(60), <1>1, <1>4, <2>1 DEF Engine, Fields
<1> HIDE DEF y
<1>6. Same(y, z)
  BY <1>5 DEF Same, Unmoved, Engine, Fields
<1>7. \E q : Asks(y, Streaming(y, r), q) /\ AsksNewer(f, c, q)
  BY <1>5, NewerAsks DEF size
<1>8. \E q : Asks(y, RequestWindow(y, f, 0, FirstPage, FALSE, FALSE, FALSE), q) /\ AsksPage(f, FirstPage, q)
  BY <1>5, PageAsks DEF SyncAssumption
<1> HIDE DEF z, r
<1>9. \/ size = 0 /\ Same(y, FolderOpened(x, f, c))
      \/ c # {} /\ \E q : Asks(y, FolderOpened(x, f, c), q) /\ AsksNewer(f, c, q)
      \/ c = {} /\ \E q : Asks(y, FolderOpened(x, f, c), q) /\ AsksPage(f, FirstPage, q)
  BY <1>3, <1>6, <1>7, <1>8
<1>10. y.holed <=> x.holed \/ Broken(c)
  BY <1>1, <1>5
<1> QED BY <1>4, <1>5, <1>9, <1>10 DEF size

LEMMA OpenedToRefresh ==
    ASSUME NEW x, Engine(x), NEW f \in Boxes, mailbox[f] \in Nat, NEW c, SyncAssumption,
           f = x.selected, x.intent = "refresh"
    PROVE  \E y : /\ Engine(y) /\ y.selected = f /\ y.searching = x.searching /\ y.fetched = x.fetched
                  /\ y.crossed = x.crossed /\ y.out = x.out
                  /\ y.pending = x.pending /\ y.shown = x.shown /\ y.intent = "none"
                  /\ \/ mailbox[f] = 0 /\ y.total = x.total /\ y.holed = x.holed /\ FolderOpened(x, f, c) = y
                     \/ /\ y.total = mailbox[f] /\ (y.holed <=> x.holed \/ Outgrown(x, mailbox[f]))
                        /\ \E q : Asks(y, FolderOpened(x, f, c), q) /\ AsksPage(f, TopUp, q)
<1> DEFINE size == mailbox[f]
<1>1. PICK h \in BOOLEAN : h <=> x.holed \/ Outgrown(x, size)
  OBVIOUS
<1> DEFINE n == "none"
           y == [x EXCEPT !.intent = n]
           z == [x EXCEPT !.intent = n, !.total = size, !.holed = h]
<1>2. y.holed = x.holed
  BY DEF Engine, Fields
<1>3. z = [y EXCEPT !.total = size, !.holed = x.holed \/ Outgrown(x, size)]
  BY <1>1 DEF Engine
<1>4. FolderOpened(x, f, c) = IF size = 0 THEN y ELSE RequestWindow(z, f, 0, TopUp, TRUE, FALSE, TRUE)
  BY <1>2, <1>3 DEF FolderOpened
<1>5. size \in Nat /\ x.selected # NoFolder
  BY DEF SyncAssumption, Boxes
<1> HIDE DEF size
<1>6. /\ Engine(y) /\ y.selected = x.selected /\ y.searching = x.searching /\ y.total = x.total /\ y.fetched = x.fetched
      /\ y.holed = x.holed /\ y.crossed = x.crossed /\ y.out = x.out
      /\ y.pending = x.pending /\ y.shown = x.shown /\ y.intent = "none"
  BY DEF Engine, Fields
<1>7. /\ Engine(z) /\ z.selected = x.selected /\ z.searching = x.searching /\ z.total = size /\ z.fetched = x.fetched
      /\ z.holed = h /\ z.crossed = x.crossed /\ z.out = x.out
      /\ z.pending = x.pending /\ z.shown = x.shown /\ z.intent = "none"
  BY <1>1, <1>5 DEF Engine, Fields
<1> HIDE DEF y, z
<1>8. \E q : Asks(z, RequestWindow(z, f, 0, TopUp, TRUE, FALSE, TRUE), q) /\ AsksPage(f, TopUp, q)
  BY <1>7, PageAsks DEF SyncAssumption
<1>9. z.holed <=> x.holed \/ Outgrown(x, size)
  BY <1>1, <1>7
<1>10. CASE size = 0
  BY <1>4, <1>6, <1>10 DEF size
<1>11. CASE size # 0
  BY <1>4, <1>7, <1>8, <1>9, <1>11 DEF size
<1> QED BY <1>10, <1>11

LEMMA OpenedElsewhere ==
    ASSUME NEW x, Engine(x), NEW f \in Boxes, mailbox[f] \in Nat, NEW c,
           f # x.selected \/ x.intent \notin {"open", "refresh"}
    PROVE  Same(x, FolderOpened(x, f, c))
<1> DEFINE at == IF Cardinality(c) >= mailbox[f] THEN mailbox[f] ELSE x.reached
           y == [x EXCEPT !.asking = FALSE, !.sized = TRUE, !.count = mailbox[f], !.reached = at]
<1>1. FolderOpened(x, f, c) = x \/ FolderOpened(x, f, c) = Scheduled(y)
  BY DEF FolderOpened
<1>2. at \in Nat
  BY DEF Engine
<1> HIDE DEF at
<1>3. Same(x, x) /\ Same(x, Scheduled(y))
  BY ZenonT(60), <1>2 DEF Same, Unmoved, Engine, Fields, Scheduled
<1> QED BY <1>1, <1>3

------------------------------------------------------------------------------
(* What the other steps do to the engine.                                   *)

\* A request for headers has been answered, or has failed.
HeaderDone(r, rows, z) ==
    /\ rows \subseteq Unhandled(r.folder)
    /\ cached' = [cached EXCEPT ![r.folder] = @ \cup rows]
    /\ Settled(e, r, z) /\ Steady(z, e')
    /\ \/ z.shown = e.shown
       \/ /\ r.folder = e.selected /\ ~e.searching /\ rows = Unhandled(r.folder)
          /\ z.shown \subseteq e.shown \cup Uids(r.folder) \cup cached[r.folder]

LEMMA HeaderSteps ==
    ASSUME Footing, SyncAssumption, NEW r \in e.out, r.kind \in HeaderKinds, Reply(r) \/ Fail(r)
    PROVE  (\E rows, z : HeaderDone(r, rows, z)) /\ UNCHANGED <<mailbox, link, watch, news>>
<1> DEFINE all == Unhandled(r.folder)
<1>1. CASE r.kind = "window" /\ WindowFetched(r)
  <2>1. PICK z : /\ Settled(e, r, z) /\ Steady(z, e')
                 /\ Drawn(r, z, Max({e.fetched, Reach(r, e.total)}))
    BY <1>1, WindowAnswer
  <2>2. HeaderDone(r, all, z)
    BY <1>1, <2>1, WindowAnswer DEF HeaderDone, Drawn
  <2> QED BY <1>1, <2>2 DEF Reply, Fail
<1>2. CASE r.kind = "since" /\ SinceFetched(r)
  <2>1. PICK z : /\ Settled(e, r, z) /\ Steady(z, e')
                 /\ Drawn(r, z, Min({e.total, r.ask.base + Cardinality(Buffered(r.folder))}))
    BY <1>2, SinceAnswer
  <2>2. HeaderDone(r, all, z)
    BY <1>2, <2>1, SinceAnswer DEF HeaderDone, Drawn
  <2> QED BY <1>2, <2>2 DEF Reply, Fail
<1>3. ASSUME NEW ok, r.kind = "delta", DeltaAnswered(r, ok)
      PROVE  \E rows, z : HeaderDone(r, rows, z)
  <2> DEFINE rows == IF ok THEN all ELSE {}
  <2>1. cached' = [cached EXCEPT ![r.folder] = @ \cup rows] /\ Rest(e, r, e') /\ Steady(e', e')
    BY <1>3, DeltaAnswer
  <2>2. rows \subseteq all
    OBVIOUS
  <2> HIDE DEF rows, all
  <2>3. HeaderDone(r, rows, e')
    BY <2>1, <2>2 DEF HeaderDone, Rest, all
  <2> QED BY <2>3
<1>4. ASSUME (r.kind = "window" /\ WindowFailed(r)) \/ (r.kind = "since" /\ SinceFailed(r))
      PROVE  \E rows, z : HeaderDone(r, rows, z)
  <2>1. PICK z : Rest(e, r, z) /\ Steady(z, e')
    BY <1>4, Failures
  <2>2. cached' = cached
    BY <1>4, Failures
  <2>3. cached' = [cached EXCEPT ![r.folder] = @ \cup {}]
    BY <2>2 DEF Footing
  <2> DEFINE rows == {}
  <2>4. rows \subseteq all /\ cached' = [cached EXCEPT ![r.folder] = @ \cup rows]
    BY <2>3
  <2> HIDE DEF rows
  <2>5. HeaderDone(r, rows, z)
    BY <2>1, <2>4 DEF HeaderDone, Rest
  <2> QED BY <2>5
<1>5. UNCHANGED <<mailbox, link, watch, news>>
  BY DEF Reply, Fail, HeaderKinds
<1>6. Reply(r) => \/ r.kind = "window" /\ WindowFetched(r)
                  \/ r.kind = "since" /\ SinceFetched(r)
                  \/ r.kind = "delta" /\ DeltaAnswered(r, TRUE)
  BY DEF Reply, HeaderKinds
<1>7. Fail(r) => \/ (r.kind = "window" /\ WindowFailed(r)) \/ (r.kind = "since" /\ SinceFailed(r))
                 \/ r.kind = "delta" /\ DeltaAnswered(r, FALSE)
  <2>1. Fail(r) => \/ r.kind = "window" /\ WindowFailed(r)
                   \/ r.kind = "since" /\ SinceFailed(r)
                   \/ r.kind = "delta" /\ DeltaAnswered(r, FALSE)
                   \/ r.kind = "bodies" \/ r.kind = "list" \/ r.kind = "open"
    BY Zenon DEF Fail
  <2>2. r.kind # "bodies" /\ r.kind # "list" /\ r.kind # "open"
    BY DEF HeaderKinds
  <2> QED BY <2>1, <2>2, Zenon
<1>8. (r.kind = "window" /\ WindowFetched(r)) \/ (r.kind = "since" /\ SinceFetched(r)) => \E rows, z : HeaderDone(r, rows, z)
  BY <1>1, <1>2
<1>9. r.kind = "delta" /\ (DeltaAnswered(r, TRUE) \/ DeltaAnswered(r, FALSE)) => \E rows, z : HeaderDone(r, rows, z)
  BY <1>3, Zenon
<1> HIDE DEF all
<1>10. \E rows, z : HeaderDone(r, rows, z)
  <2>1. CASE Reply(r)
    <3>1. (r.kind = "window" /\ WindowFetched(r)) \/ (r.kind = "since" /\ SinceFetched(r))
             \/ (r.kind = "delta" /\ DeltaAnswered(r, TRUE))
      BY <1>6, <2>1, Zenon
    <3> QED BY <1>8, <1>9, <3>1, Zenon
  <2>2. CASE Fail(r)
    BY <1>4, <1>7, <1>9, <2>2, Zenon
  <2> QED BY <2>1, <2>2
<1> QED BY <1>5, <1>10

\* A request that brings no headers is over, and more may have been asked.
OtherDone(r) ==
    /\ r.kind \notin HeaderKinds
    /\ \E z : Gone(e, r, z) /\ Steady(z, e')
    /\ UNCHANGED <<mailbox, cached, link, watch, news>>

LEMMA OtherSteps ==
    ASSUME Footing, NEW r \in e.out,
           \/ Reply(r) /\ r.kind = "bodies"
           \/ Reply(r) /\ r.kind = "list" /\ e.searching
           \/ Fail(r) /\ r.kind \in {"bodies", "list", "open"}
    PROVE  OtherDone(r)
<1> DEFINE b == FALSE
           y == [e EXCEPT !.out = @ \ {r}]
           z == [e EXCEPT !.out = @ \ {r}, !.busy = b]
<1>1. Engine(e)
  BY DEF Footing, Sound
<1>2. Gone(e, r, y) /\ Gone(e, r, z)
  <2> HIDE DEF b
  <2> QED BY <1>1, Dropping
<1> HIDE DEF y, z
<1>3. Engine(y) /\ Engine(z) /\ Steady(y, y) /\ Steady(z, z)
  <2>1. Engine(y) /\ Engine(z) /\ Same(y, y) /\ Same(z, z)
    BY <1>2 DEF Gone, Unmoved, Same
  <2> QED BY <2>1, SameIsSteady
<1>4. CASE Reply(r) /\ r.kind = "bodies"
  <2> DEFINE w == BackoffReset(y)
             p == ProcessPrefetch(w)
  <2>1. BodiesFetched(r) /\ UNCHANGED <<watch, news, mailbox, link>>
    BY <1>4 DEF Reply
  <2>2. UNCHANGED cached /\ (e' = p \/ e' = Scheduled(p))
    BY <2>1 DEF BodiesFetched, y
  <2>3. Same(y, w) /\ Engine(w)
    BY <1>3, Pacing DEF Same, Unmoved
  <2> HIDE DEF w
  <2>4. Steady(w, p) /\ Engine(p)
    BY <2>3, PrefetchIsSteady DEF Steady, Unmoved
  <2> HIDE DEF p
  <2>5. Steady(p, Scheduled(p))
    BY <2>4, Pacing, SameIsSteady
  <2>6. Steady(y, p)
    BY <2>3, <2>4, SameIsSteady, SteadySteady
  <2>7. Steady(y, e')
    BY <2>2, <2>5, <2>6, SteadySteady
  <2> QED BY <1>2, <1>4, <2>1, <2>2, <2>7 DEF OtherDone, HeaderKinds
<1>5. CASE Fail(r) /\ r.kind = "bodies"
  <2>1. e' = BackedOff(y) /\ UNCHANGED cached
    BY <1>5 DEF Fail, BodiesFailed, disk, y
  <2>2. Steady(y, BackedOff(y))
    BY <1>3, Pacing, SameIsSteady
  <2> QED BY <1>2, <1>5, <2>1, <2>2 DEF OtherDone, HeaderKinds, Fail
<1>6. CASE Fail(r) /\ r.kind = "list"
  <2>1. e' = z /\ UNCHANGED cached
    BY <1>6 DEF Fail, disk, z
  <2> QED BY <1>2, <1>3, <1>6, <2>1 DEF OtherDone, HeaderKinds, Fail
<1>7. CASE Fail(r) /\ r.kind = "open"
  <2>1. UNCHANGED <<cached, mailbox, link, watch, news>>
        /\ (e' = z \/ e' = Scheduled([z EXCEPT !.asking = FALSE, !.walking = NoFolder, !.sized = FALSE]))
    BY <1>7 DEF Fail, OpenRefused, disk, z
  <2>2. Same(z, Scheduled([z EXCEPT !.asking = FALSE, !.walking = NoFolder, !.sized = FALSE]))
    BY <1>3 DEF Same, Unmoved, Engine, Fields, Scheduled, Somewhere
  <2>3. Steady(z, e')
    BY <1>3, <2>1, <2>2, SameIsSteady
  <2> QED BY <1>2, <1>7, <2>1, <2>3 DEF OtherDone, HeaderKinds
<1>8. CASE Reply(r) /\ r.kind = "list" /\ e.searching
  <2>1. e' = RestartQueue(z) /\ UNCHANGED <<cached, mailbox, link, watch, news>>
    BY <1>8 DEF Reply, Listed, disk, z
  <2>2. Steady(z, e')
    BY <1>3, <2>1, Pacing, SameIsSteady
  <2> QED BY <1>2, <1>8, <2>1, <2>2 DEF OtherDone, HeaderKinds
<1> QED BY <1>4, <1>5, <1>6, <1>7, <1>8

\* A folder has been opened: the list gets no rows, and headers may be asked for.
Reopened(x, y) ==
    /\ Engine(y)
    /\ y.selected = x.selected /\ y.searching = x.searching /\ y.pending = x.pending
    /\ y.shown \subseteq x.shown
    /\ x.crossed => y.crossed
    /\ One(x) => One(y)
    /\ x.out \subseteq y.out
    /\ \A q \in y.out \ x.out : Asked(q, mailbox) /\ ~q.dead

LEMMA ReopenedOften ==
    ASSUME NEW x, NEW y, NEW z, Reopened(x, y), Reopened(y, z)
    PROVE  Reopened(x, z)
BY DEF Reopened

LEMMA SteadyReopens ==
    ASSUME NEW x, NEW y, Steady(x, y)
    PROVE  Reopened(x, y)
BY DEF Reopened, Steady, Unmoved, New

LEMMA AskingReopens ==
    ASSUME NEW x, NEW y, NEW q, Asks(x, y, q), Asked(q, mailbox), ~q.dead
    PROVE  Reopened(x, y)
<1>1. One(x) => One(y)
  BY DEF Asks, One, HeaderKinds
<1> QED BY <1>1 DEF Reopened, Asks, Unmoved

LEMMA OpeningReopens ==
    ASSUME NEW x, Engine(x), NEW f \in Boxes, mailbox[f] \in Nat, NEW c, IsFiniteSet(c), SyncAssumption
    PROVE  Reopened(x, FolderOpened(x, f, c))
<1>1. ASSUME NEW y, NEW q, Asks(y, FolderOpened(x, f, c), q), AsksPage(f, FirstPage, q) \/ AsksPage(f, TopUp, q) \/ AsksNewer(f, c, q)
      PROVE  Reopened(y, FolderOpened(x, f, c))
  BY <1>1, AskingReopens DEF AsksPage, AsksNewer
<1>2. ASSUME NEW y, Same(y, FolderOpened(x, f, c))
      PROVE  Reopened(y, FolderOpened(x, f, c))
  BY <1>2, SameIsSteady, SteadyReopens
<1>3. ASSUME NEW y, Engine(y), y.selected = x.selected, y.searching = x.searching, y.crossed = x.crossed, y.out = x.out,
             y.pending = x.pending, y.shown \subseteq x.shown
      PROVE  Reopened(x, y)
  BY <1>3 DEF Reopened, One
<1>4. CASE f = x.selected /\ x.intent = "open"
  <2>1. PICK y : /\ Engine(y) /\ y.selected = f /\ y.searching = x.searching
                 /\ y.crossed = x.crossed /\ y.out = x.out
                 /\ y.pending = x.pending /\ y.shown \subseteq x.shown
                 /\ \/ mailbox[f] = 0 /\ Same(y, FolderOpened(x, f, c))
                    \/ c # {} /\ \E q : Asks(y, FolderOpened(x, f, c), q) /\ AsksNewer(f, c, q)
                    \/ c = {} /\ \E q : Asks(y, FolderOpened(x, f, c), q) /\ AsksPage(f, FirstPage, q)
    BY <1>4, OpenedByUser
  <2>2. Reopened(x, y)
    BY <1>3, <1>4, <2>1
  <2>3. Reopened(y, FolderOpened(x, f, c))
    BY <1>1, <1>2, <2>1
  <2> QED BY <2>2, <2>3, ReopenedOften
<1>5. CASE f = x.selected /\ x.intent = "refresh"
  <2>1. PICK y : /\ Engine(y) /\ y.selected = f /\ y.searching = x.searching
                 /\ y.crossed = x.crossed /\ y.out = x.out
                 /\ y.pending = x.pending /\ y.shown = x.shown
                 /\ \/ FolderOpened(x, f, c) = y
                    \/ \E q : Asks(y, FolderOpened(x, f, c), q) /\ AsksPage(f, TopUp, q)
    BY <1>5, OpenedToRefresh
  <2>2. Reopened(x, y)
    BY <1>3, <1>5, <2>1
  <2>3. CASE FolderOpened(x, f, c) = y
    BY <2>2, <2>3
  <2>4. CASE \E q : Asks(y, FolderOpened(x, f, c), q) /\ AsksPage(f, TopUp, q)
    <3>1. Reopened(y, FolderOpened(x, f, c))
      BY <1>1, <2>4
    <3> QED BY <2>2, <3>1, ReopenedOften
  <2> QED BY <2>1, <2>3, <2>4
<1>6. CASE f # x.selected \/ x.intent \notin {"open", "refresh"}
  BY <1>2, <1>6, OpenedElsewhere
<1> QED BY <1>4, <1>5, <1>6

\* A regenerated folder that is on screen is read again from its newest page.
LEMMA Invalidating ==
    ASSUME NEW x, Engine(x), NEW f \in Boxes, SyncAssumption, f = x.selected, ~x.searching
    PROVE  \E y, q : /\ Engine(y) /\ y.selected = f /\ ~y.searching /\ y.total = x.total /\ y.fetched = 0
                     /\ y.holed = x.holed /\ y.crossed = x.crossed /\ y.out = x.out /\ y.pending = x.pending
                     /\ y.shown = {} /\ y.intent = x.intent
                     /\ Asks(y, Invalidated(x, f), q) /\ AsksPage(f, FirstPage, q)
<1> DEFINE y == [x EXCEPT !.shown = {}, !.fetched = 0]
<1>1. Invalidated(x, f) = RequestWindow(y, f, 0, FirstPage, FALSE, FALSE, FALSE)
  BY DEF Invalidated
<1>2. /\ Engine(y) /\ y.selected = f /\ ~y.searching /\ y.total = x.total /\ y.fetched = 0
      /\ y.holed = x.holed /\ y.crossed = x.crossed /\ y.out = x.out /\ y.pending = x.pending
      /\ y.shown = {} /\ y.intent = x.intent
  BY DEF Engine, Fields
<1> HIDE DEF y
<1>3. PICK q : Asks(y, RequestWindow(y, f, 0, FirstPage, FALSE, FALSE, FALSE), q) /\ AsksPage(f, FirstPage, q)
  BY <1>2, PageAsks DEF SyncAssumption
<1> QED BY <1>1, <1>2, <1>3

\* What the cache holds of the folder once it has been opened.
Left(f, void) == IF void THEN {} ELSE cached[f]

LEMMA OpenSteps ==
    ASSUME Footing, SyncAssumption, NEW r \in e.out, r.kind = "open", NEW void \in BOOLEAN, Opened(r, void)
    PROVE  /\ cached' = [cached EXCEPT ![r.folder] = Left(r.folder, void)]
           /\ (news' => news /\ watch' = watch)
           /\ watch' = IF r.folder = e.selected /\ e.intent = "open" THEN r.folder ELSE watch
           /\ \E x : Gone(e, r, x) /\ Reopened(x, e')
                     /\ (r.folder # e.selected => Same(x, e'))
                     /\ (void /\ r.folder = e.selected /\ ~e.searching =>
                            /\ e'.shown = {}
                            /\ e'.crossed \/ \A q \in x.out : q.kind \in HeaderKinds => q.folder # r.folder)
<1> DEFINE f == r.folder
           c == Left(f, void)
           x == [e EXCEPT !.out = @ \ {r}]
           y == IF void THEN Invalidated(x, f) ELSE x
<1>1. /\ e' = FolderOpened(y, f, c)
      /\ watch' = IF f = e.selected /\ e.intent = "open" THEN f ELSE watch
      /\ news' = (news /\ watch' = watch)
      /\ cached' = [cached EXCEPT ![f] = c]
  BY DEF Opened, Left
<1>2. Engine(e) /\ f \in Boxes /\ mailbox[f] \in Nat
  BY DEF Footing, Sound, Asked
<1>3. Gone(e, r, x)
  BY <1>2, Dropping
<1>4. IsFiniteSet(c)
  <2>1. cached[f] \subseteq 1 .. mailbox[f]
    BY <1>2 DEF Footing
  <2>2. IsFiniteSet(1 .. mailbox[f])
    <3>1. 1 \in Int /\ mailbox[f] \in Int
      BY <1>2
    <3> HIDE DEF f
    <3> QED BY <3>1, FS_Interval
  <2>3. IsFiniteSet(cached[f])
    BY <2>1, <2>2, FS_Subset
  <2> QED BY <2>3, FS_EmptySet DEF Left
<1> HIDE DEF x, c
<1>5. Engine(x) /\ x.selected = e.selected /\ x.searching = e.searching
  BY <1>3 DEF Gone, Unmoved
<1>8. news' => news /\ watch' = watch
  BY <1>1
<1>6. CASE void /\ f = e.selected /\ ~e.searching
  <2>1. PICK z, q : /\ Engine(z) /\ z.selected = f /\ ~z.searching
                    /\ z.crossed = x.crossed /\ z.out = x.out /\ z.pending = x.pending
                    /\ z.shown = {}
                    /\ Asks(z, Invalidated(x, f), q) /\ AsksPage(f, FirstPage, q)
    <3>1. f = x.selected /\ ~x.searching
      BY <1>5, <1>6
    <3> HIDE DEF f
    <3> QED BY <1>2, <1>5, <3>1, Invalidating
  <2>2. y = Invalidated(x, f)
    BY <1>6
  <2> HIDE DEF y
  <2>3. Reopened(x, z)
    <3>1. One(x) => One(z)
      BY <2>1 DEF One
    <3>2. z.selected = x.selected /\ z.searching = x.searching
      BY <1>5, <1>6, <2>1 DEF Engine
    <3>3. z.shown \subseteq x.shown
      BY <2>1
    <3> QED BY <2>1, <3>1, <3>2, <3>3 DEF Reopened
  <2>4. Reopened(z, y)
    BY <2>1, <2>2, AskingReopens DEF AsksPage
  <2>5. Engine(y)
    BY <2>4 DEF Reopened
  <2>6. Reopened(y, FolderOpened(y, f, c))
    BY <1>2, <1>4, <2>5, OpeningReopens
  <2>7. Reopened(z, e') /\ Reopened(x, e')
    BY <1>1, <2>3, <2>4, <2>6, ReopenedOften
  <2>8. e'.shown = {}
    BY <2>1, <2>7 DEF Reopened
  <2>9. e'.crossed \/ \A p \in x.out : p.kind \in HeaderKinds => p.folder # f
    <3>1. y.crossed => e'.crossed
      BY <1>1, <2>6 DEF Reopened
    <3>2. y.crossed \/ \A p \in x.out : p.kind \in HeaderKinds => p.folder # f
      BY <2>1, <2>2 DEF Asks, AsksPage, HeaderKinds
    <3> QED BY <3>1, <3>2
  <2> QED BY <1>1, <1>3, <1>6, <1>8, <2>7, <2>8, <2>9 DEF c
<1>7. CASE ~(void /\ f = e.selected /\ ~e.searching)
  <2>1. y = x
    BY <1>5, <1>7 DEF Invalidated
  <2>2. Reopened(x, e')
    BY <1>1, <1>2, <1>4, <1>5, <2>1, OpeningReopens
  <2>3. f # e.selected => Same(x, e')
    BY <1>1, <1>2, <1>5, <2>1, OpenedElsewhere
  <2> QED BY <1>1, <1>3, <1>7, <1>8, <2>2, <2>3 DEF c
<1> QED BY <1>6, <1>7

\* Rows of a request have come.
Came(r, batch) ==
    LET live == Streamed(r)
    IN  /\ Engine(e')
        /\ e'.selected = e.selected /\ e'.searching = e.searching /\ e'.total = e.total /\ e'.fetched = e.fetched
        /\ e'.holed = e.holed /\ e'.crossed = e.crossed /\ e'.intent = e.intent
        /\ e'.out = (e.out \ {r}) \cup {[r EXCEPT !.left = @ \ batch]}
        /\ e'.pending = e.pending \cup {[folder |-> r.folder, uid |-> u, by |-> r.id, streamed |-> live] : u \in batch}
        /\ e'.shown = IF live /\ ~e.searching THEN e.shown \cup batch ELSE e.shown
        /\ cached' = IF live THEN [cached EXCEPT ![r.folder] = @ \cup batch] ELSE cached

LEMMA DeliverSteps ==
    ASSUME Footing, NEW r \in e.out, Deliver(r)
    PROVE  /\ (\E batch \in SUBSET r.left : Came(r, batch))
           /\ r.kind \in HeaderKinds /\ ~r.dead
           /\ UNCHANGED <<mailbox, link, watch, news>>
<1>1. r.kind \in HeaderKinds /\ ~r.dead /\ r.left # {} /\ UNCHANGED <<mailbox, link, watch, news>>
  BY DEF Deliver
<1>2. PICK batch \in {{Min(r.left)}, r.left} :
        LET f    == r.folder
            live == Streamed(r)
            fresh == {u \in batch : e.stream.known > 0 /\ u > e.stream.known}
        IN  /\ e' = [e EXCEPT !.out = (@ \ {r}) \cup {[r EXCEPT !.left = @ \ batch]},
                              !.pending = @ \cup {[folder |-> f, uid |-> u, by |-> r.id, streamed |-> live] :
                                                  u \in batch},
                              !.shown = IF live /\ ~e.searching THEN @ \cup batch ELSE @,
                              !.stream.added = @ \/ (live /\ ~e.searching /\ ~(batch \subseteq e.shown))]
            /\ IF live THEN Noted(f, batch) /\ Offered(f, fresh) ELSE UNCHANGED disk
  BY DEF Deliver
<1>3. batch \subseteq r.left
  <2>1. r.left \subseteq Nat
    BY <1>1 DEF Footing, Sound, Asked
  <2>2. Min(r.left) \in r.left
    BY <1>1, <2>1, MinOf
  <2> QED BY <2>2
<1> DEFINE live == Streamed(r)
           o == (e.out \ {r}) \cup {[r EXCEPT !.left = @ \ batch]}
           p == e.pending \cup {[folder |-> r.folder, uid |-> u, by |-> r.id, streamed |-> live] : u \in batch}
           s == IF live /\ ~e.searching THEN e.shown \cup batch ELSE e.shown
           v == e.stream.added \/ (live /\ ~e.searching /\ ~(batch \subseteq e.shown))
<1>4. e' = [e EXCEPT !.out = o, !.pending = p, !.shown = s, !.stream.added = v]
  BY <1>2
<1>5. cached' = IF live THEN [cached EXCEPT ![r.folder] = @ \cup batch] ELSE cached
  BY <1>2 DEF Noted, disk
<1>6. Engine(e)
  BY DEF Footing, Sound
<1> HIDE DEF o, p, s, v
<1>7. /\ Engine(e')
      /\ e'.selected = e.selected /\ e'.searching = e.searching /\ e'.total = e.total /\ e'.fetched = e.fetched
      /\ e'.holed = e.holed /\ e'.crossed = e.crossed /\ e'.intent = e.intent
      /\ e'.out = o /\ e'.pending = p /\ e'.shown = s
  BY <1>4, <1>6 DEF Engine, Fields
<1>8. Came(r, batch)
  BY <1>5, <1>7 DEF Came, o, p, s
<1> QED BY <1>1, <1>3, <1>8

\* A folder is put on the screen.
Turn == \/ \E f \in Boxes : OpenFolder(f)
        \/ ClearSearch
        \/ \E r \in e.out : Reply(r) /\ r.kind = "list" /\ ~e.searching

LEMMA TurnSteps ==
    ASSUME Footing, SyncAssumption, Turn
    PROVE  /\ \E x, f : /\ f \in Boxes /\ Engine(x) /\ Turned(x, f, e')
                        /\ x.selected = e.selected /\ x.pending = e.pending /\ x.total = e.total
                        /\ x.fetched = e.fetched /\ x.holed = e.holed /\ x.crossed = e.crossed
                        /\ \/ /\ x.out = e.out /\ x.shown = e.shown
                              /\ f # e.selected /\ (f = e.walking => "walked" \in Events)
                              /\ (f # e.walking /\ Overlap(f) => "overlap" \in Events)
                           \/ /\ x.out = e.out /\ x.shown = {} /\ f = e.selected /\ e.searching
                              /\ (Overlap(f) => "overlap" \in Events)
                           \/ \E r \in e.out : /\ x.out = e.out \ {r} /\ r.kind = "list" /\ x.shown = e.shown
                                               /\ link.up /\ ~e.searching
                                               /\ e.selected = NoFolder \/ f = e.selected
           /\ UNCHANGED <<mailbox, cached, link, watch, news>>
<1>1. Engine(e)
  BY DEF Footing, Sound
<1>2. CASE \E f \in Boxes : OpenFolder(f)
  <2>1. PICK f \in Boxes : OpenFolder(f)
    BY <1>2
  <2>2. Turned(e, f, e')
    BY <1>1, <2>1, Turning DEF OpenFolder
  <2>3. f # e.selected /\ (f = e.walking => "walked" \in Events) /\ (f # e.walking /\ Overlap(f) => "overlap" \in Events)
    BY <2>1 DEF OpenFolder, Happens
  <2>4. UNCHANGED <<mailbox, cached, link, watch, news>>
    BY <2>1 DEF OpenFolder, disk
  <2> QED BY <1>1, <2>2, <2>3, <2>4
<1>3. CASE ClearSearch
  <2> DEFINE x == [e EXCEPT !.shown = {}]
             f == e.selected
  <2>1. e' = FolderShown(x, f) /\ e.searching /\ (Overlap(f) => "overlap" \in Events)
        /\ UNCHANGED <<mailbox, cached, link, watch, news>>
    BY <1>3 DEF ClearSearch, disk
  <2>2. f \in Boxes
    BY <1>1, <2>1 DEF Engine, Somewhere
  <2>3. /\ Engine(x) /\ x.selected = e.selected /\ x.pending = e.pending /\ x.total = e.total
        /\ x.fetched = e.fetched /\ x.holed = e.holed /\ x.crossed = e.crossed /\ x.out = e.out /\ x.shown = {}
    BY <1>1 DEF Engine, Fields
  <2> HIDE DEF x
  <2>4. Turned(x, f, e')
    BY <2>1, <2>2, <2>3, Turning
  <2> HIDE DEF f
  <2> QED BY <2>1, <2>2, <2>3, <2>4 DEF f
<1>4. CASE \E r \in e.out : Reply(r) /\ r.kind = "list" /\ ~e.searching
  <2>1. PICK r \in e.out : Reply(r) /\ r.kind = "list" /\ ~e.searching
    BY <1>4
  <2> DEFINE b == FALSE
             y == [e EXCEPT !.out = @ \ {r}, !.busy = b]
             x == RestartQueue(y)
             f == IF e.selected = NoFolder THEN Folders[1] ELSE e.selected
  <2>2. e' = FolderShown(x, f) /\ ~r.dead /\ UNCHANGED <<mailbox, cached, link, watch, news>>
    BY <2>1 DEF Reply, Listed, disk
  <2>3. f \in Boxes
    <3>1. Folders[1] \in Boxes
      BY DEF SyncAssumption, Boxes
    <3> QED BY <1>1, <3>1 DEF Engine, Somewhere
  <2>4. Gone(e, r, y)
    <3> HIDE DEF b
    <3> QED BY <1>1, Dropping
  <2> HIDE DEF y
  <2>5. Same(y, x) /\ Engine(x)
    BY <2>4, Pacing DEF Same, Gone, Unmoved
  <2> HIDE DEF x
  <2>6. Turned(x, f, e')
    BY <2>2, <2>3, <2>5, Turning
  <2>7. /\ x.selected = e.selected /\ x.pending = e.pending /\ x.total = e.total
        /\ x.fetched = e.fetched /\ x.holed = e.holed /\ x.crossed = e.crossed /\ x.out = e.out \ {r} /\ x.shown = e.shown
    BY <2>4, <2>5 DEF Gone, Same, Unmoved
  <2>8. link.up
    BY <2>2 DEF Footing
  <2>9. e.selected = NoFolder \/ f = e.selected
    OBVIOUS
  <2> HIDE DEF f
  <2> QED BY <2>1, <2>2, <2>3, <2>5, <2>6, <2>7, <2>8, <2>9
<1> QED BY <1>2, <1>3, <1>4 DEF Turn

\* Connections fail and requests die with them.
Aged(x, y) ==
    /\ Unmoved(x, y) /\ y.crossed = x.crossed
    /\ \E D \in [x.out -> BOOLEAN] :
          /\ y.out = {[r EXCEPT !.dead = D[r]] : r \in x.out}
          /\ \A r \in x.out : r.dead => D[r]

LEMMA AgingIsSound ==
    ASSUME NEW x, NEW y, Aged(x, y), NEW M, Sound(x, M)
    PROVE  Sound(y, M)
<1>1. PICK D \in [x.out -> BOOLEAN] :
          /\ y.out = {[r EXCEPT !.dead = D[r]] : r \in x.out}
          /\ \A r \in x.out : r.dead => D[r]
  BY DEF Aged
<1>2. ASSUME NEW r \in x.out
      PROVE  LET q == [r EXCEPT !.dead = D[r]]
             IN  q \in y.out /\ Asked(q, M) /\ q.kind = r.kind /\ q.folder = r.folder
  <2> DEFINE q == [r EXCEPT !.dead = D[r]]
  <2>1. Asked(r, M) /\ D[r] \in BOOLEAN
    BY <1>1 DEF Sound
  <2>2. q = [i \in {"id", "kind", "folder", "left", "ask", "dead"} |-> q[i]] /\ q.dead = D[r]
        /\ q.kind = r.kind /\ q.folder = r.folder /\ q.left = r.left /\ q.ask = r.ask
    BY <2>1 DEF Asked
  <2>3. q \in y.out
    BY <1>1
  <2> HIDE DEF q
  <2>4. Asked(q, M)
    BY <2>1, <2>2 DEF Asked
  <2> QED BY <2>2, <2>3, <2>4 DEF q
<1>3. \A q \in y.out : Asked(q, M)
  BY <1>1, <1>2
<1>4. Bound(y, M)
  <2>1. \A r \in x.out : \E q \in y.out : q.kind = r.kind /\ q.folder = r.folder
    BY <1>2
  <2>2. y.pending = x.pending /\ Bound(x, M)
    BY DEF Aged, Unmoved, Sound
  <2> QED BY <2>1, <2>2 DEF Bound
<1>5. One(y)
  <2>1. ASSUME NEW q1 \in y.out, NEW q2 \in y.out, {q1.kind, q2.kind} \subseteq HeaderKinds, q1.folder = q2.folder, ~y.crossed
        PROVE  q1 = q2
    <3>1. PICK r1 \in x.out : q1 = [r1 EXCEPT !.dead = D[r1]]
      BY <1>1
    <3>2. PICK r2 \in x.out : q2 = [r2 EXCEPT !.dead = D[r2]]
      BY <1>1
    <3>3. q1.kind = r1.kind /\ q1.folder = r1.folder /\ q2.kind = r2.kind /\ q2.folder = r2.folder
      BY <1>2, <3>1, <3>2
    <3>4. r1 = r2
      BY ZenonT(60), <2>1, <3>3 DEF Sound, One, Aged
    <3> QED BY <3>1, <3>2, <3>4
  <2> QED BY <2>1 DEF One
<1> QED BY <1>3, <1>4, <1>5 DEF Sound, Aged, Unmoved

LEMMA Aging ==
    ASSUME NEW x, Engine(x), NEW D \in [x.out -> BOOLEAN], \A r \in x.out : r.dead => D[r], NEW b,
           NEW o, o = {[r EXCEPT !.dead = D[r]] : r \in x.out}
    PROVE  Aged(x, [x EXCEPT !.out = o]) /\ Aged(x, [x EXCEPT !.busy = b, !.out = o])
<1> DEFINE y == [x EXCEPT !.out = o]
           z == [x EXCEPT !.busy = b, !.out = o]
<1>1. Unmoved(x, y) /\ y.crossed = x.crossed /\ y.out = o /\ Unmoved(x, z) /\ z.crossed = x.crossed /\ z.out = o
  BY DEF Unmoved, Engine, Fields
<1> HIDE DEF y, z
<1> QED BY <1>1 DEF Aged, y, z

LEMMA DropSteps ==
    ASSUME Footing, Drop
    PROVE  /\ Aged(e, e') /\ UNCHANGED <<mailbox, cached>> /\ ~link'.up /\ watch' = NoFolder /\ ~news'
           /\ \A r \in e'.out : r.dead
           /\ link' = [i \in {"up", "sync"} |-> link'[i]] /\ link'.up \in BOOLEAN
<1> DEFINE t == Teardown(e)
           D == [r \in e.out |-> TRUE]
           o == {[r EXCEPT !.dead = TRUE] : r \in e.out}
           b == FALSE
<1>1. Engine(e)
  BY DEF Footing, Sound
<1>2. Unmoved(e, t) /\ t.crossed = e.crossed /\ t.out = e.out
  <2>1. <<>> \in Seq(Boxes)
    OBVIOUS
  <2> DEFINE u == [e EXCEPT !.armed = FALSE, !.backfill = FALSE, !.prefetch = <<>>,
                           !.queue = <<>>, !.primed = FALSE, !.done = FALSE,
                           !.walking = NoFolder, !.asking = FALSE, !.intent = "none"]
  <2>2. t = BackoffReset(u)
    BY DEF Teardown
  <2>3. u.out = e.out /\ u.crossed = e.crossed /\ Unmoved(e, u)
    BY ZenonT(60), <1>1, <2>1 DEF Unmoved, Engine, Fields, Somewhere
  <2> HIDE DEF u
  <2>4. Same(u, t)
    BY <2>2, <2>3, Pacing DEF Unmoved
  <2> QED BY <2>3, <2>4 DEF Same, Unmoved
<1>3. e' = [t EXCEPT !.busy = b, !.out = o]
  BY <1>2 DEF Drop
<1> HIDE DEF t
<1>4. o = {[r EXCEPT !.dead = D[r]] : r \in t.out} /\ D \in [t.out -> BOOLEAN] /\ \A r \in t.out : r.dead => D[r]
  BY <1>2
<1>5. \A r \in o : r.dead
  BY DEF Footing, Sound, Asked
<1> HIDE DEF o, D, b
<1>6. Aged(t, e')
  BY <1>2, <1>3, <1>4, Aging DEF Unmoved
<1>7. e'.out = o
  BY <1>1, <1>2, <1>3 DEF Unmoved, Engine, Fields
<1>8. Aged(e, e')
  BY <1>2, <1>6 DEF Aged, Unmoved
<1> QED BY <1>5, <1>7, <1>8 DEF Drop, disk

LEMMA ShedSteps ==
    ASSUME Footing, Shed
    PROVE  /\ Aged(e, e') /\ UNCHANGED <<mailbox, cached, watch, news>> /\ link'.up /\ link.up
           /\ e'.intent = e.intent
           /\ \A r \in e'.out : r.dead => r.ask.back \/ r.kind \in {"bodies", "delta"}
           /\ link' = [i \in {"up", "sync"} |-> link'[i]] /\ link'.up \in BOOLEAN
<1> DEFINE t == Throttled(e)
           D == [r \in e.out |-> r.dead \/ r.ask.back \/ r.kind \in {"bodies", "delta"}]
           o == {[r EXCEPT !.dead = @ \/ r.ask.back \/ r.kind \in {"bodies", "delta"}] : r \in e.out}
<1>1. Engine(e) /\ link.up
  BY DEF Footing, Sound, Shed
<1>2. Same(e, t) /\ Engine(t)
  BY <1>1, Pacing DEF Same, Unmoved
<1>3. e' = [t EXCEPT !.out = o]
  BY <1>2 DEF Shed, Same
<1> HIDE DEF t
<1>4. o = {[r EXCEPT !.dead = D[r]] : r \in t.out} /\ D \in [t.out -> BOOLEAN] /\ \A r \in t.out : r.dead => D[r]
  BY <1>2 DEF Same
<1>5. \A r \in o : r.dead => r.ask.back \/ r.kind \in {"bodies", "delta"}
  BY <1>1 DEF Footing, Sound, Asked
<1> HIDE DEF o, D
<1>6. Aged(t, e')
  BY <1>2, <1>3, <1>4, Aging
<1>7. e'.out = o /\ e'.intent = t.intent
  BY <1>2, <1>3 DEF Engine, Fields
<1>8. Aged(e, e')
  BY <1>2, <1>6 DEF Aged, Unmoved, Same
<1>9. link' = [i \in {"up", "sync"} |-> link'[i]] /\ link'.up
  BY <1>1 DEF Shed, Footing
<1> QED BY <1>1, <1>2, <1>5, <1>7, <1>8, <1>9 DEF Shed, disk, Same

------------------------------------------------------------------------------
(* The footing holds of every behaviour.                                    *)

LEMMA FootingInit ==
    ASSUME Init, SyncAssumption
    PROVE  Footing
<1>1. <<>> \in Seq(Boxes)
  OBVIOUS
<1>2. Engine(e)
  BY <1>1 DEF Init, Engine, Fields, Somewhere
<1>3. e.pending = {} /\ e.out = {}
  BY DEF Init
<1>4. Sound(e, mailbox)
  BY <1>2, <1>3, FS_EmptySet DEF Sound, Bound, One
<1>5. mailbox \in [Boxes -> Nat]
  <2>1. Sizes \subseteq Nat
    BY DEF SyncAssumption
  <2> QED BY <2>1 DEF Init
<1>6. cached \in [Boxes -> SUBSET Nat] /\ \A f \in Boxes : cached[f] \subseteq 1 .. mailbox[f]
  BY DEF Init
<1>7. watch = NoFolder /\ news = FALSE /\ link = [up |-> FALSE, sync |-> FALSE]
  BY DEF Init
<1> QED BY <1>3, <1>4, <1>5, <1>6, <1>7 DEF Footing, Somewhere

\* New requests come with a live connection only.
LEMMA FootingByEngine ==
    ASSUME Footing, Sound(e', mailbox'), UNCHANGED <<mailbox, link>>,
           cached' \in [Boxes -> SUBSET Nat], \A f \in Boxes : cached'[f] \subseteq 1 .. mailbox[f],
           watch' \in Somewhere, watch' # watch => link.up,
           news' => news /\ watch' = watch,
           \A q \in e'.out : ~q.dead \/ \E r \in e.out : q.dead = r.dead /\ q.ask = r.ask /\ q.kind = r.kind,
           link.up \/ \A q \in e'.out : q.dead
    PROVE  Footing'
BY DEF Footing

LEMMA MoreCached ==
    ASSUME Footing, NEW r \in e.out, r.kind \in HeaderKinds, NEW rows, rows \subseteq 1 .. mailbox[r.folder],
           cached' = [cached EXCEPT ![r.folder] = @ \cup rows]
    PROVE  cached' \in [Boxes -> SUBSET Nat] /\ \A f \in Boxes : cached'[f] \subseteq 1 .. mailbox[f]
<1>1. r.folder \in Boxes
  BY DEF Footing, Sound, Asked
<1>2. rows \subseteq Nat
  OBVIOUS
<1> QED BY <1>1, <1>2 DEF Footing

LEMMA SettledIsSound ==
    ASSUME NEW x, NEW r \in x.out, NEW z, Settled(x, r, z), Sound(x, mailbox), r.kind \in HeaderKinds
    PROVE  Sound(z, mailbox)
<1>1. IsFiniteSet(z.pending)
  <2>1. z.pending \subseteq x.pending
    BY DEF Settled
  <2> QED BY <2>1, FS_Subset DEF Sound
<1>2. Bound(z, mailbox)
  <2>1. ASSUME NEW p \in z.pending
        PROVE  /\ p.streamed \in BOOLEAN /\ p.uid \in 1 .. mailbox[p.folder]
               /\ \E q \in z.out : q.kind \in HeaderKinds /\ q.folder = p.folder
    <3>1. p \in x.pending /\ p.folder # r.folder
      BY DEF Settled
    <3>2. PICK q \in x.out : q.kind \in HeaderKinds /\ q.folder = p.folder
      BY <3>1 DEF Sound, Bound
    <3>3. q \in z.out
      BY <3>1, <3>2 DEF Settled
    <3> QED BY <3>1, <3>2, <3>3 DEF Sound, Bound
  <2> QED BY <2>1 DEF Bound
<1>3. One(z) /\ \A q \in z.out : Asked(q, mailbox)
  BY DEF Sound, Settled, One
<1> QED BY <1>1, <1>2, <1>3 DEF Sound, Settled

LEMMA GoneIsSound ==
    ASSUME NEW x, NEW r, NEW z, Gone(x, r, z), Sound(x, mailbox), r.kind \notin HeaderKinds
    PROVE  Sound(z, mailbox)
<1>1. One(z) /\ (\A q \in z.out : Asked(q, mailbox)) /\ IsFiniteSet(z.pending)
  BY DEF Sound, Gone, Unmoved, One
<1>2. Bound(z, mailbox)
  BY DEF Sound, Gone, Unmoved, Bound
<1> QED BY <1>1, <1>2 DEF Sound, Gone, Unmoved

LEMMA ReopenedIsSound ==
    ASSUME NEW x, NEW y, Reopened(x, y), Sound(x, mailbox)
    PROVE  Sound(y, mailbox)
<1>1. Bound(y, mailbox)
  BY DEF Sound, Reopened, Bound
<1> QED BY <1>1 DEF Sound, Reopened

LEMMA TurnedIsSound ==
    ASSUME NEW x, NEW f, NEW y, Turned(x, f, y), Sound(x, mailbox)
    PROVE  Sound(y, mailbox)
<1>1. Bound(y, mailbox)
  BY DEF Sound, Turned, Bound
<1>2. One(y)
  BY DEF Sound, Turned, One, HeaderKinds
<1> QED BY <1>1, <1>2 DEF Sound, Turned

LEMMA CameIsSound ==
    ASSUME Footing, NEW r \in e.out, r.kind \in HeaderKinds, NEW batch \in SUBSET r.left, Came(r, batch)
    PROVE  Sound(e', mailbox)
<1> DEFINE q == [r EXCEPT !.left = @ \ batch]
           come == {[folder |-> r.folder, uid |-> u, by |-> r.id, streamed |-> Streamed(r)] : u \in batch}
<1>1. r.folder \in Boxes /\ r.left \subseteq 1 .. mailbox[r.folder] /\ mailbox[r.folder] \in Nat
  BY DEF Footing, Sound, Asked
<1>2. Asked(q, mailbox) /\ q.kind = r.kind /\ q.folder = r.folder
  <2>1. Asked(r, mailbox)
    BY DEF Footing, Sound
  <2> QED BY <2>1 DEF Asked
<1>3. IsFiniteSet(batch)
  <2> DEFINE m == mailbox[r.folder]
  <2>1. 1 \in Int /\ m \in Int /\ batch \subseteq 1 .. m
    BY <1>1
  <2> HIDE DEF m
  <2> QED BY <2>1, FS_Interval, FS_Subset
<1>4. IsFiniteSet(come)
  <2> DEFINE h == [u \in batch |-> [folder |-> r.folder, uid |-> u, by |-> r.id, streamed |-> Streamed(r)]]
  <2>1. h \in Surjection(batch, come)
    BY DEF Surjection
  <2> HIDE DEF h, come
  <2> QED BY <1>3, <2>1, FS_Surjection
<1>5. \A p \in come : p.streamed \in BOOLEAN /\ p.uid \in batch /\ p.folder = r.folder
  <2> DEFINE live == Streamed(r)
  <2>1. live \in BOOLEAN
    BY DEF Streamed
  <2> HIDE DEF live
  <2>2. come = {[folder |-> r.folder, uid |-> u, by |-> r.id, streamed |-> live] : u \in batch}
    BY DEF live
  <2> HIDE DEF come
  <2> QED BY <2>1, <2>2
<1> HIDE DEF come, q
<1>6. e'.pending = e.pending \cup come /\ e'.out = (e.out \ {r}) \cup {q} /\ e'.crossed = e.crossed /\ Engine(e')
  BY DEF Came, come, q
<1>7. IsFiniteSet(e'.pending)
  <2>1. IsFiniteSet(e.pending)
    BY DEF Footing, Sound
  <2>2. IsFiniteSet(e.pending \cup come)
    BY <1>4, <2>1, FS_Union
  <2> QED BY <1>6, <2>2
<1>8. Bound(e', mailbox)
  <2>1. ASSUME NEW p \in e.pending
        PROVE  /\ p.streamed \in BOOLEAN /\ p.uid \in 1 .. mailbox[p.folder]
               /\ \E i \in e'.out : i.kind \in HeaderKinds /\ i.folder = p.folder
    <3>1. PICK i \in e.out : i.kind \in HeaderKinds /\ i.folder = p.folder
      BY DEF Footing, Sound, Bound
    <3>2. i \in e'.out \/ i = r
      BY <1>6
    <3>3. q \in e'.out
      BY <1>6
    <3> QED BY <1>2, <3>1, <3>2, <3>3 DEF Footing, Sound, Bound
  <2>2. ASSUME NEW p \in come
        PROVE  /\ p.streamed \in BOOLEAN /\ p.uid \in 1 .. mailbox[p.folder]
               /\ \E i \in e'.out : i.kind \in HeaderKinds /\ i.folder = p.folder
    <3>1. q \in e'.out
      BY <1>6
    <3> QED BY <1>1, <1>2, <1>5, <3>1
  <2> QED BY <1>6, <2>1, <2>2 DEF Bound
<1>9. One(e')
  BY <1>2, <1>6 DEF Footing, Sound, One
<1>10. \A i \in e'.out : Asked(i, mailbox)
  BY <1>2, <1>6 DEF Footing, Sound
<1> QED BY <1>6, <1>7, <1>8, <1>9, <1>10 DEF Sound

LEMMA MailFooting ==
    ASSUME Footing, SyncAssumption, NEW f \in Boxes, MailArrives(f)
    PROVE  Footing' /\ e' = e /\ UNCHANGED <<cached, watch, link>>
           /\ \A g \in Boxes : mailbox'[g] \in Nat /\ mailbox'[g] >= mailbox[g]
<1>1. PICK n \in mailbox[f] + 1 .. MaxSize : mailbox' = [mailbox EXCEPT ![f] = n]
  BY DEF MailArrives
<1>2. e' = e /\ UNCHANGED <<cached, watch, link>> /\ news' = (news \/ watch = f)
  BY DEF MailArrives, disk
<1>3. mailbox[f] \in Nat /\ n \in Nat /\ n >= mailbox[f]
  BY <1>1 DEF Footing, SyncAssumption
<1>4. mailbox' \in [Boxes -> Nat] /\ \A g \in Boxes : mailbox'[g] \in Nat /\ mailbox[g] \in Nat /\ mailbox'[g] >= mailbox[g]
  BY <1>1, <1>3 DEF Footing
<1>5. \A g \in Boxes : 1 .. mailbox[g] \subseteq 1 .. mailbox'[g]
  BY <1>4
<1>6. \A r \in e.out : Asked(r, mailbox')
  BY <1>5 DEF Footing, Sound, Asked
<1>7. Bound(e, mailbox')
  <2>1. ASSUME NEW p \in e.pending
        PROVE  p.folder \in Boxes
    <3>1. PICK r \in e.out : r.kind \in HeaderKinds /\ r.folder = p.folder
      BY DEF Footing, Sound, Bound
    <3> QED BY <3>1 DEF Footing, Sound, Asked
  <2> QED BY <1>5, <2>1 DEF Footing, Sound, Bound
<1>8. Sound(e, mailbox')
  BY <1>6, <1>7 DEF Footing, Sound
<1>9. \A g \in Boxes : cached[g] \subseteq 1 .. mailbox'[g]
  BY <1>5 DEF Footing
<1>10. (news' => watch # NoFolder) /\ (~link.up => ~news')
  <2>1. f # NoFolder
    BY DEF SyncAssumption, Boxes
  <2> QED BY <1>2, <2>1 DEF Footing
<1> QED BY <1>2, <1>4, <1>8, <1>9, <1>10 DEF Footing

LEMMA SearchSteps ==
    ASSUME Footing, Search
    PROVE  /\ Engine(e') /\ e'.selected = e.selected /\ e'.selected # NoFolder /\ e'.searching /\ e'.shown = {}
           /\ e'.pending = e.pending /\ e'.out = e.out /\ e'.crossed = e.crossed /\ e'.holed = e.holed
           /\ UNCHANGED <<mailbox, cached, link, watch, news>>
<1>1. Engine(e)
  BY DEF Footing, Sound
<1>2. e' = [e EXCEPT !.searching = TRUE, !.shown = {}, !.fetched = e.total] /\ e.selected # NoFolder
  BY DEF Search
<1>3. UNCHANGED <<mailbox, cached, link, watch, news>>
  BY DEF Search, disk
<1> QED BY <1>1, <1>2, <1>3 DEF Engine, Fields

LEMMA ConnectSteps ==
    ASSUME Footing, Connect
    PROVE  /\ Unmoved(e, e') /\ e'.intent = e.intent /\ (e'.crossed <=> e.crossed)
           /\ \E q : q.kind = "list" /\ ~q.dead /\ Asked(q, mailbox) /\ e'.out = e.out \cup {q}
           /\ UNCHANGED <<mailbox, cached, watch, news>> /\ ~link.up /\ link' = [up |-> TRUE, sync |-> FALSE]
           /\ e.out = {}
<1> DEFINE r == Request("list", NoFolder, {}, NoAsk)
<1>1. Asked(r, mailbox) /\ r.kind = "list" /\ ~r.dead
  BY DEF Asked, Request, HeaderKinds, Kinds, NoAsk
<1> HIDE DEF r
<1>2. e' = Sent(e, r) /\ UNCHANGED <<mailbox, cached, watch, news>> /\ ~link.up /\ link' = [up |-> TRUE, sync |-> FALSE]
      /\ ~ \E i \in e.out : i.dead
  BY DEF Connect, disk, r
<1>3. PICK q : Asks(e, Sent(e, r), q) /\ Alike(q, r) /\ Asked(q, mailbox)
  BY <1>1, SendingAsks DEF Footing, Sound
<1>4. e.out = {}
  BY <1>2 DEF Footing
<1> QED BY <1>1, <1>2, <1>3, <1>4 DEF Asks, Alike, HeaderKinds

\* An answer to any request leaves the engine on its footing.
LEMMA OpenFooting ==
    ASSUME Footing, SyncAssumption, NEW r \in e.out, r.kind = "open", ~r.dead, NEW void \in BOOLEAN, Opened(r, void),
           UNCHANGED <<mailbox, link>>
    PROVE  Footing'
<1> DEFINE f == r.folder
<1>1. f \in Boxes /\ link.up /\ r.kind \notin HeaderKinds
  BY DEF Footing, Sound, Asked, HeaderKinds
<1>2. PICK x : Gone(e, r, x) /\ Reopened(x, e')
  BY OpenSteps
<1>3. cached' = [cached EXCEPT ![f] = Left(f, void)] /\ (news' => news /\ watch' = watch)
      /\ watch' = IF f = e.selected /\ e.intent = "open" THEN f ELSE watch
  BY OpenSteps
<1>4. Sound(e', mailbox')
  <2>1. Sound(x, mailbox)
    BY <1>1, <1>2, GoneIsSound DEF Footing
  <2> QED BY <1>2, <2>1, ReopenedIsSound
<1>5. cached' \in [Boxes -> SUBSET Nat] /\ \A g \in Boxes : cached'[g] \subseteq 1 .. mailbox[g]
  <2>1. Left(f, void) \subseteq cached[f]
    BY DEF Left
  <2> QED BY <1>1, <1>3, <2>1 DEF Footing
<1>6. watch' \in Somewhere
  BY <1>1, <1>3 DEF Footing, Somewhere
<1>7. \A q \in e'.out : ~q.dead \/ \E i \in e.out : q.dead = i.dead /\ q.ask = i.ask /\ q.kind = i.kind
  BY <1>2 DEF Gone, Reopened
<1> QED BY <1>1, <1>3, <1>4, <1>5, <1>6, <1>7, FootingByEngine

LEMMA ServerFooting ==
    ASSUME Footing, SyncAssumption, NEW r \in e.out, Deliver(r) \/ Reply(r) \/ Fail(r), ~(Reply(r) /\ r.kind = "list" /\ ~e.searching)
    PROVE  Footing'
<1>1. CASE r.kind \in HeaderKinds /\ (Reply(r) \/ Fail(r))
  <2>1. PICK rows, z : HeaderDone(r, rows, z)
    BY <1>1, HeaderSteps
  <2>2. UNCHANGED <<mailbox, link, watch, news>>
    BY <1>1, HeaderSteps
  <2>3. Sound(e', mailbox')
    <3>1. Sound(z, mailbox)
      BY <1>1, <2>1, SettledIsSound DEF HeaderDone, Footing
    <3> QED BY <2>1, <2>2, <3>1, SteadyIsSound DEF HeaderDone
  <2>4. rows \subseteq 1 .. mailbox[r.folder]
    <3>1. Unhandled(r.folder) \subseteq 1 .. mailbox[r.folder]
      BY DEF Unhandled, Buffered, Footing, Sound, Bound
    <3> QED BY <2>1, <3>1 DEF HeaderDone
  <2>5. cached' \in [Boxes -> SUBSET Nat] /\ \A g \in Boxes : cached'[g] \subseteq 1 .. mailbox[g]
    BY <1>1, <2>1, <2>4, MoreCached DEF HeaderDone
  <2>6. \A q \in e'.out : ~q.dead \/ q \in e.out
    BY <2>1 DEF HeaderDone, Settled, Steady, New
  <2>7. link.up \/ \A q \in e'.out : q \in e.out
    BY <2>1 DEF HeaderDone, Settled, Steady
  <2>8. link.up \/ \A q \in e'.out : q.dead
    BY <2>7 DEF Footing
  <2> QED BY <2>2, <2>3, <2>5, <2>6, <2>8, FootingByEngine DEF Footing
<1>2. CASE OtherDone(r)
  <2>1. PICK z : Gone(e, r, z) /\ Steady(z, e')
    BY <1>2 DEF OtherDone
  <2>2. UNCHANGED <<mailbox, cached, link, watch, news>> /\ r.kind \notin HeaderKinds
    BY <1>2 DEF OtherDone
  <2>3. Sound(e', mailbox')
    <3>1. Sound(z, mailbox)
      BY <2>1, <2>2, GoneIsSound DEF Footing
    <3> QED BY <2>1, <2>2, <3>1, SteadyIsSound
  <2>4. \A q \in e'.out : ~q.dead \/ q \in e.out
    BY <2>1 DEF Gone, Steady, New
  <2>5. link.up \/ \A q \in e'.out : q.dead
    BY <2>1 DEF Gone, Steady, Footing
  <2> QED BY <2>2, <2>3, <2>4, <2>5, FootingByEngine DEF Footing
<1>3. ASSUME r.kind = "open", Reply(r)
      PROVE  Footing'
  <2>1. UNCHANGED <<mailbox, link>> /\ ~r.dead
    BY <1>3 DEF Reply
  <2>2. \E void \in BOOLEAN : Opened(r, void)
    BY <1>3 DEF Reply
  <2> QED BY <1>3, <2>1, <2>2, OpenFooting
<1>4. CASE Deliver(r)
  <2>1. PICK batch \in SUBSET r.left : Came(r, batch)
    BY <1>4, DeliverSteps
  <2>2. UNCHANGED <<mailbox, link, watch, news>> /\ r.kind \in HeaderKinds /\ ~r.dead
    BY <1>4, DeliverSteps
  <2>3. Sound(e', mailbox')
    BY <2>1, <2>2, CameIsSound
  <2>4. cached' \in [Boxes -> SUBSET Nat] /\ \A g \in Boxes : cached'[g] \subseteq 1 .. mailbox[g]
    <3>1. CASE Streamed(r)
      <4>1. batch \subseteq 1 .. mailbox[r.folder]
        BY <2>2 DEF Footing, Sound, Asked
      <4>2. cached' = [cached EXCEPT ![r.folder] = @ \cup batch]
        BY <2>1, <3>1 DEF Came
      <4> QED BY <2>2, <4>1, <4>2, MoreCached
    <3>2. CASE ~Streamed(r)
      BY <2>1, <3>2 DEF Came, Footing
    <3> QED BY <3>1, <3>2
  <2>5. link.up
    BY <2>2 DEF Footing
  <2>6. \A q \in e'.out : q \in e.out \/ q.dead = r.dead
    BY <2>1 DEF Came, Footing, Sound, Asked
  <2> QED BY <2>2, <2>3, <2>4, <2>5, <2>6, FootingByEngine DEF Footing
<1>5. r.kind \in Kinds
  BY DEF Footing, Sound, Asked
<1>6. Reply(r) /\ (r.kind = "bodies" \/ (r.kind = "list" /\ e.searching)) => OtherDone(r)
  BY OtherSteps
<1>7. Fail(r) /\ r.kind \in {"bodies", "list", "open"} => OtherDone(r)
  BY OtherSteps
<1> QED BY <1>1, <1>2, <1>3, <1>4, <1>5, <1>6, <1>7 DEF Kinds, HeaderKinds

LEMMA NextIs ==
    ASSUME Next
    PROVE  \/ Calm \/ Turn \/ Search \/ Drop \/ Shed \/ Connect
           \/ \E f \in Boxes : MailArrives(f)
           \/ \E r \in e.out : (Deliver(r) \/ Reply(r) \/ Fail(r)) /\ ~(Reply(r) /\ r.kind = "list" /\ ~e.searching)
<1>1. CASE Tick \/ Session
  BY <1>1 DEF Session, Calm
<1>2. CASE Server
  BY <1>2 DEF Server, Turn
<1>3. CASE User
  BY <1>3 DEF User, Calm, Turn
<1>4. CASE World
  BY <1>4 DEF World, Calm
<1> QED BY <1>1, <1>2, <1>3, <1>4 DEF Next

LEMMA FootingStep ==
    ASSUME Footing, SyncAssumption, [Next]_vars
    PROVE  Footing'
<1>1. CASE Calm
  BY <1>1, CalmFooting
<1>2. CASE \E f \in Boxes : MailArrives(f)
  BY <1>2, MailFooting
<1>3. ASSUME NEW r \in e.out, Deliver(r) \/ Reply(r) \/ Fail(r), ~(Reply(r) /\ r.kind = "list" /\ ~e.searching)
      PROVE  Footing'
  BY <1>3, ServerFooting
<1>4. CASE Turn
  <2>1. PICK x, f : /\ f \in Boxes /\ Engine(x) /\ Turned(x, f, e')
                    /\ x.pending = e.pending /\ x.crossed = e.crossed
                    /\ x.out = e.out \/ \E r \in e.out : x.out = e.out \ {r} /\ r.kind = "list"
    BY <1>4, TurnSteps
  <2>2. UNCHANGED <<mailbox, cached, link, watch, news>>
    BY <1>4, TurnSteps
  <2>3. x.out \subseteq e.out /\ \A q \in e.out : q.kind \in HeaderKinds => q \in x.out
    BY <2>1 DEF HeaderKinds
  <2>4. Sound(x, mailbox)
    <3>1. Bound(x, mailbox)
      BY <2>1, <2>3 DEF Footing, Sound, Bound
    <3> QED BY <2>1, <2>3, <3>1 DEF Footing, Sound, One
  <2>5. Sound(e', mailbox')
    BY <2>1, <2>2, <2>4, TurnedIsSound
  <2>6. \A q \in e'.out : ~q.dead \/ q \in e.out
    BY <2>1, <2>3 DEF Turned
  <2>7. link.up \/ \A q \in e'.out : q \in e.out
    BY <2>1, <2>3 DEF Turned
  <2>8. link.up \/ \A q \in e'.out : q.dead
    BY <2>7 DEF Footing
  <2> QED BY <2>2, <2>5, <2>6, <2>8, FootingByEngine DEF Footing
<1>6. CASE Search
  <2>1. Sound(e', mailbox)
    <3>1. Bound(e', mailbox) /\ One(e')
      BY <1>6, SearchSteps DEF Footing, Sound, Bound, One
    <3> QED BY <1>6, <3>1, SearchSteps DEF Footing, Sound
  <2> QED BY <1>6, <2>1, SearchSteps DEF Footing
<1>7. CASE Drop
  <2>1. Sound(e', mailbox')
    BY <1>7, DropSteps, AgingIsSound DEF Footing
  <2> QED BY <1>7, <2>1, DropSteps DEF Footing, Somewhere
<1>8. CASE Shed
  <2>1. Sound(e', mailbox')
    BY <1>8, ShedSteps, AgingIsSound DEF Footing
  <2> QED BY <1>8, <2>1, ShedSteps DEF Footing
<1>9. CASE Connect
  <2>1. PICK q : q.kind = "list" /\ ~q.dead /\ Asked(q, mailbox) /\ e'.out = e.out \cup {q}
    BY <1>9, ConnectSteps
  <2>2. /\ Unmoved(e, e') /\ (e'.crossed <=> e.crossed) /\ e.out = {}
        /\ UNCHANGED <<mailbox, cached, watch, news>> /\ link' = [up |-> TRUE, sync |-> FALSE]
    BY <1>9, ConnectSteps
  <2>3. Bound(e', mailbox) /\ One(e')
    BY <2>1, <2>2 DEF Footing, Sound, Bound, One, Unmoved
  <2>4. Sound(e', mailbox')
    BY <2>1, <2>2, <2>3 DEF Footing, Sound, Unmoved
  <2>5. link' = [i \in {"up", "sync"} |-> link'[i]] /\ link'.up
    BY <2>2
  <2> QED BY <2>1, <2>2, <2>4, <2>5 DEF Footing
<1>10. CASE UNCHANGED vars
  BY <1>10 DEF vars, disk, Footing
<1>11. Next => \/ Calm \/ Turn \/ Search \/ Drop \/ Shed \/ Connect
               \/ \E f \in Boxes : MailArrives(f)
               \/ \E r \in e.out : (Deliver(r) \/ Reply(r) \/ Fail(r)) /\ ~(Reply(r) /\ r.kind = "list" /\ ~e.searching)
  BY NextIs
<1> QED BY <1>1, <1>2, <1>3, <1>4, <1>6, <1>7, <1>8, <1>9, <1>10, <1>11

------------------------------------------------------------------------------
(* The list shows cached mail of the open folder.                           *)

Listing(x, C) ==
    ~x.searching /\ x.selected # NoFolder /\ ~x.crossed => x.shown \subseteq C[x.selected]

\* Rows shown as they landed stay in the cache until their request has been
\* answered, unless the folder was regenerated while another was open.
Kept(x, C) ==
    \A p \in x.pending : p.streamed =>
        /\ x.selected # NoFolder
        /\ ~x.crossed /\ ("void" \notin Events \/ (p.folder = x.selected /\ ~x.searching))
               => p.uid \in C[p.folder]

ListInv == Footing /\ Listing(e, cached) /\ Kept(e, cached)

LEMMA ReopenedLists ==
    ASSUME NEW x, NEW y, Reopened(x, y), NEW C, Listing(x, C), Kept(x, C)
    PROVE  Listing(y, C) /\ Kept(y, C)
<1>1. Listing(y, C)
  BY DEF Reopened, Listing
<1>2. Kept(y, C)
  BY DEF Reopened, Kept
<1> QED BY <1>1, <1>2

LEMMA HeadersList ==
    ASSUME ListInv, SyncAssumption, NEW r \in e.out, r.kind \in HeaderKinds, NEW rows, NEW z, HeaderDone(r, rows, z)
    PROVE  Listing(e', cached') /\ Kept(e', cached')
<1> DEFINE f == r.folder
<1>1. f \in Boxes
  BY DEF ListInv, Footing, Sound, Asked
<1>2. cached' = [cached EXCEPT ![f] = @ \cup rows]
  BY DEF HeaderDone
<1>3. \A g \in Boxes : cached[g] \subseteq cached'[g]
  BY <1>1, <1>2 DEF ListInv, Footing
<1>4. cached'[f] = cached[f] \cup rows
  BY <1>1, <1>2 DEF ListInv, Footing
<1>5. z.selected = e.selected /\ z.searching = e.searching /\ z.crossed = e.crossed
      /\ z.pending = {p \in e.pending : p.folder # f}
  BY DEF HeaderDone, Settled
<1>6. e.selected = NoFolder \/ e.selected \in Boxes
  BY DEF ListInv, Footing, Sound, Engine, Somewhere
<1>7. \A p \in e.pending : p.folder \in Boxes
  BY DEF ListInv, Footing, Sound, Bound, Asked
<1>8. Kept(z, cached')
  BY <1>3, <1>5, <1>7 DEF ListInv, Kept
<1>9. Listing(z, cached')
  <2>1. CASE z.shown = e.shown
    BY <1>3, <1>5, <1>6, <2>1 DEF ListInv, Listing
  <2>2. CASE /\ f = e.selected /\ ~e.searching /\ rows = Unhandled(f)
             /\ z.shown \subseteq e.shown \cup Uids(f) \cup cached[f]
    <3>1. SUFFICES ASSUME ~e.crossed
                   PROVE  z.shown \subseteq cached'[f]
      BY <1>5, <2>2 DEF Listing
    <3>2. e.shown \subseteq cached[f]
      <4>1. f # NoFolder
        BY <1>1 DEF SyncAssumption, Boxes
      <4> QED BY <2>2, <3>1, <4>1 DEF ListInv, Listing
    <3>3. ASSUME NEW p \in Buffered(f)
          PROVE  p.uid \in cached'[f]
      <4>1. p \in e.pending /\ p.folder = f
        BY DEF Buffered
      <4>2. CASE p.streamed
        <5>1. p.uid \in cached[f]
          BY <2>2, <3>1, <4>1, <4>2 DEF ListInv, Kept
        <5> QED BY <1>4, <5>1
      <4>3. CASE ~ \E q \in Buffered(f) : q.streamed /\ q.uid = p.uid
        <5>1. p.uid \in Unhandled(f)
          BY <4>3 DEF Unhandled
        <5> QED BY <1>4, <2>2, <5>1
      <4>4. CASE \E q \in Buffered(f) : q.streamed /\ q.uid = p.uid
        <5>1. PICK q \in Buffered(f) : q.streamed /\ q.uid = p.uid
          BY <4>4
        <5>2. q \in e.pending /\ q.folder = f
          BY <5>1 DEF Buffered
        <5>3. q.uid \in cached[f]
          BY <2>2, <3>1, <5>1, <5>2 DEF ListInv, Kept
        <5> QED BY <1>4, <5>1, <5>3
      <4> QED BY <4>3, <4>4
    <3>4. Uids(f) \subseteq cached'[f]
      BY <3>3 DEF Uids
    <3> QED BY <1>4, <2>2, <3>2, <3>4
  <2> QED BY <2>1, <2>2 DEF HeaderDone
<1>10. Reopened(z, e')
  BY SteadyReopens DEF HeaderDone
<1> QED BY <1>8, <1>9, <1>10, ReopenedLists

LEMMA OpensList ==
    ASSUME ListInv, SyncAssumption, NEW r \in e.out, r.kind = "open", ~r.dead, NEW void \in BOOLEAN, Opened(r, void),
           void => "void" \in Events
    PROVE  Listing(e', cached') /\ Kept(e', cached')
<1> DEFINE f == r.folder
<1>1. PICK x : /\ Gone(e, r, x) /\ Reopened(x, e')
               /\ (void /\ f = e.selected /\ ~e.searching =>
                            /\ e'.shown = {}
                            /\ e'.crossed \/ \A q \in x.out : q.kind \in HeaderKinds => q.folder # f)
  BY OpenSteps DEF ListInv
<1>2. cached' = [cached EXCEPT ![f] = Left(f, void)]
  BY OpenSteps DEF ListInv
<1>3. f \in Boxes
  BY DEF ListInv, Footing, Sound, Asked
<1>4. Listing(x, cached) /\ Kept(x, cached)
  BY <1>1 DEF ListInv, Listing, Kept, Gone, Unmoved
<1>5. Listing(e', cached) /\ Kept(e', cached)
  BY <1>1, <1>4, ReopenedLists
<1>6. \A g : g # f => cached'[g] = cached[g] \/ g \notin Boxes
  BY <1>2, <1>3 DEF ListInv, Footing
<1>7. e'.selected = e.selected /\ e'.searching = e.searching /\ e'.pending = e.pending /\ Engine(e')
  BY <1>1 DEF Gone, Reopened, Unmoved
<1>8. CASE ~void
  <2>1. cached' = cached
    BY <1>2, <1>8 DEF Left, ListInv, Footing
  <2> QED BY <1>5, <2>1
<1>9. CASE void
  <2>1. Listing(e', cached')
    <3>1. CASE e.selected = f
      BY <1>1, <1>7, <1>9, <3>1 DEF Listing
    <3>2. CASE e.selected # f
      BY <1>5, <1>6, <1>7, <3>2 DEF Listing, Engine, Somewhere
    <3> QED BY <3>1, <3>2
  <2>2. ASSUME NEW p \in e'.pending, p.streamed
        PROVE  /\ e'.selected # NoFolder
               /\ ~e'.crossed /\ ("void" \notin Events \/ (p.folder = e'.selected /\ ~e'.searching))
                    => p.uid \in cached'[p.folder]
    <3>1. e'.selected # NoFolder
      BY <1>5, <2>2 DEF Kept
    <3>2. SUFFICES ASSUME ~e'.crossed, p.folder = e.selected, ~e.searching
                   PROVE  p.uid \in cached'[p.folder]
      BY <1>7, <1>9, <3>1
    <3>3. PICK q \in e.out : q.kind \in HeaderKinds /\ q.folder = p.folder
      BY <1>7, <2>2 DEF ListInv, Footing, Sound, Bound
    <3>4. q \in x.out
      BY <1>1, <3>3 DEF Gone, HeaderKinds
    <3>5. p.folder # f
      BY <1>1, <1>9, <3>2, <3>3, <3>4
    <3>6. p.folder \in Boxes
      BY <3>3 DEF ListInv, Footing, Sound, Asked
    <3>7. p.uid \in cached[p.folder]
      BY <1>5, <1>7, <2>2, <3>2 DEF Kept
    <3> QED BY <1>6, <3>5, <3>6, <3>7
  <2> QED BY <2>1, <2>2 DEF Kept
<1> QED BY <1>8, <1>9

LEMMA RowsList ==
    ASSUME ListInv, SyncAssumption, NEW r \in e.out, r.kind \in HeaderKinds, NEW batch \in SUBSET r.left, Came(r, batch)
    PROVE  Listing(e', cached') /\ Kept(e', cached')
<1> DEFINE f == r.folder
<1>1. f \in Boxes
  BY DEF ListInv, Footing, Sound, Asked
<1>2. e'.selected = e.selected /\ e'.searching = e.searching /\ e'.crossed = e.crossed
  BY DEF Came
<1>3. e.selected = NoFolder \/ e.selected \in Boxes
  BY DEF ListInv, Footing, Sound, Engine, Somewhere
<1>4. CASE Streamed(r)
  <2>1. cached' = [cached EXCEPT ![f] = @ \cup batch] /\ f = e.selected
        /\ e'.shown = IF ~e.searching THEN e.shown \cup batch ELSE e.shown
    BY <1>4 DEF Came, Streamed
  <2>2. \A g \in Boxes : cached[g] \subseteq cached'[g]
    BY <1>1, <2>1 DEF ListInv, Footing
  <2>3. batch \subseteq cached'[f]
    BY <1>1, <2>1 DEF ListInv, Footing
  <2>4. Listing(e', cached')
    BY <1>1, <1>2, <2>1, <2>2, <2>3 DEF ListInv, Listing
  <2>5. ASSUME NEW p \in e'.pending, p.streamed
        PROVE  /\ e'.selected # NoFolder
               /\ ~e'.crossed /\ ("void" \notin Events \/ (p.folder = e'.selected /\ ~e'.searching))
                    => p.uid \in cached'[p.folder]
    <3>1. CASE p \in e.pending
      <4>1. p.folder \in Boxes
        BY <3>1 DEF ListInv, Footing, Sound, Bound, Asked
      <4> QED BY <1>2, <2>2, <2>5, <3>1, <4>1 DEF ListInv, Kept
    <3>2. CASE p \notin e.pending
      <4>1. p.folder = f /\ p.uid \in batch
        BY <3>2 DEF Came
      <4>2. f # NoFolder
        BY <1>1 DEF SyncAssumption, Boxes
      <4> QED BY <1>2, <2>1, <2>3, <4>1, <4>2
    <3> QED BY <3>1, <3>2
  <2> QED BY <2>4, <2>5 DEF Kept
<1>5. CASE ~Streamed(r)
  <2>1. cached' = cached /\ e'.shown = e.shown
    BY <1>5 DEF Came
  <2>2. \A p \in e'.pending : p \in e.pending \/ ~p.streamed
    BY <1>5 DEF Came
  <2> QED BY <1>2, <2>1, <2>2 DEF ListInv, Listing, Kept
<1> QED BY <1>4, <1>5

Untangled == "void" \notin Events \/ Events \cap {"overlap", "walked"} = {}

LEMMA TurnsList ==
    ASSUME ListInv, SyncAssumption, Turn, Untangled
    PROVE  Listing(e', cached') /\ Kept(e', cached')
<1>1. PICK x, f : /\ f \in Boxes /\ Turned(x, f, e')
                  /\ x.selected = e.selected /\ x.pending = e.pending /\ x.crossed = e.crossed
                  /\ \/ /\ x.out = e.out /\ x.shown = e.shown
                        /\ f # e.selected /\ (f = e.walking => "walked" \in Events)
                        /\ (f # e.walking /\ Overlap(f) => "overlap" \in Events)
                     \/ /\ x.out = e.out /\ x.shown = {} /\ f = e.selected /\ e.searching
                        /\ (Overlap(f) => "overlap" \in Events)
                     \/ /\ x.shown = e.shown /\ ~e.searching
                        /\ e.selected = NoFolder \/ f = e.selected
  BY TurnSteps DEF ListInv
<1>2. cached' = cached
  BY TurnSteps DEF ListInv
<1>3. f # NoFolder
  BY <1>1 DEF SyncAssumption, Boxes
<1>4. /\ e'.selected = f /\ ~e'.searching /\ (e'.crossed <=> e.crossed) /\ e'.pending = e.pending
      /\ e'.shown = cached[f] \/ (f = e.selected /\ x.shown # {} /\ e'.shown = x.shown)
  BY <1>1 DEF Turned
<1>5. Listing(e', cached')
  BY <1>1, <1>2, <1>3, <1>4 DEF ListInv, Listing
<1>6. ASSUME NEW p \in e.pending, p.streamed, ~e.crossed, "void" \notin Events \/ p.folder = f
      PROVE  p.uid \in cached[p.folder]
  <2>1. CASE "void" \notin Events
    BY <1>6, <2>1 DEF ListInv, Kept
  <2>2. CASE "void" \in Events
    <3>1. PICK q \in e.out : q.kind \in HeaderKinds /\ q.folder = p.folder
      BY <1>6 DEF ListInv, Footing, Sound, Bound
    <3>2. Overlap(f)
      BY <1>6, <2>2, <3>1 DEF Overlap, HeaderKinds
    <3>3. "overlap" \notin Events /\ "walked" \notin Events
      BY <2>2 DEF Untangled
    <3>4. ~e.searching /\ (e.selected = NoFolder \/ f = e.selected)
      BY <1>1, <3>2, <3>3
    <3> QED BY <1>6, <2>2, <3>4 DEF ListInv, Kept
  <2> QED BY <2>1, <2>2
<1>7. Kept(e', cached')
  BY <1>2, <1>3, <1>4, <1>6 DEF Kept
<1> QED BY <1>5, <1>7

LEMMA ListStep ==
    ASSUME ListInv, SyncAssumption, Untangled, [Next]_vars
    PROVE  ListInv'
<1>1. Footing'
  BY FootingStep DEF ListInv
<1> SUFFICES Listing(e', cached') /\ Kept(e', cached')
  BY <1>1 DEF ListInv
<1>2. CASE Calm
  <2>1. Reopened(e, e') /\ cached' = cached
    BY <1>2, CalmIsSteady, CalmFrame, SteadyReopens DEF ListInv
  <2> QED BY <2>1, ReopenedLists DEF ListInv
<1>3. CASE \E f \in Boxes : MailArrives(f)
  <2>1. e' = e /\ cached' = cached
    BY <1>3, MailFooting DEF ListInv
  <2> QED BY <2>1 DEF ListInv
<1>4. CASE Turn
  BY <1>4, TurnsList
<1>5. CASE Search
  BY <1>5, SearchSteps DEF ListInv, Listing, Kept
<1>6. CASE Drop \/ Shed
  <2>1. Aged(e, e') /\ cached' = cached
    BY <1>6, DropSteps, ShedSteps DEF ListInv
  <2> QED BY <2>1 DEF ListInv, Listing, Kept, Aged, Unmoved
<1>7. CASE Connect
  <2>1. Unmoved(e, e') /\ (e'.crossed <=> e.crossed) /\ cached' = cached
    BY <1>7, ConnectSteps DEF ListInv
  <2> QED BY <2>1 DEF ListInv, Listing, Kept, Unmoved
<1>8. ASSUME NEW r \in e.out, Deliver(r) \/ Reply(r) \/ Fail(r), ~(Reply(r) /\ r.kind = "list" /\ ~e.searching)
      PROVE  Listing(e', cached') /\ Kept(e', cached')
  <2>1. CASE Deliver(r)
    <3>1. PICK batch \in SUBSET r.left : Came(r, batch)
      BY <2>1, DeliverSteps DEF ListInv
    <3> QED BY <2>1, <3>1, DeliverSteps, RowsList DEF ListInv
  <2>2. CASE r.kind \in HeaderKinds /\ (Reply(r) \/ Fail(r))
    <3>1. PICK rows, z : HeaderDone(r, rows, z)
      BY <2>2, HeaderSteps DEF ListInv
    <3> QED BY <2>2, <3>1, HeadersList
  <2>3. CASE OtherDone(r)
    <3>1. PICK z : Gone(e, r, z) /\ Steady(z, e')
      BY <2>3 DEF OtherDone
    <3>2. cached' = cached
      BY <2>3 DEF OtherDone
    <3>3. Listing(z, cached) /\ Kept(z, cached)
      BY <3>1 DEF ListInv, Listing, Kept, Gone, Unmoved
    <3> QED BY <3>1, <3>2, <3>3, SteadyReopens, ReopenedLists
  <2>4. CASE r.kind = "open" /\ Reply(r)
    <3>1. \E void \in BOOLEAN : Opened(r, void) /\ (void => "void" \in Events)
      BY <2>4 DEF Reply, Happens
    <3>2. ~r.dead
      BY <2>4 DEF Reply
    <3> QED BY <2>4, <3>1, <3>2, OpensList
  <2>5. r.kind \in Kinds
    BY DEF ListInv, Footing, Sound, Asked
  <2>6. Reply(r) /\ (r.kind = "bodies" \/ (r.kind = "list" /\ e.searching)) => OtherDone(r)
    BY OtherSteps DEF ListInv
  <2>7. Fail(r) /\ r.kind \in {"bodies", "list", "open"} => OtherDone(r)
    BY OtherSteps DEF ListInv
  <2> QED BY <1>8, <2>1, <2>2, <2>3, <2>4, <2>5, <2>6, <2>7 DEF Kinds, HeaderKinds
<1>9. CASE UNCHANGED vars
  BY <1>9 DEF vars, disk, ListInv
<1> QED BY <1>2, <1>3, <1>4, <1>5, <1>6, <1>7, <1>8, <1>9, NextIs

\* ListIsOfOpenFolder: whatever stream brings rows and whatever the user opens
\* meanwhile, the list shows mail the cache holds of the open folder, unless
\* two requests for the headers of one folder crossed, or a folder was
\* regenerated while rows of it were on their way and opened again before they
\* had all come.
THEOREM ListsAreOfTheOpenFolder ==
    ASSUME SyncAssumption, Untangled
    PROVE  Spec => []ListIsOfOpenFolder
<1>1. Init => ListInv
  <2>1. ASSUME Init
        PROVE  ListInv
    <3>1. Footing
      BY <2>1, FootingInit
    <3>2. Listing(e, cached) /\ Kept(e, cached)
      BY <2>1 DEF Init, Listing, Kept
    <3> QED BY <3>1, <3>2 DEF ListInv
  <2> QED BY <2>1
<1>2. ListInv /\ [Next]_vars => ListInv'
  BY ListStep
<1>3. ListInv => ListIsOfOpenFolder
  BY DEF ListInv, Listing, ListIsOfOpenFolder
<1> QED BY <1>1, <1>2, <1>3, PTL DEF Spec

------------------------------------------------------------------------------
(* The user is watching the folder on screen.                               *)

\* Until push watches the open folder, an open of it is on its way, or the
\* folder list that will bring one.
Waiting(x, w, up) ==
    up /\ ~x.searching /\ x.selected # NoFolder =>
        (\E r \in x.out : r.kind = "list") \/ x.intent = "open" \/ w = x.selected

OpenInv == Footing /\ Waiting(e, watch, link.up)

Unopposed == Events \cap {"overtake", "denied"} = {}

LEMMA SteadyWaits ==
    ASSUME NEW x, NEW y, Steady(x, y), NEW w, NEW up, Waiting(x, w, up), Unopposed
    PROVE  Waiting(y, w, up)
<1>1. x.intent = "open" => y.intent = "open"
  BY DEF Steady, Unopposed
<1>2. (\E r \in x.out : r.kind = "list") => \E r \in y.out : r.kind = "list"
  BY DEF Steady
<1> QED BY <1>1, <1>2 DEF Waiting, Steady, Unmoved

LEMMA OpenStep ==
    ASSUME OpenInv, SyncAssumption, Unopposed, [Next]_vars
    PROVE  OpenInv'
<1>1. Footing'
  BY FootingStep DEF OpenInv
<1> SUFFICES Waiting(e', watch', link'.up)
  BY <1>1 DEF OpenInv
<1>2. CASE Calm
  <2>1. Steady(e, e') /\ watch' = watch /\ link'.up = link.up
    BY <1>2, CalmIsSteady, CalmFrame DEF OpenInv
  <2> QED BY <2>1, SteadyWaits DEF OpenInv
<1>3. CASE \E f \in Boxes : MailArrives(f)
  <2>1. e' = e /\ watch' = watch /\ link' = link
    BY <1>3, MailFooting DEF OpenInv
  <2> QED BY <2>1 DEF OpenInv
<1>4. CASE Turn
  <2>1. link' = link /\ (link.up => e'.intent = "open")
    BY <1>4, TurnSteps DEF OpenInv, Turned
  <2> QED BY <2>1 DEF Waiting
<1>5. CASE Search
  BY <1>5, SearchSteps DEF OpenInv, Waiting
<1>6. CASE Drop
  BY <1>6, DropSteps DEF OpenInv, Waiting
<1>7. CASE Shed
  <2>1. Aged(e, e') /\ watch' = watch /\ link.up /\ e'.intent = e.intent
    BY <1>7, ShedSteps DEF OpenInv
  <2>2. (\E r \in e.out : r.kind = "list") => \E r \in e'.out : r.kind = "list"
    <3>1. PICK D \in [e.out -> BOOLEAN] : e'.out = {[r EXCEPT !.dead = D[r]] : r \in e.out}
      BY <2>1 DEF Aged
    <3>2. ASSUME NEW r \in e.out, r.kind = "list"
          PROVE  \E q \in e'.out : q.kind = "list"
      <4> DEFINE q == [r EXCEPT !.dead = D[r]]
      <4>1. q \in e'.out
        BY <3>1
      <4>2. q.kind = "list"
        BY <3>2 DEF OpenInv, Footing, Sound, Asked
      <4> HIDE DEF q
      <4> QED BY <4>1, <4>2
    <3> QED BY <3>2
  <2> QED BY <2>1, <2>2 DEF OpenInv, Waiting, Aged, Unmoved
<1>8. CASE Connect
  <2>1. \E r \in e'.out : r.kind = "list"
    BY <1>8, ConnectSteps DEF OpenInv
  <2> QED BY <2>1 DEF Waiting
<1>9. ASSUME NEW r \in e.out, Deliver(r) \/ Reply(r) \/ Fail(r), ~(Reply(r) /\ r.kind = "list" /\ ~e.searching)
      PROVE  Waiting(e', watch', link'.up)
  <2>1. CASE Deliver(r)
    <3>1. PICK batch \in SUBSET r.left : Came(r, batch)
      BY <2>1, DeliverSteps DEF OpenInv
    <3>2. r.kind # "list" /\ watch' = watch /\ link' = link
      BY <2>1, DeliverSteps DEF OpenInv, HeaderKinds
    <3>3. (\E q \in e.out : q.kind = "list") => \E q \in e'.out : q.kind = "list"
      BY <3>1, <3>2 DEF Came
    <3> QED BY <3>1, <3>2, <3>3 DEF OpenInv, Waiting, Came
  <2>2. CASE r.kind \in HeaderKinds /\ (Reply(r) \/ Fail(r))
    <3>1. PICK rows, z : HeaderDone(r, rows, z)
      BY <2>2, HeaderSteps DEF OpenInv
    <3>2. watch' = watch /\ link' = link
      BY <2>2, HeaderSteps DEF OpenInv
    <3>3. (\E q \in e.out : q.kind = "list") => \E q \in z.out : q.kind = "list"
      BY <2>2, <3>1 DEF HeaderDone, Settled, HeaderKinds
    <3>4. Waiting(z, watch, link.up)
      BY <3>1, <3>3 DEF OpenInv, Waiting, HeaderDone, Settled
    <3> QED BY <3>1, <3>2, <3>4, SteadyWaits DEF HeaderDone
  <2>3. CASE OtherDone(r)
    <3>1. PICK z : Gone(e, r, z) /\ Steady(z, e')
      BY <2>3 DEF OtherDone
    <3>2. watch' = watch /\ link' = link
      BY <2>3 DEF OtherDone
    <3>3. CASE r.kind # "list"
      <4>1. (\E q \in e.out : q.kind = "list") => \E q \in z.out : q.kind = "list"
        BY <3>1, <3>3 DEF Gone
      <4>2. Waiting(z, watch, link.up)
        BY <3>1, <4>1 DEF OpenInv, Waiting, Gone, Unmoved
      <4> QED BY <3>1, <3>2, <4>2, SteadyWaits
    <3>4. CASE r.kind = "list" /\ Reply(r)
      <4>1. e'.searching
        BY <1>9, <3>1, <3>4 DEF Gone, Steady, Unmoved, OpenInv, Footing, Sound, Engine
      <4> QED BY <4>1 DEF Waiting
    <3>5. CASE r.kind = "list" /\ Fail(r)
      <4>1. CASE r.dead
        <5>1. ~r.ask.back
          BY <3>5 DEF OpenInv, Footing, Sound, Asked
        <5>2. ~link.up
          BY <3>5, <4>1, <5>1 DEF OpenInv, Footing
        <5> QED BY <3>2, <5>2 DEF Waiting
      <4>2. CASE ~r.dead
        <5>1. "denied" \in Events
          BY <3>5, <4>2 DEF Fail, Happens
        <5> QED BY <5>1 DEF Unopposed
      <4> QED BY <4>1, <4>2
    <3>6. CASE r.kind = "list" /\ Deliver(r)
      BY <2>1, <3>6
    <3> QED BY <1>9, <3>3, <3>4, <3>5, <3>6
  <2>4. CASE r.kind = "open" /\ Reply(r)
    <3>1. PICK void \in BOOLEAN : Opened(r, void)
      BY <2>4 DEF Reply
    <3>2. link' = link
      BY <2>4 DEF Reply
    <3>3. PICK x : Gone(e, r, x) /\ Reopened(x, e') /\ (r.folder # e.selected => Same(x, e'))
      BY <2>4, <3>1, OpenSteps DEF OpenInv
    <3>4. watch' = IF r.folder = e.selected /\ e.intent = "open" THEN r.folder ELSE watch
      BY <2>4, <3>1, OpenSteps DEF OpenInv
    <3>5. e'.selected = e.selected /\ e'.searching = e.searching
      BY <3>3 DEF Gone, Reopened, Unmoved
    <3>6. (\E q \in e.out : q.kind = "list") => \E q \in e'.out : q.kind = "list"
      BY <2>4, <3>3 DEF Gone, Reopened
    <3>7. r.folder # e.selected /\ e.intent = "open" => e'.intent = "open"
      BY <3>3 DEF Gone, Same
    <3> QED BY <3>2, <3>4, <3>5, <3>6, <3>7 DEF OpenInv, Waiting
  <2>5. r.kind \in Kinds
    BY DEF OpenInv, Footing, Sound, Asked
  <2>6. Reply(r) /\ (r.kind = "bodies" \/ (r.kind = "list" /\ e.searching)) => OtherDone(r)
    BY OtherSteps DEF OpenInv
  <2>7. Fail(r) /\ r.kind \in {"bodies", "list", "open"} => OtherDone(r)
    BY OtherSteps DEF OpenInv
  <2> QED BY <1>9, <2>1, <2>2, <2>3, <2>4, <2>5, <2>6, <2>7 DEF Kinds, HeaderKinds
<1>10. CASE UNCHANGED vars
  BY <1>10 DEF vars, disk, OpenInv
<1> QED BY <1>2, <1>3, <1>4, <1>5, <1>6, <1>7, <1>8, <1>9, <1>10, NextIs

\* OpenIsHonoured: when no open or folder list is on its way, push watches the
\* folder on screen: the user's open was not lost among refreshes, searches
\* and dropped connections.  A refresh that overtakes an open, and a server
\* that refuses an open or the list, are left out: the client asks no more.
THEOREM OpensAreHonoured ==
    ASSUME SyncAssumption, Unopposed
    PROVE  Spec => []OpenIsHonoured
<1>1. Init => OpenInv
  <2>1. ASSUME Init
        PROVE  OpenInv
    <3>1. Footing
      BY <2>1, FootingInit
    <3>2. Waiting(e, watch, link.up)
      BY <2>1 DEF Init, Waiting
    <3> QED BY <3>1, <3>2 DEF OpenInv
  <2> QED BY <2>1
<1>2. OpenInv /\ [Next]_vars => OpenInv'
  BY OpenStep
<1>3. OpenInv => OpenIsHonoured
  BY DEF OpenInv, Waiting, OpenIsHonoured
<1> QED BY <1>1, <1>2, <1>3, PTL DEF Spec

------------------------------------------------------------------------------
(* What the cursor counts has been fetched.                                 *)

\* The open folder is watched by push and nothing has come between the
\* engine's requests for it.
Watched(x, w) ==
    ~x.crossed /\ ~x.holed /\ ~x.searching /\ x.selected # NoFolder /\ w = x.selected /\ x.intent # "open"

\* Rows of the open folder that have come and wait for their request's end.
Held(x, f) == {p \in x.pending : p.folder = f}
Landing(x, u) == \E p \in Held(x, x.selected) : p.uid = u

Newest(x, r) == r.folder = x.selected /\ (r.kind = "since" \/ (r.kind = "window" /\ ~r.ask.back))

\* What is counted is cached, or comes with a request for the newest mail.
Counted(x, c, n) ==
    \A u \in 1 .. x.total : u + x.fetched > n =>
        u \in c \/ \E r \in x.out : Newest(x, r) /\ (u \in r.left \/ Landing(x, u))

\* What a window will count when it is answered.
Windows(x, c, n) ==
    \A r \in x.out : r.kind = "window" /\ r.folder = x.selected =>
        \A u \in 1 .. x.total : u + r.ask.from + r.ask.n > n /\ u + x.total > n =>
            u \in c \/ u \in r.left \/ Landing(x, u)

\* And what a request for the mail above the cached block will.
Newer(x, c, n) ==
    \A r \in x.out : r.kind = "since" /\ r.folder = x.selected =>
        \A u \in 1 .. x.total : u + r.ask.base + Cardinality(Held(x, x.selected)) + Cardinality(r.left) > n =>
            u \in c \/ u \in r.left \/ Landing(x, u)

Landed(x, c) == \A p \in Held(x, x.selected) : p.streamed => p.uid \in c

Cursor(x, c, n) ==
    x.total <= n /\ Counted(x, c, n) /\ Windows(x, c, n) /\ Newer(x, c, n) /\ Landed(x, c)

CursorInv == Footing /\ (Watched(e, watch) => Cursor(e, cached[e.selected], mailbox[e.selected]))

Unrefused == Events \cap {"overtake", "refuse"} = {}

\* Without a request for its headers no row of a folder is waiting.
LEMMA NothingHeld ==
    ASSUME NEW x, NEW M, Sound(x, M), NEW f, \A r \in x.out : r.kind \in HeaderKinds => r.folder # f
    PROVE  Held(x, f) = {}
BY DEF Sound, Bound, Held

\* An engine with no request for headers of the open folder.
LEMMA RestingCursor ==
    ASSUME NEW x, NEW M, Sound(x, M), \A r \in x.out : r.kind \in HeaderKinds => r.folder # x.selected,
           NEW c, NEW n, x.total <= n, \A u \in 1 .. x.total : u + x.fetched > n => u \in c
    PROVE  Cursor(x, c, n)
<1>1. Held(x, x.selected) = {}
  BY NothingHeld
<1> QED BY <1>1 DEF Cursor, Counted, Windows, Newer, Landed, HeaderKinds

LEMMA SteadyCursor ==
    ASSUME NEW x, NEW y, Sound(x, mailbox), Steady(x, y), ~y.crossed, NEW c, NEW n, n = mailbox[x.selected], n \in Nat,
           Cursor(x, c, n)
    PROVE  Cursor(y, c, n)
<1>1. /\ y.selected = x.selected /\ y.pending = x.pending /\ y.total = x.total /\ y.fetched = x.fetched
      /\ x.out \subseteq y.out /\ Engine(x)
  BY DEF Steady, Unmoved, Sound
<1>2. Held(y, y.selected) = Held(x, x.selected) /\ \A u : Landing(y, u) <=> Landing(x, u)
  BY <1>1 DEF Held, Landing
<1>3. Counted(y, c, n)
  BY <1>1, <1>2 DEF Cursor, Counted, Newest
<1>4. ASSUME NEW q \in y.out \ x.out, q.kind \in HeaderKinds, q.folder = x.selected
      PROVE  /\ q.kind = "window" /\ Asked(q, mailbox)
             /\ \A u \in 1 .. x.total : u + x.fetched > n => u \in c
             /\ x.fetched >= x.total \/ (q.ask.from = x.fetched /\ q.left = Rows(q.folder, q.ask.from, q.ask.n))
  <2>1. New(x, y, q)
    BY <1>4 DEF Steady
  <2>2. \A r \in x.out : r.kind \in HeaderKinds => r.folder # x.selected
    BY <1>4, <2>1 DEF New
  <2>3. \A u \in 1 .. x.total : u + x.fetched > n => u \in c
    BY <2>2 DEF Cursor, Counted, Newest, HeaderKinds
  <2> QED BY <1>4, <2>1, <2>3 DEF New, Onward
<1>5. Windows(y, c, n)
  <2> SUFFICES ASSUME NEW q \in y.out, q.kind = "window", q.folder = y.selected,
                      NEW u \in 1 .. y.total, u + q.ask.from + q.ask.n > n, u + y.total > n
               PROVE  u \in c \/ u \in q.left \/ Landing(y, u)
    BY DEF Windows
  <2>1. CASE q \in x.out
    BY <1>1, <1>2, <2>1 DEF Cursor, Windows
  <2>2. CASE q \notin x.out
    <3>1. q.kind \in HeaderKinds
      BY DEF HeaderKinds
    <3>2. /\ Asked(q, mailbox) /\ \A v \in 1 .. x.total : v + x.fetched > n => v \in c
          /\ x.fetched >= x.total \/ (q.ask.from = x.fetched /\ q.left = Rows(q.folder, q.ask.from, q.ask.n))
      BY <1>1, <1>4, <2>2, <3>1
    <3>3. u \in Nat /\ x.fetched \in Nat /\ x.total \in Nat /\ q.ask.from \in Nat /\ q.ask.n \in Nat /\ u >= 1 /\ u <= x.total
      BY <1>1, <3>1, <3>2 DEF Engine, Asked
    <3>4. CASE u + x.fetched > n
      BY <1>1, <3>2, <3>4
    <3>5. CASE ~(u + x.fetched > n)
      <4>1. ~(x.fetched >= x.total)
        BY <1>1, <3>3, <3>5
      <4>2. q.left = {v \in 1 .. n : v + x.fetched <= n /\ n < v + x.fetched + q.ask.n} /\ q.ask.from = x.fetched
        BY <1>1, <3>2, <4>1 DEF Rows
      <4>3. u \in 1 .. n /\ u + x.fetched <= n /\ n < u + x.fetched + q.ask.n
        BY <3>3, <3>5, <4>2 DEF Cursor
      <4> QED BY <4>2, <4>3
    <3> QED BY <3>4, <3>5
  <2> QED BY <2>1, <2>2
<1>6. Newer(y, c, n)
  <2>1. \A q \in y.out : q.kind = "since" /\ q.folder = y.selected => q \in x.out
    BY <1>1, <1>4 DEF HeaderKinds
  <2> QED BY <1>1, <1>2, <2>1 DEF Cursor, Newer
<1>7. Landed(y, c)
  BY <1>2 DEF Cursor, Landed
<1> QED BY <1>1, <1>3, <1>5, <1>6, <1>7 DEF Cursor

LEMMA GoneCursor ==
    ASSUME NEW x, NEW r, NEW y, Gone(x, r, y), r.kind \notin HeaderKinds, NEW c, NEW n, Cursor(x, c, n)
    PROVE  Cursor(y, c, n)
<1>1. /\ y.selected = x.selected /\ y.pending = x.pending /\ y.total = x.total /\ y.fetched = x.fetched
      /\ y.out = x.out \ {r}
  BY DEF Gone, Unmoved
<1>2. Held(y, y.selected) = Held(x, x.selected) /\ \A u : Landing(y, u) <=> Landing(x, u)
  BY <1>1 DEF Held, Landing
<1>3. Counted(y, c, n)
  BY <1>1, <1>2 DEF Cursor, Counted, Newest, HeaderKinds
<1>4. Windows(y, c, n)
  BY <1>1, <1>2 DEF Cursor, Windows
<1>5. Newer(y, c, n)
  BY <1>1, <1>2 DEF Cursor, Newer
<1>6. Landed(y, c)
  BY <1>1, <1>2 DEF Cursor, Landed
<1> QED BY <1>1, <1>3, <1>4, <1>5, <1>6 DEF Cursor

\* Requests that die with a connection ask for the same.
LEMMA AgedCursor ==
    ASSUME NEW x, NEW y, NEW M, Sound(x, M), Aged(x, y), NEW c, NEW n, Cursor(x, c, n)
    PROVE  Cursor(y, c, n)
<1>1. PICK D \in [x.out -> BOOLEAN] : y.out = {[r EXCEPT !.dead = D[r]] : r \in x.out}
  BY DEF Aged
<1>2. /\ y.selected = x.selected /\ y.pending = x.pending /\ y.total = x.total /\ y.fetched = x.fetched
  BY DEF Aged, Unmoved
<1>3. ASSUME NEW r \in x.out
      PROVE  LET q == [r EXCEPT !.dead = D[r]]
             IN  q \in y.out /\ q.kind = r.kind /\ q.folder = r.folder /\ q.left = r.left /\ q.ask = r.ask
  BY <1>1 DEF Sound, Asked
<1>4. \A r \in x.out : \E q \in y.out : q.kind = r.kind /\ q.folder = r.folder /\ q.left = r.left /\ q.ask = r.ask
  BY <1>3
<1>5. \A q \in y.out : \E r \in x.out : q.kind = r.kind /\ q.folder = r.folder /\ q.left = r.left /\ q.ask = r.ask
  BY ZenonT(60), <1>1, <1>3
<1>6. Held(y, y.selected) = Held(x, x.selected) /\ \A u : Landing(y, u) <=> Landing(x, u)
  BY <1>2 DEF Held, Landing
<1>7. Counted(y, c, n)
  <2> SUFFICES ASSUME NEW u \in 1 .. y.total, u + y.fetched > n, u \notin c
               PROVE  \E q \in y.out : Newest(y, q) /\ (u \in q.left \/ Landing(y, u))
    BY DEF Counted
  <2>1. PICK r \in x.out : Newest(x, r) /\ (u \in r.left \/ Landing(x, u))
    BY <1>2 DEF Cursor, Counted
  <2>2. PICK q \in y.out : q.kind = r.kind /\ q.folder = r.folder /\ q.left = r.left /\ q.ask = r.ask
    BY <1>4
  <2> QED BY <1>2, <1>6, <2>1, <2>2 DEF Newest
<1>8. Windows(y, c, n)
  <2> SUFFICES ASSUME NEW q \in y.out, q.kind = "window", q.folder = y.selected,
                      NEW u \in 1 .. y.total, u + q.ask.from + q.ask.n > n, u + y.total > n
               PROVE  u \in c \/ u \in q.left \/ Landing(y, u)
    BY DEF Windows
  <2>1. PICK r \in x.out : q.kind = r.kind /\ q.folder = r.folder /\ q.left = r.left /\ q.ask = r.ask
    BY <1>5
  <2> QED BY <1>2, <1>6, <2>1 DEF Cursor, Windows
<1>9. Newer(y, c, n)
  <2> SUFFICES ASSUME NEW q \in y.out, q.kind = "since", q.folder = y.selected, NEW u \in 1 .. y.total,
                      u + q.ask.base + Cardinality(Held(y, y.selected)) + Cardinality(q.left) > n
               PROVE  u \in c \/ u \in q.left \/ Landing(y, u)
    BY DEF Newer
  <2>1. PICK r \in x.out : q.kind = r.kind /\ q.folder = r.folder /\ q.left = r.left /\ q.ask = r.ask
    BY <1>5
  <2> QED BY <1>2, <1>6, <2>1 DEF Cursor, Newer
<1>10. Landed(y, c)
  BY <1>2, <1>6 DEF Cursor, Landed
<1> QED BY <1>2, <1>7, <1>8, <1>9, <1>10 DEF Cursor

LEMMA SpanIsFinite ==
    ASSUME NEW n \in Nat, NEW S, S \subseteq 1 .. n
    PROVE  IsFiniteSet(S) /\ Cardinality(S) \in Nat
<1>1. 1 \in Int /\ n \in Int
  OBVIOUS
<1>2. IsFiniteSet(1 .. n)
  BY <1>1, FS_Interval
<1> QED BY <1>2, FS_Subset, FS_CardinalityType

\* Mail that arrives is above all the cursor counts.
LEMMA GrownCursor ==
    ASSUME NEW x, NEW M, Sound(x, M), M[x.selected] \in Nat, NEW c, NEW n \in Nat, NEW m \in Nat, m >= n, Cursor(x, c, n)
    PROVE  Cursor(x, c, m)
<1>1. Engine(x) /\ IsFiniteSet(x.pending) /\ \A r \in x.out : Asked(r, M)
  BY DEF Sound
<1>2. Counted(x, c, m) /\ x.total <= m
  <2>1. x.total \in Nat /\ x.fetched \in Nat /\ x.total <= n
    BY <1>1 DEF Cursor, Engine
  <2>2. \A u \in 1 .. x.total : u + x.fetched > m => u + x.fetched > n
    BY <2>1
  <2> QED BY <2>1, <2>2 DEF Cursor, Counted
<1>3. Windows(x, c, m)
  <2> SUFFICES ASSUME NEW r \in x.out, r.kind = "window", r.folder = x.selected,
                      NEW u \in 1 .. x.total, u + r.ask.from + r.ask.n > m, u + x.total > m
               PROVE  u \in c \/ u \in r.left \/ Landing(x, u)
    BY DEF Windows
  <2>1. r.ask.from \in Nat /\ r.ask.n \in Nat /\ x.total \in Nat
    BY <1>1 DEF Asked, HeaderKinds, Engine
  <2>2. u + r.ask.from + r.ask.n > n /\ u + x.total > n
    BY <2>1
  <2> QED BY <2>2 DEF Cursor, Windows
<1>4. Newer(x, c, m)
  <2> SUFFICES ASSUME NEW r \in x.out, r.kind = "since", r.folder = x.selected, NEW u \in 1 .. x.total,
                      u + r.ask.base + Cardinality(Held(x, x.selected)) + Cardinality(r.left) > m
               PROVE  u \in c \/ u \in r.left \/ Landing(x, u)
    BY DEF Newer
  <2> DEFINE a == Cardinality(Held(x, x.selected))
             b == Cardinality(r.left)
  <2>1. a \in Nat
    <3>1. Held(x, x.selected) \subseteq x.pending
      BY DEF Held
    <3> QED BY <1>1, <3>1, FS_Subset, FS_CardinalityType
  <2>2. b \in Nat /\ r.ask.base \in Nat
    <3>1. r.left \subseteq 1 .. M[r.folder] /\ r.ask.base \in Nat
      BY <1>1 DEF Asked, HeaderKinds
    <3>2. b \in Nat
      BY <3>1, SpanIsFinite
    <3> QED BY <3>1, <3>2
  <2>3. u + r.ask.base + a + b > n
    <3>1. u + r.ask.base + a + b > m /\ u \in Nat
      BY <1>1 DEF Engine
    <3> HIDE DEF a, b
    <3> QED BY <2>1, <2>2, <3>1
  <2> QED BY <2>3 DEF Cursor, Newer
<1> QED BY <1>2, <1>3, <1>4 DEF Cursor

LEMMA MoreCounts ==
    ASSUME NEW u \in Nat, NEW b \in Nat, NEW n \in Nat, NEW i \in Nat, NEW j \in Nat, NEW k \in Nat, NEW l \in Nat,
           i + j <= k + l, u + b + i + j > n
    PROVE  u + b + k + l > n
OBVIOUS

\* Rows that have come are waiting instead of being on their way.
LEMMA RowsCursor ==
    ASSUME Footing, SyncAssumption, NEW r \in e.out, r.kind \in HeaderKinds, NEW batch \in SUBSET r.left, Came(r, batch),
           e.selected # NoFolder, ~e.crossed, Cursor(e, cached[e.selected], mailbox[e.selected])
    PROVE  Cursor(e', cached'[e.selected], mailbox[e.selected])
<1> DEFINE q == [r EXCEPT !.left = @ \ batch]
           come == {[folder |-> r.folder, uid |-> u, by |-> r.id, streamed |-> Streamed(r)] : u \in batch}
           s == e.selected
           c == cached[s]
           n == mailbox[s]
           was == Held(e, s)
           now == Held(e', s)
<1>1. r.folder \in Boxes /\ r.left \subseteq 1 .. mailbox[r.folder] /\ mailbox[r.folder] \in Nat /\ s \in Boxes
  BY DEF Footing, Sound, Asked, Engine, Somewhere
<1>2. q.kind = r.kind /\ q.folder = r.folder /\ q.left = r.left \ batch /\ q.ask = r.ask
  <2>1. Asked(r, mailbox)
    BY DEF Footing, Sound
  <2> QED BY <2>1 DEF Asked
<1>3. \A p \in come : p.folder = r.folder /\ p.uid \in batch /\ (p.streamed => Streamed(r))
  <2> DEFINE live == Streamed(r)
  <2>1. come = {[folder |-> r.folder, uid |-> u, by |-> r.id, streamed |-> live] : u \in batch}
    BY Zenon
  <2> HIDE DEF live, come
  <2>2. \A p \in come : p.folder = r.folder /\ p.uid \in batch /\ (p.streamed => live)
    BY <2>1
  <2> QED BY <2>2 DEF live
<1>4. \A u \in batch : \E p \in come : p.uid = u /\ p.folder = r.folder
  <2> TAKE u \in batch
  <2> DEFINE p == [folder |-> r.folder, uid |-> u, by |-> r.id, streamed |-> Streamed(r)]
  <2>1. p \in come /\ p.uid = u /\ p.folder = r.folder
    OBVIOUS
  <2> QED BY <2>1
<1>5. IsFiniteSet(come) /\ Cardinality(come) <= Cardinality(batch) /\ Cardinality(come) \in Nat /\ Cardinality(batch) \in Nat
  <2> DEFINE h == [u \in batch |-> [folder |-> r.folder, uid |-> u, by |-> r.id, streamed |-> Streamed(r)]]
  <2>1. h \in Surjection(batch, come)
    BY DEF Surjection
  <2>2. batch \subseteq 1 .. mailbox[r.folder]
    BY <1>1
  <2>3. IsFiniteSet(batch)
    BY <1>1, <2>2, SpanIsFinite
  <2> HIDE DEF h, come
  <2> QED BY <2>1, <2>3, FS_Surjection, FS_CardinalityType
<1> HIDE DEF come, q
<1>6. /\ e'.pending = e.pending \cup come /\ e'.out = (e.out \ {r}) \cup {q}
      /\ e'.selected = s /\ e'.total = e.total /\ e'.fetched = e.fetched
      /\ cached' = IF Streamed(r) THEN [cached EXCEPT ![r.folder] = @ \cup batch] ELSE cached
  BY DEF Came, come, q
<1>7. c \subseteq cached'[s] /\ (Streamed(r) => r.folder = s /\ batch \subseteq cached'[s])
  BY <1>1, <1>6 DEF Footing, Streamed
<1>8. was \subseteq now /\ \A p \in now : p \in was \/ (p \in come /\ r.folder = s)
  BY <1>3, <1>6 DEF Held
<1>9. \A u : Landing(e, u) => Landing(e', u)
  BY <1>6, <1>8 DEF Landing
<1>10. r.folder = s => \A u \in r.left : u \in q.left \/ Landing(e', u)
  BY <1>2, <1>4, <1>6 DEF Landing, Held
<1>11. e'.total <= n /\ Landed(e', cached'[s])
  BY <1>3, <1>6, <1>7, <1>8 DEF Cursor, Landed
<1>12. Counted(e', cached'[s], n)
  <2> SUFFICES ASSUME NEW u \in 1 .. e'.total, u + e'.fetched > n, u \notin cached'[s]
               PROVE  \E i \in e'.out : Newest(e', i) /\ (u \in i.left \/ Landing(e', u))
    BY DEF Counted
  <2>1. PICK i \in e.out : Newest(e, i) /\ (u \in i.left \/ Landing(e, u))
    BY <1>6, <1>7 DEF Cursor, Counted
  <2>2. CASE i # r
    BY <1>6, <1>9, <2>1, <2>2 DEF Newest
  <2>3. CASE i = r
    <3>1. Newest(e', q) /\ q \in e'.out /\ r.folder = s
      BY <1>2, <1>6, <2>1, <2>3 DEF Newest
    <3>2. u \in q.left \/ Landing(e', u)
      BY <1>9, <1>10, <2>1, <2>3, <3>1
    <3> QED BY <3>1, <3>2
  <2> QED BY <2>2, <2>3
<1>13. ASSUME NEW i \in e'.out, i.folder = s
       PROVE  \E j \in e.out : /\ i.kind = j.kind /\ j.folder = s /\ i.ask = j.ask /\ (i = j \/ (i = q /\ j = r))
                               /\ \A u \in j.left : u \in i.left \/ Landing(e', u)
  BY <1>2, <1>6, <1>10, <1>13
<1>14. Windows(e', cached'[s], n)
  <2> SUFFICES ASSUME NEW i \in e'.out, i.kind = "window", i.folder = e'.selected,
                      NEW u \in 1 .. e'.total, u + i.ask.from + i.ask.n > n, u + e'.total > n
               PROVE  u \in cached'[s] \/ u \in i.left \/ Landing(e', u)
    BY DEF Windows
  <2>1. PICK j \in e.out : /\ i.kind = j.kind /\ j.folder = s /\ i.ask = j.ask
                           /\ \A v \in j.left : v \in i.left \/ Landing(e', v)
    BY <1>6, <1>13
  <2>2. u \in c \/ u \in j.left \/ Landing(e, u)
    BY <1>6, <2>1 DEF Cursor, Windows
  <2> QED BY <1>7, <1>9, <2>1, <2>2
<1>15. Newer(e', cached'[s], n)
  <2> SUFFICES ASSUME NEW i \in e'.out, i.kind = "since", i.folder = e'.selected, NEW u \in 1 .. e'.total,
                      u + i.ask.base + Cardinality(Held(e', e'.selected)) + Cardinality(i.left) > n
               PROVE  u \in cached'[s] \/ u \in i.left \/ Landing(e', u)
    BY DEF Newer
  <2>1. PICK j \in e.out : /\ i.kind = j.kind /\ j.folder = s /\ i.ask = j.ask /\ (i = j \/ (i = q /\ j = r))
                           /\ \A v \in j.left : v \in i.left \/ Landing(e', v)
    BY <1>6, <1>13
  <2>2. Asked(j, mailbox) /\ Asked(r, mailbox) /\ j.kind \in HeaderKinds
    BY <2>1 DEF Footing, Sound, HeaderKinds
  <2>3. IsFiniteSet(j.left) /\ Cardinality(j.left) \in Nat /\ j.ask.base \in Nat
    <3>1. j.left \subseteq 1 .. mailbox[s] /\ mailbox[s] \in Nat /\ j.ask.base \in Nat
      BY <1>1, <2>1, <2>2 DEF Asked, Footing
    <3> HIDE DEF s
    <3> QED BY <3>1, SpanIsFinite
  <2>4. IsFiniteSet(was) /\ Cardinality(was) \in Nat
    <3>1. was \subseteq e.pending /\ IsFiniteSet(e.pending)
      BY DEF Held, Footing, Sound
    <3> QED BY <3>1, FS_Subset, FS_CardinalityType
  <2>5. Cardinality(now) + Cardinality(i.left) <= Cardinality(was) + Cardinality(j.left)
    <3>1. CASE j = r
      <4>1. i = q
        BY <1>2, <1>6, <2>1, <3>1
      <4>2. now = was \cup come
        BY <1>3, <1>6, <2>1, <3>1 DEF Held
      <4>3. Cardinality(now) <= Cardinality(was) + Cardinality(come) /\ Cardinality(now) \in Nat
        <5> HIDE DEF was, now
        <5>1. Cardinality(was \cup come) = Cardinality(was) + Cardinality(come) - Cardinality(was \cap come)
              /\ IsFiniteSet(was \cup come)
          BY <1>5, <2>4, FS_Union
        <5>2. Cardinality(was \cap come) \in Nat /\ Cardinality(was \cup come) \in Nat
          BY <1>5, <2>4, <5>1, FS_Intersection, FS_CardinalityType
        <5> QED BY <1>5, <2>4, <4>2, <5>1, <5>2
      <4>4. Cardinality(i.left) = Cardinality(j.left) - Cardinality(batch) /\ Cardinality(i.left) \in Nat
        <5>1. i.left = j.left \ batch /\ j.left \cap batch = batch
          BY <1>2, <3>1, <4>1
        <5>2. Cardinality(j.left \ batch) = Cardinality(j.left) - Cardinality(j.left \cap batch) /\ IsFiniteSet(j.left \ batch)
          BY <2>3, FS_Difference
        <5> QED BY <5>1, <5>2, FS_CardinalityType
      <4> HIDE DEF was, now
      <4> QED BY SMTT(40), <1>5, <2>3, <2>4, <4>3, <4>4
    <3>2. CASE j # r
      <4>1. r.folder # s
        BY <2>1, <2>2, <3>2 DEF Footing, Sound, One
      <4>2. now = was /\ i = j
        BY <1>8, <2>1, <3>2, <4>1
      <4> HIDE DEF was, now
      <4> QED BY <2>3, <2>4, <4>2
    <3> QED BY <3>1, <3>2
  <2>6. Cardinality(now) \in Nat /\ Cardinality(i.left) \in Nat
    <3>1. IsFiniteSet(now)
      <4>1. now \subseteq was \cup come
        BY <1>8
      <4>2. IsFiniteSet(was \cup come)
        BY <1>5, <2>4, FS_Union
      <4> QED BY <4>1, <4>2, FS_Subset
    <3>2. i.left \subseteq j.left
      BY <1>2, <2>1
    <3> QED BY <2>3, <3>1, <3>2, FS_Subset, FS_CardinalityType
  <2>7. u + j.ask.base + Cardinality(was) + Cardinality(j.left) > n
    <3>1. u + i.ask.base + Cardinality(now) + Cardinality(i.left) > n /\ u \in Nat /\ n \in Nat
      BY <1>1, <1>6 DEF Footing, Sound, Engine
    <3>2. i.ask.base = j.ask.base
      BY <2>1
    <3> HIDE DEF was, now, n
    <3> QED BY <2>3, <2>4, <2>5, <2>6, <3>1, <3>2, MoreCounts
  <2>8. u \in c \/ u \in j.left \/ Landing(e, u)
    BY <1>6, <2>1, <2>7 DEF Cursor, Newer
  <2> QED BY <1>7, <1>9, <2>1, <2>8
<1> QED BY <1>6, <1>11, <1>12, <1>14, <1>15 DEF Cursor

\* What an answer, or a failure, does to the cursor of the open folder.
Moved(r, rows, z) ==
    /\ rows \subseteq Unhandled(r.folder)
    /\ cached' = [cached EXCEPT ![r.folder] = @ \cup rows]
    /\ Settled(e, r, z) /\ Steady(z, e')
    /\ \/ z.fetched = e.fetched /\ (r.folder # e.selected \/ r.kind = "delta" \/ r.ask.back)
       \/ /\ r.folder = e.selected /\ rows = Unhandled(r.folder) /\ r.left = {}
          /\ \/ r.kind = "window" /\ z.fetched = Max({e.fetched, Reach(r, e.total)})
             \/ r.kind = "since" /\ z.fetched = Min({e.total, r.ask.base + Cardinality(Buffered(r.folder))})

LEMMA MovingSteps ==
    ASSUME Footing, SyncAssumption, Unrefused, link.up, ~e.searching,
           NEW r \in e.out, r.kind \in HeaderKinds, Reply(r) \/ Fail(r)
    PROVE  \E rows, z : Moved(r, rows, z)
<1> DEFINE all == Unhandled(r.folder)
<1>1. CASE r.kind = "window" /\ WindowFetched(r) /\ r.left = {}
  <2>1. PICK z : /\ Settled(e, r, z) /\ Steady(z, e')
                 /\ Drawn(r, z, Max({e.fetched, Reach(r, e.total)}))
    BY <1>1, WindowAnswer
  <2>2. Moved(r, all, z)
    BY <1>1, <2>1, WindowAnswer DEF Moved, Drawn
  <2> QED BY <2>2
<1>2. CASE r.kind = "since" /\ SinceFetched(r) /\ r.left = {}
  <2>1. PICK z : /\ Settled(e, r, z) /\ Steady(z, e')
                 /\ Drawn(r, z, Min({e.total, r.ask.base + Cardinality(Buffered(r.folder))}))
    BY <1>2, SinceAnswer
  <2>2. Moved(r, all, z)
    BY <1>2, <2>1, SinceAnswer DEF Moved, Drawn
  <2> QED BY <2>2
<1>3. ASSUME NEW ok, r.kind = "delta", DeltaAnswered(r, ok)
      PROVE  \E rows, z : Moved(r, rows, z)
  <2> DEFINE rows == IF ok THEN all ELSE {}
  <2>1. cached' = [cached EXCEPT ![r.folder] = @ \cup rows] /\ Rest(e, r, e') /\ Steady(e', e')
    BY <1>3, DeltaAnswer
  <2>2. rows \subseteq all
    OBVIOUS
  <2> HIDE DEF rows, all
  <2>3. Moved(r, rows, e')
    BY <1>3, <2>1, <2>2 DEF Moved, Rest, all
  <2> QED BY <2>3
<1>4. ASSUME (r.kind = "window" /\ WindowFailed(r)) \/ (r.kind = "since" /\ SinceFailed(r)), r.ask.back
      PROVE  \E rows, z : Moved(r, rows, z)
  <2>1. PICK z : Rest(e, r, z) /\ Steady(z, e')
    BY <1>4, Failures
  <2>2. cached' = cached
    BY <1>4, Failures
  <2>3. cached' = [cached EXCEPT ![r.folder] = @ \cup {}]
    BY <2>2 DEF Footing
  <2> DEFINE rows == {}
  <2>4. rows \subseteq all /\ cached' = [cached EXCEPT ![r.folder] = @ \cup rows]
    BY <2>3
  <2> HIDE DEF rows
  <2>5. Moved(r, rows, z)
    BY <1>4, <2>1, <2>4 DEF Moved, Rest
  <2> QED BY <2>5
<1>5. Reply(r) => r.left = {} /\ (\/ r.kind = "window" /\ WindowFetched(r)
                                  \/ r.kind = "since" /\ SinceFetched(r)
                                  \/ r.kind = "delta" /\ DeltaAnswered(r, TRUE))
  BY DEF Reply, HeaderKinds
<1>6. Fail(r) => \/ (r.kind = "window" /\ WindowFailed(r)) \/ (r.kind = "since" /\ SinceFailed(r))
                 \/ r.kind = "delta" /\ DeltaAnswered(r, FALSE)
  <2>1. Fail(r) => \/ r.kind = "window" /\ WindowFailed(r)
                   \/ r.kind = "since" /\ SinceFailed(r)
                   \/ r.kind = "delta" /\ DeltaAnswered(r, FALSE)
                   \/ r.kind = "bodies" \/ r.kind = "list" \/ r.kind = "open"
    BY Zenon DEF Fail
  <2>2. r.kind # "bodies" /\ r.kind # "list" /\ r.kind # "open"
    BY DEF HeaderKinds
  <2> QED BY <2>1, <2>2, Zenon
<1>7. Fail(r) => r.ask.back \/ r.kind = "delta"
  <2>1. CASE r.dead
    BY <2>1 DEF Footing, HeaderKinds
  <2>2. CASE ~r.dead
    <3>1. Fail(r) => Happens(CASE r.kind = "window" -> IF r.ask.back THEN "slow" ELSE "refuse"
                                [] r.kind = "since"  -> "refuse"
                                [] r.kind = "bodies" -> IF e.prefetch = <<>> THEN "bodies" ELSE "strand"
                                [] r.kind = "open" /\ e.asking /\ r.folder = e.walking -> "gone"
                                [] OTHER             -> "denied")
      BY <2>2 DEF Fail
    <3>2. ~Happens("refuse")
      BY DEF Happens, Unrefused
    <3>3. r.kind = "since" => ~Fail(r)
      BY <3>1, <3>2
    <3>4. r.kind = "window" /\ ~r.ask.back => ~Fail(r)
      BY <3>1, <3>2
    <3> QED BY <3>3, <3>4 DEF HeaderKinds
  <2> QED BY <2>1, <2>2
<1> HIDE DEF all
<1>8. CASE Reply(r)
  BY <1>1, <1>2, <1>3, <1>5, <1>8, Zenon
<1>9. CASE Fail(r)
  BY <1>3, <1>4, <1>6, <1>7, <1>9, Zenon
<1> QED BY <1>8, <1>9

\* Rows of the open folder are in the cache once their request has been answered.
LEMMA LandedIsCached ==
    ASSUME NEW c, Landed(e, c), NEW u, Landing(e, u)
    PROVE  u \in c \cup Unhandled(e.selected)
<1>1. PICK p \in Held(e, e.selected) : p.uid = u
  BY DEF Landing
<1>2. Held(e, e.selected) = Buffered(e.selected)
  BY DEF Held, Buffered
<1>3. CASE \E q \in Buffered(e.selected) : q.streamed /\ q.uid = u
  BY <1>2, <1>3 DEF Landed
<1>4. CASE ~ \E q \in Buffered(e.selected) : q.streamed /\ q.uid = u
  BY <1>1, <1>2, <1>4 DEF Unhandled
<1> QED BY <1>3, <1>4

LEMMA AnswerCursor ==
    ASSUME Footing, SyncAssumption, NEW r \in e.out, r.kind \in HeaderKinds, NEW rows, NEW z, Moved(r, rows, z),
           e.selected # NoFolder, ~e.crossed, Cursor(e, cached[e.selected], mailbox[e.selected])
    PROVE  Cursor(z, cached'[e.selected], mailbox[e.selected])
<1> DEFINE s == e.selected
           c == cached[s]
           n == mailbox[s]
<1>1. r.folder \in Boxes /\ s \in Boxes /\ Asked(r, mailbox)
  BY DEF Footing, Sound, Asked, Engine, Somewhere
<1>2. /\ z.selected = s /\ z.total = e.total /\ z.out = e.out \ {r} /\ Engine(z)
      /\ z.pending = {p \in e.pending : p.folder # r.folder}
  BY DEF Moved, Settled
<1>3. cached'[s] = IF r.folder = s THEN c \cup rows ELSE c
  BY <1>1 DEF Moved, Footing
<1>4. CASE r.folder # s
  <2>1. z.fetched = e.fetched
    BY <1>4 DEF Moved
  <2>2. Held(z, s) = Held(e, s)
    BY <1>2, <1>4 DEF Held
  <2>3. Held(z, z.selected) = Held(e, e.selected) /\ \A u : Landing(z, u) <=> Landing(e, u)
    BY <1>2, <2>2 DEF Landing
  <2>4. Counted(z, c, n)
    BY <1>2, <1>4, <2>1, <2>3 DEF Cursor, Counted, Newest
  <2>5. Windows(z, c, n)
    BY <1>2, <2>3 DEF Cursor, Windows
  <2>6. Newer(z, c, n)
    BY <1>2, <2>3 DEF Cursor, Newer
  <2>7. Landed(z, c)
    BY <2>3 DEF Cursor, Landed
  <2> QED BY <1>2, <1>3, <1>4, <2>4, <2>5, <2>6, <2>7 DEF Cursor
<1>5. CASE r.folder = s
  <2>1. \A i \in e.out : i.kind \in HeaderKinds /\ i.folder = s => i = r
    BY <1>5 DEF Footing, Sound, One
  <2>2. Sound(z, mailbox)
    BY SettledIsSound DEF Moved, Footing
  <2>3. \A i \in z.out : i.kind \in HeaderKinds => i.folder # z.selected
    BY <1>2, <2>1
  <2>4. ASSUME NEW u \in 1 .. z.total, u + z.fetched > n
        PROVE  u \in c \cup rows
    <3>0. u \in 1 .. e.total /\ e.total \in Nat /\ e.fetched \in Nat /\ n \in Nat
      BY <1>1, <1>2, <2>4 DEF Footing, Sound, Engine
    <3>1. u \in 1 .. e.total /\ u \in Nat /\ u <= e.total /\ e.total \in Nat /\ e.total > 0 /\ e.fetched \in Nat /\ n \in Nat
      <4> HIDE DEF n
      <4> QED BY <3>0
    <3>2. Landed(e, c)
      BY DEF Cursor
    <3>3. CASE z.fetched = e.fetched /\ (r.kind = "delta" \/ r.ask.back)
      <4>1. u \in c \/ \E i \in e.out : Newest(e, i)
        BY <2>4, <3>1, <3>3 DEF Cursor, Counted
      <4>2. \A i \in e.out : ~Newest(e, i)
        BY <1>1, <2>1, <3>3 DEF Newest, HeaderKinds, Asked
      <4> QED BY <4>1, <4>2
    <3>4. ASSUME rows = Unhandled(s), Landing(e, u) \/ u \in c
          PROVE  u \in c \cup rows
      BY <3>2, <3>4, LandedIsCached
    <3>5. CASE /\ rows = Unhandled(s) /\ r.left = {}
               /\ r.kind = "window" /\ z.fetched = Max({e.fetched, Reach(r, e.total)})
      <4> DEFINE m == Reach(r, e.total)
      <4>1. r.ask.from \in Nat /\ r.ask.n \in Nat
        BY <1>1, <3>5 DEF Asked, HeaderKinds
      <4>2. m \in Nat /\ m <= r.ask.from + r.ask.n /\ m <= e.total
        <5> DEFINE a == r.ask.from + r.ask.n
                   b == e.total
        <5>1. a \in Nat /\ b \in Nat /\ b > 0
          <6>1. a \in Nat
            <7> DEFINE i == r.ask.from
                       j == r.ask.n
            <7>1. i \in Nat /\ j \in Nat
              BY <4>1
            <7> HIDE DEF i, j
            <7>2. i + j \in Nat
              BY <7>1
            <7> QED BY <7>2 DEF i, j
          <6>2. b \in Nat /\ b > 0
            BY <3>1
          <6> QED BY <6>1, <6>2
        <5>2. m = Min({a, b})
          BY <5>1 DEF Reach
        <5> HIDE DEF a, b, m
        <5>3. m \in Nat /\ m <= a /\ m <= b
          BY <5>1, <5>2, OfTwo
        <5> QED BY <5>3 DEF a, b
      <4>3. z.fetched \in {e.fetched, m}
        <5> HIDE DEF m
        <5>1. Max({e.fetched, m}) \in {e.fetched, m}
          BY <3>1, <4>2, OfTwo
        <5> QED BY <3>5, <5>1 DEF m
      <4> HIDE DEF m
      <4>4. CASE z.fetched = e.fetched
        <5>1. u \in c \/ \E i \in e.out : Newest(e, i) /\ (u \in i.left \/ Landing(e, u))
          BY <2>4, <3>1, <4>4 DEF Cursor, Counted
        <5>2. \A i \in e.out : Newest(e, i) => i = r
          BY <2>1 DEF Newest, HeaderKinds
        <5> QED BY <3>4, <3>5, <5>1, <5>2
      <4>5. CASE z.fetched = m
        <5>1. u + r.ask.from + r.ask.n > n /\ u + e.total > n
          <6> DEFINE i == r.ask.from
                     j == r.ask.n
                     t == e.total
          <6>1. u \in Nat /\ t \in Nat /\ n \in Nat /\ i \in Nat /\ j \in Nat /\ m \in Nat /\ m <= i + j /\ m <= t
                /\ u + m > n
            BY <2>4, <3>1, <4>1, <4>2, <4>5
          <6> HIDE DEF i, j, t, n
          <6>2. u + i + j > n /\ u + t > n
            BY <6>1
          <6> QED BY <6>2 DEF i, j, t
        <5>2. u \in c \/ u \in r.left \/ Landing(e, u)
          BY <1>5, <3>1, <3>5, <5>1 DEF Cursor, Windows
        <5> QED BY <3>4, <3>5, <5>2
      <4> QED BY <4>3, <4>4, <4>5
    <3>6. CASE /\ rows = Unhandled(s) /\ r.left = {}
               /\ r.kind = "since" /\ z.fetched = Min({e.total, r.ask.base + Cardinality(Buffered(r.folder))})
      <4> DEFINE h == Cardinality(Held(e, s))
                 b == r.ask.base
      <4>1. b \in Nat
        BY <1>1, <3>6 DEF Asked, HeaderKinds
      <4>2. h \in Nat /\ h = Cardinality(Buffered(r.folder))
        <5>1. Held(e, s) = Buffered(r.folder)
          BY <1>5 DEF Held, Buffered
        <5> QED BY <5>1, BufferedIsFinite
      <4>3. z.fetched <= b + h /\ z.fetched \in Nat
        <5>1. z.fetched = Min({e.total, b + h})
          BY <3>6, <4>2
        <5> HIDE DEF b, h
        <5>2. b + h \in Nat
          BY <4>1, <4>2
        <5> DEFINE k == b + h
        <5> HIDE DEF k
        <5>3. Min({e.total, k}) <= k /\ Min({e.total, k}) \in Nat
          BY <3>1, <5>2, OfTwo DEF k
        <5> QED BY <5>1, <5>3 DEF k
      <4>4. Cardinality(r.left) = 0
        BY <3>6, FS_EmptySet
      <4>5. u + b + h + Cardinality(r.left) > n
        <5> DEFINE k == Cardinality(r.left)
                   z1 == z.fetched
        <5>1. u + z1 > n /\ u \in Nat /\ z1 \in Nat /\ z1 <= b + h /\ b \in Nat /\ h \in Nat /\ k = 0 /\ n \in Nat
          BY <2>4, <3>1, <4>1, <4>2, <4>3, <4>4
        <5> HIDE DEF b, h, k, z1, n
        <5>2. u + b + h + k > n
          BY <5>1
        <5> QED BY <5>2 DEF k
      <4>6. u \in c \/ u \in r.left \/ Landing(e, u)
        BY <1>5, <3>1, <3>6, <4>5 DEF Cursor, Newer
      <4> QED BY <3>4, <3>6, <4>6
    <3> QED BY <1>5, <3>3, <3>5, <3>6 DEF Moved
  <2>5. z.total <= n
    BY <1>2 DEF Cursor
  <2>6. \A u \in 1 .. z.total : u + z.fetched > n => u \in cached'[s]
    BY <1>3, <1>5, <2>4
  <2> HIDE DEF n
  <2>7. Cursor(z, cached'[s], n)
    BY <2>2, <2>3, <2>5, <2>6, RestingCursor
  <2> QED BY <2>7 DEF n
<1> QED BY <1>4, <1>5

\* The open asks for a page, and what is counted is cached or on that page.
LEMMA PagedCursor ==
    ASSUME NEW y, Sound(y, mailbox), NEW k \in Nat, NEW w, NEW q, Asks(y, w, q), AsksPage(y.selected, k, q), ~w.crossed,
           NEW c, NEW n \in Nat, n = mailbox[y.selected], y.total <= n,
           \A u \in 1 .. y.total : u + y.fetched > n => u \in c \/ u \in Rows(y.selected, 0, k)
    PROVE  Cursor(w, c, n)
<1>1. \A r \in y.out : r.kind \in HeaderKinds => r.folder # y.selected
  BY DEF Asks, AsksPage, HeaderKinds
<1>2. Held(y, y.selected) = {}
  BY <1>1, NothingHeld
<1>3. /\ w.selected = y.selected /\ w.total = y.total /\ w.fetched = y.fetched /\ w.out = y.out \cup {q}
      /\ Held(w, w.selected) = {} /\ y.total \in Nat
  BY <1>2 DEF Asks, Unmoved, Held, Sound, Engine
<1>4. /\ q.kind = "window" /\ q.folder = w.selected /\ q.left = Rows(y.selected, 0, k)
      /\ q.ask.from = 0 /\ q.ask.n = k /\ ~q.ask.back
  BY <1>3 DEF AsksPage
<1>5. Counted(w, c, n)
  BY <1>3, <1>4 DEF Counted, Newest
<1>6. Windows(w, c, n)
  <2> SUFFICES ASSUME NEW r \in w.out, r.kind = "window", r.folder = w.selected,
                      NEW u \in 1 .. w.total, u + r.ask.from + r.ask.n > n, u + w.total > n
               PROVE  u \in r.left
    BY DEF Windows
  <2>1. r = q
    BY <1>1, <1>3 DEF HeaderKinds
  <2>2. u \in Nat /\ u >= 1 /\ u <= n /\ u + 0 + k > n
    BY <1>3, <1>4, <2>1
  <2>3. u \in {v \in 1 .. n : v + 0 <= n /\ n < v + 0 + k}
    BY <2>2
  <2> QED BY <1>4, <2>1, <2>3 DEF Rows
<1>7. Newer(w, c, n)
  <2>1. \A r \in w.out : r.kind = "since" => r.folder # w.selected
    BY <1>1, <1>3, <1>4 DEF HeaderKinds
  <2> QED BY <2>1 DEF Newer
<1>8. Landed(w, c)
  BY <1>3 DEF Landed
<1> QED BY <1>3, <1>5, <1>6, <1>7, <1>8 DEF Cursor

\* An unbroken block of mail and all that is above it are more than lie above
\* a message that is in neither.
LEMMA BlockAndAbove ==
    ASSUME NEW n \in Nat, NEW c, c \subseteq 1 .. n, c # {}, ~Broken(c), NEW l, l = {u \in 1 .. n : u > Highest(c)},
           NEW u \in 1 .. n, u \notin c, u \notin l
    PROVE  u + Cardinality(c) + Cardinality(l) <= n
<1> DEFINE b == Highest(c)
<1>1. b \in c /\ b \in 1 .. n /\ \A v \in c : v <= b
  BY HighestOf
<1> HIDE DEF b
<1>2. u <= b /\ u \in Nat /\ b \in Nat /\ b <= n /\ u # b
  BY <1>1 DEF b
<1>3. \A v \in c : v > u
  <2> SUFFICES ASSUME NEW v \in c, ~(v > u)
               PROVE  FALSE
    OBVIOUS
  <2>1. v .. b \subseteq c
    BY <1>1 DEF Broken
  <2>2. v \in Nat /\ v <= u
    OBVIOUS
  <2>3. u \in v .. b
    BY <1>2, <2>2
  <2> QED BY <2>1, <2>3
<1>4. Cardinality(c) <= b - u /\ Cardinality(c) \in Nat
  <2> DEFINE k == u + 1
  <2>1. k \in Int /\ b \in Int /\ k <= b
    BY <1>2
  <2>2. c \subseteq k .. b
    BY <1>1, <1>2, <1>3
  <2> HIDE DEF k
  <2>3. IsFiniteSet(k .. b) /\ Cardinality(k .. b) = b - k + 1
    BY <2>1, FS_Interval
  <2>4. IsFiniteSet(c) /\ Cardinality(c) <= Cardinality(k .. b) /\ Cardinality(c) \in Nat
    BY <2>2, <2>3, FS_Subset, FS_CardinalityType
  <2>5. b - k + 1 = b - u
    BY <1>2 DEF k
  <2> QED BY <2>3, <2>4, <2>5
<1>5. Cardinality(l) = n - b
  <2> DEFINE k == b + 1
  <2>1. k \in Int /\ n \in Int
    BY <1>2
  <2>2. l = k .. n
    BY <1>2 DEF b
  <2>3. n - k + 1 = n - b /\ (k > n => n - b = 0)
    BY <1>2
  <2> HIDE DEF k
  <2>4. Cardinality(k .. n) = IF k > n THEN 0 ELSE n - k + 1
    BY <2>1, FS_Interval
  <2> QED BY <2>2, <2>3, <2>4
<1> DEFINE i == Cardinality(c)
           j == Cardinality(l)
<1>6. i <= b - u /\ i \in Nat /\ j = n - b
  BY <1>4, <1>5
<1> HIDE DEF i, j
<1>7. u + i + j <= n
  BY <1>2, <1>6
<1> QED BY <1>7 DEF i, j

\* The open asks for what is above the cached block.
LEMMA NewerCursor ==
    ASSUME NEW y, Sound(y, mailbox), NEW w, NEW q, NEW c, Asks(y, w, q), AsksNewer(y.selected, c, q), ~w.crossed,
           NEW n \in Nat, n = mailbox[y.selected], y.total = n, y.fetched = 0, c # {}, c \subseteq 1 .. n, ~Broken(c)
    PROVE  Cursor(w, c, n)
<1>1. \A r \in y.out : r.kind \in HeaderKinds => r.folder # y.selected
  BY DEF Asks, AsksNewer, HeaderKinds
<1>2. Held(y, y.selected) = {}
  BY <1>1, NothingHeld
<1>3. /\ w.selected = y.selected /\ w.total = n /\ w.fetched = 0 /\ w.out = y.out \cup {q}
      /\ Held(w, w.selected) = {}
  BY <1>2 DEF Asks, Unmoved, Held
<1>4. /\ q.kind = "since" /\ q.folder = w.selected /\ q.left = {u \in 1 .. n : u > Highest(c)}
      /\ q.ask.base = Cardinality(c)
  BY <1>3 DEF AsksNewer
<1>5. Counted(w, c, n)
  BY <1>3 DEF Counted
<1>6. Windows(w, c, n)
  <2>1. \A r \in w.out : r.kind = "window" => r.folder # w.selected
    BY <1>1, <1>3, <1>4 DEF HeaderKinds
  <2> QED BY <2>1 DEF Windows
<1>7. Newer(w, c, n)
  <2> SUFFICES ASSUME NEW r \in w.out, r.kind = "since", r.folder = w.selected, NEW u \in 1 .. w.total,
                      u + r.ask.base + Cardinality(Held(w, w.selected)) + Cardinality(r.left) > n,
                      u \notin c, u \notin r.left
               PROVE  FALSE
    BY DEF Newer
  <2>1. r = q
    BY <1>1, <1>3 DEF HeaderKinds
  <2>2. Cardinality(Held(w, w.selected)) = 0
    BY <1>3, FS_EmptySet
  <2>3. IsFiniteSet(c) /\ Cardinality(c) \in Nat
    BY SpanIsFinite
  <2> DEFINE l == q.left
  <2>4. l \subseteq 1 .. n /\ l = {v \in 1 .. n : v > Highest(c)} /\ u \in 1 .. n /\ u \notin l
    BY <1>3, <1>4, <2>1
  <2> HIDE DEF l
  <2>5. Cardinality(l) \in Nat
    BY <2>4, SpanIsFinite
  <2>6. u + Cardinality(c) + Cardinality(l) <= n
    BY <2>4, BlockAndAbove
  <2> DEFINE i == Cardinality(c)
             j == Cardinality(l)
  <2>7. u + i + 0 + j > n
    BY <1>4, <2>1, <2>2 DEF l
  <2>8. i \in Nat /\ j \in Nat /\ u \in Nat /\ u + i + j <= n
    BY <2>3, <2>4, <2>5, <2>6
  <2> HIDE DEF i, j
  <2> QED BY <2>7, <2>8
<1>8. Landed(w, c)
  BY <1>3 DEF Landed
<1> QED BY <1>3, <1>5, <1>6, <1>7, <1>8 DEF Cursor

LEMMA EmptyCursor ==
    ASSUME NEW x, Sound(x, mailbox), mailbox[x.selected] = 0, x.total = 0, NEW c
    PROVE  Cursor(x, c, 0)
<1>1. 1 .. x.total = {}
  OBVIOUS
<1>2. Held(x, x.selected) = {}
  BY DEF Held, Sound, Bound
<1> QED BY <1>1, <1>2 DEF Cursor, Counted, Windows, Newer, Landed

\* The cursor after an open, or a refresh, of the folder on screen.
LEMMA OpenedCursor ==
    ASSUME SyncAssumption, NEW x, Sound(x, mailbox), NEW f \in Boxes, f = x.selected, NEW n \in Nat, n = mailbox[f],
           NEW c, c \subseteq 1 .. n, NEW y, y = FolderOpened(x, f, c), ~y.crossed, ~y.holed,
           x.intent = "open" \/ x.crossed \/ x.holed \/ Cursor(x, c, n)
    PROVE  Cursor(y, c, n)
<1>1. Engine(x) /\ IsFiniteSet(c)
  BY SpanIsFinite DEF Sound
<1>2. ASSUME NEW z, Engine(z), z.selected = x.selected, z.crossed = x.crossed, z.out = x.out, z.pending = x.pending
      PROVE  Sound(z, mailbox)
  <2>1. One(z) /\ Bound(z, mailbox)
    BY <1>2 DEF Sound, One, Bound
  <2> QED BY <1>2, <2>1 DEF Sound
<1>3. CASE x.intent = "open"
  <2>1. PICK z : /\ Engine(z) /\ z.selected = f /\ z.total = n /\ z.fetched = 0
                 /\ (z.holed <=> x.holed \/ Broken(c)) /\ z.crossed = x.crossed /\ z.out = x.out
                 /\ z.pending = x.pending
                 /\ \/ n = 0 /\ Same(z, y)
                    \/ c # {} /\ \E q : Asks(z, y, q) /\ AsksNewer(f, c, q)
                    \/ c = {} /\ \E q : Asks(z, y, q) /\ AsksPage(f, FirstPage, q)
    BY <1>1, <1>3, OpenedByUser
  <2>2. Sound(z, mailbox)
    BY <1>2, <2>1
  <2>3. CASE n = 0 /\ Same(z, y)
    <3>1. Sound(y, mailbox) /\ y.total = 0 /\ y.selected = f
      BY <2>1, <2>2, <2>3, SameIsSteady, SteadyIsSound DEF Same, Unmoved
    <3>2. Cursor(y, c, 0)
      BY <2>3, <3>1, EmptyCursor
    <3> QED BY <2>3, <3>2
  <2>4. ASSUME c # {}, NEW q, Asks(z, y, q), AsksNewer(f, c, q)
        PROVE  Cursor(y, c, n)
    <3>1. ~Broken(c)
      BY <2>1, <2>4 DEF Asks, Unmoved
    <3> QED BY <2>1, <2>2, <2>4, <3>1, NewerCursor
  <2>5. ASSUME NEW q, Asks(z, y, q), AsksPage(f, FirstPage, q)
        PROVE  Cursor(y, c, n)
    <3>1. FirstPage \in Nat
      BY DEF SyncAssumption
    <3>2. \A u \in 1 .. z.total : ~(u + z.fetched > n)
      BY <2>1
    <3>3. z.total <= n
      BY <2>1
    <3> QED BY <2>1, <2>2, <2>5, <3>1, <3>2, <3>3, PagedCursor
  <2> QED BY <2>1, <2>3, <2>4, <2>5
<1>4. CASE x.intent = "refresh"
  <2>1. PICK z : /\ Engine(z) /\ z.selected = f /\ z.fetched = x.fetched
                 /\ z.crossed = x.crossed /\ z.out = x.out /\ z.pending = x.pending
                 /\ \/ n = 0 /\ z.total = x.total /\ z.holed = x.holed /\ y = z
                    \/ /\ z.total = n /\ (z.holed <=> x.holed \/ Outgrown(x, n))
                       /\ \E q : Asks(z, y, q) /\ AsksPage(f, TopUp, q)
    BY <1>1, <1>4, OpenedToRefresh
  <2>2. Sound(z, mailbox)
    BY <1>2, <2>1
  <2>3. CASE n = 0 /\ z.total = x.total /\ z.holed = x.holed /\ y = z
    <3>1. Cursor(x, c, n)
      BY <1>4, <2>1, <2>3
    <3>2. Held(y, y.selected) = Held(x, x.selected) /\ \A u : Landing(y, u) <=> Landing(x, u)
      BY <2>1, <2>3 DEF Held, Landing
    <3> QED BY <2>1, <2>3, <3>1, <3>2 DEF Cursor, Counted, Windows, Newer, Landed, Newest
  <2>4. ASSUME z.total = n, z.holed <=> x.holed \/ Outgrown(x, n), NEW q, Asks(z, y, q), AsksPage(f, TopUp, q)
        PROVE  Cursor(y, c, n)
    <3>1. ~z.holed /\ ~z.crossed
      BY <2>4 DEF Asks, Unmoved
    <3>2. ~Outgrown(x, n) /\ Cursor(x, c, n)
      BY <1>4, <2>1, <2>4, <3>1
    <3>3. \A r \in x.out : r.kind \in HeaderKinds => r.folder # f
      BY <2>1, <2>4 DEF Asks, AsksPage, HeaderKinds
    <3>4. \A u \in 1 .. x.total : u + x.fetched > n => u \in c
      BY <3>2, <3>3 DEF Cursor, Counted, Newest, HeaderKinds
    <3>5. TopUp \in Nat /\ x.fetched \in Nat /\ x.total \in Nat
      BY <1>1 DEF SyncAssumption, Engine
    <3>6. ASSUME NEW u \in 1 .. n, u + x.fetched > n
          PROVE  u \in c \/ u \in Rows(f, 0, TopUp)
      <4>1. CASE u + TopUp > n
        <5>1. u \in {v \in 1 .. n : v + 0 <= n /\ n < v + 0 + TopUp}
          BY <3>5, <4>1
        <5> QED BY <5>1 DEF Rows
      <4>2. CASE ~(u + TopUp > n)
        <5>1. ~(x.fetched > TopUp /\ n > x.total + TopUp)
          BY <3>2 DEF Outgrown
        <5>2. u <= x.total /\ u >= 1
          BY SMTT(40), <3>5, <3>6, <4>2, <5>1
        <5> QED BY <3>4, <3>5, <3>6, <5>2
      <4> QED BY <4>1, <4>2
    <3>7. z.total <= n /\ z.selected = f
      BY <2>1, <2>4
    <3>8. \A u \in 1 .. z.total : u + z.fetched > n => u \in c \/ u \in Rows(z.selected, 0, TopUp)
      BY <2>1, <2>4, <3>6
    <3> QED BY <2>2, <2>4, <3>5, <3>7, <3>8, PagedCursor
  <2> QED BY <2>1, <2>3, <2>4
<1>5. CASE x.intent \notin {"open", "refresh"}
  <2>1. Same(x, y)
    BY <1>1, <1>5, OpenedElsewhere
  <2>2. Cursor(x, c, n)
    BY <1>5, <2>1 DEF Same, Unmoved
  <2> QED BY <2>1, <2>2, SameIsSteady, SteadyCursor
<1> QED BY <1>3, <1>4, <1>5

\* An open that has been answered.
LEMMA OpenKeepsCursor ==
    ASSUME CursorInv, SyncAssumption, NEW r \in e.out, r.kind = "open", NEW void \in BOOLEAN, Opened(r, void),
           UNCHANGED mailbox, Watched(e', watch')
    PROVE  Cursor(e', cached'[e'.selected], mailbox'[e'.selected])
<1> DEFINE f == r.folder
           s == e.selected
           c == Left(f, void)
           x == [e EXCEPT !.out = @ \ {r}]
<1>1. Footing /\ Engine(e) /\ f \in Boxes /\ mailbox[f] \in Nat
  BY DEF CursorInv, Footing, Sound, Asked
<1>2. /\ e' = FolderOpened(IF void THEN Invalidated(x, f) ELSE x, f, c)
      /\ watch' = IF f = s /\ e.intent = "open" THEN f ELSE watch
      /\ cached' = [cached EXCEPT ![f] = c]
  BY DEF Opened, Left
<1>3. Gone(e, r, x)
  BY <1>1, Dropping
<1> HIDE DEF x
<1>4. Sound(x, mailbox)
  BY <1>1, <1>3, GoneIsSound DEF Footing, HeaderKinds
<1>5. /\ x.selected = s /\ x.searching = e.searching /\ x.holed = e.holed /\ x.crossed = e.crossed /\ x.intent = e.intent
  BY <1>3 DEF Gone, Unmoved
<1>6. /\ ~e'.crossed /\ ~e'.holed /\ ~e'.searching /\ e'.selected # NoFolder /\ e'.intent # "open" /\ watch' = e'.selected
  BY DEF Watched
<1>7. e'.selected = s /\ ~e.searching
  <2>1. PICK i : Gone(e, r, i) /\ Reopened(i, e')
    BY <1>1, OpenSteps
  <2> QED BY <1>6, <2>1 DEF Gone, Unmoved, Reopened
<1>8. CASE f # s
  <2>1. PICK i : Gone(e, r, i) /\ Same(i, e')
    BY <1>1, <1>8, OpenSteps
  <2>2. Watched(e, watch)
    BY <1>2, <1>6, <1>7, <1>8, <2>1 DEF Watched, Gone, Same, Unmoved
  <2>3. Cursor(e, cached[s], mailbox[s])
    BY <2>2 DEF CursorInv
  <2>4. s \in Boxes /\ mailbox[s] \in Nat /\ cached'[s] = cached[s]
    BY <1>1, <1>2, <1>6, <1>7, <1>8 DEF Footing, Engine, Somewhere
  <2>5. Cursor(i, cached[s], mailbox[s]) /\ Sound(i, mailbox)
    BY <1>1, <2>1, <2>3, GoneCursor, GoneIsSound DEF HeaderKinds, Footing
  <2>6. i.selected = s
    BY <2>1 DEF Gone, Unmoved
  <2>7. Cursor(e', cached[s], mailbox[s])
    BY <1>6, <2>1, <2>4, <2>5, <2>6, SameIsSteady, SteadyCursor
  <2> QED BY <1>7, <2>4, <2>7
<1>9. CASE f = s
  <2>1. c \subseteq 1 .. mailbox[f] /\ cached'[s] = c
    <3>1. c \subseteq cached[f]
      BY DEF Left
    <3> QED BY <1>1, <1>2, <1>9, <3>1 DEF Footing
  <2> HIDE DEF c
  <2>2. x.intent = "open" \/ x.crossed \/ x.holed \/ Cursor(e, cached[s], mailbox[s])
    <3>1. e.intent # "open" /\ ~e.crossed /\ ~e.holed => Watched(e, watch)
      BY <1>2, <1>6, <1>7 DEF Watched
    <3> QED BY <1>5, <3>1 DEF CursorInv
  <2>3. CASE ~void
    <3>1. e' = FolderOpened(x, f, c)
      BY <1>2, <2>3
    <3>2. c = cached[s]
      BY <1>9, <2>3 DEF c, Left
    <3>3. x.intent = "open" \/ x.crossed \/ x.holed \/ Cursor(x, c, mailbox[f])
      BY <1>3, <1>9, <2>2, <3>2, GoneCursor DEF HeaderKinds
    <3> DEFINE n == mailbox[f]
    <3>4. n \in Nat /\ n = mailbox[f]
      BY <1>1
    <3> HIDE DEF n
    <3>5. Cursor(e', c, n)
      BY <1>1, <1>4, <1>5, <1>6, <1>9, <2>1, <3>1, <3>3, <3>4, OpenedCursor
    <3> QED BY <1>7, <1>9, <2>1, <3>4, <3>5
  <2>4. CASE void
    <3> DEFINE b == Invalidated(x, f)
               n == mailbox[f]
    <3>1. e' = FolderOpened(b, f, c)
      BY <1>2, <2>4
    <3>2. PICK y, q : /\ Engine(y) /\ y.selected = f /\ y.total = x.total /\ y.fetched = 0
                      /\ y.holed = x.holed /\ y.crossed = x.crossed /\ y.out = x.out /\ y.pending = x.pending
                      /\ y.intent = x.intent
                      /\ Asks(y, b, q) /\ AsksPage(f, FirstPage, q)
      BY <1>1, <1>4, <1>5, <1>7, <1>9, Invalidating DEF Sound
    <3> HIDE DEF b
    <3>3. Sound(y, mailbox)
      <4>1. One(y) /\ Bound(y, mailbox)
        BY <1>4, <3>2 DEF Sound, One, Bound
      <4> QED BY <1>4, <3>2, <4>1 DEF Sound
    <3>4. Sound(b, mailbox) /\ b.selected = f /\ b.intent = x.intent /\ b.holed = x.holed
      <4>1. One(b)
        BY <3>2, <3>3 DEF Asks, One, Sound, HeaderKinds
      <4>2. b.out = y.out \cup {q} /\ b.pending = y.pending /\ Engine(b) /\ Asked(q, mailbox)
        BY <3>2 DEF Asks, Unmoved, AsksPage
      <4>3. Bound(b, mailbox)
        BY <3>3, <4>2 DEF Sound, Bound
      <4> QED BY <3>2, <3>3, <4>1, <4>2, <4>3 DEF Sound, Asks, Unmoved
    <3>5. n \in Nat /\ n = mailbox[f] /\ n = mailbox[s]
      BY <1>1, <1>9
    <3> HIDE DEF n
    <3>6. b.intent = "open" \/ b.crossed \/ b.holed \/ Cursor(b, c, n)
      <4> SUFFICES ASSUME b.intent # "open", ~b.crossed, ~b.holed
                   PROVE  Cursor(b, c, n)
        OBVIOUS
      <4>1. ~x.crossed
        BY <3>2 DEF Asks
      <4>2. Cursor(e, cached[s], mailbox[s])
        BY <2>2, <3>4, <4>1
      <4>3. y.total <= n /\ y.total \in Nat /\ y.fetched = 0
        BY <1>3, <3>2, <3>5, <4>2 DEF Cursor, Gone, Unmoved, Engine
      <4>4. \A u \in 1 .. y.total : u + y.fetched > n => u \in c \/ u \in Rows(y.selected, 0, FirstPage)
        BY <3>5, <4>3
      <4>5. FirstPage \in Nat
        BY DEF SyncAssumption
      <4> QED BY <3>2, <3>3, <3>5, <4>3, <4>4, <4>5, PagedCursor
    <3>7. Cursor(e', c, n)
      BY <1>1, <1>6, <2>1, <3>1, <3>4, <3>5, <3>6, OpenedCursor
    <3> QED BY <1>7, <1>9, <2>1, <3>5, <3>7
  <2> QED BY <2>3, <2>4
<1> QED BY <1>8, <1>9

LEMMA CursorStep ==
    ASSUME CursorInv, SyncAssumption, Unrefused, [Next]_vars
    PROVE  CursorInv'
<1>1. Footing /\ Footing' /\ Sound(e, mailbox) /\ Engine(e)
  BY FootingStep DEF CursorInv, Footing, Sound
<1> SUFFICES ASSUME Watched(e', watch')
             PROVE  Cursor(e', cached'[e'.selected], mailbox'[e'.selected])
  BY <1>1 DEF CursorInv
<1>2. /\ ~e'.crossed /\ ~e'.holed /\ ~e'.searching /\ e'.selected # NoFolder /\ e'.intent # "open" /\ watch' = e'.selected
  BY DEF Watched
<1>3. e.selected # NoFolder => e.selected \in Boxes /\ mailbox[e.selected] \in Nat
  BY <1>1 DEF Footing, Engine, Somewhere
<1>4. "overtake" \notin Events
  BY DEF Unrefused
<1>5. ASSUME NEW x, Steady(x, e'), x.selected = e.selected, x.holed = e.holed, x.searching = e.searching,
             x.crossed = e.crossed, x.intent = e.intent, watch' = watch
      PROVE  Watched(e, watch) /\ e'.selected = e.selected /\ e.selected \in Boxes /\ mailbox[e.selected] \in Nat
  <2>1. e'.selected = e.selected /\ e'.holed = e.holed /\ e'.searching = e.searching
    BY <1>5 DEF Steady, Unmoved
  <2>2. ~e.crossed /\ e.intent # "open"
    BY <1>2, <1>4, <1>5 DEF Steady
  <2> QED BY <1>2, <1>3, <1>5, <2>1, <2>2 DEF Watched
<1>6. CASE Calm
  <2>1. Steady(e, e') /\ UNCHANGED <<mailbox, cached, watch>>
    BY <1>1, <1>6, CalmIsSteady, CalmFrame
  <2>2. Watched(e, watch) /\ e'.selected = e.selected /\ mailbox[e.selected] \in Nat
    BY <1>5, <2>1
  <2> QED BY <1>1, <1>2, <2>1, <2>2, SteadyCursor DEF CursorInv
<1>7. CASE \E f \in Boxes : MailArrives(f)
  <2>1. /\ e' = e /\ UNCHANGED <<cached, watch, link>>
        /\ \A g \in Boxes : mailbox'[g] \in Nat /\ mailbox'[g] >= mailbox[g]
    BY <1>1, <1>7, MailFooting
  <2>2. Watched(e, watch) /\ e.selected \in Boxes /\ mailbox[e.selected] \in Nat
    BY <1>2, <1>3, <2>1 DEF Watched
  <2> QED BY <1>1, <2>1, <2>2, GrownCursor DEF CursorInv
<1>8. CASE Turn
  <2>1. link' = link /\ watch' = watch /\ (link.up => e'.intent = "open")
    BY <1>1, <1>8, TurnSteps DEF Turned
  <2> QED BY <1>1, <1>2, <2>1 DEF Footing
<1>9. CASE Search
  BY <1>1, <1>2, <1>9, SearchSteps
<1>10. CASE Drop
  BY <1>1, <1>2, <1>10, DropSteps
<1>11. CASE Shed
  <2>1. Aged(e, e') /\ UNCHANGED <<mailbox, cached, watch>> /\ e'.intent = e.intent
    BY <1>1, <1>11, ShedSteps
  <2>2. Watched(e, watch) /\ e'.selected = e.selected
    BY <1>2, <2>1 DEF Watched, Aged, Unmoved
  <2> QED BY <1>1, <2>1, <2>2, AgedCursor DEF CursorInv
<1>12. CASE Connect
  <2>1. ~link.up /\ watch' = watch
    BY <1>1, <1>12, ConnectSteps
  <2> QED BY <1>1, <1>2, <2>1 DEF Footing
<1>13. ASSUME NEW r \in e.out, Deliver(r) \/ Reply(r) \/ Fail(r), ~(Reply(r) /\ r.kind = "list" /\ ~e.searching)
       PROVE  Cursor(e', cached'[e'.selected], mailbox'[e'.selected])
  <2>1. CASE Deliver(r)
    <3>1. PICK batch \in SUBSET r.left : Came(r, batch)
      BY <1>1, <2>1, DeliverSteps
    <3>2. r.kind \in HeaderKinds /\ UNCHANGED <<mailbox, watch>>
      BY <1>1, <2>1, DeliverSteps
    <3>3. Watched(e, watch) /\ e'.selected = e.selected /\ e.selected # NoFolder /\ ~e.crossed
      BY <1>2, <3>1, <3>2 DEF Watched, Came
    <3>4. Cursor(e, cached[e.selected], mailbox[e.selected])
      BY <3>3 DEF CursorInv
    <3>5. Cursor(e', cached'[e.selected], mailbox[e.selected])
      BY <1>1, <3>1, <3>2, <3>3, <3>4, RowsCursor
    <3> QED BY <3>2, <3>3, <3>5
  <2>2. CASE r.kind \in HeaderKinds /\ (Reply(r) \/ Fail(r))
    <3>1. UNCHANGED <<mailbox, link, watch, news>>
      BY <1>1, <2>2, HeaderSteps
    <3>2. link.up
      BY <1>1, <1>2, <3>1 DEF Footing
    <3>3. ~e.searching
      <4>1. PICK rows, z : HeaderDone(r, rows, z)
        BY <1>1, <2>2, HeaderSteps
      <4> QED BY <1>2, <4>1 DEF HeaderDone, Settled, Steady, Unmoved
    <3>4. PICK rows, z : Moved(r, rows, z)
      BY <1>1, <2>2, <3>2, <3>3, MovingSteps
    <3>5. Settled(e, r, z) /\ Steady(z, e')
      BY <3>4 DEF Moved
    <3>6. Watched(e, watch) /\ e'.selected = e.selected /\ mailbox[e.selected] \in Nat /\ z.selected = e.selected
      BY <1>5, <3>1, <3>5 DEF Settled
    <3>7. e.selected # NoFolder /\ ~e.crossed /\ Cursor(e, cached[e.selected], mailbox[e.selected])
      BY <3>6 DEF Watched, CursorInv
    <3>8. Cursor(z, cached'[e.selected], mailbox[e.selected])
      BY <1>1, <2>2, <3>4, <3>7, AnswerCursor
    <3>9. Sound(z, mailbox)
      BY <1>1, <2>2, <3>5, SettledIsSound
    <3>10. Cursor(e', cached'[e.selected], mailbox[e.selected])
      BY <1>2, <3>5, <3>6, <3>8, <3>9, SteadyCursor
    <3> QED BY <3>1, <3>6, <3>10
  <2>3. CASE OtherDone(r)
    <3>1. PICK z : Gone(e, r, z) /\ Steady(z, e')
      BY <2>3 DEF OtherDone
    <3>2. UNCHANGED <<mailbox, cached, watch>> /\ r.kind \notin HeaderKinds
      BY <2>3 DEF OtherDone
    <3>3. Watched(e, watch) /\ e'.selected = e.selected /\ mailbox[e.selected] \in Nat /\ z.selected = e.selected
      BY <1>5, <3>1, <3>2 DEF Gone, Unmoved
    <3>4. Cursor(z, cached[e.selected], mailbox[e.selected]) /\ Sound(z, mailbox)
      BY <1>1, <3>1, <3>2, <3>3, GoneCursor, GoneIsSound DEF CursorInv
    <3>5. Cursor(e', cached[e.selected], mailbox[e.selected])
      BY <1>2, <3>1, <3>3, <3>4, SteadyCursor
    <3> QED BY <3>2, <3>3, <3>5
  <2>4. CASE r.kind = "open" /\ Reply(r)
    <3>1. UNCHANGED mailbox /\ \E void \in BOOLEAN : Opened(r, void)
      BY <2>4 DEF Reply
    <3> QED BY <2>4, <3>1, OpenKeepsCursor
  <2>5. r.kind \in Kinds
    BY <1>1 DEF Sound, Asked
  <2>6. Reply(r) /\ (r.kind = "bodies" \/ (r.kind = "list" /\ e.searching)) => OtherDone(r)
    BY <1>1, OtherSteps
  <2>7. Fail(r) /\ r.kind \in {"bodies", "list", "open"} => OtherDone(r)
    BY <1>1, OtherSteps
  <2> QED BY <1>13, <2>1, <2>2, <2>3, <2>4, <2>5, <2>6, <2>7 DEF Kinds, HeaderKinds
<1>14. CASE UNCHANGED vars
  BY <1>14 DEF vars, disk, CursorInv
<1> QED BY <1>6, <1>7, <1>8, <1>9, <1>10, <1>11, <1>12, <1>13, <1>14, NextIs

\* CursorIsHonest: what the cursor counts as fetched has been fetched, so a
\* backfill resumed below it skips no mail, through pages, refreshes, throttled
\* windows, regenerated folders and dropped connections.  A refresh that
\* overtakes an open is left out, and so is a server that refuses a page or the
\* newer mail: that is not asked for again, and the cursor goes on below it.
THEOREM CursorStaysHonest ==
    ASSUME SyncAssumption, Unrefused
    PROVE  Spec => []CursorIsHonest
<1>1. Init => CursorInv
  <2>1. ASSUME Init
        PROVE  CursorInv
    <3>1. Footing
      BY <2>1, FootingInit
    <3>2. ~Watched(e, watch)
      BY <2>1 DEF Init, Watched
    <3> QED BY <3>1, <3>2 DEF CursorInv
  <2> QED BY <2>1
<1>2. CursorInv /\ [Next]_vars => CursorInv'
  BY CursorStep
<1>3. CursorInv => CursorIsHonest
  <2> SUFFICES ASSUME CursorInv, ~e.crossed, ~e.holed, ~e.searching, watch # NoFolder, watch = e.selected,
                      e.intent = "none", e.total = mailbox[e.selected],
                      \A r \in e.out : r.folder = e.selected => r.kind = "bodies",
                      NEW u \in 1 .. e.total, u + e.fetched > e.total
               PROVE  u \in cached[e.selected]
    BY DEF CursorIsHonest
  <2>1. Counted(e, cached[e.selected], e.total)
    BY DEF CursorInv, Watched, Cursor
  <2> QED BY <2>1 DEF Counted, Newest
<1> QED BY <1>1, <1>2, <1>3, PTL DEF Spec
=============================================================================
