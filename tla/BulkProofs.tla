------------------------------ MODULE BulkProofs ------------------------------
(***************************************************************************)
(* Proofs about BulkSend for any accounts, batch size, protocols, and any  *)
(* number of the disturbances it names, the ones the code does not handle  *)
(* included: it implements Delivery, so that no address of a batch gets a  *)
(* message more often than the user asked for, but for the copies that a   *)
(* JMAP server took without the client hearing of it.                      *)
(***************************************************************************)
EXTENDS BulkSend, FiniteSetTheorems, WellFoundedInduction, TLAPS

------------------------------------------------------------------------------
(* Types: the rows, the leg, the client's record and the calls on the wire. *)

Row  == [id : Ids, batch : Ids, account : Accounts, state : {"queued", "sending", "failed"}, later : BOOLEAN]
Leg  == [on : Nat, up : BOOLEAN, row : 0 .. MaxRows, folder : BOOLEAN]
Bulk == [rows : SUBSET Row, next : 1 .. MaxRows + 1, batch : 0 .. MaxRows, owner : Accounts \cup {NoAccount},
         leg : Leg, filing : SUBSET Ids, pause : BOOLEAN, reopen : BOOLEAN, valid : BOOLEAN,
         parked : SUBSET Nat, out : SUBSET [leg : Nat, row : Ids]]
Call == [leg : Nat, row : Ids, answer : {"awaited", "None", "Protocol", "Auth", "Throttled", "Connection"}]

LEMMA LeastIn ==
    ASSUME NEW R, IsWellFoundedOn(R, Nat), NEW S, S \subseteq Nat, S # {}
    PROVE  \E n \in S : \A k \in S : ~(<<k, n>> \in R)
BY WFMin

\* The next row and the next batch are picked by ORDER BY id.
LEMMA MinOf ==
    ASSUME NEW S, S \subseteq Nat, S # {}
    PROVE  Min(S) \in S /\ \A k \in S : Min(S) <= k
<1>1. PICK n \in S : \A k \in S : ~(<<k, n>> \in OpToRel(<, Nat))
  BY LeastIn, NatLessThanWellFounded
<1>2. ASSUME NEW k \in S
      PROVE  n <= k
  <2>1. ~(k < n)
    BY <1>1 DEF OpToRel
  <2> QED BY <2>1
<1> QED BY <1>2, Zenon DEF Min

LEMMA NoLegTyped ==
    NoLeg \in Leg /\ NoLeg.on = 0 /\ NoLeg.row = 0
<1>1. MaxRows \in Nat
  BY BulkAssumption
<1> QED BY <1>1 DEF NoLeg, Leg

\* What the queries make of a set of rows.
HasIn(R, i, s) == \E r \in R : r.id = i /\ r.state = s

LEMMA SetTyped ==
    ASSUME NEW R \in SUBSET Row, NEW id, NEW s \in {"queued", "sending", "failed"}, NEW later \in BOOLEAN
    PROVE  /\ Set(R, id, s, later) \in SUBSET Row
           /\ Marked(R, id, s) \in SUBSET Row
           /\ Dropped(R, id) \in SUBSET Row
BY DEF Set, Marked, Dropped, Row

\* A row keeps its id, account and batch; the row named takes the state.
LEMMA SetRow ==
    ASSUME NEW R \in SUBSET Row, NEW id, NEW s, NEW later \in BOOLEAN, NEW q \in Set(R, id, s, later)
    PROVE  \E r \in R : /\ q.id = r.id /\ q.account = r.account /\ q.batch = r.batch
                        /\ q.state = IF r.id = id THEN s ELSE r.state
                        /\ q.id # id => q = r
BY DEF Set, Row

LEMMA MarkedRow ==
    ASSUME NEW R \in SUBSET Row, NEW id, NEW s, NEW q \in Marked(R, id, s)
    PROVE  \E r \in R : /\ q.id = r.id /\ q.account = r.account /\ q.batch = r.batch
                        /\ q.state = IF r.id = id THEN s ELSE r.state
                        /\ q.id # id => q = r
BY DEF Marked, Row

LEMMA SetHas ==
    ASSUME NEW R \in SUBSET Row, NEW id, NEW s, NEW later \in BOOLEAN, NEW i, NEW t
    PROVE  HasIn(Set(R, id, s, later), i, t) <=>
               IF i = id THEN s = t /\ \E r \in R : r.id = id ELSE HasIn(R, i, t)
<1>1. ASSUME NEW q \in Set(R, id, s, later), q.id = i, q.state = t
      PROVE  IF i = id THEN s = t /\ \E r \in R : r.id = id ELSE HasIn(R, i, t)
  BY <1>1, SetRow DEF HasIn
<1>2. ASSUME NEW r \in R, r.id = i, IF i = id THEN s = t ELSE r.state = t
      PROVE  HasIn(Set(R, id, s, later), i, t)
  <2> DEFINE q == IF r.id = id THEN [r EXCEPT !.state = s, !.later = later] ELSE r
  <2>1. q \in Set(R, id, s, later)
    BY DEF Set
  <2>2. q.id = i /\ q.state = t
    BY <1>2 DEF Row
  <2> QED BY <2>1, <2>2 DEF HasIn
<1> QED BY <1>1, <1>2 DEF HasIn

LEMMA MarkedHas ==
    ASSUME NEW R \in SUBSET Row, NEW id, NEW s, NEW i, NEW t
    PROVE  HasIn(Marked(R, id, s), i, t) <=>
               IF i = id THEN s = t /\ \E r \in R : r.id = id ELSE HasIn(R, i, t)
<1>1. ASSUME NEW q \in Marked(R, id, s), q.id = i, q.state = t
      PROVE  IF i = id THEN s = t /\ \E r \in R : r.id = id ELSE HasIn(R, i, t)
  BY <1>1, MarkedRow DEF HasIn
<1>2. ASSUME NEW r \in R, r.id = i, IF i = id THEN s = t ELSE r.state = t
      PROVE  HasIn(Marked(R, id, s), i, t)
  <2> DEFINE q == IF r.id = id THEN [r EXCEPT !.state = s] ELSE r
  <2>1. q \in Marked(R, id, s)
    BY DEF Marked
  <2>2. q.id = i /\ q.state = t
    BY <1>2 DEF Row
  <2> QED BY <2>1, <2>2 DEF HasIn
<1> QED BY <1>1, <1>2 DEF HasIn

OneEach(R) == \A r, q \in R : r.id = q.id => r = q

LEMMA SetOneEach ==
    ASSUME NEW R \in SUBSET Row, OneEach(R), NEW id, NEW s, NEW later \in BOOLEAN
    PROVE  OneEach(Set(R, id, s, later)) /\ OneEach(Marked(R, id, s)) /\ OneEach(Dropped(R, id))
<1>1. OneEach(Set(R, id, s, later))
  BY DEF OneEach, Set, Row
<1>2. OneEach(Marked(R, id, s))
  BY DEF OneEach, Marked, Row
<1>3. OneEach(Dropped(R, id))
  BY DEF OneEach, Dropped
<1> QED BY <1>1, <1>2, <1>3
------------------------------------------------------------------------------
(* What the client's operators do to its rows and its leg: nothing, or the  *)
(* next row goes out, or the row on the wire is given up with the leg.      *)

Quiet(x, y) ==
    /\ y \in Bulk /\ y.rows = x.rows /\ y.next = x.next /\ y.out = x.out
    /\ y.leg.row # 0 => y.leg.row = x.leg.row

Sends(x, y) ==
    /\ y \in Bulk /\ y.next = x.next /\ x.leg.on # 0 /\ x.leg.row = 0
    /\ \E i \in Ids : /\ HasIn(x.rows, i, "queued")
                      /\ y.rows = Marked(x.rows, i, "sending")
                      /\ y.leg.row = i /\ y.leg.on = x.leg.on
                      /\ y.out = x.out \cup {[leg |-> x.leg.on, row |-> i]}

Ends(x, y) ==
    /\ y \in Bulk /\ y.next = x.next /\ y.out = x.out
    /\ x.leg.row # 0 /\ y.leg.row = 0
    /\ \E later \in BOOLEAN : y.rows = Set(x.rows, x.leg.row, "failed", later)

LEMMA QuietQuiet ==
    ASSUME NEW x, NEW y, NEW z, Quiet(x, y), Quiet(y, z)
    PROVE  Quiet(x, z)
BY DEF Quiet

LEMMA RefreshIsQuiet ==
    ASSUME NEW x \in Bulk
    PROVE  /\ Quiet(x, RefreshedProgress(x))
           /\ RefreshedProgress(x).leg = x.leg
<1>1. CASE RefreshedProgress(x) = x
  BY <1>1 DEF Quiet
<1>2. CASE RefreshedProgress(x) = [x EXCEPT !.batch = 0, !.owner = NoAccount]
  <2> DEFINE y == [x EXCEPT !.batch = 0, !.owner = NoAccount]
  <2>1. y \in Bulk
    <3>1. 0 \in 0 .. MaxRows
      BY BulkAssumption
    <3> QED BY <3>1 DEF Bulk
  <2>2. y.rows = x.rows /\ y.next = x.next /\ y.out = x.out /\ y.leg = x.leg
    BY DEF Bulk
  <2> QED BY <1>2, <2>1, <2>2 DEF Quiet
<1> QED BY <1>1, <1>2 DEF RefreshedProgress

LEMMA EndLegEnds ==
    ASSUME NEW x \in Bulk, NEW reason \in BOOLEAN
    PROVE  /\ Quiet(x, EndLeg(x, reason)) \/ Ends(x, EndLeg(x, reason))
           /\ x.leg.row = 0 => Quiet(x, EndLeg(x, reason))
           /\ x.leg.on # 0 => EndLeg(x, reason).leg = NoLeg
<1>1. CASE x.leg.on = 0
  BY <1>1 DEF EndLeg, Quiet
<1>2. CASE x.leg.on # 0
  <2> DEFINE R == IF x.leg.row = 0 THEN x.rows ELSE Set(x.rows, x.leg.row, "failed", FALSE)
             cut == [x EXCEPT !.rows = R, !.filing = {}, !.leg = NoLeg]
             y == RefreshedProgress(cut)
             z == [y EXCEPT !.reopen = @ \/ (reason /\ y.batch # 0)]
  <2>1. R \in SUBSET Row
    BY SetTyped DEF Bulk
  <2>2. /\ cut \in Bulk /\ cut.rows = R /\ cut.leg = NoLeg /\ cut.next = x.next /\ cut.out = x.out
    <3> HIDE DEF R
    <3> QED BY <2>1, NoLegTyped DEF Bulk
  <2>3. cut = [x EXCEPT !.rows = IF x.leg.row = 0 THEN @ ELSE Set(@, x.leg.row, "failed", FALSE),
                        !.filing = {}, !.leg = NoLeg]
    BY DEF Bulk
  <2>4. EndLeg(x, reason) = z
    BY <1>2, <2>3 DEF EndLeg
  <2> HIDE DEF cut
  <2>5. Quiet(cut, y) /\ y.leg = NoLeg
    BY <2>2, RefreshIsQuiet
  <2> HIDE DEF y
  <2>6. z \in Bulk /\ z.rows = y.rows /\ z.leg = y.leg /\ z.next = y.next /\ z.out = y.out
    BY <2>5 DEF Quiet, Bulk
  <2> HIDE DEF z
  <2>7. z \in Bulk /\ z.rows = R /\ z.leg = NoLeg /\ z.next = x.next /\ z.out = x.out
    BY <2>2, <2>5, <2>6 DEF Quiet
  <2> QED BY <2>4, <2>7, NoLegTyped DEF Quiet, Ends
<1> QED BY <1>1, <1>2

\* A row that is due and queued goes out over a leg that carries none.
LEMMA DrainLegSends ==
    ASSUME NEW x \in Bulk
    PROVE  Quiet(x, DrainLeg(x)) \/ Sends(x, DrainLeg(x))
<1> DEFINE due == {r \in Waiting(x) : ~r.later}
           i == Min({r.id : r \in due})
           y == [x EXCEPT !.rows = Marked(@, i, "sending"), !.leg.row = i,
                          !.out = @ \cup {[leg |-> x.leg.on, row |-> i]}]
<1>1. CASE DrainLeg(x) = x
  BY <1>1 DEF Quiet
<1>2. CASE DrainLeg(x) = [x EXCEPT !.pause = TRUE]
  BY <1>2 DEF Quiet, Bulk
<1>3. CASE x.leg.row = 0 /\ DrainLeg(x) = EndLeg(x, FALSE)
  BY <1>3, EndLegEnds
<1>4. CASE x.leg.row = 0 /\ DrainLeg(x) = EndLeg(RefreshedProgress(x), FALSE)
  <2>1. Quiet(x, RefreshedProgress(x)) /\ RefreshedProgress(x).leg = x.leg
    BY RefreshIsQuiet
  <2>2. Quiet(RefreshedProgress(x), EndLeg(RefreshedProgress(x), FALSE))
    BY <1>4, <2>1, EndLegEnds DEF Quiet
  <2> QED BY <1>4, <2>1, <2>2, QuietQuiet
<1>5. CASE x.leg.on # 0 /\ x.leg.row = 0 /\ due # {} /\ DrainLeg(x) = y
  <2>1. due \subseteq x.rows /\ x.rows \subseteq Row /\ \A r \in due : r.state = "queued"
    BY DEF Waiting, Of, Bulk
  <2>2. i \in {r.id : r \in due}
    <3>1. {r.id : r \in due} \subseteq Nat /\ {r.id : r \in due} # {}
      BY <1>5, <2>1 DEF Row, Ids
    <3> QED BY <3>1, MinOf
  <2> HIDE DEF i, due
  <2>3. i \in Ids /\ HasIn(x.rows, i, "queued")
    BY <2>1, <2>2 DEF Row, HasIn
  <2>4. i \in 0 .. MaxRows /\ i # 0 /\ x.leg.on \in Nat
    BY <2>3, BulkAssumption DEF Ids, Bulk, Leg
  <2> DEFINE M == Marked(x.rows, i, "sending")
             o == [leg |-> x.leg.on, row |-> i]
             l == [x.leg EXCEPT !.row = i]
  <2>5. M \in SUBSET Row /\ o \in [leg : Nat, row : Ids]
    BY <2>3, <2>4, SetTyped DEF Bulk
  <2>6. l \in Leg /\ l.row = i /\ l.on = x.leg.on
    BY <2>4 DEF Bulk, Leg
  <2>7. y = [x EXCEPT !.rows = M, !.leg = l, !.out = x.out \cup {o}]
    BY DEF Bulk
  <2> HIDE DEF M, o, l, y
  <2>8. y \in Bulk /\ y.rows = M /\ y.leg = l /\ y.out = x.out \cup {o} /\ y.next = x.next
    BY <2>5, <2>6, <2>7 DEF Bulk
  <2>9. /\ y.rows = Marked(x.rows, i, "sending") /\ y.leg.row = i /\ y.leg.on = x.leg.on
        /\ y.out = x.out \cup {[leg |-> x.leg.on, row |-> i]}
    BY <2>6, <2>8 DEF M, o
  <2>10. Sends(x, y)
    BY <1>5, <2>3, <2>8, <2>9 DEF Sends
  <2> QED BY <1>5, <2>10
<1> QED BY <1>1, <1>2, <1>3, <1>4, <1>5 DEF DrainLeg

\* There is a number no call on the wire goes by: there are more numbers to
\* pick from than calls.
LEMMA FreeLegIsFree ==
    ASSUME wire \subseteq Call, IsFiniteSet(wire)
    PROVE  FreeLeg \in Nat \ {0} /\ \A w \in wire : w.leg # FreeLeg
<1> DEFINE n == Cardinality(wire)
           f == [w \in wire |-> w.leg]
           used == {f[w] : w \in wire}
<1>1. n \in Nat
  BY FS_CardinalityType
<1>2. IsFiniteSet(used) /\ Cardinality(used) <= n
  <2>1. f \in Surjection(wire, used)
    BY DEF Surjection
  <2> QED BY <2>1, FS_Surjection
<1>3. \E k \in 1 .. n + 1 : k \notin used
  <2>1. SUFFICES ASSUME 1 .. n + 1 \subseteq used PROVE FALSE
    OBVIOUS
  <2>2. Cardinality(1 .. n + 1) = n + 1
    BY <1>1, FS_Interval
  <2>3. Cardinality(1 .. n + 1) <= Cardinality(used)
    BY <1>2, <2>1, FS_Subset
  <2>4. Cardinality(used) \in Nat
    BY <1>2, FS_CardinalityType
  <2> QED BY <1>1, <1>2, <2>2, <2>3, <2>4
<1>4. \E k \in 1 .. Cardinality(wire) + 1 : \A w \in wire : w.leg # k
  BY <1>3
<1>5. FreeLeg \in 1 .. Cardinality(wire) + 1 /\ \A w \in wire : w.leg # FreeLeg
  BY <1>4, Zenon DEF FreeLeg
<1> QED BY <1>1, <1>5

LEMMA OpenedIsQuiet ==
    ASSUME NEW x \in Bulk, wire \subseteq Call, IsFiniteSet(wire), listed \in BOOLEAN
    PROVE  Quiet(x, LegOpened(x))
<1> DEFINE l == [on |-> FreeLeg, up |-> FALSE, row |-> 0, folder |-> listed]
<1>1. l \in Leg /\ l.row = 0
  <2>1. 0 \in 0 .. MaxRows
    BY BulkAssumption
  <2> QED BY <2>1, FreeLegIsFree DEF Leg
<1>2. LegOpened(x) = [x EXCEPT !.leg = l]
  BY DEF LegOpened
<1> HIDE DEF l
<1> QED BY <1>1, <1>2 DEF Quiet, Bulk

LEMMA StartIsQuiet ==
    ASSUME NEW x \in Bulk, wire \subseteq Call, IsFiniteSet(wire), listed \in BOOLEAN, NEW connected
    PROVE  Quiet(x, StartLeg(x, connected))
<1>1. CASE StartLeg(x, connected) = x
  BY <1>1 DEF Quiet
<1>2. CASE StartLeg(x, connected) = LegOpened(x)
  BY <1>2, OpenedIsQuiet
<1>3. CASE StartLeg(x, connected) = [x EXCEPT !.parked = @ \cup {x.batch}]
  <2>1. x.parked \cup {x.batch} \in SUBSET Nat
    BY BulkAssumption DEF Bulk
  <2> QED BY <1>3, <2>1 DEF Quiet, Bulk
<1> QED BY <1>1, <1>2, <1>3 DEF StartLeg

LEMMA ResumeIsQuiet ==
    ASSUME NEW x \in Bulk, wire \subseteq Call, IsFiniteSet(wire), listed \in BOOLEAN, account \in Accounts,
           NEW connected
    PROVE  Quiet(x, ResumeBatch(x, connected))
<1> DEFINE y == IF x.batch # 0 \/ Active(x) = {} THEN x
                ELSE [x EXCEPT !.batch = Min(Active(x)), !.owner = account]
<1>1. Quiet(x, y)
  <2>1. CASE x.batch # 0 \/ Active(x) = {}
    BY <2>1 DEF Quiet
  <2>2. CASE ~(x.batch # 0 \/ Active(x) = {})
    <3>1. Active(x) \subseteq Ids
      BY DEF Active, Bulk, Row
    <3>2. Min(Active(x)) \in 0 .. MaxRows
      BY <2>2, <3>1, MinOf, BulkAssumption DEF Ids
    <3> QED BY <2>2, <3>2 DEF Quiet, Bulk
  <2> QED BY <2>1, <2>2
<1> HIDE DEF y
<1>2. Quiet(y, RefreshedProgress(y)) /\ RefreshedProgress(y) \in Bulk
  BY <1>1, RefreshIsQuiet DEF Quiet
<1>3. Quiet(RefreshedProgress(y), StartLeg(RefreshedProgress(y), connected))
  BY <1>2, StartIsQuiet
<1>4. ResumeBatch(x, connected) = IF x.leg.on # 0 THEN x ELSE StartLeg(RefreshedProgress(y), connected)
  BY DEF ResumeBatch, y
<1>5. Quiet(x, x)
  BY DEF Quiet
<1> QED BY <1>1, <1>2, <1>3, <1>4, <1>5, QuietQuiet
------------------------------------------------------------------------------
(* The claims on a message.  What left, what is on the wire and may yet be  *)
(* sent again, and what is queued never exceed what the user asked for.  It *)
(* holds because a row whose call is under way is not queued, and is not    *)
(* put back but with the report of that call.                               *)

Over          == {"None", "Protocol"}
Pending(W, i) == {w \in W : w.row = i /\ w.answer \notin Over}

Claims(R, W, c, i) == c[i] + Cardinality(Pending(W, i)) + (IF HasIn(R, i, "queued") THEN 1 ELSE 0)

Sound(x, W, a, c) ==
    /\ x \in Bulk /\ OneEach(x.rows)
    /\ W \subseteq Call /\ IsFiniteSet(W) /\ a \in [Ids -> Nat] /\ c \in [Ids -> Nat]
    /\ \A i \in Ids : Claims(x.rows, W, c, i) <= a[i]
    /\ \A i \in Ids : i >= x.next => a[i] = 0
    /\ \A r \in x.rows : r.id < x.next
    /\ x.leg.row < x.next
    /\ x.leg.row # 0 => \A r \in x.rows : r.id = x.leg.row => r.state = "sending"

\* What is owed, of any rows.
OwedIn(R, a, c) == {i \in Ids : c[i] < a[i] /\ (HasIn(R, i, "queued") \/ HasIn(R, i, "sending"))}

\* What is asked once S is asked for, or taken back.
MoreAsked(a, S) == [i \in Ids |-> IF i \in S THEN a[i] + 1 ELSE a[i]]
LessAsked(a, S) == [i \in Ids |-> IF i \in S THEN a[i] - 1 ELSE a[i]]

\* The rows of a batch about to be queued, and the queued ones of some rows.
Fresh(x)    == x.next .. x.next + Size - 1
QueuedIn(G) == {i \in Ids : \E r \in G : r.id = i /\ r.state = "queued"}

LEMMA OwedHere ==
    /\ Owed = OwedIn(b.rows, asked, copies)
    /\ Owed' = OwedIn(b'.rows, asked', copies')
<1>1. Owed = OwedIn(b.rows, asked, copies)
  BY DEF Owed, OwedIn, HasIn, Live
<1>2. Owed' = OwedIn(b'.rows, asked', copies')
  BY DEF Owed, OwedIn, HasIn, Live
<1> QED BY <1>1, <1>2

LEMMA PendingFinite ==
    ASSUME NEW W, IsFiniteSet(W), NEW i
    PROVE  IsFiniteSet(Pending(W, i)) /\ Cardinality(Pending(W, i)) \in Nat
<1>1. Pending(W, i) \subseteq W
  BY DEF Pending
<1>2. IsFiniteSet(Pending(W, i))
  BY <1>1, FS_Subset
<1> QED BY <1>2, FS_CardinalityType

\* The number of the row on the wire was given out.
LEMMA LegGivenOut ==
    ASSUME NEW x, NEW W, NEW a, NEW c, Sound(x, W, a, c), NEW y, y.next = x.next,
           y.leg.row = 0 \/ y.leg.row = x.leg.row
    PROVE  y.leg.row < y.next
<1>1. x.next \in Nat /\ x.next >= 1 /\ x.leg.row < x.next
  BY DEF Sound, Bulk
<1> QED BY <1>1

LEMMA SoundQuiet ==
    ASSUME NEW x, NEW W, NEW a, NEW c, Sound(x, W, a, c), NEW y, Quiet(x, y)
    PROVE  Sound(y, W, a, c)
<1>1. y.leg.row < y.next
  BY LegGivenOut DEF Quiet
<1> QED BY <1>1 DEF Sound, Quiet

\* Fewer are queued and none is new: the claims can only shrink.
LEMMA ClaimsShrink ==
    ASSUME NEW W, IsFiniteSet(W), NEW c \in [Ids -> Nat], NEW i \in Ids, NEW R, NEW Q, NEW V, V \subseteq W,
           HasIn(Q, i, "queued") => HasIn(R, i, "queued")
    PROVE  Claims(Q, V, c, i) <= Claims(R, W, c, i)
<1>1. IsFiniteSet(Pending(W, i)) /\ Cardinality(Pending(W, i)) \in Nat
  BY PendingFinite
<1>2. Pending(V, i) \subseteq Pending(W, i)
  BY DEF Pending
<1>3. Cardinality(Pending(V, i)) <= Cardinality(Pending(W, i)) /\ Cardinality(Pending(V, i)) \in Nat
  BY <1>1, <1>2, FS_Subset, FS_CardinalityType
<1>4. c[i] \in Nat
  OBVIOUS
<1> DEFINE p == Cardinality(Pending(W, i))  q == Cardinality(Pending(V, i))  n == c[i]
<1>5. p \in Nat /\ q \in Nat /\ n \in Nat /\ q <= p
  BY <1>1, <1>3, <1>4
<1> HIDE DEF p, q, n
<1>6. n + q + (IF HasIn(Q, i, "queued") THEN 1 ELSE 0) <= n + p + (IF HasIn(R, i, "queued") THEN 1 ELSE 0)
  BY <1>5
<1> QED BY <1>6 DEF Claims, p, q, n

LEMMA ClaimsNat ==
    ASSUME NEW W, IsFiniteSet(W), NEW c \in [Ids -> Nat], NEW i \in Ids, NEW R
    PROVE  Claims(R, W, c, i) \in Nat
<1>1. Cardinality(Pending(W, i)) \in Nat /\ c[i] \in Nat
  BY PendingFinite
<1> QED BY <1>1 DEF Claims

LEMMA SoundEnds ==
    ASSUME NEW x, NEW W, NEW a, NEW c, Sound(x, W, a, c), NEW y, Ends(x, y)
    PROVE  Sound(y, W, a, c) /\ OwedIn(y.rows, a, c) \subseteq OwedIn(x.rows, a, c)
<1>1. x.rows \in SUBSET Row /\ y \in Bulk /\ y.next = x.next
  BY DEF Sound, Ends, Bulk
<1>0. PICK later \in BOOLEAN : y.rows = Set(x.rows, x.leg.row, "failed", later)
  BY DEF Ends
<1>2. OneEach(y.rows)
  BY <1>0, <1>1, SetOneEach DEF Sound
<1>3. ASSUME NEW i, NEW t \in {"queued", "sending"}, HasIn(y.rows, i, t)
      PROVE  HasIn(x.rows, i, t)
  <2>1. HasIn(y.rows, i, t) <=> IF i = x.leg.row THEN "failed" = t /\ \E r \in x.rows : r.id = x.leg.row
                                ELSE HasIn(x.rows, i, t)
    BY <1>0, <1>1, SetHas
  <2> QED BY <1>3, <2>1
<1>4. ASSUME NEW i \in Ids
      PROVE  Claims(y.rows, W, c, i) <= a[i]
  <2>1. Claims(y.rows, W, c, i) <= Claims(x.rows, W, c, i)
    BY <1>3, ClaimsShrink DEF Sound
  <2>2. Claims(y.rows, W, c, i) \in Nat /\ Claims(x.rows, W, c, i) \in Nat /\ a[i] \in Nat
    BY ClaimsNat DEF Sound
  <2>3. Claims(x.rows, W, c, i) <= a[i]
    BY DEF Sound
  <2> QED BY <2>1, <2>2, <2>3
<1>5. ASSUME NEW r \in y.rows PROVE r.id < y.next
  <2>1. PICK q \in x.rows : r.id = q.id
    BY <1>0, <1>1, SetRow
  <2> QED BY <1>1, <2>1 DEF Sound
<1>6. OwedIn(y.rows, a, c) \subseteq OwedIn(x.rows, a, c)
  BY <1>3 DEF OwedIn
<1>7. y.leg.row < y.next
  BY LegGivenOut DEF Ends
<1> QED BY <1>1, <1>2, <1>4, <1>5, <1>6, <1>7 DEF Sound, Ends

\* The claim of a row that goes out passes from the queue to the wire.
LEMMA SoundSends ==
    ASSUME NEW x, NEW W, NEW a, NEW c, Sound(x, W, a, c), NEW y, Sends(x, y), NEW i \in Ids,
           HasIn(x.rows, i, "queued"), y.rows = Marked(x.rows, i, "sending"), y.leg.row = i,
           NEW n \in Nat
    PROVE  /\ Sound(y, W \cup {[leg |-> n, row |-> i, answer |-> "awaited"]}, a, c)
           /\ OwedIn(y.rows, a, c) = OwedIn(x.rows, a, c)
<1> DEFINE new == [leg |-> n, row |-> i, answer |-> "awaited"]
           V == W \cup {new}
<1>1. x.rows \in SUBSET Row /\ y \in Bulk /\ y.next = x.next
  BY DEF Sound, Sends, Bulk
<1>2. OneEach(y.rows)
  BY <1>1, SetOneEach DEF Sound
<1>3. new \in Call /\ new.row = i /\ new.answer = "awaited"
  BY DEF Call
<1> HIDE DEF new
<1>4. V \subseteq Call /\ IsFiniteSet(V)
  BY <1>3, FS_AddElement DEF Sound
<1>5. \E r \in x.rows : r.id = i
  BY DEF HasIn
<1>6. ASSUME NEW k, NEW t
      PROVE  HasIn(y.rows, k, t) <=> IF k = i THEN t = "sending" ELSE HasIn(x.rows, k, t)
  BY <1>1, <1>5, MarkedHas
<1>7. ASSUME NEW k \in Ids
      PROVE  Claims(y.rows, V, c, k) <= a[k]
  <2>1. Claims(x.rows, W, c, k) <= a[k] /\ a[k] \in Nat /\ c[k] \in Nat
    BY DEF Sound
  <2>2. CASE k # i
    <3>1. Pending(V, k) = Pending(W, k)
      BY <1>3, <2>2 DEF Pending
    <3> QED BY <1>6, <2>1, <2>2, <3>1 DEF Claims
  <2>3. CASE k = i
    <3> DEFINE p == Cardinality(Pending(W, k))  q == Cardinality(Pending(V, k))
    <3>1. IsFiniteSet(Pending(W, k)) /\ p \in Nat
      BY PendingFinite DEF Sound
    <3>2. Pending(V, k) = Pending(W, k) \cup {new}
      BY <1>3, <2>3 DEF Pending, Over
    <3>3. q \in Nat /\ q <= p + 1
      <4>1. Cardinality(Pending(W, k) \cup {new}) \in {p, p + 1}
        BY <3>1, FS_AddElement
      <4>2. q \in {p, p + 1}
        BY <3>2, <4>1
      <4> HIDE DEF p, q
      <4> QED BY <3>1, <4>2
    <3>4. Claims(x.rows, W, c, k) = c[k] + p + 1
      BY <2>3 DEF Claims
    <3>5. Claims(y.rows, V, c, k) = c[k] + q + 0
      BY <1>6, <2>3 DEF Claims
    <3> HIDE DEF p, q
    <3> QED BY <2>1, <3>1, <3>3, <3>4, <3>5
  <2> QED BY <2>2, <2>3
<1>8. ASSUME NEW r \in y.rows
      PROVE  r.id < y.next /\ (r.id = i => r.state = "sending")
  <2>1. PICK q \in x.rows : r.id = q.id /\ r.state = IF q.id = i THEN "sending" ELSE q.state
    BY <1>1, MarkedRow
  <2> QED BY <1>1, <2>1 DEF Sound
<1>9. OwedIn(y.rows, a, c) = OwedIn(x.rows, a, c)
  BY <1>6 DEF OwedIn
<1>10. y.leg.row < y.next
  BY <1>1, <1>5 DEF Sound
<1> QED BY <1>1, <1>2, <1>4, <1>7, <1>8, <1>9, <1>10 DEF Sound, new

LEMMA OutCleared ==
    ASSUME NEW y \in Bulk
    PROVE  /\ [y EXCEPT !.out = {}] \in Bulk
           /\ [y EXCEPT !.out = {}].rows = y.rows
           /\ [y EXCEPT !.out = {}].next = y.next
           /\ [y EXCEPT !.out = {}].leg = y.leg
           /\ [y EXCEPT !.out = {}].out = {}
BY DEF Bulk

LEMMA SoundCleared ==
    ASSUME NEW y, NEW W, NEW a, NEW c, Sound(y, W, a, c), NEW z, z = [y EXCEPT !.out = {}]
    PROVE  Sound(z, W, a, c) /\ z.out = {} /\ z.rows = y.rows /\ z.next = y.next
BY OutCleared DEF Sound

\* What the client settles on is sound if it was before its operators ran.
LEMMA Became ==
    ASSUME NEW x, NEW a, NEW c, Sound(x, wire, a, c), x.out = {}, NEW y, Becomes(y),
           Quiet(x, y) \/ Sends(x, y) \/ Ends(x, y)
    PROVE  /\ Sound(b', wire', a, c) /\ b'.out = {} /\ b'.next = x.next
           /\ OwedIn(b'.rows, a, c) \subseteq OwedIn(x.rows, a, c)
           /\ Quiet(x, y) \/ Sends(x, y) => OwedIn(b'.rows, a, c) = OwedIn(x.rows, a, c)
<1> DEFINE calls == {[leg |-> w.leg, row |-> w.row, answer |-> "awaited"] : w \in y.out}
<1>1. b' = [y EXCEPT !.out = {}] /\ wire' = wire \cup calls
  BY DEF Becomes
<1>2. CASE Sends(x, y)
  <2>1. PICK i \in Ids : /\ HasIn(x.rows, i, "queued")
                         /\ y.rows = Marked(x.rows, i, "sending")
                         /\ y.leg.row = i /\ y.leg.on = x.leg.on
                         /\ y.out = x.out \cup {[leg |-> x.leg.on, row |-> i]}
    BY <1>2 DEF Sends
  <2>2. calls = {[leg |-> x.leg.on, row |-> i, answer |-> "awaited"]}
    BY <2>1
  <2>3. x.leg.on \in Nat
    BY DEF Sound, Bulk, Leg
  <2>4. /\ Sound(y, wire \cup {[leg |-> x.leg.on, row |-> i, answer |-> "awaited"]}, a, c)
        /\ OwedIn(y.rows, a, c) = OwedIn(x.rows, a, c)
    BY <1>2, <2>1, <2>3, SoundSends
  <2>5. Sound(y, wire', a, c) /\ y.next = x.next
    BY <1>1, <1>2, <2>2, <2>4 DEF Sends
  <2>6. Sound(b', wire', a, c) /\ b'.out = {} /\ b'.rows = y.rows /\ b'.next = y.next
    BY <1>1, <2>5, SoundCleared
  <2> QED BY <2>4, <2>5, <2>6
<1>3. CASE Quiet(x, y) \/ Ends(x, y)
  <2>1. y.out = {} /\ y.next = x.next
    BY <1>3 DEF Quiet, Ends
  <2>2. wire' = wire
    BY <1>1, <2>1
  <2>3. Sound(y, wire, a, c)
    BY <1>3, SoundQuiet, SoundEnds
  <2>4. Sound(b', wire', a, c) /\ b'.out = {} /\ b'.rows = y.rows /\ b'.next = y.next
    BY <1>1, <2>2, <2>3, SoundCleared
  <2>5. CASE Quiet(x, y)
    BY <2>1, <2>4, <2>5 DEF Quiet
  <2>6. CASE Ends(x, y) /\ ~Quiet(x, y) /\ ~Sends(x, y)
    BY <2>1, <2>4, <2>6, SoundEnds
  <2> QED BY <1>2, <1>3, <2>5, <2>6
<1> QED BY <1>2, <1>3

\* The invariant: the claims, and nothing is half said.
BulkInv ==
    /\ Sound(b, wire, asked, copies) /\ b.out = {}
    /\ account \in Accounts /\ listed \in BOOLEAN
    /\ composing => b.next + Size <= MaxRows + 1

\* Nothing is asked or sent, and no more is owed: the user may have been told
\* of some that are not.
LEMMA LessIsOwed ==
    ASSUME UNCHANGED <<asked, copies>>, Owed' \subseteq Owed
    PROVE  Promise!Next
<1>1. Owed' = Owed \ (Owed \ Owed') /\ Owed \ Owed' \in SUBSET Ids
  BY DEF Owed
<1>2. Promise!GiveUp(Owed \ Owed')
  BY <1>1 DEF Promise!GiveUp
<1> QED BY <1>1, <1>2 DEF Promise!Next

LEMMA SameOwed ==
    ASSUME BulkInv, UNCHANGED <<asked, copies>>, b'.rows = b.rows
    PROVE  Promise!Next
<1>1. Owed' = Owed
  BY OwedHere
<1> QED BY <1>1, LessIsOwed

\* Steps that only let the client's operators run on its record as it is, or
\* with a flag turned.
LEMMA PlainStep ==
    ASSUME BulkInv, NEW x, Quiet(b, x), NEW y, Becomes(y),
           Quiet(x, y) \/ Sends(x, y) \/ Ends(x, y),
           UNCHANGED <<asked, copies>>
    PROVE  Sound(b', wire', asked', copies') /\ b'.out = {} /\ b'.next = b.next /\ Promise!Next
<1>1. Sound(x, wire, asked, copies) /\ x.out = {} /\ x.rows = b.rows /\ x.next = b.next
  BY SoundQuiet DEF BulkInv, Quiet
<1>2. /\ Sound(b', wire', asked, copies) /\ b'.out = {} /\ b'.next = x.next
      /\ OwedIn(b'.rows, asked, copies) \subseteq OwedIn(x.rows, asked, copies)
  BY <1>1, Became
<1>3. Owed' \subseteq Owed
  BY <1>1, <1>2, OwedHere
<1> QED BY <1>1, <1>2, <1>3, LessIsOwed

------------------------------------------------------------------------------
(* Steps that change the rows themselves.                                   *)

\* Rows that are gone, or in a state that claims no more than before.
LEMMA SoundFrom ==
    ASSUME NEW x, NEW W, NEW a, NEW c, Sound(x, W, a, c),
           NEW y \in Bulk, y.next = x.next, OneEach(y.rows), NEW V, V \subseteq W,
           \A i \in Ids : HasIn(y.rows, i, "queued") => HasIn(x.rows, i, "queued"),
           \A r \in y.rows : \E q \in x.rows : q.id = r.id,
           y.leg.row \in {0, x.leg.row},
           y.leg.row # 0 => \A r \in y.rows : r.id = y.leg.row => r.state = "sending"
    PROVE  Sound(y, V, a, c)
<1>1. V \subseteq Call /\ IsFiniteSet(V)
  BY FS_Subset DEF Sound
<1>2. ASSUME NEW i \in Ids
      PROVE  Claims(y.rows, V, c, i) <= a[i]
  <2>1. Claims(y.rows, V, c, i) <= Claims(x.rows, W, c, i)
    BY ClaimsShrink DEF Sound
  <2>2. Claims(y.rows, V, c, i) \in Nat /\ Claims(x.rows, W, c, i) \in Nat /\ a[i] \in Nat
    BY <1>1, ClaimsNat DEF Sound
  <2>3. Claims(x.rows, W, c, i) <= a[i]
    BY DEF Sound
  <2> QED BY <2>1, <2>2, <2>3
<1>3. \A r \in y.rows : r.id < y.next
  BY DEF Sound
<1>4. y.leg.row < y.next
  BY LegGivenOut
<1> QED BY <1>1, <1>2, <1>3, <1>4 DEF Sound

LEMMA SoundFewer ==
    ASSUME NEW x, NEW W, NEW a, NEW c, Sound(x, W, a, c),
           NEW y \in Bulk, y.next = x.next, y.leg.row \in {0, x.leg.row}, y.rows \subseteq x.rows,
           NEW V, V \subseteq W
    PROVE  Sound(y, V, a, c) /\ OwedIn(y.rows, a, c) \subseteq OwedIn(x.rows, a, c)
<1>1. OneEach(y.rows)
  BY DEF Sound, OneEach
<1>2. \A i, t : HasIn(y.rows, i, t) => HasIn(x.rows, i, t)
  BY DEF HasIn
<1>3. y.leg.row # 0 => \A r \in y.rows : r.id = y.leg.row => r.state = "sending"
  BY DEF Sound
<1>4. \A r \in y.rows : \E q \in x.rows : q.id = r.id
  OBVIOUS
<1> QED BY <1>1, <1>2, <1>3, <1>4, SoundFrom DEF OwedIn

\* What is withdrawn was queued, so its claim was counted; it is not owed then.
Withdraws(x, G, y) ==
    /\ y \in Bulk /\ y.next = x.next /\ y.leg.row = x.leg.row /\ y.rows = x.rows \ G
    /\ G \subseteq x.rows /\ \A r \in G : r.state # "sending"

LEMMA SoundWithdrawn ==
    ASSUME NEW x, NEW W, NEW a, NEW c, Sound(x, W, a, c), NEW G, NEW y, Withdraws(x, G, y)
    PROVE  /\ Sound(y, W, LessAsked(a, QueuedIn(G)), c) /\ QueuedIn(G) \subseteq OwedIn(x.rows, a, c)
           /\ \A i : i \in OwedIn(y.rows, LessAsked(a, QueuedIn(G)), c)
                    <=> i \in OwedIn(x.rows, a, c) /\ i \notin QueuedIn(G)
<1> DEFINE S == QueuedIn(G)
           d == LessAsked(a, S)
<1>0. d = LessAsked(a, S) /\ S = QueuedIn(G) /\ S = {i \in Ids : \E r \in G : r.id = i /\ r.state = "queued"}
  BY DEF QueuedIn
<1> USE DEF Withdraws
<1> HIDE DEF d, S
<1>1. OneEach(x.rows) /\ OneEach(y.rows)
  BY DEF Sound, OneEach
<1>2. ASSUME NEW i \in Ids
      PROVE  /\ Claims(x.rows, W, c, i) <= a[i] /\ a[i] \in Nat /\ c[i] \in Nat
             /\ Cardinality(Pending(W, i)) \in Nat
  BY PendingFinite DEF Sound
<1>3. ASSUME NEW i \in S
      PROVE  HasIn(x.rows, i, "queued") /\ \A r \in y.rows : r.id # i
  BY <1>0, <1>1 DEF HasIn, OneEach
<1>4. ASSUME NEW i, NEW t
      PROVE  HasIn(y.rows, i, t) => HasIn(x.rows, i, t)
  BY DEF HasIn
<1>5. ASSUME NEW i \in Ids \ S, NEW t \in {"queued", "sending"}, HasIn(x.rows, i, t)
      PROVE  HasIn(y.rows, i, t)
  BY <1>0, <1>5 DEF HasIn
<1>6. ASSUME NEW i \in Ids
      PROVE  d[i] \in Nat /\ Claims(y.rows, W, c, i) <= d[i] /\ (i \in S => c[i] < a[i])
  <2>1. CASE i \in S
    <3>1. d[i] = a[i] - 1 /\ ~HasIn(y.rows, i, "queued")
      BY <1>0, <1>3, <2>1 DEF HasIn, LessAsked
    <3>2. c[i] + Cardinality(Pending(W, i)) + 1 <= a[i]
      BY <1>2, <1>3, <2>1 DEF Claims
    <3>3. Claims(y.rows, W, c, i) = c[i] + Cardinality(Pending(W, i)) + 0
      BY <3>1 DEF Claims
    <3> DEFINE p == Cardinality(Pending(W, i))
    <3>4. p \in Nat /\ c[i] \in Nat /\ a[i] \in Nat
      BY <1>2
    <3>5. c[i] + p + 1 <= a[i] /\ Claims(y.rows, W, c, i) = c[i] + p + 0
      BY <3>2, <3>3
    <3> HIDE DEF p
    <3> QED BY <3>1, <3>4, <3>5
  <2>2. CASE i \notin S
    <3>1. d[i] = a[i]
      BY <1>0, <2>2 DEF LessAsked
    <3>2. Claims(y.rows, W, c, i) <= Claims(x.rows, W, c, i)
      BY <1>4, ClaimsShrink DEF Sound
    <3>3. Claims(y.rows, W, c, i) \in Nat /\ Claims(x.rows, W, c, i) \in Nat
      BY ClaimsNat DEF Sound
    <3> QED BY <1>2, <2>2, <3>1, <3>2, <3>3
  <2> QED BY <2>1, <2>2
<1>7. d \in [Ids -> Nat]
  BY <1>0, <1>6 DEF LessAsked
<1>8. ASSUME NEW i \in Ids, i >= y.next
      PROVE  d[i] = 0
  <2>1. \A r \in x.rows : r.id < x.next /\ r.id \in Nat
    BY DEF Sound, Bulk, Row, Ids
  <2>2. i \notin S
    BY <1>0, <1>8, <2>1 DEF Sound, Bulk, Ids
  <2> QED BY <1>0, <1>8, <2>2 DEF Sound, LessAsked
<1>9. Sound(y, W, d, c)
  <2>1. \A r \in y.rows : r \in x.rows
    OBVIOUS
  <2> QED BY <1>1, <1>6, <1>7, <1>8, <2>1 DEF Sound
<1>10. S \subseteq OwedIn(x.rows, a, c)
  BY <1>0, <1>3, <1>6 DEF OwedIn
<1>11. OwedIn(y.rows, d, c) = OwedIn(x.rows, a, c) \ S
  <2>1. ASSUME NEW i \in Ids PROVE i \notin S => d[i] = a[i]
    BY <1>0 DEF LessAsked
  <2>2. ASSUME NEW i \in S PROVE i \notin OwedIn(y.rows, d, c)
    BY <1>3 DEF OwedIn, HasIn
  <2> QED BY <1>4, <1>5, <2>1, <2>2 DEF OwedIn
<1> QED BY <1>0, <1>9, <1>10, <1>11

\* Asking again makes room for one claim more.
LEMMA SoundRetried ==
    ASSUME NEW x, NEW W, NEW a, NEW c, Sound(x, W, a, c), NEW r \in x.rows, r.state = "failed",
           NEW later \in BOOLEAN, NEW y \in Bulk, y.next = x.next, y.leg.row = x.leg.row,
           y.rows = Set(x.rows, r.id, "queued", later)
    PROVE  /\ Sound(y, W, MoreAsked(a, {r.id}), c)
           /\ OwedIn(y.rows, MoreAsked(a, {r.id}), c) = OwedIn(x.rows, a, c) \cup {r.id}
<1> DEFINE d == MoreAsked(a, {r.id})
<1>0. d = MoreAsked(a, {r.id})
  OBVIOUS
<1> HIDE DEF d
<1>1. x.rows \in SUBSET Row /\ r.id \in Ids
  BY DEF Sound, Bulk, Row
<1>2. OneEach(y.rows)
  BY <1>1, SetOneEach DEF Sound
<1>3. ASSUME NEW i, NEW t
      PROVE  HasIn(y.rows, i, t) <=> IF i = r.id THEN "queued" = t ELSE HasIn(x.rows, i, t)
  BY <1>1, SetHas
<1>4. ASSUME NEW i \in Ids
      PROVE  /\ Claims(x.rows, W, c, i) <= a[i] /\ a[i] \in Nat /\ c[i] \in Nat
             /\ Cardinality(Pending(W, i)) \in Nat
             /\ d[i] = IF i = r.id THEN a[i] + 1 ELSE a[i]
  BY <1>0, <1>1, PendingFinite DEF Sound, MoreAsked
<1>5. ~HasIn(x.rows, r.id, "queued")
  BY DEF Sound, OneEach, HasIn
<1>6. ASSUME NEW i \in Ids
      PROVE  d[i] \in Nat /\ Claims(y.rows, W, c, i) <= d[i] /\ (i = r.id => c[i] < d[i])
  <2> DEFINE p == Cardinality(Pending(W, i))
  <2>1. CASE i = r.id
    <3>1. Claims(x.rows, W, c, i) = c[i] + p + 0
      BY <1>5, <2>1 DEF Claims
    <3>2. Claims(y.rows, W, c, i) = c[i] + p + 1
      BY <1>3, <2>1 DEF Claims
    <3>3. p \in Nat /\ c[i] \in Nat /\ a[i] \in Nat /\ d[i] = a[i] + 1
      BY <1>4, <2>1
    <3>4. c[i] + p + 0 <= a[i]
      BY <1>4, <3>1
    <3> HIDE DEF p
    <3> QED BY <2>1, <3>2, <3>3, <3>4
  <2>2. CASE i # r.id
    <3>1. Claims(y.rows, W, c, i) = Claims(x.rows, W, c, i)
      BY <1>3, <2>2 DEF Claims
    <3> QED BY <1>4, <2>2, <3>1
  <2> QED BY <2>1, <2>2
<1>7. d \in [Ids -> Nat]
  <2>1. a \in [Ids -> Nat]
    BY DEF Sound
  <2> QED BY <1>0, <1>6, <2>1 DEF MoreAsked
<1>8. \A i \in Ids : i >= y.next => d[i] = 0
  <2>1. r.id < x.next /\ r.id \in Nat /\ x.next \in Nat
    BY <1>1 DEF Sound, Bulk, Ids
  <2>2. ASSUME NEW i \in Ids, i >= y.next
        PROVE  d[i] = 0
    <3>1. i # r.id
      BY <2>1, <2>2 DEF Ids
    <3> QED BY <1>4, <2>2, <3>1 DEF Sound
  <2> QED BY <2>2
<1>9. ASSUME NEW q \in y.rows
      PROVE  q.id < y.next /\ (y.leg.row # 0 /\ q.id = y.leg.row => q.state = "sending")
  <2>1. PICK o \in x.rows : q.id = o.id /\ (q.id # r.id => q = o)
    BY <1>1, SetRow
  <2>2. y.leg.row # 0 => r.id # y.leg.row
    BY DEF Sound
  <2> QED BY <2>1, <2>2 DEF Sound
<1>10. Sound(y, W, d, c)
  BY <1>2, <1>6, <1>7, <1>8, <1>9 DEF Sound
<1>11. OwedIn(y.rows, d, c) = OwedIn(x.rows, a, c) \cup {r.id}
  BY <1>1, <1>3, <1>4, <1>6 DEF OwedIn
<1> QED BY <1>0, <1>10, <1>11

\* A report that a message did not leave hands its claim back to the queue; one
\* that it may have left, or must not, hands it to the user.
LEMMA SoundHandedBack ==
    ASSUME NEW x, NEW W, NEW a, NEW c, Sound(x, W, a, c), NEW w \in W,
           NEW s \in {"queued", "failed"}, s = "failed" \/ w.answer \notin Over, NEW y \in Bulk, y.next = x.next, y.leg.row = 0,
           x.leg.row = w.row,
           y.rows = Marked(x.rows, w.row, s) \/ \E later \in BOOLEAN : y.rows = Set(x.rows, w.row, s, later)
    PROVE  Sound(y, W \ {w}, a, c) /\ OwedIn(y.rows, a, c) \subseteq OwedIn(x.rows, a, c)
<1>1. x.rows \in SUBSET Row /\ w \in Call /\ w.row \in Ids
  BY DEF Sound, Bulk, Call
<1>2. OneEach(y.rows)
  BY <1>1, SetOneEach DEF Sound
<1>3. ASSUME NEW i, NEW t
      PROVE  HasIn(y.rows, i, t) <=> IF i = w.row THEN s = t /\ \E r \in x.rows : r.id = w.row
                                     ELSE HasIn(x.rows, i, t)
  BY <1>1, SetHas, MarkedHas
<1>4. ASSUME NEW i \in Ids
      PROVE  /\ Claims(x.rows, W, c, i) <= a[i] /\ a[i] \in Nat /\ c[i] \in Nat
             /\ IsFiniteSet(Pending(W, i)) /\ Cardinality(Pending(W, i)) \in Nat
  BY PendingFinite DEF Sound
<1>5. w.row # 0
  BY <1>1 DEF Ids
<1>6. ASSUME NEW r \in x.rows, r.id = w.row PROVE r.state = "sending"
  BY <1>5, <1>6 DEF Sound
<1>7. ASSUME NEW i \in Ids
      PROVE  Claims(y.rows, W \ {w}, c, i) <= a[i]
  <2> DEFINE p == Cardinality(Pending(W, i))  q == Cardinality(Pending(W \ {w}, i))
  <2>1. CASE i = w.row
    <3>1. Pending(W \ {w}, i) = Pending(W, i) \ {w} /\ (w.answer \notin Over => w \in Pending(W, i))
      BY <2>1 DEF Pending
    <3>2. q = p - 1 \/ (q = p /\ w.answer \in Over)
      <4>1. CASE w \in Pending(W, i)
        BY <1>4, <3>1, <4>1, FS_RemoveElement
      <4>2. CASE w \notin Pending(W, i)
        <5>1. Pending(W, i) \ {w} = Pending(W, i)
          BY <4>2
        <5> QED BY <3>1, <4>2, <5>1
      <4> QED BY <4>1, <4>2
    <3>3. Claims(x.rows, W, c, i) = c[i] + p + 0
      BY <1>6, <2>1 DEF Claims, HasIn
    <3>4. /\ Claims(y.rows, W \ {w}, c, i) \in {c[i] + q + 0, c[i] + q + 1}
          /\ s = "failed" => Claims(y.rows, W \ {w}, c, i) = c[i] + q + 0
      BY <1>3, <2>1 DEF Claims
    <3>5. p \in Nat
      BY <1>4
    <3> HIDE DEF p, q
    <3> QED BY <1>4, <3>2, <3>3, <3>4, <3>5
  <2>2. CASE i # w.row
    <3>1. Pending(W \ {w}, i) = Pending(W, i)
      BY <2>2 DEF Pending
    <3>2. Claims(y.rows, W \ {w}, c, i) = Claims(x.rows, W, c, i)
      BY <1>3, <2>2, <3>1 DEF Claims
    <3> QED BY <1>4, <3>2
  <2> QED BY <2>1, <2>2
<1>8. ASSUME NEW q \in y.rows PROVE q.id < y.next
  <2>1. PICK o \in x.rows : q.id = o.id
    BY <1>1, SetRow, MarkedRow
  <2> QED BY <2>1 DEF Sound
<1>9. IsFiniteSet(W \ {w})
  BY FS_RemoveElement DEF Sound
<1>10. Sound(y, W \ {w}, a, c)
  <2>1. y.leg.row < y.next
    BY LegGivenOut
  <2> QED BY <1>2, <1>7, <1>8, <1>9, <2>1 DEF Sound
<1>11. ASSUME NEW i, HasIn(y.rows, i, "queued") \/ HasIn(y.rows, i, "sending")
       PROVE  HasIn(x.rows, i, "queued") \/ HasIn(x.rows, i, "sending")
  <2>1. CASE i = w.row
    BY <1>3, <1>6, <1>11, <2>1 DEF HasIn
  <2>2. CASE i # w.row
    BY <1>3, <1>11, <2>2
  <2> QED BY <2>1, <2>2
<1> QED BY <1>10, <1>11 DEF OwedIn

\* A batch is queued whole: its rows are new, and each is asked for once.
Queues(x, new, y) ==
    /\ x.next + Size <= MaxRows + 1
    /\ y \in Bulk /\ y.next = x.next + Size /\ y.leg.row = x.leg.row /\ y.rows = x.rows \cup new
    /\ \A q \in new : q.id \in Fresh(x) /\ q.state = "queued"
    /\ \A q, r \in new : q.id = r.id => q = r
    /\ \A i \in Fresh(x) : \E q \in new : q.id = i

LEMMA SoundComposed ==
    ASSUME NEW x, NEW W, NEW a, NEW c, Sound(x, W, a, c), NEW new, NEW y, Queues(x, new, y)
    PROVE  /\ Sound(y, W, MoreAsked(a, Fresh(x)), c) /\ Fresh(x) \in SUBSET Ids
           /\ \A i \in Fresh(x) : a[i] = 0
           /\ \A i : i \in OwedIn(y.rows, MoreAsked(a, Fresh(x)), c)
                    <=> i \in OwedIn(x.rows, a, c) \/ i \in Fresh(x)
<1> DEFINE fresh == Fresh(x)
           d == MoreAsked(a, fresh)
<1>0. d = MoreAsked(a, fresh) /\ fresh = x.next .. x.next + Size - 1 /\ fresh = Fresh(x)
  BY DEF Fresh
<1> USE DEF Queues
<1> HIDE DEF d, fresh
<1>1. /\ x.next \in Nat \ {0} /\ Size \in Nat \ {0} /\ MaxRows \in Nat
      /\ fresh \subseteq Ids /\ \A i \in fresh : i >= x.next
      /\ \A i \in Ids \ fresh : i < x.next \/ i >= x.next + Size
  <2>1. x.next \in 1 .. MaxRows + 1 /\ Size \in Nat \ {0} /\ MaxRows \in Nat
    BY BulkAssumption DEF Sound, Bulk
  <2> QED BY <1>0, <2>1 DEF Ids
<1>4. ASSUME NEW r \in x.rows PROVE r.id \in Ids /\ r.id < x.next /\ r.id \notin fresh
  <2>1. r.id \in Ids /\ r.id < x.next
    BY DEF Sound, Bulk, Row
  <2> QED BY <1>1, <2>1 DEF Ids
<1>5. OneEach(y.rows)
  BY <1>0, <1>4 DEF Sound, OneEach
<1>6. ASSUME NEW i, NEW t
      PROVE  HasIn(y.rows, i, t) <=> IF i \in fresh THEN t = "queued" ELSE HasIn(x.rows, i, t)
  BY <1>0, <1>4 DEF HasIn
<1>7. ASSUME NEW i \in Ids
      PROVE  /\ Claims(x.rows, W, c, i) <= a[i] /\ a[i] \in Nat /\ c[i] \in Nat
             /\ Cardinality(Pending(W, i)) \in Nat
  BY PendingFinite DEF Sound
<1>8. ASSUME NEW i \in fresh
      PROVE  a[i] = 0 /\ c[i] = 0 /\ Cardinality(Pending(W, i)) = 0
  <2> DEFINE p == Cardinality(Pending(W, i))
  <2>1. a[i] = 0 /\ i \in Ids
    BY <1>1 DEF Sound
  <2>2. Claims(x.rows, W, c, i) \in {c[i] + p + 0, c[i] + p + 1}
    BY DEF Claims
  <2>3. p \in Nat /\ c[i] \in Nat /\ Claims(x.rows, W, c, i) <= 0
    BY <1>7, <2>1
  <2> HIDE DEF p
  <2>4. c[i] = 0 /\ p = 0
    BY <2>2, <2>3
  <2> QED BY <2>1, <2>4 DEF p
<1>9. ASSUME NEW i \in Ids
      PROVE  d[i] \in Nat /\ Claims(y.rows, W, c, i) <= d[i]
  <2>1. CASE i \in fresh
    <3>3. HasIn(y.rows, i, "queued") /\ c[i] = 0 /\ Cardinality(Pending(W, i)) = 0
      BY <1>6, <1>8, <2>1
    <3>4. Claims(y.rows, W, c, i) = 0 + 0 + 1
      BY <3>3 DEF Claims
    <3>1. Claims(y.rows, W, c, i) = 1
      BY <3>4
    <3>2. d[i] = 1
      BY <1>0, <1>8, <2>1 DEF MoreAsked
    <3> QED BY <3>1, <3>2
  <2>2. CASE i \notin fresh
    <3>1. Claims(y.rows, W, c, i) = Claims(x.rows, W, c, i)
      BY <1>6, <2>2 DEF Claims
    <3> QED BY <1>0, <1>7, <2>2, <3>1 DEF MoreAsked
  <2> QED BY <2>1, <2>2
<1>10. d \in [Ids -> Nat]
  BY <1>0, <1>9 DEF MoreAsked
<1>11. ASSUME NEW i \in Ids, i >= y.next
       PROVE  d[i] = 0
  <2>1. i \notin fresh /\ i >= x.next
    BY <1>0, <1>1, <1>11 DEF Ids
  <2> QED BY <1>0, <2>1 DEF Sound, MoreAsked
<1>12. ASSUME NEW r \in y.rows
       PROVE  r.id < y.next /\ (y.leg.row # 0 /\ r.id = y.leg.row => r.state = "sending")
  <2>1. CASE r \in x.rows
    <3>1. r.id < x.next /\ r.id \in Ids
      BY <1>4, <2>1
    <3>2. r.id < y.next
      BY <1>1, <3>1 DEF Ids
    <3> QED BY <2>1, <3>2 DEF Sound
  <2>2. CASE r \in new
    <3>1. r.id \in fresh
      BY <1>0, <2>2
    <3>2. r.id \in x.next .. x.next + Size - 1
      BY <1>0, <3>1
    <3>3. r.id < y.next
      BY <1>1, <3>2
    <3>4. r.id # y.leg.row
      BY <1>1, <3>2 DEF Sound, Bulk, Leg
    <3> QED BY <3>3, <3>4
  <2> QED BY <2>1, <2>2
<1>13. y.leg.row < y.next
  BY <1>1 DEF Sound, Bulk, Leg
<1>14. Sound(y, W, d, c)
  BY <1>5, <1>9, <1>10, <1>11, <1>12, <1>13 DEF Sound
<1>15. \A i \in fresh : a[i] = 0
  BY <1>8
<1>16. OwedIn(y.rows, d, c) = OwedIn(x.rows, a, c) \cup fresh
  <2>1. ASSUME NEW i \in fresh PROVE d[i] = 1 /\ c[i] = 0 /\ i \in Ids
    BY <1>0, <1>1, <1>8, <2>1 DEF MoreAsked
  <2>2. ASSUME NEW i \in Ids \ fresh PROVE d[i] = a[i]
    BY <1>0 DEF MoreAsked
  <2>3. ASSUME NEW i \in fresh
        PROVE  i \in OwedIn(y.rows, d, c)
    <3>1. HasIn(y.rows, i, "queued")
      BY <1>6
    <3> QED BY <2>1, <3>1 DEF OwedIn
  <2>4. ASSUME NEW i \in Ids \ fresh
        PROVE  i \in OwedIn(y.rows, d, c) <=> i \in OwedIn(x.rows, a, c)
    BY <1>6, <2>2 DEF OwedIn
  <2>5. OwedIn(y.rows, d, c) \subseteq Ids /\ OwedIn(x.rows, a, c) \subseteq Ids
    BY DEF OwedIn
  <2> QED BY <1>1, <2>3, <2>4, <2>5
<1> QED BY <1>0, <1>1, <1>14, <1>15, <1>16

\* The message leaves, and is reported as sent or as refused: its claim passes
\* from the wire to what left.  What else is answered changes no claim.
LEMMA SoundAnswered ==
    ASSUME NEW x, NEW W, NEW a, NEW c, Sound(x, W, a, c), NEW w \in W, w.answer = "awaited",
           NEW v \in Call, v.row = w.row, NEW d,
           d = c \/ (v.answer \in Over /\ d = [c EXCEPT ![w.row] = @ + 1])
    PROVE  Sound(x, (W \ {w}) \cup {v}, a, d) /\ c[w.row] < a[w.row]
<1> DEFINE V == (W \ {w}) \cup {v}
<1>1. w \in Call /\ w.row \in Ids /\ c \in [Ids -> Nat]
  BY DEF Sound, Call
<1>2. V \subseteq Call /\ IsFiniteSet(V)
  BY FS_RemoveElement, FS_AddElement DEF Sound
<1>3. ASSUME NEW i \in Ids
      PROVE  /\ Claims(x.rows, W, c, i) <= a[i] /\ a[i] \in Nat /\ c[i] \in Nat
             /\ IsFiniteSet(Pending(W, i)) /\ Cardinality(Pending(W, i)) \in Nat
  BY PendingFinite DEF Sound
<1> DEFINE i == w.row  p == Cardinality(Pending(W, i))  q == Cardinality(Pending(V, i))
<1>4. w \in Pending(W, i)
  BY DEF Pending, Over
<1>5. Pending(W, i) \ {w} \subseteq W /\ IsFiniteSet(Pending(W, i) \ {w})
      /\ Cardinality(Pending(W, i) \ {w}) = p - 1 /\ p \in Nat
  BY <1>1, <1>3, <1>4, FS_RemoveElement DEF Pending
<1>6. IF v.answer \in Over THEN q = p - 1 ELSE q \in {p - 1, p}
  <2>1. Pending(V, i) = IF v.answer \in Over THEN Pending(W, i) \ {w} ELSE (Pending(W, i) \ {w}) \cup {v}
    BY DEF Pending
  <2>2. Cardinality((Pending(W, i) \ {w}) \cup {v}) \in {p - 1, p}
    <3>1. Cardinality((Pending(W, i) \ {w}) \cup {v}) \in {p - 1, p - 1 + 1}
      BY ZenonT(60), <1>5, FS_AddElement
    <3> HIDE DEF p
    <3> QED BY <1>5, <3>1
  <2> QED BY <1>5, <2>1, <2>2
<1>7. Claims(x.rows, W, c, i) \in {c[i] + p + 0, c[i] + p + 1}
  BY DEF Claims
<1>8. p >= 1
  BY <1>1, <1>3, <1>4, <1>5, FS_EmptySet
<1>9. \A k \in Ids : k # i => Pending(V, k) = Pending(W, k)
  BY DEF Pending
<1>10. ASSUME NEW k \in Ids
       PROVE  Claims(x.rows, V, d, k) <= a[k]
  <2>1. CASE k # i
    <3>1. d[k] = c[k]
      BY <1>1, <2>1
    <3> QED BY <1>3, <1>9, <2>1, <3>1 DEF Claims
  <2>2. CASE k = i
    <3> DEFINE e == IF HasIn(x.rows, i, "queued") THEN 1 ELSE 0
    <3>1. Claims(x.rows, W, c, i) = c[i] + p + e
      BY DEF Claims
    <3>2. Claims(x.rows, V, d, i) = d[i] + q + e
      BY DEF Claims
    <3>3. d[i] = c[i] \/ (v.answer \in Over /\ d[i] = c[i] + 1)
      BY <1>1
    <3>4. e \in Nat
      OBVIOUS
    <3>5. c[i] + p + e <= a[i] /\ a[i] \in Nat /\ c[i] \in Nat
      BY <1>1, <1>3, <3>1
    <3>6. c[i] \in Nat /\ a[i] \in Nat /\ p \in Nat
      BY <1>5, <3>5
    <3> HIDE DEF e, p, q, i
    <3> QED BY <1>6, <2>2, <3>2, <3>3, <3>4, <3>5, <3>6
  <2> QED BY <2>1, <2>2
<1>11. c[i] < a[i]
  <2>1. c[i] \in Nat /\ a[i] \in Nat /\ Claims(x.rows, W, c, i) <= a[i] /\ p \in Nat
    BY <1>1, <1>3, <1>5
  <2> HIDE DEF p, i
  <2> QED BY <1>7, <1>8, <2>1
<1>12. d \in [Ids -> Nat]
  BY <1>1
<1> QED BY <1>2, <1>10, <1>11, <1>12 DEF Sound

------------------------------------------------------------------------------
(* The steps of Next, and what each is to Delivery.                         *)

Rising == [Promise!Next]_(Promise!vars)

Kept == Sound(b', wire', asked', copies') /\ b'.out = {}

LEMMA FlagsAreQuiet ==
    ASSUME NEW x \in Bulk, NEW f \in BOOLEAN, NEW P \in SUBSET Nat
    PROVE  /\ Quiet(x, [x EXCEPT !.pause = f]) /\ Quiet(x, [x EXCEPT !.reopen = f])
           /\ Quiet(x, [x EXCEPT !.valid = f]) /\ Quiet(x, [x EXCEPT !.parked = P, !.valid = f])
           /\ Quiet(x, [x EXCEPT !.leg.up = f])
<1>1. Quiet(x, [x EXCEPT !.pause = f]) /\ Quiet(x, [x EXCEPT !.reopen = f])
  BY DEF Quiet, Bulk
<1>2. Quiet(x, [x EXCEPT !.valid = f]) /\ Quiet(x, [x EXCEPT !.parked = P, !.valid = f])
  BY DEF Quiet, Bulk
<1>3. Quiet(x, [x EXCEPT !.leg.up = f])
  <2> DEFINE l == [x.leg EXCEPT !.up = f]
  <2>1. l \in Leg /\ l.row = x.leg.row
    BY DEF Bulk, Leg
  <2>2. [x EXCEPT !.leg.up = f] = [x EXCEPT !.leg = l]
    BY DEF Bulk
  <2> HIDE DEF l
  <2>3. Quiet(x, [x EXCEPT !.leg = l])
    BY <2>1 DEF Quiet, Bulk
  <2> QED BY <2>2, <2>3
<1> QED BY <1>1, <1>2, <1>3

\* A connection opens or fails, a wait ends: the leg is opened, drained or
\* closed, which at most tells the user that a row may not have been sent.
LEMMA LinkStep ==
    ASSUME BulkInv, Connect \/ LegConnects \/ LegFails \/ PauseEnds \/ LegReopens
    PROVE  Kept /\ b'.next = b.next /\ Rising
<1> DEFINE pick(x, y) == /\ Quiet(b, x) /\ Becomes(y)
                         /\ Quiet(x, y) \/ Sends(x, y) \/ Ends(x, y)
<1>1. /\ b \in Bulk /\ wire \subseteq Call /\ IsFiniteSet(wire) /\ listed \in BOOLEAN /\ account \in Accounts
      /\ UNCHANGED <<asked, copies>>
  BY DEF BulkInv, Sound, Connect, LegConnects, LegFails, PauseEnds, LegReopens
<1>2. TRUE \in BOOLEAN /\ FALSE \in BOOLEAN /\ {} \in SUBSET Nat
  OBVIOUS
<1>3. Quiet(b, b)
  BY <1>1 DEF Quiet
<1>4. ASSUME NEW x, NEW y, pick(x, y)
      PROVE  Kept /\ b'.next = b.next /\ Rising
  BY <1>1, <1>4, PlainStep DEF Kept, Rising
<1>5. CASE Connect
  <2>1. pick(b, ResumeBatch(b, TRUE))
    BY <1>1, <1>3, <1>5, ResumeIsQuiet DEF Connect
  <2> QED BY <1>4, <2>1
<1>6. CASE LegConnects
  <2> DEFINE x == [b EXCEPT !.leg.up = TRUE]
  <2>1. Quiet(b, x)
    BY <1>1, <1>2, FlagsAreQuiet
  <2>2. Becomes(DrainLeg(x))
    BY <1>6 DEF LegConnects
  <2> HIDE DEF x
  <2>3. pick(x, DrainLeg(x))
    BY <2>1, <2>2, DrainLegSends DEF Quiet
  <2> QED BY <1>4, <2>3
<1>7. CASE LegFails
  <2>1. pick(b, EndLeg(b, TRUE))
    BY <1>1, <1>2, <1>3, <1>7, EndLegEnds DEF LegFails
  <2> QED BY <1>4, <2>1
<1>8. CASE PauseEnds
  <2> DEFINE x == [b EXCEPT !.pause = FALSE]
  <2>1. Quiet(b, x)
    BY <1>1, <1>2, FlagsAreQuiet
  <2>2. Becomes(DrainLeg(x))
    BY <1>8 DEF PauseEnds
  <2> HIDE DEF x
  <2>3. pick(x, DrainLeg(x))
    BY <2>1, <2>2, DrainLegSends DEF Quiet
  <2> QED BY <1>4, <2>3
<1>9. CASE LegReopens
  <2> DEFINE x == [b EXCEPT !.reopen = FALSE]
  <2>1. Quiet(b, x)
    BY <1>1, <1>2, FlagsAreQuiet
  <2>2. Becomes(ResumeBatch(x, up))
    BY <1>9 DEF LegReopens
  <2> HIDE DEF x
  <2>3. pick(x, ResumeBatch(x, up))
    BY <1>1, <2>1, <2>2, ResumeIsQuiet DEF Quiet
  <2> QED BY <1>4, <2>3
<1> QED BY <1>5, <1>6, <1>7, <1>8, <1>9

\* The rows, the calls and what is asked stay; a token may have expired.
LEMMA AsideStep ==
    ASSUME BulkInv,
           SendBulk \/ TokenExpires \/ FoldersListed \/ SessionLost \/ (\E to \in Accounts : Switch(to))
               \/ UNCHANGED vars
    PROVE  Kept /\ b'.next = b.next /\ Rising
<1>1. b \in Bulk /\ TRUE \in BOOLEAN /\ FALSE \in BOOLEAN /\ {} \in SUBSET Nat
  BY DEF BulkInv, Sound
<1>2. UNCHANGED <<wire, asked, copies>>
  BY DEF SendBulk, TokenExpires, FoldersListed, SessionLost, Switch, vars
<1>3. Quiet(b, b') /\ b'.out = {}
  <2>1. CASE TokenExpires
    BY <1>1, <2>1, FlagsAreQuiet DEF TokenExpires, Quiet, BulkInv
  <2>2. CASE b' = b
    BY <1>1, <2>2 DEF Quiet, BulkInv
  <2> QED BY <2>1, <2>2 DEF SendBulk, FoldersListed, SessionLost, Switch, vars
<1>4. Sound(b', wire', asked', copies')
  BY <1>2, <1>3, SoundQuiet DEF BulkInv
<1>5. Promise!Next
  BY <1>2, <1>3, SameOwed DEF Quiet
<1> QED BY <1>3, <1>4, <1>5 DEF Kept, Rising, Quiet

LEMMA EndsQuiet ==
    ASSUME NEW x, NEW y, NEW z, Ends(x, y), Quiet(y, z)
    PROVE  Ends(x, z)
BY DEF Ends, Quiet

\* A renewed token lets the leg go on or another be opened; a refused one ends it.
LEMMA TokenStep ==
    ASSUME BulkInv, NEW ok \in BOOLEAN, TokenAnswered(ok)
    PROVE  Kept /\ b'.next = b.next /\ Rising
<1> DEFINE x == [b EXCEPT !.parked = {}, !.valid = ok]
           y == IF 0 \notin b.parked \/ x.leg.on = 0 THEN x
                ELSE IF ok THEN DrainLeg(x) ELSE EndLeg(x, TRUE)
           open == y.leg.on = 0 /\ y.batch # 0 /\ y.batch \in b.parked /\ y.owner = account
           z == IF open THEN LegOpened(y) ELSE y
<1>1. /\ b \in Bulk /\ wire \subseteq Call /\ IsFiniteSet(wire) /\ listed \in BOOLEAN
      /\ UNCHANGED <<asked, copies>> /\ Becomes(z)
  BY DEF BulkInv, Sound, TokenAnswered
<1>2. Quiet(b, x) /\ TRUE \in BOOLEAN
  <2>1. {} \in SUBSET Nat
    OBVIOUS
  <2> QED BY <1>1, <2>1, FlagsAreQuiet
<1>3. x \in Bulk
  BY <1>2 DEF Quiet
<1> HIDE DEF x
<1>4. Quiet(x, x)
  BY <1>3 DEF Quiet
<1>5. Quiet(x, y) \/ Sends(x, y) \/ Ends(x, y)
  BY <1>2, <1>3, <1>4, DrainLegSends, EndLegEnds
<1>6. y \in Bulk
  BY <1>5 DEF Quiet, Sends, Ends
<1> HIDE DEF y
<1>7. Quiet(x, z) \/ Sends(x, z) \/ Ends(x, z)
  <2>1. CASE ~open
    BY <1>5, <2>1
  <2>2. CASE open
    <3>1. Quiet(y, z)
      BY <1>1, <1>6, <2>2, OpenedIsQuiet
    <3>2. ~Sends(x, y)
      BY <2>2 DEF Sends
    <3> QED BY <1>5, <3>1, <3>2, QuietQuiet, EndsQuiet
  <2> QED BY <2>1, <2>2
<1> HIDE DEF z
<1> QED BY <1>1, <1>2, <1>7, PlainStep DEF Kept, Rising

\* A wait that ends changes no state of a row.
LEMMA BackoffStep ==
    ASSUME BulkInv, NEW r \in b.rows, BackoffEnds(r)
    PROVE  Kept /\ b'.next = b.next /\ Rising
<1> DEFINE R == Set(b.rows, r.id, r.state, FALSE)  x == [b EXCEPT !.rows = R]
<1>1. b \in Bulk /\ b.rows \in SUBSET Row /\ OneEach(b.rows) /\ r.state \in {"queued", "sending", "failed"}
  BY DEF BulkInv, Sound, Bulk, Row
<1>2. FALSE \in BOOLEAN
  OBVIOUS
<1>3. PICK later \in BOOLEAN : R = Set(b.rows, r.id, r.state, later)
  BY <1>2
<1>4. Becomes(x) /\ UNCHANGED <<asked, copies>>
  BY <1>1 DEF BackoffEnds, Bulk
<1> HIDE DEF R
<1>5. R \in SUBSET Row /\ OneEach(R)
  BY <1>1, <1>3, SetTyped, SetOneEach
<1>6. x \in Bulk /\ x.rows = R /\ x.next = b.next /\ x.leg = b.leg /\ x.out = b.out
  BY <1>1, <1>5 DEF Bulk
<1> HIDE DEF x
<1>7. ASSUME NEW i, NEW t
      PROVE  HasIn(R, i, t) <=> HasIn(b.rows, i, t)
  <2>1. HasIn(R, i, t) <=> IF i = r.id THEN r.state = t /\ \E q \in b.rows : q.id = r.id
                           ELSE HasIn(b.rows, i, t)
    BY <1>1, <1>3, SetHas
  <2> QED BY <1>1, <2>1 DEF HasIn, OneEach
<1>8. ASSUME NEW q \in R
      PROVE  \E o \in b.rows : o.id = q.id /\ o.state = q.state
  <2>1. PICK o \in b.rows : q.id = o.id /\ q.state = IF o.id = r.id THEN r.state ELSE o.state
    BY <1>1, <1>3, SetRow
  <2> QED BY <1>1, <2>1 DEF OneEach
<1>9. Sound(x, wire, asked, copies)
  <2>1. x.leg.row # 0 => \A q \in x.rows : q.id = x.leg.row => q.state = "sending"
    BY <1>6, <1>8 DEF BulkInv, Sound
  <2>2. \A q \in x.rows : \E o \in b.rows : o.id = q.id
    BY <1>6, <1>8
  <2> QED BY <1>5, <1>6, <1>7, <2>1, <2>2, SoundFrom DEF BulkInv
<1>10. Quiet(x, x)
  BY <1>6 DEF Quiet
<1>11. /\ Sound(b', wire', asked, copies) /\ b'.out = {} /\ b'.next = x.next
       /\ OwedIn(b'.rows, asked, copies) \subseteq OwedIn(x.rows, asked, copies)
  BY <1>4, <1>6, <1>9, <1>10, Became DEF BulkInv
<1>12. Owed' \subseteq Owed
  <2>1. OwedIn(x.rows, asked, copies) \subseteq OwedIn(b.rows, asked, copies)
    BY <1>6, <1>7 DEF OwedIn
  <2> QED BY <1>4, <1>11, <2>1, OwedHere
<1> QED BY <1>4, <1>6, <1>11, <1>12, LessIsOwed DEF Kept, Rising

\* After a restart a row of the open account that was being sent is failed.
LEMMA RestartStep ==
    ASSUME BulkInv, Restart
    PROVE  Kept /\ b'.next = b.next /\ Rising
<1> DEFINE R == Recovered(b.rows)
           x == [b EXCEPT !.rows = Recovered(@), !.batch = 0, !.owner = NoAccount, !.leg = NoLeg,
                          !.filing = {}, !.pause = FALSE, !.reopen = FALSE, !.parked = {}]
<1>1. /\ b \in Bulk /\ b.rows \in SUBSET Row /\ OneEach(b.rows) /\ b.out = {}
      /\ wire \subseteq Call /\ IsFiniteSet(wire) /\ listed \in BOOLEAN /\ account \in Accounts
  BY DEF BulkInv, Sound, Bulk
<1>2. b' = ResumeBatch(x, FALSE) /\ UNCHANGED <<wire, asked, copies>>
  BY DEF Restart
<1>3. ASSUME NEW q \in R
      PROVE  /\ q \in Row
             /\ \E o \in b.rows : o.id = q.id /\ (q.state = o.state \/ (q.state = "failed" /\ o.state = "sending"))
  BY <1>1 DEF Recovered, Row
<1>4. OneEach(R)
  BY <1>1 DEF Recovered, Row, OneEach
<1>5. R \in SUBSET Row
  BY <1>3
<1>6. x = [b EXCEPT !.rows = R, !.batch = 0, !.owner = NoAccount, !.leg = NoLeg,
                    !.filing = {}, !.pause = FALSE, !.reopen = FALSE, !.parked = {}]
  BY <1>1 DEF Bulk
<1> HIDE DEF R
<1>7. x \in Bulk /\ x.rows = R /\ x.next = b.next /\ x.leg = NoLeg /\ x.out = b.out
  <2>1. 0 \in 0 .. MaxRows
    BY BulkAssumption
  <2> QED BY <1>1, <1>5, <1>6, <2>1, NoLegTyped DEF Bulk
<1> HIDE DEF x
<1>8. ASSUME NEW i, NEW t \in {"queued", "sending"}, HasIn(R, i, t)
      PROVE  HasIn(b.rows, i, t)
  BY <1>3, <1>8 DEF HasIn
<1>9. Sound(x, wire, asked, copies)
  <2>1. \A i \in Ids : HasIn(x.rows, i, "queued") => HasIn(b.rows, i, "queued")
    BY <1>7, <1>8
  <2>2. \A q \in x.rows : \E o \in b.rows : o.id = q.id
    BY <1>3, <1>7
  <2>3. x.leg.row = 0
    BY <1>7, NoLegTyped
  <2> QED BY <1>4, <1>7, <2>1, <2>2, <2>3, SoundFrom DEF BulkInv
<1>10. Quiet(x, b')
  BY <1>1, <1>2, <1>7, ResumeIsQuiet
<1>11. Sound(b', wire', asked', copies') /\ b'.out = {} /\ b'.next = b.next /\ b'.rows = R
  BY <1>1, <1>2, <1>7, <1>9, <1>10, SoundQuiet DEF Quiet
<1>12. Owed' \subseteq Owed
  <2>1. OwedIn(R, asked, copies) \subseteq OwedIn(b.rows, asked, copies)
    BY <1>8 DEF OwedIn
  <2> QED BY <1>2, <1>11, <2>1, OwedHere
<1> QED BY <1>2, <1>11, <1>12, LessIsOwed DEF Kept, Rising

\* The copy of a sent row is filed, and the row leaves the table.
LEMMA FiledStep ==
    ASSUME BulkInv, NEW i, CopyFiled(i)
    PROVE  Kept /\ b'.next = b.next /\ Rising
<1> DEFINE R == Dropped(b.rows, i)  x == [b EXCEPT !.rows = Dropped(@, i), !.filing = @ \ {i}]  y == Paced(x)
<1>1. b \in Bulk /\ b.rows \in SUBSET Row /\ b.out = {} /\ UNCHANGED <<asked, copies>> /\ Becomes(y)
  BY DEF BulkInv, Sound, Bulk, CopyFiled
<1>2. R \subseteq b.rows /\ x = [b EXCEPT !.rows = R, !.filing = @ \ {i}]
  BY <1>1 DEF Dropped, Bulk
<1> HIDE DEF R
<1>3. x \in Bulk /\ x.rows = R /\ x.next = b.next /\ x.leg = b.leg /\ x.out = {}
  BY <1>1, <1>2 DEF Bulk
<1> HIDE DEF x
<1>4. /\ Sound(x, wire, asked, copies)
      /\ OwedIn(x.rows, asked, copies) \subseteq OwedIn(b.rows, asked, copies)
  <2>1. x.rows \subseteq b.rows /\ x.leg.row \in {0, b.leg.row} /\ wire \subseteq wire
    BY <1>2, <1>3
  <2> QED BY <1>3, <2>1, SoundFewer DEF BulkInv
<1>5. Quiet(x, y)
  <2>1. Quiet(x, RefreshedProgress(x))
    BY <1>3, RefreshIsQuiet
  <2>2. TRUE \in BOOLEAN /\ {} \in SUBSET Nat
    OBVIOUS
  <2>3. Quiet(RefreshedProgress(x), y)
    BY <2>1, <2>2, FlagsAreQuiet DEF Quiet, Paced
  <2> QED BY <2>1, <2>3, QuietQuiet
<1> HIDE DEF y
<1>6. /\ Sound(b', wire', asked, copies) /\ b'.out = {} /\ b'.next = x.next
      /\ OwedIn(b'.rows, asked, copies) \subseteq OwedIn(x.rows, asked, copies)
  BY <1>1, <1>3, <1>4, <1>5, Became
<1>7. Owed' \subseteq Owed
  BY <1>1, <1>4, <1>6, OwedHere
<1> QED BY <1>1, <1>3, <1>6, <1>7, LessIsOwed DEF Kept, Rising

LEMMA PacedIsQuiet ==
    ASSUME NEW x \in Bulk
    PROVE  Quiet(x, Paced(x))
<1>1. Quiet(x, RefreshedProgress(x))
  BY RefreshIsQuiet
<1>2. TRUE \in BOOLEAN /\ {} \in SUBSET Nat
  OBVIOUS
<1>3. Quiet(RefreshedProgress(x), Paced(x))
  BY <1>1, <1>2, FlagsAreQuiet DEF Quiet, Paced
<1> QED BY <1>1, <1>3, QuietQuiet

\* What a report leaves behind: the leg carries nothing, the claim of the
\* call is gone, and the row is gone, back in the queue or failed.
Settled(w, y) ==
    /\ Sound(y, wire \ {w}, asked, copies) /\ y.out = {} /\ y.next = b.next /\ y.leg.row = 0
    /\ OwedIn(y.rows, asked, copies) \subseteq OwedIn(b.rows, asked, copies)

LEMMA SettledQuiet ==
    ASSUME NEW w, NEW x, Settled(w, x), NEW y, Quiet(x, y)
    PROVE  Settled(w, y)
BY SoundQuiet DEF Settled, Quiet

LEMMA LegFreed ==
    ASSUME NEW x \in Bulk
    PROVE  /\ [x EXCEPT !.leg.row = 0] \in Bulk
           /\ [x EXCEPT !.leg.row = 0].leg.row = 0 /\ [x EXCEPT !.leg.row = 0].rows = x.rows
           /\ [x EXCEPT !.leg.row = 0].next = x.next /\ [x EXCEPT !.leg.row = 0].out = x.out
<1> DEFINE l == [x.leg EXCEPT !.row = 0]
<1>1. 0 \in 0 .. MaxRows
  BY BulkAssumption
<1>2. l \in Leg /\ l.row = 0
  BY <1>1 DEF Bulk, Leg
<1>3. [x EXCEPT !.leg.row = 0] = [x EXCEPT !.leg = l]
  BY DEF Bulk
<1> HIDE DEF l
<1> QED BY <1>2, <1>3 DEF Bulk

LEMMA FinishSettles ==
    ASSUME BulkInv, NEW w \in wire, w.answer # "awaited", w.row = b.leg.row
    PROVE  Settled(w, FinishSend(w))
<1> DEFINE x == [b EXCEPT !.leg.row = 0]
<1>1. b \in Bulk /\ b.rows \in SUBSET Row /\ b.out = {} /\ w \in Call /\ w.row \in Ids
  BY DEF BulkInv, Sound, Bulk, Call
<1>2. x \in Bulk /\ x.leg.row = 0 /\ x.rows = b.rows /\ x.next = b.next /\ x.out = {}
  BY <1>1, LegFreed
<1>3. FinishSend(w) =
          CASE w.answer = "None"       -> RowSent(w, x)
            [] w.answer = "Auth"       -> RowRefusedLogin(w, x)
            [] w.answer = "Connection" -> EndLeg([x EXCEPT !.rows = Marked(@, w.row, "queued")], TRUE)
            [] w.answer = "Throttled"  -> Paced([x EXCEPT !.rows = Set(@, w.row, "queued", TRUE)])
            [] w.answer = "Protocol"   -> Paced([x EXCEPT !.rows = Set(@, w.row, "failed", FALSE)])
  BY DEF FinishSend
<1> HIDE DEF x
<1>4. ASSUME NEW y \in Bulk, y.rows \subseteq b.rows, y.next = b.next, y.leg.row = 0, y.out = {}
      PROVE  Settled(w, y)
  <2>1. /\ Sound(y, wire \ {w}, asked, copies)
        /\ OwedIn(y.rows, asked, copies) \subseteq OwedIn(b.rows, asked, copies)
    BY <1>4, SoundFewer DEF BulkInv
  <2> QED BY <1>4, <2>1 DEF Settled
<1>5. ASSUME NEW R \in SUBSET Row, NEW s \in {"queued", "failed"}, s = "failed" \/ w.answer \notin Over,
             R = Marked(b.rows, w.row, s) \/ \E later \in BOOLEAN : R = Set(b.rows, w.row, s, later)
      PROVE  Settled(w, [x EXCEPT !.rows = R]) /\ [x EXCEPT !.rows = R] \in Bulk
  <2> DEFINE y == [x EXCEPT !.rows = R]
  <2>1. y \in Bulk /\ y.rows = R /\ y.next = b.next /\ y.leg.row = 0 /\ y.out = {}
    BY <1>2 DEF Bulk
  <2> HIDE DEF y
  <2>2. /\ Sound(y, wire \ {w}, asked, copies)
        /\ OwedIn(y.rows, asked, copies) \subseteq OwedIn(b.rows, asked, copies)
    BY ZenonT(60), <1>5, <2>1, SoundHandedBack DEF BulkInv
  <2> QED BY <2>1, <2>2 DEF Settled, y
<1>6. ASSUME NEW s \in {"queued", "failed"}, NEW later \in BOOLEAN
      PROVE  Marked(b.rows, w.row, s) \in SUBSET Row /\ Set(b.rows, w.row, s, later) \in SUBSET Row
  BY <1>1, SetTyped
<1>7. CASE w.answer = "None"
  <2>1. CASE FilesCopy(x)
    <3> DEFINE y == [x EXCEPT !.filing = @ \cup {w.row}]
    <3>1. y \in Bulk /\ y.rows = b.rows /\ y.next = b.next /\ y.leg.row = 0 /\ y.out = {}
      BY <1>1, <1>2 DEF Bulk
    <3> HIDE DEF y
    <3>2. Settled(w, y)
      BY <1>4, <3>1
    <3> QED BY <1>3, <1>7, <2>1, <3>2 DEF RowSent, y
  <2>2. CASE ~FilesCopy(x)
    <3> DEFINE R == Dropped(b.rows, w.row)  y == [x EXCEPT !.rows = R]
    <3>1. R \subseteq b.rows
      BY DEF Dropped
    <3>2. FinishSend(w) = Paced(y)
      BY <1>2, <1>3, <1>7, <2>2 DEF RowSent
    <3> HIDE DEF R
    <3>3. y \in Bulk /\ y.rows = R /\ y.next = b.next /\ y.leg.row = 0 /\ y.out = {}
      BY <1>1, <1>2, <3>1 DEF Bulk
    <3> HIDE DEF y
    <3>4. Settled(w, y)
      BY <1>4, <3>1, <3>3
    <3> QED BY <3>2, <3>3, <3>4, PacedIsQuiet, SettledQuiet
  <2> QED BY <2>1, <2>2
<1>8. TRUE \in BOOLEAN /\ FALSE \in BOOLEAN
  OBVIOUS
<1>9. CASE w.answer = "Auth" \/ w.answer = "Connection"
  <2> DEFINE R == Marked(b.rows, w.row, "queued")  y == [x EXCEPT !.rows = R]
  <2>1. Settled(w, y) /\ y \in Bulk
    BY <1>5, <1>6, <1>8, <1>9 DEF Over
  <2>2. \/ FinishSend(w) = [y EXCEPT !.valid = FALSE, !.parked = @ \cup {0}]
        \/ FinishSend(w) = EndLeg(y, TRUE)
    BY <1>2, <1>3, <1>9 DEF RowRefusedLogin
  <2> HIDE DEF y
  <2>3. Quiet(y, EndLeg(y, TRUE))
    BY <1>8, <2>1, EndLegEnds DEF Settled
  <2>4. Quiet(y, [y EXCEPT !.valid = FALSE, !.parked = @ \cup {0}])
    <3> DEFINE P == y.parked \cup {0}  z == [y EXCEPT !.valid = FALSE, !.parked = P]
    <3>1. P \in SUBSET Nat
      BY <2>1 DEF Bulk
    <3>2. [y EXCEPT !.valid = FALSE, !.parked = @ \cup {0}] = z
      BY <2>1 DEF Bulk
    <3> HIDE DEF P
    <3>3. z \in Bulk /\ z.rows = y.rows /\ z.next = y.next /\ z.out = y.out /\ z.leg = y.leg
      BY <2>1, <3>1 DEF Bulk
    <3> QED BY <3>2, <3>3 DEF Quiet
  <2> QED BY <2>1, <2>2, <2>3, <2>4, SettledQuiet
<1>10. CASE w.answer = "Throttled"
  <2> DEFINE R == Set(b.rows, w.row, "queued", TRUE)  y == [x EXCEPT !.rows = R]
  <2>1. Settled(w, y) /\ y \in Bulk
    BY <1>5, <1>6, <1>8, <1>10 DEF Over
  <2>2. FinishSend(w) = Paced(y)
    BY <1>2, <1>3, <1>10
  <2> HIDE DEF y
  <2> QED BY <2>1, <2>2, PacedIsQuiet, SettledQuiet
<1>11. CASE w.answer = "Protocol"
  <2> DEFINE R == Set(b.rows, w.row, "failed", FALSE)  y == [x EXCEPT !.rows = R]
  <2>1. Settled(w, y) /\ y \in Bulk
    BY <1>5, <1>6, <1>8, <1>11
  <2>2. FinishSend(w) = Paced(y)
    BY <1>2, <1>3, <1>11
  <2> HIDE DEF y
  <2> QED BY <2>1, <2>2, PacedIsQuiet, SettledQuiet
<1> QED BY <1>1, <1>7, <1>9, <1>10, <1>11 DEF Call

\* A late report of another leg's call is heard by nobody.
LEMMA ReportStep ==
    ASSUME BulkInv, NEW w \in wire, Report(w)
    PROVE  Kept /\ b'.next = b.next /\ Rising
<1> DEFINE x == IF w.leg = b.leg.on /\ w.row = b.leg.row THEN AfterReport(FinishSend(w), w) ELSE b
<1>1. /\ w.answer # "awaited" /\ b' = [x EXCEPT !.out = {}] /\ wire' = wire \ {w}
      /\ UNCHANGED <<asked, copies>> /\ b \in Bulk /\ b.out = {}
  BY DEF Report, BulkInv, Sound
<1>2. Sound(x, wire \ {w}, asked, copies) /\ x.next = b.next
      /\ OwedIn(x.rows, asked, copies) \subseteq OwedIn(b.rows, asked, copies)
  <2>1. CASE w.leg = b.leg.on /\ w.row = b.leg.row
    <3> DEFINE y == FinishSend(w)
    <3>1. Settled(w, y)
      BY <1>1, <2>1, FinishSettles
    <3>2. y \in Bulk /\ y.leg.row = 0 /\ TRUE \in BOOLEAN
      BY <3>1 DEF Settled, Sound
    <3> HIDE DEF y
    <3>3. Quiet(y, EndLeg(y, TRUE)) /\ Quiet(y, y)
      BY <3>2, EndLegEnds DEF Quiet
    <3>4. Quiet(y, AfterReport(y, w))
      BY <3>3 DEF AfterReport
    <3>5. Settled(w, AfterReport(y, w))
      BY <3>1, <3>4, SettledQuiet
    <3> QED BY <2>1, <3>5 DEF Settled, y
  <2>2. CASE ~(w.leg = b.leg.on /\ w.row = b.leg.row)
    <3>1. x = b /\ wire \ {w} \subseteq wire
      BY <2>2
    <3>2. Sound(b, wire \ {w}, asked, copies)
      BY <1>1, <3>1, SoundFewer DEF BulkInv
    <3> QED BY <3>1, <3>2
  <2> QED BY <2>1, <2>2
<1> HIDE DEF x
<1>3. Sound(b', wire', asked', copies') /\ b'.out = {} /\ b'.rows = x.rows /\ b'.next = b.next
  BY <1>1, <1>2, SoundCleared
<1>4. Owed' \subseteq Owed
  BY <1>1, <1>2, <1>3, OwedHere
<1> QED BY <1>1, <1>3, <1>4, LessIsOwed DEF Kept, Rising

\* A message that was asked for leaves.
LEMMA LeftIsRising ==
    ASSUME asked \in [Ids -> Nat], copies \in [Ids -> Nat], UNCHANGED <<b, asked>>,
           NEW i \in Ids, copies[i] < asked[i], copies' = [copies EXCEPT ![i] = @ + 1]
    PROVE  Rising
<1>1. copies[i] \in Nat /\ asked[i] \in Nat
  OBVIOUS
<1>2. Owed' = IF copies[i] + 1 = asked[i] THEN Owed \ {i} ELSE Owed
  <2>1. Owed' = OwedIn(b.rows, asked, copies') /\ Owed = OwedIn(b.rows, asked, copies)
    BY OwedHere
  <2>2. ASSUME NEW k \in Ids
        PROVE  k \in OwedIn(b.rows, asked, copies') <=>
                   k \in OwedIn(b.rows, asked, copies) /\ (k = i => copies[i] + 1 # asked[i])
    <3>1. CASE k = i
      <4>1. copies'[i] = copies[i] + 1
        OBVIOUS
      <4>2. copies'[i] < asked[i] <=> copies[i] < asked[i] /\ copies[i] + 1 # asked[i]
        BY <1>1, <4>1
      <4> QED BY <3>1, <4>2 DEF OwedIn
    <3>2. CASE k # i
      BY <3>2 DEF OwedIn
    <3> QED BY <3>1, <3>2
  <2>3. OwedIn(b.rows, asked, copies') \subseteq Ids /\ OwedIn(b.rows, asked, copies) \subseteq Ids
    BY DEF OwedIn
  <2> DEFINE O == OwedIn(b.rows, asked, copies)  P == OwedIn(b.rows, asked, copies')
  <2>4. P = IF copies[i] + 1 = asked[i] THEN O \ {i} ELSE O
    <3> DEFINE full == copies[i] + 1 = asked[i]
    <3>1. \A k \in Ids : k \in P <=> k \in O /\ (k = i => ~full)
      BY <2>2
    <3> HIDE DEF O, P, full
    <3>2. P = IF full THEN O \ {i} ELSE O
      BY <2>3, <3>1 DEF O, P
    <3> QED BY <3>2 DEF full
  <2> QED BY <2>1, <2>4
<1>3. Promise!Leave(i)
  BY <1>2 DEF Promise!Leave
<1>4. Promise!Next
  BY <1>3 DEF Promise!Next
<1> QED BY <1>4 DEF Rising

\* The server takes the message or refuses it, and the answer may be lost.
LEMMA AnswerStep ==
    ASSUME BulkInv, NEW w \in wire, ServerAnswers(w)
    PROVE  Kept /\ b'.next = b.next /\ Rising
<1>1. /\ w.answer = "awaited" /\ UNCHANGED <<b, asked>> /\ w \in Call
      /\ asked \in [Ids -> Nat] /\ copies \in [Ids -> Nat]
  BY DEF ServerAnswers, BulkInv, Sound
<1>2. CASE DialFails(w)
  <2>1. wire' = wire \ {w} /\ copies' = copies
    BY <1>2 DEF DialFails
  <2>2. Sound(b, wire \ {w}, asked, copies)
    <3>1. Sound(b, wire, asked, copies) /\ b \in Bulk /\ wire \ {w} \subseteq wire
      BY DEF BulkInv, Sound
    <3> QED BY <3>1, SoundFewer
  <2>3. Kept
    BY <1>1, <2>1, <2>2 DEF Kept, BulkInv
  <2> QED BY <1>1, <2>1, <2>3, SameOwed DEF Rising
<1>3. CASE ~DialFails(w)
  <2>1. PICK e \in {"None", "Protocol", "Auth", "Throttled", "Connection"} :
            /\ Answer(w, e)
            /\ copies' = copies \/ (e \in Over /\ copies' = [copies EXCEPT ![w.row] = @ + 1])
    BY <1>3 DEF ServerAnswers, ServerTakes, ServerRefuses, SendBroken, Over
  <2> DEFINE v == [w EXCEPT !.answer = e]
  <2>2. v \in Call /\ v.row = w.row /\ v.answer = e
    BY <1>1 DEF Call
  <2>3. wire' = (wire \ {w}) \cup {v}
    BY <2>1 DEF Answer
  <2> HIDE DEF v
  <2>4. Sound(b, wire', asked, copies') /\ copies[w.row] < asked[w.row]
    BY <1>1, <2>1, <2>2, <2>3, SoundAnswered DEF BulkInv
  <2>5. Kept
    BY <1>1, <2>4 DEF Kept, BulkInv
  <2>6. CASE copies' = copies
    BY <1>1, <2>6, SameOwed, <2>5 DEF Rising
  <2>7. CASE copies' = [copies EXCEPT ![w.row] = @ + 1]
    BY <1>1, <2>4, <2>5, <2>7, LeftIsRising DEF Call
  <2> QED BY <1>1, <2>1, <2>5, <2>6, <2>7
<1> QED BY <1>2, <1>3

------------------------------------------------------------------------------
(* The user's steps.                                                        *)

\* A composed batch is queued whole, and each address is then owed.
LEMMA ComposedStep ==
    ASSUME BulkInv, Composed
    PROVE  Kept /\ Rising
<1>1. CASE UNCHANGED <<b, wire, asked>>
  <2>1. UNCHANGED copies
    BY DEF Composed
  <2>2. Owed' = Owed
    BY <1>1, <2>1, OwedHere
  <2> QED BY <1>1, <2>1, <2>2 DEF Kept, Rising, BulkInv, Promise!vars
<1>2. CASE ~UNCHANGED <<b, wire, asked>>
  <2> DEFINE new == b.next .. b.next + Size - 1
             R == b.rows \cup {[id |-> i, batch |-> b.next, account |-> account,
                                state |-> "queued", later |-> FALSE] : i \in new}
             x == [b EXCEPT !.next = @ + Size,
                            !.rows = @ \cup {[id |-> i, batch |-> b.next, account |-> account,
                                              state |-> "queued", later |-> FALSE] : i \in new}]
             y == IF x.batch # 0 THEN x ELSE [x EXCEPT !.batch = b.next, !.owner = account]
             z == StartLeg(RefreshedProgress(y), up)
  <2>1. Becomes(z) /\ asked' = [i \in Ids |-> IF i \in new THEN 1 ELSE asked[i]] /\ copies' = copies /\ composing
    BY <1>2 DEF Composed
  <2>2. /\ b \in Bulk /\ b.out = {} /\ wire \subseteq Call /\ IsFiniteSet(wire) /\ listed \in BOOLEAN
        /\ account \in Accounts /\ b.next + Size <= MaxRows + 1
    BY <2>1 DEF BulkInv, Sound
  <2>3. b.next \in 1 .. MaxRows + 1 /\ Size \in Nat \ {0} /\ MaxRows \in Nat /\ b.rows \in SUBSET Row
    BY <2>2, BulkAssumption DEF Bulk
  <2>4. b.next \in Ids /\ new \subseteq Ids /\ b.next + Size \in 1 .. MaxRows + 1
    BY <2>2, <2>3 DEF Ids
  <2> DEFINE row(i) == [id |-> i, batch |-> b.next, account |-> account, state |-> "queued", later |-> FALSE]
             rows == {row(i) : i \in new}
  <2>5. /\ rows \in SUBSET Row
        /\ \A q \in rows : q.id \in new /\ q.state = "queued"
        /\ \A q, r \in rows : q.id = r.id => q = r
        /\ \A i \in new : \E q \in rows : q.id = i
    <3>1. ASSUME NEW i \in new PROVE row(i) \in Row /\ row(i).id = i /\ row(i).state = "queued"
      <4>1. i \in Ids /\ FALSE \in BOOLEAN
        BY <2>4
      <4> QED BY <2>2, <2>4, <4>1 DEF Row
    <3> HIDE DEF row, new
    <3> QED BY <3>1
  <2>17. R \in SUBSET Row /\ R = b.rows \cup rows
    BY <2>3, <2>5
  <2>6. x = [b EXCEPT !.next = b.next + Size, !.rows = R]
    BY <2>2 DEF Bulk
  <2> HIDE DEF R
  <2>7. /\ x \in Bulk /\ x.rows = R /\ x.next = b.next + Size /\ x.leg = b.leg /\ x.out = {}
    BY <2>2, <2>4, <2>6, <2>17 DEF Bulk
  <2> HIDE DEF x
  <2>8. /\ Sound(x, wire, asked', copies) /\ new \in SUBSET Ids
        /\ asked' = MoreAsked(asked, new)
        /\ OwedIn(x.rows, asked', copies) = OwedIn(b.rows, asked, copies) \cup new
    <3>1. x.rows = b.rows \cup rows /\ Sound(b, wire, asked, copies) /\ x.leg.row = b.leg.row
      BY <2>7, <2>17 DEF BulkInv
    <3> HIDE DEF new, rows
    <3>2. new = Fresh(b)
      BY DEF new, Fresh
    <3>4. /\ \A q \in rows : q.id \in Fresh(b) /\ q.state = "queued"
          /\ \A q, r \in rows : q.id = r.id => q = r
          /\ \A i \in Fresh(b) : \E q \in rows : q.id = i
      BY <2>5, <3>2
    <3>5. /\ Sound(x, wire, MoreAsked(asked, Fresh(b)), copies) /\ Fresh(b) \in SUBSET Ids
          /\ MoreAsked(asked, Fresh(b)) = [i \in Ids |-> IF i \in Fresh(b) THEN 1 ELSE asked[i]]
          /\ OwedIn(x.rows, MoreAsked(asked, Fresh(b)), copies) = OwedIn(b.rows, asked, copies) \cup Fresh(b)
      <4>1. Queues(b, rows, x)
        BY <2>2, <2>7, <3>1, <3>4 DEF Queues
      <4>2. Sound(x, wire, MoreAsked(asked, Fresh(b)), copies) /\ Fresh(b) \in SUBSET Ids
        BY <3>1, <4>1, SoundComposed, Zenon
      <4>3. MoreAsked(asked, Fresh(b)) = [i \in Ids |-> IF i \in Fresh(b) THEN 1 ELSE asked[i]]
        <5>1. \A i \in Fresh(b) : asked[i] = 0
          BY <3>1, <4>1, SoundComposed
        <5> QED BY <5>1 DEF MoreAsked
      <4>4. \A i : i \in OwedIn(x.rows, MoreAsked(asked, Fresh(b)), copies)
                     <=> i \in OwedIn(b.rows, asked, copies) \/ i \in Fresh(b)
        BY <3>1, <4>1, SoundComposed, Zenon
      <4> QED BY <4>2, <4>3, <4>4
    <3>3. /\ Sound(x, wire, MoreAsked(asked, new), copies) /\ new \in SUBSET Ids
          /\ MoreAsked(asked, new) = [i \in Ids |-> IF i \in new THEN 1 ELSE asked[i]]
          /\ OwedIn(x.rows, MoreAsked(asked, new), copies) = OwedIn(b.rows, asked, copies) \cup new
      BY <3>2, <3>5
    <3> QED BY <2>1, <3>3
  <2>9. Quiet(x, y)
    <3>1. b.next \in 0 .. MaxRows
      BY <2>4, BulkAssumption DEF Ids
    <3> QED BY <2>2, <2>7, <3>1 DEF Quiet, Bulk
  <2> HIDE DEF y, new
  <2>10. Quiet(x, z)
    <3>1. y \in Bulk /\ Quiet(y, RefreshedProgress(y))
      BY <2>9, RefreshIsQuiet DEF Quiet
    <3>2. Quiet(RefreshedProgress(y), z)
      BY <2>2, <3>1, StartIsQuiet DEF Quiet
    <3> QED BY <2>9, <3>1, <3>2, QuietQuiet
  <2> HIDE DEF z
  <2>11. /\ Sound(b', wire', asked', copies) /\ b'.out = {}
    BY <2>1, <2>7, <2>8, <2>10, Became
  <2>12. b'.rows = x.rows
    <3>1. z.rows = x.rows /\ z \in Bulk /\ b' = [z EXCEPT !.out = {}]
      BY <2>1, <2>10 DEF Quiet, Becomes
    <3> QED BY <3>1, OutCleared
  <2>13. Owed' = Owed \cup new
    BY <2>1, <2>8, <2>12, OwedHere
  <2>14. Promise!Ask(new)
    BY <2>1, <2>8, <2>13 DEF Promise!Ask, MoreAsked
  <2>15. Promise!Next
    BY <2>8, <2>14 DEF Promise!Next
  <2> QED BY <2>1, <2>11, <2>15 DEF Kept, Rising
<1> QED BY <1>1, <1>2

\* What is taken back was queued, so it is no longer owed.
LEMMA TakenBack ==
    ASSUME BulkInv, NEW G \in SUBSET b.rows, \A r \in G : r.state # "sending", Withdrawn(G), UNCHANGED copies,
           NEW x \in Bulk, x.rows = b.rows \ G, x.next = b.next, x.leg = b.leg, x.out = {},
           NEW y, Becomes(y), Quiet(x, y) \/ Sends(x, y)
    PROVE  Kept /\ b'.next = b.next /\ Rising
<1> DEFINE S == QueuedIn(G)
<1>1. asked' = LessAsked(asked, S)
  BY DEF Withdrawn, LessAsked, QueuedIn
<1>2. /\ Sound(x, wire, asked', copies)
      /\ S \subseteq OwedIn(b.rows, asked, copies)
      /\ OwedIn(x.rows, asked', copies) = OwedIn(b.rows, asked, copies) \ S
  <2>1. Sound(b, wire, asked, copies) /\ x.leg.row = b.leg.row
    BY DEF BulkInv
  <2>3. /\ Sound(x, wire, LessAsked(asked, QueuedIn(G)), copies)
        /\ QueuedIn(G) \subseteq OwedIn(b.rows, asked, copies)
        /\ OwedIn(x.rows, LessAsked(asked, QueuedIn(G)), copies) = OwedIn(b.rows, asked, copies) \ QueuedIn(G)
    <3>1. Withdraws(b, G, x)
      BY <2>1 DEF Withdraws
    <3>2. Sound(x, wire, LessAsked(asked, QueuedIn(G)), copies)
      BY <2>1, <3>1, SoundWithdrawn, Zenon
    <3>3. QueuedIn(G) \subseteq OwedIn(b.rows, asked, copies)
      BY <2>1, <3>1, SoundWithdrawn, Zenon
    <3>4. OwedIn(x.rows, LessAsked(asked, QueuedIn(G)), copies) = OwedIn(b.rows, asked, copies) \ QueuedIn(G)
      <4>1. \A i : i \in OwedIn(x.rows, LessAsked(asked, QueuedIn(G)), copies)
                     <=> i \in OwedIn(b.rows, asked, copies) /\ i \notin QueuedIn(G)
        BY <2>1, <3>1, SoundWithdrawn, Zenon
      <4> QED BY <4>1
    <3> QED BY <3>2, <3>3, <3>4
  <2> QED BY <1>1, <2>3
<1>3. /\ Sound(b', wire', asked', copies) /\ b'.out = {} /\ b'.next = x.next
      /\ OwedIn(b'.rows, asked', copies) = OwedIn(x.rows, asked', copies)
  BY <1>2, Became
<1>4. S \in SUBSET Ids
  BY DEF QueuedIn
<1> HIDE DEF S
<1>5. Owed' = Owed \ S /\ S \subseteq Owed
  BY <1>2, <1>3, OwedHere
<1>6. Promise!TakeBack(S)
  BY <1>1, <1>5 DEF Promise!TakeBack, LessAsked
<1>7. Promise!Next
  BY <1>4, <1>6 DEF Promise!Next
<1> QED BY <1>3, <1>7 DEF Kept, Rising

LEMMA CancelStep ==
    ASSUME BulkInv, CancelBulk \/ \E r \in b.rows : CancelRow(r)
    PROVE  Kept /\ b'.next = b.next /\ Rising
<1>1. b \in Bulk /\ b.out = {} /\ b.rows \in SUBSET Row
  BY DEF BulkInv, Sound, Bulk
<1>2. ASSUME NEW G \in SUBSET b.rows
      PROVE  /\ [b EXCEPT !.rows = @ \ G] \in Bulk /\ [b EXCEPT !.rows = @ \ G].rows = b.rows \ G
             /\ [b EXCEPT !.rows = @ \ G].next = b.next /\ [b EXCEPT !.rows = @ \ G].leg = b.leg
             /\ [b EXCEPT !.rows = @ \ G].out = {}
  <2> DEFINE R == b.rows \ G
  <2>1. R \in SUBSET Row /\ [b EXCEPT !.rows = @ \ G] = [b EXCEPT !.rows = R]
    BY <1>1 DEF Bulk
  <2> HIDE DEF R
  <2>2. /\ [b EXCEPT !.rows = R] \in Bulk /\ [b EXCEPT !.rows = R].rows = R
        /\ [b EXCEPT !.rows = R].next = b.next /\ [b EXCEPT !.rows = R].leg = b.leg
        /\ [b EXCEPT !.rows = R].out = {}
    BY <1>1, <2>1 DEF Bulk
  <2> QED BY <2>1, <2>2 DEF R
<1>3. CASE CancelBulk
  <2> DEFINE gone == {r \in Of(b) : r.state # "sending"}
             x == [b EXCEPT !.rows = @ \ gone]
             y == RefreshedProgress(x)
  <2>1. gone \in SUBSET b.rows /\ \A r \in gone : r.state # "sending"
    BY DEF Of
  <2>2. Becomes(DrainLeg(y)) /\ Withdrawn(gone) /\ UNCHANGED copies
    BY <1>3 DEF CancelBulk
  <2> HIDE DEF gone
  <2>3. x \in Bulk /\ x.rows = b.rows \ gone /\ x.next = b.next /\ x.leg = b.leg /\ x.out = {}
    BY <1>2, <2>1
  <2> HIDE DEF x
  <2>4. Quiet(x, y) /\ y.leg = x.leg
    BY <2>3, RefreshIsQuiet
  <2>5. y \in Bulk /\ y.rows = b.rows \ gone /\ y.next = b.next /\ y.leg = b.leg /\ y.out = {}
    BY <2>3, <2>4 DEF Quiet
  <2> HIDE DEF y
  <2>6. Quiet(y, DrainLeg(y)) \/ Sends(y, DrainLeg(y))
    BY <2>5, DrainLegSends
  <2> QED BY <2>1, <2>2, <2>5, <2>6, TakenBack
<1>4. ASSUME NEW r \in b.rows, CancelRow(r)
      PROVE  Kept /\ b'.next = b.next /\ Rising
  <2> DEFINE x == [b EXCEPT !.rows = @ \ {r}]
  <2>1. {r} \in SUBSET b.rows /\ \A q \in {r} : q.state # "sending"
    BY <1>4 DEF CancelRow
  <2>2. Becomes(RefreshedProgress(x)) /\ Withdrawn({r}) /\ UNCHANGED copies
    BY <1>4 DEF CancelRow
  <2>3. x \in Bulk /\ x.rows = b.rows \ {r} /\ x.next = b.next /\ x.leg = b.leg /\ x.out = {}
    BY <1>2, <2>1
  <2> HIDE DEF x
  <2>4. Quiet(x, RefreshedProgress(x))
    BY <2>3, RefreshIsQuiet
  <2> QED BY <2>1, <2>2, <2>3, <2>4, TakenBack
<1> QED BY <1>3, <1>4

\* A failed row is asked for again, and may go out at once.
LEMMA RetryStep ==
    ASSUME BulkInv, NEW r \in b.rows, RetryRow(r)
    PROVE  Kept /\ b'.next = b.next /\ Rising
<1> DEFINE R == Set(b.rows, r.id, "queued", FALSE)
           x == [b EXCEPT !.rows = Set(@, r.id, "queued", FALSE)]
           y == RefreshedProgress(x)
           z == ResumeBatch(y, up)
<1>1. /\ b \in Bulk /\ b.out = {} /\ b.rows \in SUBSET Row /\ asked \in [Ids -> Nat]
      /\ wire \subseteq Call /\ IsFiniteSet(wire) /\ listed \in BOOLEAN /\ account \in Accounts
  BY DEF BulkInv, Sound, Bulk
<1>2. /\ r.state = "failed" /\ Becomes(DrainLeg(z)) /\ UNCHANGED copies
      /\ asked' = MoreAsked(asked, {r.id}) /\ r.id \in Ids
  BY <1>1 DEF RetryRow, Row, MoreAsked
<1>3. FALSE \in BOOLEAN /\ x = [b EXCEPT !.rows = R]
  BY <1>1 DEF Bulk
<1>4. PICK later \in BOOLEAN : R = Set(b.rows, r.id, "queued", later)
  BY <1>3
<1> HIDE DEF R
<1>5. R \in SUBSET Row
  BY <1>1, <1>4, SetTyped
<1>6. x \in Bulk /\ x.rows = R /\ x.next = b.next /\ x.leg = b.leg /\ x.out = {}
  BY <1>1, <1>3, <1>5 DEF Bulk
<1> HIDE DEF x
<1>7. /\ Sound(x, wire, asked', copies)
      /\ OwedIn(x.rows, asked', copies) = OwedIn(b.rows, asked, copies) \cup {r.id}
  <2>1. Sound(b, wire, asked, copies) /\ x.leg.row = b.leg.row
    BY <1>6 DEF BulkInv
  <2>2. /\ Sound(x, wire, MoreAsked(asked, {r.id}), copies)
        /\ OwedIn(x.rows, MoreAsked(asked, {r.id}), copies) = OwedIn(b.rows, asked, copies) \cup {r.id}
    BY <1>2, <1>4, <1>6, <2>1, SoundRetried
  <2> QED BY <1>2, <2>2
<1>8. Quiet(x, z)
  <2>1. Quiet(x, y) /\ y \in Bulk
    BY <1>6, RefreshIsQuiet DEF Quiet
  <2>2. Quiet(y, z)
    BY <1>1, <2>1, ResumeIsQuiet
  <2> QED BY <2>1, <2>2, QuietQuiet
<1> HIDE DEF y, z
<1>9. /\ Sound(z, wire, asked', copies) /\ z.out = {} /\ z \in Bulk /\ z.next = b.next
      /\ z.rows = x.rows
  BY <1>6, <1>7, <1>8, SoundQuiet DEF Quiet
<1>10. Quiet(z, DrainLeg(z)) \/ Sends(z, DrainLeg(z))
  BY <1>9, DrainLegSends
<1>11. /\ Sound(b', wire', asked', copies) /\ b'.out = {} /\ b'.next = z.next
       /\ OwedIn(b'.rows, asked', copies) = OwedIn(z.rows, asked', copies)
  BY <1>2, <1>9, <1>10, Became
<1>12. Owed' = Owed \cup {r.id}
  BY <1>2, <1>7, <1>9, <1>11, OwedHere
<1>14. Promise!Ask({r.id})
  BY <1>2, <1>12 DEF Promise!Ask, MoreAsked
<1>15. Promise!Next
  BY <1>2, <1>14 DEF Promise!Next
<1> QED BY <1>2, <1>9, <1>11, <1>15 DEF Kept, Rising
------------------------------------------------------------------------------
(* BulkSend implements Delivery.                                            *)

LEMMA NothingAsked ==
    Init => BulkInv /\ Promise!Init
<1> SUFFICES ASSUME Init PROVE BulkInv /\ Promise!Init
  OBVIOUS
<1>1. MaxRows \in Nat /\ Ids \subseteq Nat
  BY BulkAssumption DEF Ids
<1>2. b \in Bulk /\ b.rows = {} /\ b.out = {} /\ b.next = 1 /\ b.leg.row = 0
  <2> DEFINE leg == NoLeg
  <2>1. leg \in Leg /\ leg.row = 0
    BY NoLegTyped
  <2>2. b = [rows |-> {}, next |-> 1, batch |-> 0, owner |-> NoAccount, leg |-> leg, filing |-> {},
             pause |-> FALSE, reopen |-> FALSE, valid |-> TRUE, parked |-> {}, out |-> {}]
    BY DEF Init
  <2> HIDE DEF leg
  <2> QED BY <1>1, <2>1, <2>2 DEF Bulk
<1>3. wire = {} /\ asked = [i \in Ids |-> 0] /\ copies = [i \in Ids |-> 0] /\ account \in Accounts
      /\ listed = FALSE /\ composing = FALSE
  BY DEF Init
<1>4. ASSUME NEW i \in Ids PROVE Claims(b.rows, wire, copies, i) = 0
  <2>1. Pending(wire, i) = {} /\ ~HasIn(b.rows, i, "queued") /\ copies[i] = 0
    BY <1>2, <1>3 DEF Pending, HasIn
  <2>2. Cardinality(Pending(wire, i)) = 0
    BY <2>1, FS_EmptySet
  <2>3. Claims(b.rows, wire, copies, i) = 0 + 0 + 0
    BY <2>1, <2>2 DEF Claims
  <2> QED BY <2>3
<1>5. IsFiniteSet(wire)
  BY <1>3, FS_EmptySet
<1>6. ASSUME NEW i \in Ids PROVE Claims(b.rows, wire, copies, i) <= asked[i]
  BY <1>3, <1>4
<1>7. Sound(b, wire, asked, copies)
  BY <1>2, <1>3, <1>5, <1>6 DEF Sound, OneEach
<1>8. BulkInv
  BY <1>2, <1>3, <1>7 DEF BulkInv
<1>9. Promise!Init
  BY <1>2, <1>3 DEF Promise!Init, Owed
<1> QED BY <1>8, <1>9

\* The account and what is known of it, and the room a batch was given.
Around ==
    /\ account' \in Accounts /\ listed' \in BOOLEAN
    /\ composing' => composing \/ (b' = b /\ b.next + Size <= MaxRows + 1)

LEMMA AroundIt ==
    ASSUME BulkInv, [Next]_vars
    PROVE  Around
<1>0. account \in Accounts /\ listed \in BOOLEAN
  BY DEF BulkInv
<1>1. ASSUME SendBulk PROVE Around
  BY <1>0, <1>1 DEF SendBulk, Around
<1>2. ASSUME Composed PROVE Around
  BY <1>0, <1>2 DEF Composed, Around
<1>3. ASSUME CancelBulk PROVE Around
  BY <1>0, <1>3 DEF CancelBulk, Around
<1>4. ASSUME NEW r \in b.rows, CancelRow(r) PROVE Around
  BY <1>0, <1>4 DEF CancelRow, Around
<1>5. ASSUME NEW r \in b.rows, RetryRow(r) PROVE Around
  BY <1>0, <1>5 DEF RetryRow, Around
<1>6. ASSUME NEW w \in wire, ServerAnswers(w) PROVE Around
  BY <1>0, <1>6 DEF ServerAnswers, Around
<1>7. ASSUME NEW w \in wire, Report(w) PROVE Around
  BY <1>0, <1>7 DEF Report, Around
<1>8. ASSUME NEW i \in Ids, CopyFiled(i) PROVE Around
  BY <1>0, <1>8 DEF CopyFiled, Around
<1>9. ASSUME Connect PROVE Around
  BY <1>0, <1>9 DEF Connect, Around
<1>10. ASSUME FoldersListed PROVE Around
  BY <1>0, <1>10 DEF FoldersListed, Around
<1>11. ASSUME SessionLost PROVE Around
  BY <1>0, <1>11 DEF SessionLost, Around
<1>12. ASSUME LegConnects PROVE Around
  BY <1>0, <1>12 DEF LegConnects, Around
<1>13. ASSUME LegFails PROVE Around
  BY <1>0, <1>13 DEF LegFails, Around
<1>14. ASSUME PauseEnds PROVE Around
  BY <1>0, <1>14 DEF PauseEnds, Around
<1>15. ASSUME LegReopens PROVE Around
  BY <1>0, <1>15 DEF LegReopens, Around
<1>16. ASSUME TokenExpires PROVE Around
  BY <1>0, <1>16 DEF TokenExpires, Around
<1>17. ASSUME NEW r \in b.rows, BackoffEnds(r) PROVE Around
  BY <1>0, <1>17 DEF BackoffEnds, Around
<1>18. ASSUME Restart PROVE Around
  BY <1>0, <1>18 DEF Restart, Around
<1>19. ASSUME NEW to \in Accounts, Switch(to) PROVE Around
  BY <1>0, <1>19 DEF Switch, Around
<1>20. ASSUME NEW ok \in BOOLEAN, TokenAnswered(ok) PROVE Around
  BY <1>0, <1>20 DEF TokenAnswered, Around
<1>21. ASSUME UNCHANGED vars PROVE Around
  BY <1>0, <1>21 DEF vars, Around
<1> QED BY <1>1, <1>2, <1>3, <1>4, <1>5, <1>6, <1>7, <1>8, <1>9, <1>10, <1>11, <1>12, <1>13, <1>14,
          <1>15, <1>16, <1>17, <1>18, <1>19, <1>20, <1>21
       DEF Next, Client, Server, Links, Clock, Rest

\* Every step keeps the claims, and is one of Delivery or none.
LEMMA EveryStep ==
    ASSUME BulkInv, [Next]_vars
    PROVE  BulkInv' /\ Rising
<1>1. Kept /\ Rising /\ (b'.next = b.next \/ ~composing')
  <2>1. CASE SendBulk \/ TokenExpires \/ FoldersListed \/ SessionLost \/ (\E to \in Accounts : Switch(to))
               \/ UNCHANGED vars
    BY <2>1, AsideStep
  <2>2. CASE Connect \/ LegConnects \/ LegFails \/ PauseEnds \/ LegReopens
    BY <2>2, LinkStep
  <2>3. CASE Composed
    BY <2>3, ComposedStep DEF Composed
  <2>4. CASE CancelBulk \/ \E r \in b.rows : CancelRow(r)
    BY <2>4, CancelStep
  <2>5. CASE \E r \in b.rows : RetryRow(r)
    BY <2>5, RetryStep
  <2>6. CASE \E w \in wire : ServerAnswers(w) \/ Report(w)
    BY <2>6, AnswerStep, ReportStep
  <2>7. CASE \E i \in Ids : CopyFiled(i)
    BY <2>7, FiledStep
  <2>8. CASE \E r \in b.rows : BackoffEnds(r)
    BY <2>8, BackoffStep
  <2>9. CASE Restart
    BY <2>9, RestartStep
  <2>10. CASE \E ok \in BOOLEAN : TokenAnswered(ok)
    BY <2>10, TokenStep
  <2> QED BY <2>1, <2>2, <2>3, <2>4, <2>5, <2>6, <2>7, <2>8, <2>9, <2>10
          DEF Next, Client, Server, Links, Clock, Rest
<1>2. composing' => b'.next + Size <= MaxRows + 1
  BY <1>1, AroundIt DEF BulkInv, Around
<1> QED BY <1>1, <1>2, AroundIt DEF BulkInv, Kept, Around

\* The claims hold throughout.
LEMMA AlwaysSound == Spec => []BulkInv
<1>1. Init => BulkInv
  BY NothingAsked
<1>2. BulkInv /\ [Next]_vars => BulkInv'
  BY EveryStep
<1> QED BY <1>1, <1>2, PTL DEF Spec

\* Bulk sending implements Delivery, whatever of the disturbances it names
\* befalls it, and for batches of any size: each message leaves only for an
\* asking that was not used up, and an asking is answered for, or taken back.
\* A copy whose answer a JMAP connection lost is none that Delivery is told of:
\* it is counted in unheard, and in NoneTwice.
THEOREM BulkDelivers == Spec => Delivers
<1>1. Init => Promise!Init
  BY NothingAsked
<1>2. BulkInv /\ [Next]_vars => [Promise!Next]_(Promise!vars)
  BY EveryStep DEF Rising
<1>3. Spec => Promise!Spec
  BY <1>1, <1>2, AlwaysSound, PTL DEF Spec, Promise!Spec
<1> QED BY <1>3 DEF Delivers

\* Over SMTP no copy is left unheard of, and each protocol stays its account's.
HeardInv ==
    /\ proto \in {"imap", "jmap"} /\ unheard \in [Ids -> Nat]
    /\ proto = "imap" => \A i \in Ids : unheard[i] = 0

LEMMA StaysHeard ==
    ASSUME BulkInv, HeardInv, [Next]_vars
    PROVE  HeardInv'
<1>1. HeardInv
  OBVIOUS
<1>2. ASSUME SendBulk PROVE UNCHANGED <<proto, unheard>>
  BY <1>2 DEF SendBulk
<1>3. ASSUME Composed PROVE UNCHANGED <<proto, unheard>>
  BY <1>3 DEF Composed
<1>4. ASSUME CancelBulk PROVE UNCHANGED <<proto, unheard>>
  BY <1>4 DEF CancelBulk
<1>5. ASSUME NEW r \in b.rows, CancelRow(r) PROVE UNCHANGED <<proto, unheard>>
  BY <1>5 DEF CancelRow
<1>6. ASSUME NEW r \in b.rows, RetryRow(r) PROVE UNCHANGED <<proto, unheard>>
  BY <1>6 DEF RetryRow
<1>7. ASSUME NEW w \in wire, Report(w) PROVE UNCHANGED <<proto, unheard>>
  BY <1>7 DEF Report
<1>8. ASSUME NEW i \in Ids, CopyFiled(i) PROVE UNCHANGED <<proto, unheard>>
  BY <1>8 DEF CopyFiled
<1>9. ASSUME Connect PROVE UNCHANGED <<proto, unheard>>
  BY <1>9 DEF Connect
<1>10. ASSUME FoldersListed PROVE UNCHANGED <<proto, unheard>>
  BY <1>10 DEF FoldersListed
<1>11. ASSUME SessionLost PROVE UNCHANGED <<proto, unheard>>
  BY <1>11 DEF SessionLost
<1>12. ASSUME LegConnects PROVE UNCHANGED <<proto, unheard>>
  BY <1>12 DEF LegConnects
<1>13. ASSUME LegFails PROVE UNCHANGED <<proto, unheard>>
  BY <1>13 DEF LegFails
<1>14. ASSUME PauseEnds PROVE UNCHANGED <<proto, unheard>>
  BY <1>14 DEF PauseEnds
<1>15. ASSUME LegReopens PROVE UNCHANGED <<proto, unheard>>
  BY <1>15 DEF LegReopens
<1>16. ASSUME TokenExpires PROVE UNCHANGED <<proto, unheard>>
  BY <1>16 DEF TokenExpires
<1>17. ASSUME NEW r \in b.rows, BackoffEnds(r) PROVE UNCHANGED <<proto, unheard>>
  BY <1>17 DEF BackoffEnds
<1>18. ASSUME Restart PROVE UNCHANGED <<proto, unheard>>
  BY <1>18 DEF Restart
<1>19. ASSUME NEW to \in Accounts, Switch(to) PROVE UNCHANGED <<proto, unheard>>
  BY <1>19 DEF Switch
<1>20. ASSUME NEW ok \in BOOLEAN, TokenAnswered(ok) PROVE UNCHANGED <<proto, unheard>>
  BY <1>20 DEF TokenAnswered
<1>21. ASSUME NEW w \in wire, ServerAnswers(w) PROVE HeardInv'
  <2>1. proto' = proto /\ w.row \in Ids
    BY <1>21 DEF ServerAnswers, BulkInv, Sound, Call
  <2>2. unheard' = unheard \/ (proto = "jmap" /\ unheard' = [unheard EXCEPT ![w.row] = @ + 1])
    BY <1>21 DEF ServerAnswers, ServerTakes, ServerRefuses, SendBroken, DialFails
  <2> QED BY <2>1, <2>2, <1>1 DEF HeardInv
<1>22. ASSUME UNCHANGED <<proto, unheard>> PROVE HeardInv'
  BY <1>1, <1>22 DEF HeardInv
<1>23. UNCHANGED vars => UNCHANGED <<proto, unheard>>
  BY DEF vars
<1> QED BY <1>1, <1>2, <1>3, <1>4, <1>5, <1>6, <1>7, <1>8, <1>9, <1>10, <1>11, <1>12, <1>13, <1>14, <1>15,
          <1>16, <1>17, <1>18, <1>19, <1>20, <1>21, <1>22, <1>23
       DEF Next, Client, Server, Links, Clock, Rest

\* No address gets a message more often than the user asked for, through dead
\* legs, refused logins, broken connections, switches, cancelled rows and
\* restarts: never over SMTP, and over JMAP only once more for each answer that
\* was lost after the server took the message.
THEOREM NoneTwice == Spec => []SentAsAsked
<1>1. BulkInv /\ HeardInv => SentAsAsked
  <2> SUFFICES ASSUME BulkInv, HeardInv, NEW i \in Ids
               PROVE  copies[i] + unheard[i] <= asked[i] + (IF proto = "jmap" THEN unheard[i] ELSE 0)
    BY DEF SentAsAsked
  <2> DEFINE p == Cardinality(Pending(wire, i))  q == IF HasIn(b.rows, i, "queued") THEN 1 ELSE 0
             u == unheard[i]
  <2>1. /\ p \in Nat /\ q \in Nat /\ copies[i] \in Nat /\ asked[i] \in Nat
        /\ u \in Nat /\ (proto = "jmap" \/ u = 0)
    BY PendingFinite DEF BulkInv, Sound, HeardInv
  <2>2. copies[i] + p + q <= asked[i]
    BY DEF BulkInv, Sound, Claims
  <2> HIDE DEF p, q, u
  <2>3. copies[i] <= asked[i]
    BY <2>1, <2>2
  <2>4. copies[i] + u <= asked[i] + (IF proto = "jmap" THEN u ELSE 0)
    BY <2>1, <2>3
  <2> QED BY <2>4 DEF u
<1>2. Init => HeardInv
  BY BulkAssumption DEF Init, HeardInv
<1>3. BulkInv /\ HeardInv /\ [Next]_vars => HeardInv'
  BY StaysHeard
<1> QED BY <1>1, <1>2, <1>3, AlwaysSound, PTL DEF Spec
------------------------------------------------------------------------------
(* What is shown as being sent.  Where no copy is being filed while the     *)
(* leg is disturbed, and a restart finds the batch's own account open, each *)
(* such row is on the leg's wire or having its copy filed over it.          *)

Served(x, W) ==
    /\ \A w \in W : w.leg # 0 /\ (w.leg = x.leg.on => w.row = x.leg.row)
    /\ \A w, v \in W : w.leg = x.leg.on /\ v.leg = x.leg.on => w = v
    /\ x.leg.row # 0 => x.leg.on # 0 /\ x.leg.up /\ x.filing = {}
    /\ x.filing # {} => x.leg.on # 0 /\ x.leg.up
    /\ \A r \in x.rows : r.state = "sending" => /\ r.id = x.leg.row \/ r.id \in x.filing
                                                /\ r.account = x.owner /\ r.batch = x.batch

\* The calls a record is about to make, and the wire with them.
Calls(x)  == {[leg |-> w.leg, row |-> w.row, answer |-> "awaited"] : w \in x.out}
Serves(x) == x \in Bulk /\ Served(x, wire \cup Calls(x))

Alike(x, y) ==
    /\ y \in Bulk /\ y.leg = x.leg /\ y.filing = x.filing /\ y.out = x.out
    /\ y.owner = x.owner /\ y.batch = x.batch

LEMMA AlikeServed ==
    ASSUME NEW x, NEW W, Served(x, W), NEW y, Alike(x, y),
           \A r \in y.rows : r.state = "sending" => \E q \in x.rows : /\ q.state = "sending" /\ q.id = r.id
                                                                      /\ q.account = r.account /\ q.batch = r.batch
    PROVE  Served(y, W)
BY DEF Served, Alike

LEMMA NoCallsServes ==
    ASSUME NEW x \in Bulk, x.out = {}
    PROVE  Serves(x) <=> Served(x, wire)
<1>1. wire \cup Calls(x) = wire
  BY DEF Calls
<1> QED BY <1>1 DEF Serves

LEMMA BecomesServed ==
    ASSUME NEW x, Serves(x), Becomes(x)
    PROVE  Served(b', wire')
<1> DEFINE y == [x EXCEPT !.out = {}]
<1>1. x \in Bulk /\ wire' = wire \cup Calls(x) /\ b' = y
  BY DEF Becomes, Calls, Serves
<1>2. y.leg = x.leg /\ y.filing = x.filing /\ y.rows = x.rows /\ y.owner = x.owner /\ y.batch = x.batch
  BY <1>1 DEF Bulk
<1> HIDE DEF y
<1> QED BY <1>1, <1>2 DEF Serves, Served

\* A batch that nothing is left of is none: no row of it is being sent.
LEMMA NothingLeft ==
    ASSUME NEW x \in Bulk, NEW W, Served(x, W), \A r \in Of(x) : ~Live(r)
    PROVE  \A r \in x.rows : r.state # "sending"
BY DEF Served, Of, Live

LEMMA RefreshServed ==
    ASSUME NEW x \in Bulk, NEW W, Served(x, W)
    PROVE  /\ Served(RefreshedProgress(x), W) /\ RefreshedProgress(x) \in Bulk
           /\ RefreshedProgress(x).filing = x.filing /\ RefreshedProgress(x).leg = x.leg
           /\ RefreshedProgress(x).out = x.out
<1>1. CASE RefreshedProgress(x) = x
  BY <1>1
<1>2. CASE (\A r \in Of(x) : ~Live(r)) /\ RefreshedProgress(x) = [x EXCEPT !.batch = 0, !.owner = NoAccount]
  <2> DEFINE y == [x EXCEPT !.batch = 0, !.owner = NoAccount]
  <2>1. y \in Bulk
    BY <1>2, RefreshIsQuiet DEF Quiet
  <2>2. y.rows = x.rows /\ y.leg = x.leg /\ y.filing = x.filing /\ y.out = x.out
    BY DEF Bulk
  <2> HIDE DEF y
  <2>3. \A r \in x.rows : r.state # "sending"
    BY <1>2, NothingLeft
  <2>4. Served(y, W)
    BY <2>2, <2>3 DEF Served
  <2> QED BY <1>2, <2>1, <2>2, <2>4 DEF y
<1> QED BY <1>1, <1>2 DEF RefreshedProgress

\* The row on the wire is failed with its leg, so nothing is shown as being sent.
LEMMA EndServed ==
    ASSUME NEW x \in Bulk, NEW W, W \subseteq Call, Served(x, W), x.filing = {}, NEW reason \in BOOLEAN
    PROVE  /\ Served(EndLeg(x, reason), W) /\ EndLeg(x, reason) \in Bulk
           /\ EndLeg(x, reason).out = x.out /\ EndLeg(x, reason).filing = {}
           /\ EndLeg(x, reason).leg.on = 0
<1>1. CASE x.leg.on = 0
  BY <1>1 DEF EndLeg
<1>2. CASE x.leg.on # 0
  <2> DEFINE R == IF x.leg.row = 0 THEN x.rows ELSE Set(x.rows, x.leg.row, "failed", FALSE)
             cut == [x EXCEPT !.rows = R, !.filing = {}, !.leg = NoLeg]
             y == RefreshedProgress(cut)
             z == [y EXCEPT !.reopen = @ \/ (reason /\ y.batch # 0)]
  <2>1. R \in SUBSET Row
    BY SetTyped DEF Bulk
  <2>2. \A r \in R : r.state # "sending"
    <3>1. x.rows \in SUBSET Row
      BY DEF Bulk
    <3>2. \A r \in x.rows : r.state = "sending" => r.id = x.leg.row /\ r.id # 0
      BY <3>1 DEF Served, Row, Ids
    <3> QED BY <3>1, <3>2 DEF Set, Row
  <2>3. cut = [x EXCEPT !.rows = IF x.leg.row = 0 THEN @ ELSE Set(@, x.leg.row, "failed", FALSE),
                        !.filing = {}, !.leg = NoLeg]
    BY DEF Bulk
  <2>4. EndLeg(x, reason) = z
    BY <1>2, <2>3 DEF EndLeg
  <2> HIDE DEF R
  <2>5. cut \in Bulk /\ cut.rows = R /\ cut.leg = NoLeg /\ cut.filing = {} /\ cut.out = x.out
    BY <2>1, NoLegTyped DEF Bulk
  <2> HIDE DEF cut
  <2>6. Served(cut, W)
    BY <2>2, <2>5, NoLegTyped DEF Served, Call
  <2>7. Served(y, W) /\ y \in Bulk /\ y.filing = {} /\ y.leg = NoLeg /\ y.out = x.out
    BY <2>5, <2>6, RefreshServed
  <2> HIDE DEF y
  <2>8. z \in Bulk /\ z.rows = y.rows /\ Alike(y, z)
    BY <2>7 DEF Bulk, Alike
  <2> HIDE DEF z
  <2>9. Served(z, W)
    BY <2>7, <2>8, AlikeServed
  <2> QED BY <2>4, <2>7, <2>8, <2>9, NoLegTyped DEF Alike
<1> QED BY <1>1, <1>2
\* The next row goes out over a leg whose wire is clear.
LEMMA DrainServed ==
    ASSUME NEW x \in Bulk, wire \subseteq Call, Served(x, wire), x.out = {}, x.filing = {}, OneEach(x.rows)
    PROVE  Serves(DrainLeg(x)) /\ (DrainLeg(x).leg.on = 0 => DrainLeg(x).out = {}) /\ DrainLeg(x).filing = {}
<1> DEFINE due == {r \in Waiting(x) : ~r.later}
           i == Min({r.id : r \in due})
           y == [x EXCEPT !.rows = Marked(@, i, "sending"), !.leg.row = i,
                          !.out = @ \cup {[leg |-> x.leg.on, row |-> i]}]
<1>0. FALSE \in BOOLEAN
  OBVIOUS
<1>1. CASE DrainLeg(x) = x
  BY <1>1, NoCallsServes
<1>2. CASE DrainLeg(x) = [x EXCEPT !.pause = TRUE]
  <2> DEFINE p == [x EXCEPT !.pause = TRUE]
  <2>1. p \in Bulk /\ p.rows = x.rows /\ Alike(x, p)
    BY DEF Bulk, Alike
  <2> HIDE DEF p
  <2>2. Served(p, wire) /\ p.out = {} /\ p.filing = {}
    BY <2>1, AlikeServed DEF Alike
  <2> QED BY <1>2, <2>1, <2>2, NoCallsServes DEF p
<1>3. CASE DrainLeg(x) = EndLeg(x, FALSE)
  <2>1. /\ Served(EndLeg(x, FALSE), wire) /\ EndLeg(x, FALSE) \in Bulk
        /\ EndLeg(x, FALSE).out = {} /\ EndLeg(x, FALSE).filing = {}
    BY <1>0, EndServed
  <2> QED BY <1>3, <2>1, NoCallsServes
<1>4. CASE DrainLeg(x) = EndLeg(RefreshedProgress(x), FALSE)
  <2> DEFINE s == RefreshedProgress(x)
  <2>1. Served(s, wire) /\ s \in Bulk /\ s.filing = {} /\ s.out = {}
    BY RefreshServed
  <2> HIDE DEF s
  <2>2. /\ Served(EndLeg(s, FALSE), wire) /\ EndLeg(s, FALSE) \in Bulk
        /\ EndLeg(s, FALSE).out = {} /\ EndLeg(s, FALSE).filing = {}
    BY <1>0, <2>1, EndServed
  <2> QED BY <1>4, <2>2, NoCallsServes DEF s
<1>5. CASE x.leg.on # 0 /\ x.leg.row = 0 /\ x.leg.up /\ due # {} /\ DrainLeg(x) = y
  <2>1. /\ due \subseteq x.rows /\ x.rows \subseteq Row
        /\ \A r \in due : r.state = "queued" /\ r.account = x.owner /\ r.batch = x.batch
    BY DEF Waiting, Of, Bulk
  <2>2. i \in {r.id : r \in due}
    <3>1. {r.id : r \in due} \subseteq Nat /\ {r.id : r \in due} # {}
      BY <1>5, <2>1 DEF Row, Ids
    <3> QED BY <3>1, MinOf
  <2> HIDE DEF i, due
  <2>3. i \in Ids /\ \E r \in x.rows : r.id = i /\ r.account = x.owner /\ r.batch = x.batch
    BY <2>1, <2>2 DEF Row
  <2>4. i \in 0 .. MaxRows /\ i # 0 /\ x.leg.on \in Nat
    BY <2>3, BulkAssumption DEF Ids, Bulk, Leg
  <2> DEFINE M == Marked(x.rows, i, "sending")
             o == [leg |-> x.leg.on, row |-> i]
             l == [x.leg EXCEPT !.row = i]
  <2>5. M \in SUBSET Row /\ o \in [leg : Nat, row : Ids]
    BY <2>3, <2>4, SetTyped DEF Bulk
  <2>6. l \in Leg /\ l.row = i /\ l.on = x.leg.on /\ l.up = x.leg.up
    BY <2>4 DEF Bulk, Leg
  <2>7. y = [x EXCEPT !.rows = M, !.leg = l, !.out = {o}]
    BY DEF Bulk
  <2>8. ASSUME NEW r \in M, r.state = "sending"
        PROVE  r.id = i \/ \E q \in x.rows : q = r
    BY <2>1, <2>8 DEF Marked, Row
  <2> HIDE DEF M, o, l, y
  <2>9. /\ y \in Bulk /\ y.rows = M /\ y.leg = l /\ y.out = {o} /\ y.filing = x.filing
        /\ y.owner = x.owner /\ y.batch = x.batch
    BY <2>5, <2>6, <2>7 DEF Bulk
  <2> DEFINE c == [leg |-> x.leg.on, row |-> i, answer |-> "awaited"]
  <2>10. Calls(y) = {c} /\ c.leg = x.leg.on /\ c.row = i
    BY <2>9 DEF Calls, o
  <2> HIDE DEF c
  <2>11. \A w \in wire : w.leg # 0 /\ w.leg # x.leg.on
    BY <1>5 DEF Served, Call, Ids
  <2>12. \A r \in x.rows : r.state # "sending"
    BY <1>5, <2>1 DEF Served, Row, Ids
  <2>13. \A r \in M : r.state = "sending" => r.id = i
    BY <2>8, <2>12
  <2>14. \A r \in M : r.id = i => r.account = x.owner /\ r.batch = x.batch
    <3>1. \A r \in M : \E q \in x.rows : q.id = r.id /\ q.account = r.account /\ q.batch = r.batch
      BY <2>1 DEF Marked, Row, M
    <3> QED BY <2>3, <3>1 DEF OneEach
  <2>15. Served(y, wire \cup {c})
    BY <1>5, <2>4, <2>6, <2>9, <2>10, <2>11, <2>13, <2>14 DEF Served
  <2> QED BY <1>5, <2>6, <2>9, <2>10, <2>15 DEF Serves
<1> QED BY <1>1, <1>2, <1>3, <1>4, <1>5 DEF DrainLeg
\* A new leg goes by a number that no call on the wire goes by.
LEMMA OpenServed ==
    ASSUME NEW x \in Bulk, wire \subseteq Call, IsFiniteSet(wire), listed \in BOOLEAN, Served(x, wire),
           x.leg.on = 0
    PROVE  Served(LegOpened(x), wire) /\ LegOpened(x).out = x.out /\ LegOpened(x).filing = {}
<1> DEFINE l == [on |-> FreeLeg, up |-> FALSE, row |-> 0, folder |-> listed]
           y == [x EXCEPT !.leg = l]
<1>1. l.on \in Nat \ {0} /\ l.row = 0 /\ \A w \in wire : w.leg # l.on
  BY FreeLegIsFree
<1>2. LegOpened(x) = y
  BY DEF LegOpened
<1> HIDE DEF l
<1>3. y.rows = x.rows /\ y.leg = l /\ y.out = x.out /\ y.filing = x.filing /\ y.owner = x.owner /\ y.batch = x.batch
  BY DEF Bulk
<1> HIDE DEF y
<1>4. x.leg.row = 0 /\ x.filing = {}
  BY DEF Served
<1>5. Served(y, wire)
  BY <1>1, <1>3, <1>4 DEF Served
<1> QED BY <1>2, <1>3, <1>4, <1>5

LEMMA StartServed ==
    ASSUME NEW x \in Bulk, wire \subseteq Call, IsFiniteSet(wire), listed \in BOOLEAN, Served(x, wire),
           NEW connected
    PROVE  Served(StartLeg(x, connected), wire) /\ StartLeg(x, connected).filing = x.filing
<1>1. CASE StartLeg(x, connected) = x
  BY <1>1
<1>2. CASE x.leg.on = 0 /\ StartLeg(x, connected) = LegOpened(x)
  <2>1. x.filing = {}
    BY <1>2 DEF Served
  <2> QED BY <1>2, <2>1, OpenServed
<1>3. CASE StartLeg(x, connected) = [x EXCEPT !.parked = @ \cup {x.batch}]
  <2> DEFINE P == x.parked \cup {x.batch}  y == [x EXCEPT !.parked = P]
  <2>1. P \in SUBSET Nat
    BY BulkAssumption DEF Bulk
  <2>2. StartLeg(x, connected) = y
    BY <1>3 DEF Bulk
  <2> HIDE DEF P
  <2>3. y.rows = x.rows /\ Alike(x, y)
    BY <2>1 DEF Bulk, Alike
  <2> HIDE DEF y
  <2>4. Served(y, wire)
    BY <2>3, AlikeServed
  <2> QED BY <2>2, <2>3, <2>4 DEF Alike
<1> QED BY <1>1, <1>2, <1>3 DEF StartLeg

\* A batch is taken up only when none is in progress, so none of its rows, nor
\* any other, is being sent.
LEMMA TakenUpServed ==
    ASSUME NEW x \in Bulk, NEW W, Served(x, W), x.batch = 0, NEW n \in Ids, account \in Accounts
    PROVE  /\ Served([x EXCEPT !.batch = n, !.owner = account], W)
           /\ [x EXCEPT !.batch = n, !.owner = account] \in Bulk
           /\ [x EXCEPT !.batch = n, !.owner = account].filing = x.filing
<1> DEFINE y == [x EXCEPT !.batch = n, !.owner = account]
<1>1. n \in 0 .. MaxRows
  BY BulkAssumption DEF Ids
<1>2. /\ y \in Bulk /\ y.rows = x.rows /\ y.leg = x.leg /\ y.filing = x.filing
  BY <1>1 DEF Bulk
<1> HIDE DEF y
<1>3. \A r \in x.rows : r.state # "sending"
  BY DEF Served, Bulk, Row, Ids
<1>4. Served(y, W)
  BY <1>2, <1>3 DEF Served
<1> QED BY <1>2, <1>4 DEF y

LEMMA ResumeServed ==
    ASSUME NEW x \in Bulk, wire \subseteq Call, IsFiniteSet(wire), listed \in BOOLEAN, account \in Accounts,
           Served(x, wire), NEW connected
    PROVE  Served(ResumeBatch(x, connected), wire) /\ ResumeBatch(x, connected).filing = x.filing
<1> DEFINE y == IF x.batch # 0 \/ Active(x) = {} THEN x
                ELSE [x EXCEPT !.batch = Min(Active(x)), !.owner = account]
<1>1. Served(y, wire) /\ y \in Bulk /\ y.filing = x.filing
  <2>1. CASE x.batch # 0 \/ Active(x) = {}
    BY <2>1
  <2>2. CASE ~(x.batch # 0 \/ Active(x) = {})
    <3>1. Active(x) \subseteq Ids
      BY DEF Active, Bulk, Row
    <3>2. Min(Active(x)) \in Ids
      BY <2>2, <3>1, MinOf DEF Ids
    <3> QED BY <2>2, <3>2, TakenUpServed
  <2> QED BY <2>1, <2>2
<1> HIDE DEF y
<1>2. /\ Served(RefreshedProgress(y), wire) /\ RefreshedProgress(y) \in Bulk
      /\ RefreshedProgress(y).filing = x.filing
  BY <1>1, RefreshServed
<1>3. /\ Served(StartLeg(RefreshedProgress(y), connected), wire)
      /\ StartLeg(RefreshedProgress(y), connected).filing = x.filing
  BY <1>2, StartServed
<1>4. ResumeBatch(x, connected) = IF x.leg.on # 0 THEN x ELSE StartLeg(RefreshedProgress(y), connected)
  BY DEF ResumeBatch, y
<1> QED BY <1>3, <1>4
LEMMA FlagsServed ==
    ASSUME NEW x \in Bulk, NEW W, Served(x, W), NEW f \in BOOLEAN
    PROVE  /\ Served([x EXCEPT !.pause = f], W) /\ [x EXCEPT !.pause = f].filing = x.filing
           /\ Served([x EXCEPT !.reopen = f], W) /\ [x EXCEPT !.reopen = f].filing = x.filing
           /\ Served([x EXCEPT !.valid = f], W) /\ [x EXCEPT !.valid = f].filing = x.filing
<1>1. ASSUME NEW y, y.rows = x.rows, Alike(x, y)
      PROVE  Served(y, W) /\ y.filing = x.filing
  BY <1>1, AlikeServed DEF Alike
<1>2. /\ Alike(x, [x EXCEPT !.pause = f]) /\ [x EXCEPT !.pause = f].rows = x.rows
      /\ Alike(x, [x EXCEPT !.reopen = f]) /\ [x EXCEPT !.reopen = f].rows = x.rows
      /\ Alike(x, [x EXCEPT !.valid = f]) /\ [x EXCEPT !.valid = f].rows = x.rows
  BY DEF Alike, Bulk
<1> QED BY <1>1, <1>2

ServeInv == BulkInv /\ Served(b, wire)

\* No copy is cut off, and no row left behind: what the code does not handle.
Undisturbed == "filing" \notin Events /\ "elsewhere" \notin Events

LEMMA InService ==
    ASSUME ServeInv
    PROVE  /\ b \in Bulk /\ b.rows \in SUBSET Row /\ OneEach(b.rows) /\ b.out = {} /\ Served(b, wire)
           /\ wire \subseteq Call /\ IsFiniteSet(wire) /\ listed \in BOOLEAN /\ account \in Accounts
           /\ FALSE \in BOOLEAN /\ TRUE \in BOOLEAN /\ {} \in SUBSET Nat
BY DEF ServeInv, BulkInv, Sound, Bulk
LEMMA ResumesServed ==
    ASSUME ServeInv, NEW x, x \in Bulk, Served(x, wire), x.out = {}, NEW connected
    PROVE  /\ Serves(ResumeBatch(x, connected)) /\ ResumeBatch(x, connected).out = {}
           /\ ResumeBatch(x, connected).rows = x.rows /\ ResumeBatch(x, connected).filing = x.filing
<1>1. Quiet(x, ResumeBatch(x, connected))
  BY InService, ResumeIsQuiet
<1>2. Served(ResumeBatch(x, connected), wire) /\ ResumeBatch(x, connected).filing = x.filing
  BY InService, ResumeServed
<1> QED BY <1>1, <1>2, NoCallsServes DEF Quiet

LEMMA LinkServed ==
    ASSUME ServeInv, Undisturbed, Connect \/ LegConnects \/ LegFails \/ PauseEnds \/ LegReopens
    PROVE  Served(b', wire')
<1> USE InService
<1>1. CASE Connect
  <2>1. Becomes(ResumeBatch(b, TRUE))
    BY <1>1 DEF Connect
  <2> QED BY <2>1, ResumesServed, BecomesServed
<1>2. CASE LegReopens
  <2> DEFINE x == [b EXCEPT !.reopen = FALSE]
  <2>1. Becomes(ResumeBatch(x, up))
    BY <1>2 DEF LegReopens
  <2>2. x \in Bulk /\ Served(x, wire) /\ x.out = {}
    BY FlagsAreQuiet, FlagsServed DEF Quiet
  <2> HIDE DEF x
  <2> QED BY <2>1, <2>2, ResumesServed, BecomesServed
<1>3. CASE PauseEnds
  <2> DEFINE x == [b EXCEPT !.pause = FALSE]
  <2>1. Becomes(DrainLeg(x)) /\ b.filing = {}
    BY <1>3 DEF PauseEnds, MayDisturb, Undisturbed
  <2>2. x \in Bulk /\ Served(x, wire) /\ x.out = {} /\ x.filing = {} /\ OneEach(x.rows)
    BY <2>1, FlagsAreQuiet, FlagsServed DEF Quiet
  <2> HIDE DEF x
  <2>3. Serves(DrainLeg(x))
    BY <2>2, DrainServed
  <2> QED BY <2>1, <2>3, BecomesServed
<1>4. CASE LegConnects
  <2> DEFINE l == [b.leg EXCEPT !.up = TRUE]  x == [b EXCEPT !.leg = l]
  <2>1. Becomes(DrainLeg(x)) /\ b.filing = {} /\ b.leg.row = 0
    <3>1. [b EXCEPT !.leg.up = TRUE] = x
      BY DEF Bulk
    <3> QED BY <1>4, <3>1 DEF LegConnects, Served
  <2>2. l \in Leg /\ l.on = b.leg.on /\ l.row = b.leg.row
    BY DEF Bulk, Leg
  <2> HIDE DEF l
  <2>3. /\ x \in Bulk /\ x.leg = l /\ x.rows = b.rows /\ x.filing = b.filing /\ x.out = {}
        /\ x.owner = b.owner /\ x.batch = b.batch
    BY <2>2 DEF Bulk
  <2> HIDE DEF x
  <2>4. Served(x, wire)
    BY <2>1, <2>2, <2>3 DEF Served
  <2>5. Serves(DrainLeg(x))
    BY <2>1, <2>3, <2>4, DrainServed
  <2> QED BY <2>1, <2>5, BecomesServed
<1>5. CASE LegFails
  <2>1. Becomes(EndLeg(b, TRUE)) /\ b.filing = {}
    BY <1>5 DEF LegFails, Happens, Undisturbed, Served
  <2>2. Served(EndLeg(b, TRUE), wire) /\ EndLeg(b, TRUE) \in Bulk /\ EndLeg(b, TRUE).out = {}
    BY <2>1, EndServed
  <2>3. Serves(EndLeg(b, TRUE))
    BY <2>2, NoCallsServes
  <2> QED BY <2>1, <2>3, BecomesServed
<1> QED BY <1>1, <1>2, <1>3, <1>4, <1>5

LEMMA AsideServed ==
    ASSUME ServeInv,
           SendBulk \/ TokenExpires \/ FoldersListed \/ SessionLost \/ (\E to \in Accounts : Switch(to))
               \/ UNCHANGED vars
    PROVE  Served(b', wire')
<1>1. CASE UNCHANGED <<b, wire>>
  BY <1>1, InService
<1>2. CASE TokenExpires
  <2>1. b' = [b EXCEPT !.valid = FALSE] /\ wire' = wire
    BY <1>2 DEF TokenExpires
  <2> QED BY <2>1, InService, FlagsServed
<1> QED BY <1>1, <1>2 DEF SendBulk, FoldersListed, SessionLost, Switch, vars

\* The call of a leg is the only one, so its answer changes no other.
LEMMA AnswerServed ==
    ASSUME ServeInv, NEW w \in wire, ServerAnswers(w)
    PROVE  Served(b', wire')
<1>1. b' = b
  BY DEF ServerAnswers
<1>2. CASE DialFails(w)
  BY <1>1, <1>2, InService DEF DialFails, Served
<1>3. CASE ~DialFails(w)
  <2>1. w \in Call /\ w = [leg |-> w.leg, row |-> w.row, answer |-> w.answer]
    BY InService DEF Call
  <2>2. \E error : wire' = (wire \ {w}) \cup {[w EXCEPT !.answer = error]}
    BY <1>3 DEF ServerAnswers, ServerTakes, ServerRefuses, SendBroken, Answer
  <2>3. PICK v : v.leg = w.leg /\ v.row = w.row /\ wire' = (wire \ {w}) \cup {v}
    BY <2>1, <2>2 DEF Call
  <2> QED BY <1>1, <2>3, InService DEF Served
<1> QED BY <1>2, <1>3
LEMMA TokenServed ==
    ASSUME ServeInv, Undisturbed, NEW ok \in BOOLEAN, TokenAnswered(ok)
    PROVE  Served(b', wire')
<1> DEFINE x == [b EXCEPT !.parked = {}, !.valid = ok]
           y == IF 0 \notin b.parked \/ x.leg.on = 0 THEN x
                ELSE IF ok THEN DrainLeg(x) ELSE EndLeg(x, TRUE)
           open == y.leg.on = 0 /\ y.batch # 0 /\ y.batch \in b.parked /\ y.owner = account
           z == IF open THEN LegOpened(y) ELSE y
<1> USE InService
<1>1. Becomes(z) /\ b.filing = {}
  BY DEF TokenAnswered, MayDisturb, Undisturbed
<1>2. x \in Bulk /\ Served(x, wire) /\ x.out = {} /\ x.filing = {} /\ OneEach(x.rows)
  <2>1. Quiet(b, x)
    BY FlagsAreQuiet
  <2>2. Served(x, wire) /\ x.filing = b.filing
    <3>1. x.rows = b.rows /\ Alike(b, x)
      BY <2>1 DEF Alike, Bulk, Quiet
    <3> QED BY <3>1, AlikeServed DEF Alike
  <2> QED BY <1>1, <2>1, <2>2 DEF Quiet
<1> HIDE DEF x
<1>3. Serves(y) /\ (y.leg.on = 0 => y.out = {})
  <2>1. Serves(x)
    BY <1>2, NoCallsServes
  <2>2. Serves(DrainLeg(x)) /\ (DrainLeg(x).leg.on = 0 => DrainLeg(x).out = {})
    BY <1>2, DrainServed
  <2>3. Served(EndLeg(x, TRUE), wire) /\ EndLeg(x, TRUE) \in Bulk /\ EndLeg(x, TRUE).out = {}
    BY <1>2, EndServed
  <2>4. Serves(EndLeg(x, TRUE))
    BY <2>3, NoCallsServes
  <2> QED BY <1>2, <2>1, <2>2, <2>3, <2>4
<1> HIDE DEF y
<1>4. Serves(z)
  <2>1. CASE ~open
    BY <1>3, <2>1
  <2>2. CASE open
    <3>1. y \in Bulk /\ y.out = {} /\ Served(y, wire)
      BY <1>3, <2>2, NoCallsServes DEF Serves
    <3>2. Served(LegOpened(y), wire) /\ LegOpened(y).out = {}
      BY <2>2, <3>1, OpenServed
    <3>3. LegOpened(y) \in Bulk
      BY <3>1, OpenedIsQuiet DEF Quiet
    <3> QED BY <2>2, <3>2, <3>3, NoCallsServes
  <2> QED BY <2>1, <2>2
<1> QED BY <1>1, <1>4, BecomesServed

\* Rows that are changed but for the ones being sent.
LEMMA RowsServed ==
    ASSUME NEW x \in Bulk, NEW W, Served(x, W), NEW R \in SUBSET Row,
           \A r \in R : r.state = "sending" => \E q \in x.rows : /\ q.state = "sending" /\ q.id = r.id
                                                                 /\ q.account = r.account /\ q.batch = r.batch
    PROVE  /\ Served([x EXCEPT !.rows = R], W) /\ [x EXCEPT !.rows = R].filing = x.filing
           /\ [x EXCEPT !.rows = R] \in Bulk /\ [x EXCEPT !.rows = R].out = x.out
           /\ [x EXCEPT !.rows = R].rows = R /\ [x EXCEPT !.rows = R].leg = x.leg
<1> DEFINE y == [x EXCEPT !.rows = R]
<1>1. y.rows = R /\ Alike(x, y)
  BY DEF Alike, Bulk
<1> HIDE DEF y
<1>2. Served(y, W)
  BY <1>1, AlikeServed
<1> QED BY <1>1, <1>2 DEF Alike, y

LEMMA BackoffServed ==
    ASSUME ServeInv, NEW r \in b.rows, BackoffEnds(r)
    PROVE  Served(b', wire')
<1> DEFINE R == Set(b.rows, r.id, r.state, FALSE)  x == [b EXCEPT !.rows = R]
<1> USE InService
<1>1. Becomes(x)
  <2>1. x = [b EXCEPT !.rows = Set(@, r.id, r.state, FALSE)]
    BY DEF Bulk
  <2> QED BY <2>1 DEF BackoffEnds
<1>2. R \in SUBSET Row
  <2>1. r.state \in {"queued", "sending", "failed"}
    BY DEF Row
  <2> QED BY <2>1, SetTyped
<1>3. \A q \in R : \E o \in b.rows : o.state = q.state /\ o.id = q.id /\ o.account = q.account /\ o.batch = q.batch
  BY ZenonT(60) DEF Set, Row, OneEach
<1> HIDE DEF R
<1>4. Served(x, wire) /\ x \in Bulk /\ x.out = {}
  BY <1>2, <1>3, RowsServed
<1> HIDE DEF x
<1> QED BY <1>1, <1>4, NoCallsServes, BecomesServed

\* A restart finds the rows of its own account only, and they are all there are.
LEMMA RestartServed ==
    ASSUME ServeInv, Undisturbed, Restart
    PROVE  Served(b', wire')
<1> DEFINE R == Recovered(b.rows)
           x == [b EXCEPT !.rows = R, !.batch = 0, !.owner = NoAccount, !.leg = NoLeg,
                          !.filing = {}, !.pause = FALSE, !.reopen = FALSE, !.parked = {}]
<1> USE InService
<1>1. b' = ResumeBatch(x, FALSE) /\ wire' = wire
  <2>1. x = [b EXCEPT !.rows = Recovered(@), !.batch = 0, !.owner = NoAccount, !.leg = NoLeg,
                      !.filing = {}, !.pause = FALSE, !.reopen = FALSE, !.parked = {}]
    BY DEF Bulk
  <2> QED BY <2>1 DEF Restart
<1>2. b.owner = account \/ b.owner = NoAccount
  BY DEF Restart, Happens, Undisturbed
<1>3. \A r \in b.rows : r.state = "sending" => r.account = account
  BY <1>2, BulkAssumption DEF Served, Row
<1>4. R \in SUBSET Row /\ \A r \in R : r.state # "sending"
  BY <1>3 DEF Recovered, Row
<1> HIDE DEF R
<1>5. x \in Bulk /\ x.rows = R /\ x.leg = NoLeg /\ x.filing = {} /\ x.out = {}
  <2>1. 0 \in 0 .. MaxRows
    BY BulkAssumption
  <2> QED BY <1>4, <2>1, NoLegTyped DEF Bulk
<1> HIDE DEF x
<1>6. Served(x, wire)
  BY <1>4, <1>5, NoLegTyped DEF Served
<1>7. Serves(b') /\ b'.out = {}
  BY <1>1, <1>5, <1>6, ResumesServed
<1> QED BY <1>1, <1>7, NoCallsServes DEF Serves
LEMMA PacedServed ==
    ASSUME NEW x \in Bulk, NEW W, Served(x, W)
    PROVE  Served(Paced(x), W) /\ Paced(x) \in Bulk /\ Paced(x).out = x.out /\ Paced(x).filing = x.filing
<1> DEFINE y == RefreshedProgress(x)  z == [y EXCEPT !.pause = TRUE]
<1>1. Served(y, W) /\ y \in Bulk /\ y.out = x.out /\ y.filing = x.filing
  BY RefreshServed
<1>2. Paced(x) = z
  BY DEF Paced
<1> HIDE DEF y
<1>3. z.rows = y.rows /\ Alike(y, z)
  BY <1>1 DEF Alike, Bulk
<1> HIDE DEF z
<1>4. Served(z, W)
  BY <1>1, <1>3, AlikeServed
<1> QED BY <1>1, <1>2, <1>3, <1>4 DEF Alike

\* The copy is in the Sent folder, and its row is gone with it.
LEMMA FiledServed ==
    ASSUME ServeInv, NEW i, CopyFiled(i)
    PROVE  Served(b', wire')
<1> DEFINE R == Dropped(b.rows, i)  F == b.filing \ {i}  x == [b EXCEPT !.rows = R, !.filing = F]
<1> USE InService
<1>1. Becomes(Paced(x)) /\ i \in b.filing
  <2>1. x = [b EXCEPT !.rows = Dropped(@, i), !.filing = @ \ {i}]
    BY DEF Bulk
  <2> QED BY <2>1 DEF CopyFiled
<1>2. R \subseteq b.rows /\ (\A r \in R : r.id # i) /\ F \in SUBSET Ids /\ F \subseteq b.filing
      /\ \A j \in b.filing : j = i \/ j \in F
  BY DEF Dropped, Bulk
<1> HIDE DEF R, F
<1>3. /\ x \in Bulk /\ x.rows = R /\ x.filing = F /\ x.leg = b.leg /\ x.out = {}
      /\ x.owner = b.owner /\ x.batch = b.batch
  BY <1>2 DEF Bulk
<1> HIDE DEF x
<1>4. Served(x, wire)
  BY <1>1, <1>2, <1>3 DEF Served
<1>5. Served(Paced(x), wire) /\ Paced(x) \in Bulk /\ Paced(x).out = {}
  BY <1>3, <1>4, PacedServed
<1> QED BY <1>1, <1>5, NoCallsServes, BecomesServed

\* Once its call is answered the row is filed, or it is no longer being sent.
LEMMA FinishServed ==
    ASSUME ServeInv, NEW w \in wire, w.answer # "awaited", w.leg = b.leg.on, w.row = b.leg.row
    PROVE  /\ Served(FinishSend(w), wire \ {w}) /\ FinishSend(w) \in Bulk
           /\ w.answer # "None" => FinishSend(w).filing = {}
<1> DEFINE x == [b EXCEPT !.leg.row = 0]
           l == [b.leg EXCEPT !.row = 0]
           V == wire \ {w}
<1> USE InService
<1>1. w \in Call /\ w.row \in Ids /\ w.row # 0
  BY DEF Call, Ids
<1>2. /\ b.filing = {} /\ b.leg.up /\ b.leg.on # 0
      /\ \A r \in b.rows : r.state = "sending" => r.id = w.row /\ r.account = b.owner /\ r.batch = b.batch
  BY <1>1 DEF Served
<1>3. V \subseteq Call /\ \A v \in V : v.leg # 0 /\ v.leg # b.leg.on
  BY DEF Served
<1>4. /\ x \in Bulk /\ x.leg = l /\ x.rows = b.rows /\ x.filing = {} /\ x.out = {}
      /\ x.owner = b.owner /\ x.batch = b.batch
      /\ l \in Leg /\ l.row = 0 /\ l.on = b.leg.on /\ l.up
  <2>1. l \in Leg /\ l.row = 0 /\ l.on = b.leg.on /\ l.up
    <3>1. 0 \in 0 .. MaxRows
      BY BulkAssumption
    <3> QED BY <1>2, <3>1 DEF Bulk, Leg
  <2>2. x = [b EXCEPT !.leg = l]
    BY DEF Bulk
  <2> HIDE DEF l, x
  <2> QED BY <1>2, <2>1, <2>2 DEF Bulk
<1>5. FinishSend(w) =
          CASE w.answer = "None"       -> RowSent(w, x)
            [] w.answer = "Auth"       -> RowRefusedLogin(w, x)
            [] w.answer = "Connection" -> EndLeg([x EXCEPT !.rows = Marked(@, w.row, "queued")], TRUE)
            [] w.answer = "Throttled"  -> Paced([x EXCEPT !.rows = Set(@, w.row, "queued", TRUE)])
            [] w.answer = "Protocol"   -> Paced([x EXCEPT !.rows = Set(@, w.row, "failed", FALSE)])
  BY DEF FinishSend
<1> HIDE DEF x, l, V
<1>6. ASSUME NEW R \in SUBSET Row, \A r \in R : r.state # "sending"
      PROVE  /\ Served([x EXCEPT !.rows = R], V) /\ [x EXCEPT !.rows = R] \in Bulk
             /\ [x EXCEPT !.rows = R].filing = {}
  <2> DEFINE y == [x EXCEPT !.rows = R]
  <2>1. y \in Bulk /\ y.rows = R /\ y.leg = l /\ y.filing = {}
    BY <1>4 DEF Bulk
  <2> HIDE DEF y
  <2>2. Served(y, V)
    BY <1>3, <1>4, <1>6, <2>1 DEF Served
  <2> QED BY <2>1, <2>2 DEF y
<1>7. ASSUME NEW s \in {"queued", "failed"}, NEW later \in BOOLEAN
      PROVE  /\ Marked(b.rows, w.row, s) \in SUBSET Row /\ Set(b.rows, w.row, s, later) \in SUBSET Row
             /\ Dropped(b.rows, w.row) \in SUBSET Row
             /\ \A r \in Marked(b.rows, w.row, s) : r.state # "sending"
             /\ \A r \in Set(b.rows, w.row, s, later) : r.state # "sending"
             /\ \A r \in Dropped(b.rows, w.row) : r.state # "sending"
  <2>1. /\ Marked(b.rows, w.row, s) \in SUBSET Row /\ Set(b.rows, w.row, s, later) \in SUBSET Row
        /\ Dropped(b.rows, w.row) \in SUBSET Row
    BY SetTyped
  <2>2. \A r \in Marked(b.rows, w.row, s) : r.state # "sending"
    BY <1>2 DEF Marked, Row
  <2>3. \A r \in Set(b.rows, w.row, s, later) : r.state # "sending"
    BY <1>2 DEF Set, Row
  <2>4. \A r \in Dropped(b.rows, w.row) : r.state # "sending"
    BY <1>2 DEF Dropped
  <2> QED BY <2>1, <2>2, <2>3, <2>4
<1>8. CASE w.answer = "None"
  <2>1. CASE FilesCopy(x)
    <3> DEFINE F == x.filing \cup {w.row}  y == [x EXCEPT !.filing = F]
    <3>1. F \in SUBSET Ids /\ w.row \in F
      BY <1>1, <1>4
    <3>2. FinishSend(w) = y
      BY <1>4, <1>5, <1>8, <2>1 DEF RowSent, Bulk
    <3> HIDE DEF F
    <3>3. y \in Bulk /\ y.rows = b.rows /\ y.leg = l /\ y.filing = F /\ y.owner = b.owner /\ y.batch = b.batch
      BY <1>4, <3>1 DEF Bulk
    <3> HIDE DEF y
    <3>4. Served(y, V)
      BY <1>2, <1>3, <1>4, <3>1, <3>3 DEF Served
    <3> QED BY <1>8, <3>2, <3>3, <3>4 DEF V
  <2>2. CASE ~FilesCopy(x)
    <3> DEFINE R == Dropped(b.rows, w.row)  y == [x EXCEPT !.rows = R]
    <3>1. FinishSend(w) = Paced(y)
      BY <1>4, <1>5, <1>8, <2>2 DEF RowSent
    <3>2. R \in SUBSET Row /\ \A r \in R : r.state # "sending"
      BY <1>7
    <3> HIDE DEF R
    <3>3. Served(y, V) /\ y \in Bulk
      BY <1>6, <3>2
    <3> HIDE DEF y
    <3> QED BY <1>8, <3>1, <3>3, PacedServed DEF V
  <2> QED BY <2>1, <2>2
<1>9. CASE w.answer = "Auth" \/ w.answer = "Connection"
  <2> DEFINE R == Marked(b.rows, w.row, "queued")  y == [x EXCEPT !.rows = R]
  <2>1. \/ FinishSend(w) = [y EXCEPT !.valid = FALSE, !.parked = @ \cup {0}]
        \/ FinishSend(w) = EndLeg(y, TRUE)
    BY <1>4, <1>5, <1>9 DEF RowRefusedLogin
  <2>2. R \in SUBSET Row /\ \A r \in R : r.state # "sending"
    BY <1>7
  <2> HIDE DEF R
  <2>3. Served(y, V) /\ y \in Bulk /\ y.filing = {}
    BY <1>6, <2>2
  <2> HIDE DEF y
  <2>4. Served(EndLeg(y, TRUE), V) /\ EndLeg(y, TRUE) \in Bulk /\ EndLeg(y, TRUE).filing = {}
    BY <1>3, <2>3, EndServed
  <2> DEFINE P == y.parked \cup {0}  z == [y EXCEPT !.valid = FALSE, !.parked = P]
  <2>5. P \in SUBSET Nat /\ z = [y EXCEPT !.valid = FALSE, !.parked = @ \cup {0}]
    BY <2>3 DEF Bulk
  <2> HIDE DEF P
  <2>6. z.rows = y.rows /\ Alike(y, z)
    BY <2>3, <2>5 DEF Bulk, Alike
  <2> HIDE DEF z
  <2>7. Served(z, V) /\ z \in Bulk /\ z.filing = {}
    BY <2>3, <2>6, AlikeServed DEF Alike
  <2> QED BY <2>1, <2>4, <2>5, <2>7 DEF V
<1>10. CASE w.answer = "Throttled" \/ w.answer = "Protocol"
  <2>1. PICK R \in SUBSET Row : /\ \A r \in R : r.state # "sending"
                                /\ FinishSend(w) = Paced([x EXCEPT !.rows = R])
    BY <1>4, <1>5, <1>7, <1>10
  <2> DEFINE y == [x EXCEPT !.rows = R]
  <2>2. Served(y, V) /\ y \in Bulk /\ y.filing = {}
    BY <1>6, <2>1
  <2>3. FinishSend(w) = Paced(y)
    BY <2>1
  <2> HIDE DEF y
  <2> QED BY <2>2, <2>3, PacedServed DEF V
<1> QED BY <1>1, <1>8, <1>9, <1>10 DEF Call
LEMMA ReportServed ==
    ASSUME ServeInv, NEW w \in wire, Report(w)
    PROVE  Served(b', wire')
<1> DEFINE x == IF w.leg = b.leg.on /\ w.row = b.leg.row THEN AfterReport(FinishSend(w), w) ELSE b
           V == wire \ {w}
<1> USE InService
<1>1. w.answer # "awaited" /\ b' = [x EXCEPT !.out = {}] /\ wire' = V
  BY DEF Report
<1>2. Served(x, V) /\ x \in Bulk
  <2>1. CASE w.leg = b.leg.on /\ w.row = b.leg.row
    <3> DEFINE y == FinishSend(w)
    <3>1. Served(y, V) /\ y \in Bulk /\ (w.answer # "None" => y.filing = {})
      BY <1>1, <2>1, FinishServed
    <3>2. V \subseteq Call
      OBVIOUS
    <3> HIDE DEF y, V
    <3>3. w.answer # "None" => Served(EndLeg(y, TRUE), V) /\ EndLeg(y, TRUE) \in Bulk
      BY <3>1, <3>2, EndServed
    <3>4. Served(AfterReport(y, w), V) /\ AfterReport(y, w) \in Bulk
      BY <3>1, <3>3 DEF AfterReport
    <3> QED BY <2>1, <3>4 DEF y
  <2>2. CASE ~(w.leg = b.leg.on /\ w.row = b.leg.row)
    BY <2>2 DEF Served
  <2> QED BY <2>1, <2>2
<1> HIDE DEF x, V
<1> DEFINE z == [x EXCEPT !.out = {}]
<1>3. z.leg = x.leg /\ z.rows = x.rows /\ z.filing = x.filing /\ z.owner = x.owner /\ z.batch = x.batch
  BY <1>2 DEF Bulk
<1>4. b' = z
  BY <1>1
<1> HIDE DEF z
<1> QED BY <1>1, <1>2, <1>3, <1>4 DEF Served

\* The new rows wait.
LEMMA ComposedServed ==
    ASSUME ServeInv, Composed
    PROVE  Served(b', wire')
<1> USE InService
<1>1. CASE UNCHANGED <<b, wire>>
  BY <1>1
<1>2. CASE ~UNCHANGED <<b, wire>>
  <2> DEFINE new == b.next .. b.next + Size - 1
             row(i) == [id |-> i, batch |-> b.next, account |-> account, state |-> "queued", later |-> FALSE]
             rows == {row(i) : i \in new}
             R == b.rows \cup rows
             N == b.next + Size
             x == [b EXCEPT !.next = N, !.rows = R]
             y == IF x.batch # 0 THEN x ELSE [x EXCEPT !.batch = b.next, !.owner = account]
             z == StartLeg(RefreshedProgress(y), up)
  <2>1. Becomes(z) /\ N <= MaxRows + 1
    <3>1. x = [b EXCEPT !.next = @ + Size,
                        !.rows = @ \cup {[id |-> i, batch |-> b.next, account |-> account,
                                          state |-> "queued", later |-> FALSE] : i \in new}]
      BY DEF Bulk
    <3> HIDE DEF x
    <3> QED BY <1>2, <3>1 DEF Composed, ServeInv, BulkInv
  <2>2. b.next \in 1 .. MaxRows + 1 /\ Size \in Nat \ {0} /\ MaxRows \in Nat
    BY BulkAssumption DEF Bulk
  <2>3. b.next \in Ids /\ new \subseteq Ids /\ N \in 1 .. MaxRows + 1
    BY <2>1, <2>2 DEF Ids
  <2>4. rows \in SUBSET Row /\ \A r \in rows : r.state # "sending"
    <3>1. ASSUME NEW i \in new PROVE row(i) \in Row /\ row(i).state # "sending"
      <4>1. i \in Ids
        BY <2>3
      <4> QED BY <2>3, <4>1 DEF Row
    <3> HIDE DEF row, new
    <3> QED BY <3>1
  <2>5. R \in SUBSET Row /\ \A r \in R : r.state = "sending" => r \in b.rows
    BY <2>4
  <2> HIDE DEF R, N, new, row
  <2>6. /\ x \in Bulk /\ x.rows = R /\ x.out = {} /\ x.leg = b.leg /\ x.filing = b.filing
        /\ x.owner = b.owner /\ x.batch = b.batch
    BY <2>3, <2>5 DEF Bulk
  <2> HIDE DEF x
  <2>7. Served(x, wire)
    BY <2>5, <2>6 DEF Served
  <2>8. Served(y, wire) /\ y \in Bulk /\ y.out = {}
    <3>1. [x EXCEPT !.batch = b.next, !.owner = account].out = x.out
      BY <2>6 DEF Bulk
    <3> QED BY <2>3, <2>6, <2>7, <3>1, TakenUpServed
  <2> HIDE DEF y
  <2>9. Served(RefreshedProgress(y), wire) /\ RefreshedProgress(y) \in Bulk /\ RefreshedProgress(y).out = {}
    BY <2>8, RefreshServed
  <2>10. Served(z, wire) /\ z \in Bulk /\ z.out = {}
    BY <2>9, StartServed, StartIsQuiet DEF Quiet
  <2> HIDE DEF z
  <2> QED BY <2>1, <2>10, NoCallsServes, BecomesServed
<1> QED BY <1>1, <1>2

\* A button takes rows that are not being sent.
LEMMA CancelServed ==
    ASSUME ServeInv, Undisturbed, CancelBulk \/ \E r \in b.rows : CancelRow(r)
    PROVE  Served(b', wire')
<1> USE InService
<1>1. ASSUME NEW G \in SUBSET b.rows, NEW x, x = [b EXCEPT !.rows = @ \ G]
      PROVE  Served(x, wire) /\ x \in Bulk /\ x.out = {} /\ x.filing = b.filing /\ OneEach(x.rows)
  <2> DEFINE R == b.rows \ G
  <2>1. R \in SUBSET Row /\ R \subseteq b.rows /\ OneEach(R)
    BY DEF OneEach
  <2>2. x = [b EXCEPT !.rows = R]
    BY <1>1 DEF Bulk
  <2> HIDE DEF R
  <2> QED BY <2>1, <2>2, RowsServed
<1>2. CASE CancelBulk
  <2> DEFINE gone == {r \in Of(b) : r.state # "sending"}
             x == [b EXCEPT !.rows = @ \ gone]
             y == RefreshedProgress(x)
  <2>1. Becomes(DrainLeg(y)) /\ b.filing = {}
    BY <1>2 DEF CancelBulk, Happens, Undisturbed
  <2>2. gone \in SUBSET b.rows
    BY DEF Of
  <2> HIDE DEF gone
  <2>3. Served(x, wire) /\ x \in Bulk /\ x.out = {} /\ x.filing = {} /\ OneEach(x.rows)
    BY <1>1, <2>1, <2>2
  <2> HIDE DEF x
  <2>4. Served(y, wire) /\ y \in Bulk /\ y.out = {} /\ y.filing = {} /\ y.rows = x.rows
    BY <2>3, RefreshServed, RefreshIsQuiet DEF Quiet
  <2> HIDE DEF y
  <2>5. Serves(DrainLeg(y))
    BY <2>3, <2>4, DrainServed
  <2> QED BY <2>1, <2>5, BecomesServed
<1>3. ASSUME NEW r \in b.rows, CancelRow(r)
      PROVE  Served(b', wire')
  <2> DEFINE x == [b EXCEPT !.rows = @ \ {r}]
  <2>1. Becomes(RefreshedProgress(x))
    BY <1>3 DEF CancelRow
  <2>2. Served(x, wire) /\ x \in Bulk /\ x.out = {}
    <3>1. {r} \in SUBSET b.rows
      OBVIOUS
    <3> QED BY <1>1, <3>1
  <2> HIDE DEF x
  <2>3. /\ Served(RefreshedProgress(x), wire) /\ RefreshedProgress(x) \in Bulk
        /\ RefreshedProgress(x).out = {}
    BY <2>2, RefreshServed
  <2> QED BY <2>1, <2>3, NoCallsServes, BecomesServed
<1> QED BY <1>2, <1>3

LEMMA RetryServed ==
    ASSUME ServeInv, Undisturbed, NEW r \in b.rows, RetryRow(r)
    PROVE  Served(b', wire')
<1> DEFINE R == Set(b.rows, r.id, "queued", FALSE)
           x == [b EXCEPT !.rows = R]
           y == RefreshedProgress(x)
           z == ResumeBatch(y, up)
<1> USE InService
<1>1. Becomes(DrainLeg(z)) /\ b.filing = {}
  <2>1. x = [b EXCEPT !.rows = Set(@, r.id, "queued", FALSE)]
    BY DEF Bulk
  <2>2. b.filing = {}
    BY DEF RetryRow, Happens, Undisturbed
  <2> HIDE DEF x
  <2> QED BY <2>1, <2>2 DEF RetryRow
<1>2. R \in SUBSET Row /\ OneEach(R)
  BY SetTyped, SetOneEach
<1>3. \A q \in R : q.state = "sending" => q \in b.rows
  BY DEF Set, Row
<1> HIDE DEF R
<1>4. Served(x, wire) /\ x \in Bulk /\ x.out = {} /\ x.filing = {} /\ x.rows = R
  BY <1>1, <1>2, <1>3, RowsServed
<1> HIDE DEF x
<1>5. Served(y, wire) /\ y \in Bulk /\ y.out = {} /\ y.filing = {} /\ y.rows = R
  BY <1>4, RefreshServed, RefreshIsQuiet DEF Quiet
<1> HIDE DEF y
<1>6. Served(z, wire) /\ z \in Bulk /\ z.out = {} /\ z.filing = {} /\ z.rows = R
  BY <1>5, ResumesServed, NoCallsServes DEF Serves
<1> HIDE DEF z
<1>7. Serves(DrainLeg(z))
  BY <1>2, <1>6, DrainServed
<1> QED BY <1>1, <1>7, BecomesServed

\* Every step keeps what is being sent in service.
LEMMA EveryStepServes ==
    ASSUME ServeInv, Undisturbed, [Next]_vars
    PROVE  ServeInv'
<1>1. BulkInv'
  BY EveryStep DEF ServeInv
<1>2. Served(b', wire')
  <2>1. CASE SendBulk \/ TokenExpires \/ FoldersListed \/ SessionLost \/ (\E to \in Accounts : Switch(to))
               \/ UNCHANGED vars
    BY <2>1, AsideServed
  <2>2. CASE Connect \/ LegConnects \/ LegFails \/ PauseEnds \/ LegReopens
    BY <2>2, LinkServed
  <2>3. CASE Composed
    BY <2>3, ComposedServed
  <2>4. CASE CancelBulk \/ \E r \in b.rows : CancelRow(r)
    BY <2>4, CancelServed
  <2>5. CASE \E r \in b.rows : RetryRow(r)
    BY <2>5, RetryServed
  <2>6. CASE \E w \in wire : ServerAnswers(w) \/ Report(w)
    BY <2>6, AnswerServed, ReportServed
  <2>7. CASE \E i \in Ids : CopyFiled(i)
    BY <2>7, FiledServed
  <2>8. CASE \E r \in b.rows : BackoffEnds(r)
    BY <2>8, BackoffServed
  <2>9. CASE Restart
    BY <2>9, RestartServed
  <2>10. CASE \E ok \in BOOLEAN : TokenAnswered(ok)
    BY <2>10, TokenServed
  <2> QED BY <2>1, <2>2, <2>3, <2>4, <2>5, <2>6, <2>7, <2>8, <2>9, <2>10
          DEF Next, Client, Server, Links, Clock, Rest
<1> QED BY <1>1, <1>2 DEF ServeInv

\* A leg has one call on its wire, and a row shown as being sent, which no
\* button can touch, is that call's or is having its copy filed: it is never
\* stuck.  Where a copy is filed while the leg is disturbed, or a restart finds
\* another account open, the code does strand rows.
THEOREM NoRowIsStranded ==
    ASSUME Events \cap {"filing", "elsewhere"} = {}
    PROVE  Spec => []SendingIsServed
<1>1. Undisturbed
  BY DEF Undisturbed
<1>2. Init => ServeInv
  <2> SUFFICES ASSUME Init PROVE ServeInv
    OBVIOUS
  <2>1. BulkInv
    BY NothingAsked
  <2>2. b.rows = {} /\ b.filing = {} /\ b.leg = NoLeg /\ wire = {}
    BY DEF Init
  <2>3. Served(b, wire)
    BY <2>2, NoLegTyped DEF Served
  <2> QED BY <2>1, <2>3 DEF ServeInv
<1>3. ServeInv /\ [Next]_vars => ServeInv'
  BY <1>1, EveryStepServes
<1>4. ServeInv => SendingIsServed
  <2> SUFFICES ASSUME ServeInv PROVE SendingIsServed
    OBVIOUS
  <2> DEFINE mine == {w \in wire : w.leg = b.leg.on}
  <2>1. \A w, v \in mine : w = v
    BY DEF ServeInv, Served
  <2>2. Cardinality(mine) <= 1
    <3>1. CASE mine = {}
      BY <3>1, FS_EmptySet
    <3>2. CASE mine # {}
      <4>1. PICK w : mine = {w}
        BY <2>1, <3>2
      <4> QED BY <4>1, FS_Singleton
    <3> QED BY <3>1, <3>2
  <2>3. \A r \in b.rows : r.state = "sending" => r.id = b.leg.row \/ r.id \in b.filing
    BY DEF ServeInv, Served
  <2> QED BY <2>2, <2>3 DEF SendingIsServed
<1> QED BY <1>2, <1>3, <1>4, PTL DEF Spec

==============================================================================
