------------------------------ MODULE DeskProofs ------------------------------
(***************************************************************************)
(* Theorems about what the user works with, for every value of the         *)
(* constants.  Each part has a section: its inductive invariant, and that  *)
(* it holds at first and every step keeps it.  The last section takes them *)
(* together, since a behaviour of Desk follows one of the parts.           *)
(***************************************************************************)
EXTENDS Desk, FiniteSetTheorems, TLAPS

(*****************************************************************************)
(* BC, the bodies in the cache (BodyCache).  The count of a payload covers   *)
(* the part rows that name it, so the file of a payload a cached message     *)
(* still needs is never given away by the release of another.                *)
(*****************************************************************************)

\* Who names a payload.
Users(f, p) == {u \in Messages : f[u] = p}

Counted(f, n) == \A p \in BC!Payloads : n[p] >= Cardinality(Users(f, p))

CountInv ==
  /\ part \in [Messages -> BC!Payloads \cup {NoPayload}] /\ refs \in [BC!Payloads -> Nat]
  /\ bodiesQueue \in Seq(Messages) /\ batch \in Seq(Messages)
  /\ bodiesRows \subseteq Messages /\ asked \subseteq Messages /\ chunk \subseteq Messages
  /\ Counted(part, refs)

-----------------------------------------------------------------------------
(* Counting.                                                                *)

\* What BodyCache takes from the modules it extends is what they define.
LEMMA SameNotions ==
    /\ \A S : BC!IsFiniteSet(S) = IsFiniteSet(S) /\ BC!Cardinality(S) = Cardinality(S)
    /\ \A f : BC!IsInjective(f) = IsInjective(f)
<1>1. \A S : BC!IsFiniteSet(S) = IsFiniteSet(S)
  BY DEF BC!IsFiniteSet, IsFiniteSet
<1>2. \A S : BC!Cardinality(S) = Cardinality(S)
  BY DEF BC!Cardinality, Cardinality, BC!IsFiniteSet, IsFiniteSet
<1>3. \A f : BC!IsInjective(f) = IsInjective(f)
  BY DEF BC!IsInjective, IsInjective
<1> QED BY <1>1, <1>2, <1>3

LEMMA UsersAreFinite ==
    ASSUME BC!BodyCacheAssumption, NEW f, NEW p
    PROVE  IsFiniteSet(Users(f, p)) /\ Cardinality(Users(f, p)) \in Nat
<1>1. Users(f, p) \in SUBSET Messages
  BY DEF Users
<1> QED BY <1>1, SameNotions, FS_Subset, FS_CardinalityType DEF BC!BodyCacheAssumption

\* There are no more messages on a list than places on it.
LEMMA ListedOnce ==
    ASSUME NEW I, IsFiniteSet(I), NEW s
    PROVE  /\ IsFiniteSet({s[i] : i \in I})
           /\ Cardinality({s[i] : i \in I}) <= Cardinality(I)
<1> DEFINE T == {s[i] : i \in I}  f == [i \in I |-> s[i]]
<1>1. f \in Surjection(I, T)
  BY DEF Surjection
<1> HIDE DEF f
<1> QED BY <1>1, FS_Surjection

\* A list of messages: of the body writer, or of the migration's chunk.
List(s) == IsFiniteSet(DOMAIN s) /\ \A i \in DOMAIN s : s[i] \in Messages

LEMMA BatchIsList ==
    ASSUME NEW s \in Seq(Messages)
    PROVE  List(s)
<1> DEFINE n == Len(s)
<1>1. n \in Nat /\ DOMAIN s = 1 .. n /\ \A i \in DOMAIN s : s[i] \in Messages
  OBVIOUS
<1> HIDE DEF n
<1>2. 1 \in Int /\ n \in Int
  BY <1>1
<1>3. IsFiniteSet(1 .. n)
  BY <1>2, FS_Interval
<1> QED BY <1>1, <1>3 DEF List

LEMMA ChunkIsList ==
    ASSUME NEW S \in SUBSET Messages, IsFiniteSet(S)
    PROVE  List(BC!SetToSeq(S))
<1> DEFINE n == Cardinality(S)
<1>1. PICK f \in [1 .. n -> S] : IsInjective(f)
  <2>1. n \in Nat /\ ExistsBijection(1 .. n, S)
    BY FS_CardinalityType
  <2>2. PICK f : f \in Bijection(1 .. n, S)
    BY <2>1 DEF ExistsBijection
  <2>3. f \in [1 .. n -> S] /\ \A a, b \in 1 .. n : f[a] = f[b] => a = b
    BY <2>2 DEF Bijection, Injection, IsInjective
  <2> QED BY <2>3 DEF IsInjective
<1>2. BC!SetToSeq(S) \in [1 .. n -> S]
  BY <1>1, SameNotions DEF BC!SetToSeq
<1>3. n \in Nat
  BY FS_CardinalityType
<1> HIDE DEF n
<1>4. 1 \in Int /\ n \in Int
  BY <1>3
<1>5. IsFiniteSet(1 .. n)
  BY <1>4, FS_Interval
<1> QED BY <1>2, <1>5 DEF List

-----------------------------------------------------------------------------
(* Storing and releasing parts.                                             *)

\* Each part row that is written counts once or more.
LEMMA StoredIsCounted ==
    ASSUME BC!BodyCacheAssumption, CountInv, NEW s, List(s), BC!StoreParts(s)
    PROVE  /\ part' \in [Messages -> BC!Payloads \cup {NoPayload}] /\ refs' \in [BC!Payloads -> Nat]
           /\ Counted(part', refs')
<1> DEFINE I(p) == {i \in DOMAIN s : Payload[s[i]] = p}
<1>1. part' = [u \in Messages |-> IF Payload[u] # NoPayload /\ \E i \in DOMAIN s : s[i] = u
                                 THEN Payload[u] ELSE part[u]]
  BY SameNotions DEF BC!StoreParts
<1>2. refs' = [p \in BC!Payloads |-> refs[p] + Cardinality(I(p))]
  BY SameNotions DEF BC!StoreParts
<1>3. ASSUME NEW p
      PROVE  IsFiniteSet(I(p)) /\ Cardinality(I(p)) \in Nat
  <2>1. I(p) \in SUBSET DOMAIN s
    OBVIOUS
  <2> HIDE DEF I
  <2> QED BY <2>1, FS_Subset, FS_CardinalityType DEF List
<1>4. part' \in [Messages -> BC!Payloads \cup {NoPayload}]
  BY <1>1 DEF CountInv, BC!Payloads
<1>5. ASSUME NEW p \in BC!Payloads
      PROVE  refs'[p] >= Cardinality(Users(part', p))
  <2> DEFINE T == {s[i] : i \in I(p)}
  <2>1. Users(part', p) \subseteq Users(part, p) \cup T
    BY <1>1 DEF Users
  <2> DEFINE was == Users(part, p)  now == Users(part', p)  J == I(p)
  <2>2. J = I(p) /\ IsFiniteSet(J) /\ Cardinality(J) \in Nat
    BY <1>3
  <2> HIDE DEF I, J
  <2>3. IsFiniteSet(T) /\ Cardinality(T) <= Cardinality(J) /\ Cardinality(T) \in Nat
    BY <2>2, ListedOnce, FS_CardinalityType
  <2> HIDE DEF T
  <2>4. IsFiniteSet(was) /\ Cardinality(was) \in Nat
    BY UsersAreFinite
  <2> HIDE DEF was, now
  <2>5. /\ IsFiniteSet(was \cup T) /\ Cardinality(was \cup T) \in Nat
        /\ Cardinality(was \cup T) <= Cardinality(was) + Cardinality(T)
    <3>1. /\ IsFiniteSet(was \cup T)
          /\ Cardinality(was \cup T) = Cardinality(was) + Cardinality(T) - Cardinality(was \cap T)
      BY <2>3, <2>4, FS_Union
    <3>2. Cardinality(was \cap T) \in Nat /\ Cardinality(was \cup T) \in Nat
      BY <2>3, <2>4, <3>1, FS_Intersection, FS_CardinalityType
    <3> QED BY <2>3, <2>4, <3>1, <3>2
  <2>6. Cardinality(now) <= Cardinality(was \cup T) /\ Cardinality(now) \in Nat
    <3>1. now \in SUBSET (was \cup T)
      BY <2>1 DEF was, now
    <3> QED BY <2>5, <3>1, FS_Subset, FS_CardinalityType
  <2>7. refs[p] \in Nat /\ refs[p] >= Cardinality(was)
    BY DEF CountInv, Counted, was
  <2>8. refs'[p] = refs[p] + Cardinality(J)
    BY <1>2 DEF J
  <2> QED BY <2>2, <2>3, <2>4, <2>5, <2>6, <2>7, <2>8 DEF now
<1>6. refs' \in [BC!Payloads -> Nat]
  <2> HIDE DEF I
  <2>1. \A p \in BC!Payloads : refs[p] + Cardinality(I(p)) \in Nat
    BY <1>3 DEF CountInv
  <2> QED BY <1>2, <2>1
<1> QED BY <1>4, <1>5, <1>6 DEF Counted

\* Each part row that goes is given back once, however many go together.
LEMMA ReleasedIsCounted ==
    ASSUME BC!BodyCacheAssumption, CountInv, NEW S \in SUBSET Messages, BC!ReleaseParts(S)
    PROVE  /\ part' \in [Messages -> BC!Payloads \cup {NoPayload}] /\ refs' \in [BC!Payloads -> Nat]
           /\ Counted(part', refs')
<1> DEFINE G(p) == {u \in S : part[u] = p}
           left(p) == IF refs[p] > Cardinality(G(p)) THEN refs[p] - Cardinality(G(p)) ELSE 0
<1>1. part' = [u \in Messages |-> IF u \in S THEN NoPayload ELSE part[u]]
  BY SameNotions DEF BC!ReleaseParts
<1>2. refs' = [p \in BC!Payloads |-> left(p)]
  BY SameNotions DEF BC!ReleaseParts
<1>3. part' \in [Messages -> BC!Payloads \cup {NoPayload}]
  BY <1>1 DEF CountInv
<1>4. ASSUME NEW p \in BC!Payloads
      PROVE  left(p) \in Nat /\ left(p) >= Cardinality(Users(part', p))
  <2> DEFINE was == Users(part, p)  given == G(p)
  <2>1. Users(part', p) = was \ S /\ given = was \cap S
    BY <1>1 DEF Users, BC!Payloads
  <2>2. IsFiniteSet(was) /\ Cardinality(was) \in Nat
    BY UsersAreFinite
  <2>3. refs[p] \in Nat /\ refs[p] >= Cardinality(was)
    BY DEF CountInv, Counted
  <2>4. left(p) = IF refs[p] > Cardinality(given) THEN refs[p] - Cardinality(given) ELSE 0
    OBVIOUS
  <2> HIDE DEF left, G, was, given
  <2>5. /\ IsFiniteSet(was \ S) /\ Cardinality(was \ S) = Cardinality(was) - Cardinality(was \cap S)
    BY <2>2, FS_Difference
  <2>6. Cardinality(was \cap S) \in Nat /\ Cardinality(was \ S) \in Nat
    BY <2>2, <2>5, FS_Intersection, FS_CardinalityType
  <2> QED BY <2>1, <2>2, <2>3, <2>4, <2>5, <2>6
<1>5. refs' \in [BC!Payloads -> Nat] /\ \A p \in BC!Payloads : refs'[p] = left(p)
  <2> HIDE DEF left
  <2> QED BY <1>2, <1>4
<1> QED BY <1>3, <1>4, <1>5 DEF Counted

-----------------------------------------------------------------------------
(* The steps.                                                               *)

LEMMA StepKeepsCounts ==
    ASSUME BC!BodyCacheAssumption, CountInv, [BC!Next]_(BC!vars)
    PROVE  CountInv'
<1> USE DEF CountInv
<1>1. ASSUME NEW u \in Messages, BC!Header(u) \/ BC!Ask(u) \/ BC!Open(u)
      PROVE  CountInv'
  <2>1. /\ UNCHANGED <<part, refs, bodiesQueue, batch, chunk>>
        /\ asked' \subseteq Messages /\ bodiesRows' \subseteq Messages
    BY <1>1 DEF BC!Header, BC!Ask, BC!Open, BC!hands, BC!migration
  <2> QED BY <2>1
<1>2. ASSUME NEW u \in Messages, BC!Fetched(u)
      PROVE  CountInv'
  <2>1. UNCHANGED <<bodiesRows, part, refs, batch, chunk>> /\ asked' \subseteq Messages
    BY <1>2 DEF BC!Fetched, BC!migration
  <2>2. bodiesQueue' \in Seq(Messages)
    <3>1. bodiesQueue' = bodiesQueue \/ bodiesQueue' = Append(bodiesQueue, u)
      BY <1>2 DEF BC!Fetched
    <3> QED BY <3>1, SMTT(40)
  <2> QED BY <2>1, <2>2
<1>3. ASSUME NEW S \in SUBSET Messages, BC!ReleaseParts(S), bodiesRows' \subseteq Messages,
             UNCHANGED <<bodiesQueue, batch, asked, chunk>>
      PROVE  CountInv'
  BY <1>3, ReleasedIsCounted
<1>4. ASSUME NEW S \in SUBSET Messages, BC!Drop(S)
      PROVE  CountInv'
  BY <1>3, <1>4 DEF BC!Drop, BC!migration
<1>5. ASSUME NEW u \in Messages, BC!RemoveBodyOnly(u) \/ BC!RemoveMessage(u)
      PROVE  CountInv'
  <2>1. {u} \in SUBSET Messages
    OBVIOUS
  <2>2. CASE BC!RemoveBodyOnly(u)
    BY <1>3, <2>1, <2>2 DEF BC!RemoveBodyOnly, BC!hands, BC!migration
  <2>3. CASE BC!RemoveMessage(u)
    BY <1>4, <2>1, <2>3 DEF BC!RemoveMessage
  <2> QED BY <1>5, <2>2, <2>3
<1>6. CASE BC!ClearFolder
  BY <1>4, <1>6 DEF BC!ClearFolder
<1>7. CASE BC!PurgeChunk
  <2>1. ASSUME NEW u \in bodiesRows, BC!Drop({u})
        PROVE  CountInv'
    <3>1. {u} \in SUBSET Messages
      OBVIOUS
    <3> QED BY <1>4, <2>1, <3>1
  <2>2. CASE UNCHANGED <<bodiesRows, part, refs, bodiesQueue, batch, asked, chunk>>
    BY <2>2
  <2> QED BY <1>7, <2>1, <2>2 DEF BC!PurgeChunk, BC!migration
<1>8. CASE BC!Unskip \/ BC!StartPurge \/ BC!StopPurge \/ BC!Sweep \/ BC!Externalize
  <2>1. UNCHANGED <<bodiesRows, part, refs, bodiesQueue, batch, asked, chunk>>
    BY <1>8 DEF BC!Unskip, BC!StartPurge, BC!StopPurge, BC!Sweep, BC!Externalize, BC!hands, BC!migration
  <2> QED BY <2>1
<1>9. CASE BC!Take
  <2>1. UNCHANGED <<bodiesRows, part, refs, asked, chunk>> /\ batch' = bodiesQueue /\ bodiesQueue' \in Seq(Messages)
    BY <1>9 DEF BC!Take, BC!migration
  <2> QED BY <2>1
<1>10. CASE BC!WriteBodies
  <2>1. List(batch) /\ BC!StoreParts(batch)
    BY <1>10, BatchIsList DEF BC!WriteBodies
  <2>2. /\ part' \in [Messages -> BC!Payloads \cup {NoPayload}] /\ refs' \in [BC!Payloads -> Nat]
        /\ Counted(part', refs')
    BY <2>1, StoredIsCounted
  <2>3. UNCHANGED <<bodiesRows, bodiesQueue, asked, chunk>> /\ batch' \in Seq(Messages)
    BY <1>10 DEF BC!WriteBodies
  <2> QED BY <2>2, <2>3
<1>11. ASSUME NEW S \in SUBSET Messages, BC!MigrateRead(S)
       PROVE  CountInv'
  <2>1. UNCHANGED <<bodiesRows, part, refs, bodiesQueue, batch, asked>> /\ chunk' \subseteq Messages
    BY <1>11 DEF BC!MigrateRead
  <2> QED BY <2>1
<1>12. CASE BC!MigrateWrite
  <2>1. List(BC!SetToSeq(chunk)) /\ BC!StoreParts(BC!SetToSeq(chunk))
    <3>1. IsFiniteSet(chunk)
      BY FS_Subset, SameNotions DEF BC!BodyCacheAssumption, CountInv
    <3> QED BY <1>12, <3>1, ChunkIsList DEF BC!MigrateWrite
  <2>2. /\ part' \in [Messages -> BC!Payloads \cup {NoPayload}] /\ refs' \in [BC!Payloads -> Nat]
        /\ Counted(part', refs')
    BY <2>1, StoredIsCounted
  <2>3. UNCHANGED <<bodiesRows, bodiesQueue, asked, batch>> /\ chunk' \subseteq Messages
    BY <1>12 DEF BC!MigrateWrite
  <2> QED BY <2>2, <2>3
<1>13. CASE UNCHANGED BC!vars
  BY <1>13 DEF BC!vars, BC!migration
<1> QED BY <1>1, <1>2, <1>5, <1>6, <1>7, <1>8, <1>9, <1>10, <1>11, <1>12, <1>13 DEF BC!Next

LEMMA CountsStart ==
    ASSUME BC!BodyCacheAssumption, BC!Init
    PROVE  CountInv
<1>1. /\ part \in [Messages -> BC!Payloads \cup {NoPayload}] /\ refs \in [BC!Payloads -> Nat]
      /\ bodiesQueue \in Seq(Messages) /\ batch \in Seq(Messages)
      /\ bodiesRows \subseteq Messages /\ asked \subseteq Messages /\ chunk \subseteq Messages
  BY DEF BC!Init
<1>2. ASSUME NEW p \in BC!Payloads
      PROVE  refs[p] >= Cardinality(Users(part, p))
  <2>1. Users(part, p) = {}
    BY DEF BC!Init, Users, BC!Payloads
  <2>2. Cardinality(Users(part, p)) = 0
    BY <2>1, FS_EmptySet
  <2> QED BY <2>2 DEF BC!Init
<1> QED BY <1>1, <1>2 DEF CountInv, Counted

LEMMA CountsMean ==
    ASSUME CountInv
    PROVE  BC!PayloadsAreCounted
BY SameNotions DEF CountInv, Counted, Users, BC!PayloadsAreCounted

(*****************************************************************************)
(* AC, the accounts of the settings (Accounts).  The position of the open    *)
(* account follows it through what moves the list, and what is opened is     *)
(* opened from the list.                                                     *)
(*****************************************************************************)

\* What the settings hold of an account.
Held   == {d.server : d \in Dialogs} \cup Servers \cup {NoServer}
Tuned  == {d.prefs : d \in Dialogs} \cup {0, 1}
Record == [id : Nat, server : Held, key : Names \cup {NoServer}, local : BOOLEAN, prefs : Tuned]

LEMMA RemovedAt ==
    ASSUME NEW S, NEW s \in Seq(S), NEW at \in DOMAIN s
    PROVE  /\ AC!RemoveAt(s, at) \in Seq(S)
           /\ Len(AC!RemoveAt(s, at)) = Len(s) - 1
           /\ \A i \in 1 .. (Len(s) - 1) : AC!RemoveAt(s, at)[i] = IF i < at THEN s[i] ELSE s[i + 1]
<1> DEFINE front == SubSeq(s, 1, at - 1)
           back  == SubSeq(s, at + 1, Len(s))
<1>1. at \in 1 .. Len(s) /\ Len(s) \in Nat
  OBVIOUS
<1>2. front \in Seq(S) /\ Len(front) = at - 1 /\ \A i \in 1 .. (at - 1) : front[i] = s[i]
  BY <1>1
<1>3. back \in Seq(S) /\ Len(back) = Len(s) - at /\ \A i \in 1 .. (Len(s) - at) : back[i] = s[at + i]
  BY <1>1
<1>4. AC!RemoveAt(s, at) = front \o back
  BY DEF AC!RemoveAt
<1> HIDE DEF front, back
<1>5. /\ front \o back \in Seq(S) /\ Len(front \o back) = Len(s) - 1
      /\ \A i \in 1 .. (Len(s) - 1) : (front \o back)[i] = IF i <= Len(front) THEN front[i] ELSE back[i - Len(front)]
  <2>1. front \in Seq(S) /\ back \in Seq(S)
    BY <1>2, <1>3
  <2>2. front \o back \in Seq(S) /\ Len(front \o back) = Len(front) + Len(back)
    BY <2>1
  <2>3. Len(front) + Len(back) = Len(s) - 1
    BY <1>1, <1>2, <1>3
  <2>4. \A i \in 1 .. (Len(front) + Len(back)) :
          (front \o back)[i] = IF i <= Len(front) THEN front[i] ELSE back[i - Len(front)]
    BY <2>1
  <2> QED BY <2>2, <2>3, <2>4
<1>6. \A i \in 1 .. (Len(s) - 1) : (front \o back)[i] = IF i < at THEN s[i] ELSE s[i + 1]
  <2> TAKE i \in 1 .. (Len(s) - 1)
  <2>1. CASE i < at
    BY <1>1, <1>2, <1>5, <2>1
  <2>2. CASE ~(i < at)
    <3>1. i - Len(front) \in 1 .. (Len(s) - at) /\ at + (i - Len(front)) = i + 1
      BY <1>1, <1>2, <2>2
    <3>2. back[i - Len(front)] = s[i + 1]
      BY <1>3, <3>1
    <3>3. (front \o back)[i] = back[i - Len(front)]
      BY <1>1, <1>2, <1>5, <2>2
    <3> QED BY <1>1, <2>2, <3>2, <3>3
  <2> QED BY <2>1, <2>2
<1> QED BY <1>4, <1>5, <1>6

LEMMA InsertedAt ==
    ASSUME NEW S, NEW s \in Seq(S), NEW at \in 1 .. (Len(s) + 1), NEW e \in S
    PROVE  /\ AC!InsertAt(s, at, e) \in Seq(S)
           /\ Len(AC!InsertAt(s, at, e)) = Len(s) + 1
           /\ \A i \in 1 .. (Len(s) + 1) : AC!InsertAt(s, at, e)[i] =
                IF i < at THEN s[i] ELSE IF i = at THEN e ELSE s[i - 1]
<1> DEFINE front == SubSeq(s, 1, at - 1)
           back  == SubSeq(s, at, Len(s))
           mid   == Append(front, e)
<1>1. Len(s) \in Nat
  OBVIOUS
<1>2. front \in Seq(S) /\ Len(front) = at - 1 /\ \A i \in 1 .. (at - 1) : front[i] = s[i]
  BY <1>1
<1>3. /\ back \in Seq(S) /\ Len(back) = Len(s) - at + 1
      /\ \A i \in 1 .. (Len(s) - at + 1) : back[i] = s[at + i - 1]
  BY <1>1
<1>4. AC!InsertAt(s, at, e) = (front \o <<e>>) \o back
  BY DEF AC!InsertAt
<1> HIDE DEF front, back
<1>5. front \o <<e>> = mid /\ mid \in Seq(S) /\ Len(mid) = at /\ mid[at] = e
      /\ \A i \in 1 .. (at - 1) : mid[i] = s[i]
  BY <1>1, <1>2
<1> HIDE DEF mid
<1>6. /\ mid \o back \in Seq(S) /\ Len(mid \o back) = Len(s) + 1
      /\ \A i \in 1 .. (Len(s) + 1) : (mid \o back)[i] = IF i <= Len(mid) THEN mid[i] ELSE back[i - Len(mid)]
  <2>1. Len(mid) + Len(back) = Len(s) + 1
    BY <1>1, <1>3, <1>5
  <2>2. /\ mid \o back \in Seq(S) /\ Len(mid \o back) = Len(mid) + Len(back)
        /\ \A i \in 1 .. (Len(mid) + Len(back)) :
             (mid \o back)[i] = IF i <= Len(mid) THEN mid[i] ELSE back[i - Len(mid)]
    BY <1>3, <1>5
  <2> QED BY <2>1, <2>2
<1>7. \A i \in 1 .. (Len(s) + 1) :
        (mid \o back)[i] = IF i < at THEN s[i] ELSE IF i = at THEN e ELSE s[i - 1]
  <2> TAKE i \in 1 .. (Len(s) + 1)
  <2>1. CASE i <= at
    BY <1>1, <1>5, <1>6, <2>1
  <2>2. CASE ~(i <= at)
    <3>1. i - Len(mid) \in 1 .. (Len(s) - at + 1) /\ at + (i - Len(mid)) - 1 = i - 1
      BY <1>1, <1>5, <2>2
    <3>2. back[i - Len(mid)] = s[i - 1]
      BY <1>3, <3>1
    <3>3. (mid \o back)[i] = back[i - Len(mid)]
      BY <1>1, <1>5, <1>6, <2>2
    <3> QED BY <1>1, <2>2, <3>2, <3>3
  <2> QED BY <2>1, <2>2
<1> QED BY <1>4, <1>5, <1>6, <1>7

\* A dragged account is where its position follows it to.
LEMMA DraggedTo ==
    ASSUME NEW S, accountsRows \in Seq(S), NEW from \in AC!Positions, NEW to \in AC!Positions, from # to
    PROVE  /\ AC!Dragged(from, to) \in Seq(S) /\ Len(AC!Dragged(from, to)) = Len(accountsRows)
           /\ \A i \in AC!Positions : /\ AC!Followed(i, from, to) \in DOMAIN AC!Dragged(from, to)
                                      /\ AC!Dragged(from, to)[AC!Followed(i, from, to)] = accountsRows[i]
<1> DEFINE n == Len(accountsRows)
           s == AC!RemoveAt(accountsRows, from)
           d == AC!Dragged(from, to)
           e == accountsRows[from]
<1>1. n \in Nat /\ AC!Positions = 1 .. n /\ from \in 1 .. n /\ to \in 1 .. n /\ e \in S
  BY DEF AC!Positions
<1>2. /\ s \in Seq(S) /\ Len(s) = n - 1
      /\ \A i \in 1 .. (n - 1) : s[i] = IF i < from THEN accountsRows[i] ELSE accountsRows[i + 1]
  BY <1>1, RemovedAt DEF AC!Positions
<1>3. d = AC!InsertAt(s, to, e)
  BY DEF AC!Dragged
<1> HIDE DEF s, d, e
<1>4. /\ d \in Seq(S) /\ Len(d) = n
      /\ \A i \in 1 .. n : d[i] = IF i < to THEN s[i] ELSE IF i = to THEN e ELSE s[i - 1]
  <2>1. to \in 1 .. (Len(s) + 1) /\ Len(s) + 1 = n
    BY <1>1, <1>2
  <2>2. /\ AC!InsertAt(s, to, e) \in Seq(S) /\ Len(AC!InsertAt(s, to, e)) = Len(s) + 1
        /\ \A i \in 1 .. (Len(s) + 1) : AC!InsertAt(s, to, e)[i] =
             IF i < to THEN s[i] ELSE IF i = to THEN e ELSE s[i - 1]
    <3>1. s \in Seq(S) /\ e \in S
      BY <1>1, <1>2
    <3>2. ASSUME NEW at \in 1 .. (Len(s) + 1), NEW x \in S
          PROVE  /\ AC!InsertAt(s, at, x) \in Seq(S) /\ Len(AC!InsertAt(s, at, x)) = Len(s) + 1
                 /\ \A i \in 1 .. (Len(s) + 1) : AC!InsertAt(s, at, x)[i] =
                      IF i < at THEN s[i] ELSE IF i = at THEN x ELSE s[i - 1]
      BY <3>1, InsertedAt
    <3> QED BY <2>1, <3>1, <3>2, Zenon
  <2> QED BY <1>3, <2>1, <2>2
<1>5. ASSUME NEW i \in 1 .. n
      PROVE  AC!Followed(i, from, to) \in 1 .. n /\ d[AC!Followed(i, from, to)] = accountsRows[i]
  <2>1. CASE i = from
    BY <1>1, <1>4, <2>1 DEF AC!Followed, e
  <2>2. CASE i # from /\ from < i /\ i <= to
    <3>1. AC!Followed(i, from, to) = i - 1 /\ i - 1 \in 1 .. (n - 1)
      BY <1>1, <2>2 DEF AC!Followed
    <3>2. d[i - 1] = s[i - 1]
      BY <1>1, <1>4, <2>2, <3>1
    <3>3. s[i - 1] = accountsRows[i]
      BY <1>1, <1>2, <2>2, <3>1
    <3> QED BY <1>1, <3>1, <3>2, <3>3
  <2>3. CASE i # from /\ to <= i /\ i < from
    <3>1. AC!Followed(i, from, to) = i + 1 /\ i \in 1 .. (n - 1) /\ i + 1 \in 1 .. n
      BY <1>1, <2>3 DEF AC!Followed
    <3>2. d[i + 1] = s[i]
      BY <1>1, <1>4, <2>3, <3>1
    <3>3. s[i] = accountsRows[i]
      BY <1>1, <1>2, <2>3, <3>1
    <3> QED BY <1>1, <3>1, <3>2, <3>3
  <2>4. CASE i # from /\ ~(from < i /\ i <= to) /\ ~(to <= i /\ i < from)
    <3>1. AC!Followed(i, from, to) = i
      BY <1>1, <2>4 DEF AC!Followed
    <3>2. CASE i < from /\ i < to
      <4>1. i \in 1 .. (n - 1) /\ d[i] = s[i]
        BY <1>1, <1>4, <3>2
      <4> QED BY <1>1, <1>2, <3>1, <3>2, <4>1
    <3>3. CASE i > from /\ i > to
      <4>1. i - 1 \in 1 .. (n - 1) /\ d[i] = s[i - 1]
        BY <1>1, <1>4, <3>3
      <4>2. s[i - 1] = accountsRows[i]
        BY <1>1, <1>2, <3>3, <4>1
      <4> QED BY <1>1, <3>1, <4>1, <4>2
    <3> QED BY <1>1, <2>4, <3>2, <3>3
  <2> QED BY <2>1, <2>2, <2>3, <2>4
<1>6. DOMAIN d = 1 .. n
  BY <1>4
<1> QED BY <1>1, <1>4, <1>5, <1>6 DEF d

-----------------------------------------------------------------------------
\* Accounts have numbers; no account has none.
Real  == {r \in Record : r.id # 0}
Typed == /\ accountsRows \in Seq(Real) /\ accountsOpen \in Record /\ session \in Record
         /\ current \in Nat \ {0} /\ ids \in Nat \ {0}
         /\ undone \in BOOLEAN
         /\ import.name \in Names \cup {NoServer}

\* No account is open in an empty list; no connection without an open account.
Closed == ~undone => /\ accountsRows = <<>> => accountsOpen = AC!Blank
                     /\ accountsOpen = AC!Blank => session = AC!Blank

AccountsInv == Typed /\ Closed /\ AC!OpenIsCurrent /\ AC!ChangesAreOwned

\* The parts of the invariant that follow when an account of the list is opened.
LEMMA OpenedIsCurrent ==
    ASSUME NEW s \in Seq(Real), NEW i \in Nat \ {0}, accountsRows' = s, AC!SwitchTo(i, s)
    PROVE  /\ accountsOpen' \in Record /\ session' \in Record /\ current' \in Nat \ {0}
           /\ session' = AC!Blank
           /\ accountsRows' = <<>> => accountsOpen' = AC!Blank
           /\ accountsRows' # <<>> => current' \in DOMAIN accountsRows' /\ accountsOpen' = accountsRows'[current']
<1>1. AC!Blank \in Record
  BY DEF AC!Blank, AC!Row, Record, Held, Tuned
<1>2. Len(s) \in Nat /\ DOMAIN s = 1 .. Len(s) /\ (s # <<>> => Len(s) # 0)
  OBVIOUS
<1>3. s # <<>> => AC!Bound(i, s) \in DOMAIN s
  BY <1>2 DEF AC!Bound
<1>4. s = <<>> => AC!Bound(i, s) = i
  BY DEF AC!Bound
<1>5. CASE s = <<>>
  BY <1>1, <1>4, <1>5 DEF AC!SwitchTo
<1>6. CASE s # <<>>
  <2>1. s[AC!Bound(i, s)] \in Record /\ AC!Bound(i, s) \in Nat \ {0}
    BY <1>2, <1>3, <1>6 DEF Real
  <2> QED BY <1>1, <1>3, <1>6, <2>1 DEF AC!SwitchTo
<1> QED BY <1>5, <1>6

\* Opening an account of the new list makes it the current one.
LEMMA SwitchAgrees ==
    ASSUME AccountsInv, NEW s \in Seq(Real), NEW i \in Nat \ {0}, accountsRows' = s, AC!SwitchTo(i, s),
           ids' \in Nat \ {0}, undone' \in BOOLEAN, import'.name \in Names \cup {NoServer}, AC!ChangesAreOwned'
    PROVE  AccountsInv'
<1>1. /\ accountsOpen' \in Record /\ session' \in Record /\ current' \in Nat \ {0}
      /\ session' = AC!Blank
      /\ accountsRows' = <<>> => accountsOpen' = AC!Blank
      /\ accountsRows' # <<>> => current' \in DOMAIN accountsRows' /\ accountsOpen' = accountsRows'[current']
  BY OpenedIsCurrent
<1> QED BY <1>1 DEF AccountsInv, Typed, Closed, AC!OpenIsCurrent, AC!Positions

\* The keys of a list.
Keys(s) == {AC!KeyOf(s[i]) : i \in DOMAIN s}

LEMMA OwnedStays ==
    ASSUME AC!ChangesAreOwned, Keys(accountsRows) \subseteq Keys(accountsRows') \cup rekeyed',
           rekeyed \subseteq rekeyed', accountsQueued' \subseteq accountsQueued, undone => undone'
    PROVE  AC!ChangesAreOwned'
BY DEF AC!ChangesAreOwned, Keys, AC!Positions

\* What is appended to the list leaves the others where they were.
LEMMA Appended ==
    ASSUME accountsRows \in Seq(Real), NEW r \in Real
    PROVE  /\ Append(accountsRows, r) \in Seq(Real) /\ Append(accountsRows, r) # <<>>
           /\ \A i \in DOMAIN accountsRows : i \in DOMAIN Append(accountsRows, r) /\ Append(accountsRows, r)[i] = accountsRows[i]
           /\ Keys(accountsRows) \subseteq Keys(Append(accountsRows, r))
<1> DEFINE s == Append(accountsRows, r)
<1>1. /\ s \in Seq(Real) /\ s # <<>>
      /\ \A i \in DOMAIN accountsRows : i \in DOMAIN s /\ s[i] = accountsRows[i]
  OBVIOUS
<1> HIDE DEF s
<1>2. Keys(accountsRows) \subseteq Keys(s)
  BY <1>1 DEF Keys
<1> QED BY <1>1, <1>2 DEF s

LEMMA SavedIsRow ==
    ASSUME NEW r \in Record, NEW d \in Dialogs
    PROVE  /\ AC!Saved(r, d) \in Record
           /\ AC!Saved(r, d).id = r.id /\ AC!Saved(r, d).key = r.key
<1> DEFINE b == IF d.local = "unsaid" THEN r.local /\ d.server = NoServer ELSE d.local = "yes"
<1>1. b \in BOOLEAN /\ d.server \in Held /\ d.prefs \in Tuned
  BY DEF Record, Held, Tuned
<1> HIDE DEF b
<1>2. [r EXCEPT !.server = d.server, !.prefs = d.prefs, !.local = b] \in Record
  BY <1>1 DEF Record
<1> QED BY <1>2 DEF AC!Saved, b, Record

\* A save that leaves the keys of the session alone changes nothing else but
\* the preferences.
LEMMA SameSession ==
    ASSUME NEW r \in Record, NEW q \in Record, r.id = q.id, ~AC!SessionChanged(r, q)
    PROVE  /\ q = [r EXCEPT !.prefs = q.prefs] /\ r.local = q.local
           /\ AC!SessionOf(q) = AC!SessionOf(r) /\ AC!KeyOf(q) = AC!KeyOf(r)
<1>1. r.server = q.server /\ r.key = q.key /\ r.local = q.local
  BY DEF AC!SessionChanged, AC!SessionOf
<1>2. q = [r EXCEPT !.prefs = q.prefs]
  BY <1>1 DEF Record
<1> QED BY <1>1, <1>2 DEF AC!SessionOf, AC!KeyOf

\* saveDetails()
LEMMA SaveAgrees ==
    ASSUME AccountsInv, NEW i \in Nat \ {0}, NEW d \in Dialogs, AC!SaveDetails(i, d)
    PROVE  AccountsInv'
<1>1. /\ accountsRows \in Seq(Real) /\ ids \in Nat \ {0} /\ UNCHANGED <<import, accountsQueued, undone>>
      /\ undone \in BOOLEAN /\ import.name \in Names \cup {NoServer} /\ AC!ChangesAreOwned
  BY DEF AccountsInv, Typed, AC!SaveDetails
<1>2. CASE i \notin AC!Positions
  <2> DEFINE blank == AC!Row(ids', NoServer, NoServer, FALSE, 0)
             r     == AC!Saved(blank, d)
  <2>1. ids' \in Nat \ {0} /\ accountsRows' = Append(accountsRows, r) /\ AC!SwitchTo(Len(accountsRows'), accountsRows') /\ UNCHANGED rekeyed
    <3>1. ids' = ids + 1 /\ accountsRows' = Append(accountsRows, r) /\ AC!SwitchTo(Len(accountsRows'), accountsRows') /\ rekeyed' = rekeyed
      BY <1>2, Zenon DEF AC!SaveDetails
    <3> QED BY <1>1, <3>1
  <2>2. blank \in Record /\ blank.id = ids'
    BY <2>1 DEF AC!Row, Record, Held, Tuned
  <2> HIDE DEF blank
  <2>3. r \in Real
    BY <2>1, <2>2, SavedIsRow DEF Real
  <2> HIDE DEF r
  <2>4. accountsRows' \in Seq(Real) /\ Keys(accountsRows) \subseteq Keys(accountsRows') /\ Len(accountsRows') \in Nat \ {0}
    BY <1>1, <2>1, <2>3, Appended
  <2>5. AC!ChangesAreOwned'
    BY <1>1, <2>1, <2>4, OwnedStays
  <2> DEFINE s == accountsRows'
             n == Len(s)
  <2>6. s \in Seq(Real) /\ n \in Nat \ {0} /\ accountsRows' = s /\ AC!SwitchTo(n, s)
    BY <2>1, <2>4
  <2> HIDE DEF s, n
  <2> QED BY <1>1, <2>1, <2>5, <2>6, SwitchAgrees
<1>3. CASE i \in AC!Positions
  <2> DEFINE r == AC!Saved(accountsRows[i], d)
             s == [accountsRows EXCEPT ![i] = r]
  <2>1. /\ accountsRows' = s /\ UNCHANGED ids
        /\ rekeyed' = rekeyed \cup ({AC!KeyOf(accountsRows[i])} \ {AC!KeyOf(r)})
        /\ IF i # current \/ session = AC!Blank \/ AC!SessionChanged(accountsRows[i], r) THEN AC!SwitchTo(i, accountsRows')
             ELSE accountsOpen' = [accountsOpen EXCEPT !.prefs = r.prefs] /\ UNCHANGED <<current, session>>
    BY <1>3 DEF AC!SaveDetails
  <2>2. accountsRows[i] \in Real /\ i \in DOMAIN accountsRows
    BY <1>1, <1>3 DEF AC!Positions
  <2>3. r \in Real /\ r.id = accountsRows[i].id
    BY <2>2, SavedIsRow DEF Real
  <2> HIDE DEF r
  <2>4. s \in Seq(Real) /\ DOMAIN s = DOMAIN accountsRows /\ s[i] = r /\ s # <<>>
        /\ \A k \in DOMAIN accountsRows : k # i => s[k] = accountsRows[k]
    BY <1>1, <2>2, <2>3
  <2> HIDE DEF s
  <2>5. AC!ChangesAreOwned'
    <3>1. Keys(accountsRows) \subseteq Keys(accountsRows') \cup rekeyed'
      <4> SUFFICES ASSUME NEW k \in DOMAIN accountsRows
                   PROVE  AC!KeyOf(accountsRows[k]) \in Keys(accountsRows') \cup rekeyed'
        BY DEF Keys
      <4>1. CASE k # i
        BY <2>1, <2>4, <4>1 DEF Keys
      <4>2. CASE k = i
        <5>1. AC!KeyOf(r) \in Keys(accountsRows')
          BY <2>1, <2>2, <2>4 DEF Keys
        <5> QED BY <2>1, <4>2, <5>1
      <4> QED BY <4>1, <4>2
    <3> QED BY <1>1, <2>1, <3>1, OwnedStays
  <2>6. CASE AC!SwitchTo(i, s)
    BY <1>1, <2>1, <2>4, <2>5, <2>6, SwitchAgrees
  <2>7. CASE i = current /\ session # AC!Blank /\ ~AC!SessionChanged(accountsRows[i], r)
             /\ accountsOpen' = [accountsOpen EXCEPT !.prefs = r.prefs] /\ UNCHANGED <<current, session>>
    <3>1. r = [accountsRows[i] EXCEPT !.prefs = r.prefs] /\ AC!SessionOf(r) = AC!SessionOf(accountsRows[i])
          /\ r.local = accountsRows[i].local
      BY <2>2, <2>3, <2>7, SameSession DEF Real
    <3>2. accountsOpen' \in Record
      BY <2>3, <2>7 DEF AccountsInv, Typed, Record, Real
    <3>3. ~undone => /\ accountsOpen # AC!Blank /\ accountsOpen = accountsRows[current]
                     /\ AC!SessionOf(session) = AC!SessionOf(accountsOpen) /\ ~accountsOpen.local
      BY <1>1, <2>2, <2>7 DEF AccountsInv, Closed, AC!OpenIsCurrent
    <3>4. ~undone => accountsOpen' = r
      BY <2>7, <3>1, <3>3
    <3>5. r # AC!Blank
      BY <2>3 DEF Real, AC!Blank, AC!Row
    <3> QED BY <1>1, <2>1, <2>2, <2>4, <2>5, <2>7, <3>1, <3>2, <3>3, <3>4, <3>5
         DEF AccountsInv, Typed, Closed, AC!OpenIsCurrent, AC!Positions
  <2> QED BY <2>1, <2>6, <2>7
<1> QED BY <1>2, <1>3

\* A step that leaves the list, the position and the open account alone.
LEMMA ListAlone ==
    ASSUME AccountsInv, UNCHANGED <<accountsRows, current, accountsOpen, undone>>, ids' \in Nat \ {0},
           session' \in Record, import'.name \in Names \cup {NoServer}, AC!ChangesAreOwned',
           \/ session' = session \/ session' = AC!Blank
           \/ session' = accountsOpen /\ accountsOpen # AC!Blank /\ ~accountsOpen.local
    PROVE  AccountsInv'
<1>1. Typed'
  BY DEF AccountsInv, Typed
<1>2. Closed'
  BY DEF AccountsInv, Closed
<1>3. AC!OpenIsCurrent'
  BY DEF AccountsInv, AC!OpenIsCurrent, AC!Positions
<1> QED BY <1>1, <1>2, <1>3 DEF AccountsInv

LEMMA OwnedAlone ==
    ASSUME AC!ChangesAreOwned, UNCHANGED <<accountsRows, rekeyed, undone, accountsQueued>>
    PROVE  AC!ChangesAreOwned'
BY DEF AC!ChangesAreOwned, AC!Positions

\* Connections, changes, and the archive's mail.
LEMMA QuietAgrees ==
    ASSUME AccountsInv, AC!Connected \/ AC!ConnectionLost \/ AC!Change \/ AC!Flushed
    PROVE  AccountsInv'
<1>1. /\ UNCHANGED <<accountsRows, current, accountsOpen, undone, ids, rekeyed>>
      /\ ids \in Nat \ {0} /\ accountsOpen \in Record /\ session \in Record
      /\ import.name \in Names \cup {NoServer} /\ AC!ChangesAreOwned
  BY DEF AccountsInv, Typed, AC!Connected, AC!ConnectionLost, AC!Change, AC!Flushed, AC!books, AC!count
<1>2. AC!Blank \in Record
  BY DEF AC!Blank, AC!Row, Record, Held, Tuned
<1>3. /\ \/ session' = session \/ session' = AC!Blank
         \/ session' = accountsOpen /\ accountsOpen # AC!Blank /\ ~accountsOpen.local
      /\ session' \in Record
  BY <1>1, <1>2 DEF AC!Connected, AC!ConnectionLost, AC!Change, AC!Flushed
<1>4. import'.name \in Names \cup {NoServer}
  <2>1. CASE AC!Flushed
    <3>1. import' = [import EXCEPT !.found = TRUE]
      BY <2>1 DEF AC!Flushed
    <3>2. import'.name = import.name
      BY <3>1
    <3> QED BY <1>1, <3>2
  <2>2. CASE import' = import
    BY <1>1, <2>2
  <2> QED BY <2>1, <2>2 DEF AC!Connected, AC!ConnectionLost, AC!Change
<1>5. AC!ChangesAreOwned'
  <2>1. CASE AC!Change
    <3>1. accountsQueued' = accountsQueued \cup {AC!KeyOf(accountsOpen)} /\ accountsOpen # AC!Blank
      BY <2>1 DEF AC!Change
    <3>2. ~undone => AC!KeyOf(accountsOpen) \in {AC!KeyOf(accountsRows[k]) : k \in AC!Positions}
      BY <3>1 DEF AccountsInv, Closed, AC!OpenIsCurrent
    <3> QED BY <1>1, <3>1, <3>2 DEF AC!ChangesAreOwned, AC!Positions
  <2>2. CASE UNCHANGED accountsQueued
    BY <1>1, <2>2, OwnedAlone
  <2> QED BY <2>1, <2>2 DEF AC!Connected, AC!ConnectionLost, AC!Flushed, AC!books
<1> QED BY <1>1, <1>3, <1>4, <1>5, ListAlone

\* The settings page.
LEMMA PrefsAgree ==
    ASSUME AccountsInv, NEW i \in AC!Positions, NEW p \in {0, 1}, AC!SavePrefs(i, p)
    PROVE  AccountsInv'
<1> DEFINE r == [accountsRows[i] EXCEPT !.prefs = p]
           s == [accountsRows EXCEPT ![i] = r]
<1>1. /\ accountsRows \in Seq(Real) /\ ids \in Nat \ {0} /\ accountsOpen \in Record
      /\ undone \in BOOLEAN /\ import.name \in Names \cup {NoServer} /\ AC!ChangesAreOwned
      /\ accountsRows[i] \in Real /\ i \in DOMAIN accountsRows
  BY DEF AccountsInv, Typed, AC!Positions
<1>2. /\ accountsRows' = s /\ UNCHANGED <<current, session, import, accountsQueued, rekeyed, undone, ids>>
      /\ accountsOpen' = (IF i = current /\ accountsOpen # AC!Blank THEN [accountsOpen EXCEPT !.prefs = p] ELSE accountsOpen)
  BY DEF AC!SavePrefs, AC!WithPrefs, AC!books
<1>3. r \in Real /\ AC!KeyOf(r) = AC!KeyOf(accountsRows[i]) /\ AC!SessionOf(r) = AC!SessionOf(accountsRows[i])
      /\ r.local = accountsRows[i].local /\ r # AC!Blank
  BY <1>1 DEF Real, Record, Tuned, AC!KeyOf, AC!SessionOf, AC!Blank, AC!Row
<1> HIDE DEF r
<1>4. /\ s \in Seq(Real) /\ DOMAIN s = DOMAIN accountsRows /\ s[i] = r /\ s # <<>>
      /\ \A k \in DOMAIN accountsRows : k # i => s[k] = accountsRows[k]
  BY <1>1, <1>3
<1> HIDE DEF s
<1>5. AC!ChangesAreOwned'
  <2>1. Keys(accountsRows) \subseteq Keys(accountsRows')
    BY <1>1, <1>2, <1>3, <1>4 DEF Keys
  <2> QED BY <1>1, <1>2, <2>1, OwnedStays
<1>6. accountsOpen' \in Record
  BY <1>1, <1>2 DEF Record, Tuned
<1>7. accountsOpen' = AC!Blank => accountsOpen = AC!Blank \/ undone
  <2>1. CASE i = current /\ accountsOpen # AC!Blank /\ ~undone
    <3>1. accountsOpen.id # 0
      BY <1>1, <2>1 DEF AccountsInv, Closed, AC!OpenIsCurrent, Real
    <3>2. accountsOpen'.id = accountsOpen.id
      BY <1>1, <1>2 DEF Record
    <3> QED BY <3>1, <3>2 DEF AC!Blank, AC!Row
  <2> QED BY <1>2, <2>1
<1>8. accountsOpen = AC!Blank => accountsOpen' = AC!Blank
  BY <1>2
<1>9. AC!OpenIsCurrent'
  <2> SUFFICES ASSUME ~undone, accountsOpen # AC!Blank
               PROVE  /\ current' \in AC!Positions' /\ accountsOpen' = accountsRows'[current']
                      /\ session' # AC!Blank => AC!SessionOf(session') = AC!SessionOf(accountsOpen') /\ ~accountsOpen'.local
    BY <1>2, <1>8 DEF AC!OpenIsCurrent
  <2>1. /\ current \in DOMAIN accountsRows /\ accountsOpen = accountsRows[current]
        /\ session # AC!Blank => AC!SessionOf(session) = AC!SessionOf(accountsOpen) /\ ~accountsOpen.local
    BY <1>1 DEF AccountsInv, Closed, AC!OpenIsCurrent, AC!Positions
  <2>2. CASE i = current
    <3>1. accountsOpen' = r
      BY <1>2, <2>1, <2>2 DEF r
    <3> QED BY <1>2, <1>3, <1>4, <2>1, <2>2, <3>1 DEF AC!Positions
  <2>3. CASE i # current
    BY <1>2, <1>4, <2>1, <2>3 DEF AC!Positions
  <2> QED BY <2>2, <2>3
<1>10. Closed'
  BY <1>2, <1>4, <1>7 DEF AccountsInv, Closed
<1> QED BY <1>1, <1>2, <1>4, <1>5, <1>6, <1>9, <1>10 DEF AccountsInv, Typed

\* removeAccount()
LEMMA RemoveAgrees ==
    ASSUME AccountsInv, NEW i \in AC!Positions, AC!RemoveAccount(i)
    PROVE  AccountsInv'
<1> DEFINE s == AC!Without(i)
<1>1. /\ accountsRows \in Seq(Real) /\ ids \in Nat \ {0} /\ current \in Nat \ {0}
      /\ undone \in BOOLEAN /\ import.name \in Names \cup {NoServer} /\ AC!ChangesAreOwned
      /\ i \in DOMAIN accountsRows
  BY DEF AccountsInv, Typed, AC!Positions
<1>2. /\ accountsRows' = s /\ accountsQueued' = accountsQueued \ {AC!KeyOf(accountsRows[i])}
      /\ UNCHANGED <<import, rekeyed, undone, ids>>
  BY DEF AC!RemoveAccount, AC!count
<1>3. /\ s \in Seq(Real) /\ Len(s) = Len(accountsRows) - 1
      /\ \A k \in 1 .. (Len(accountsRows) - 1) : s[k] = IF k < i THEN accountsRows[k] ELSE accountsRows[k + 1]
  BY <1>1, RemovedAt DEF AC!Without
<1> HIDE DEF s
<1>4. ASSUME NEW k \in DOMAIN accountsRows, k # i
      PROVE  AC!KeyOf(accountsRows[k]) \in Keys(s)
  <2>1. Len(accountsRows) \in Nat /\ DOMAIN accountsRows = 1 .. Len(accountsRows) /\ DOMAIN s = 1 .. (Len(accountsRows) - 1)
    BY <1>1, <1>3
  <2>2. CASE k < i
    <3>1. k \in DOMAIN s /\ s[k] = accountsRows[k]
      BY <1>1, <1>3, <1>4, <2>1, <2>2
    <3> QED BY <3>1 DEF Keys
  <2>3. CASE ~(k < i)
    <3>1. k - 1 \in DOMAIN s /\ s[k - 1] = accountsRows[k]
      <4>1. k - 1 \in 1 .. (Len(accountsRows) - 1) /\ ~(k - 1 < i) /\ (k - 1) + 1 = k
        BY <1>1, <1>4, <2>1, <2>3
      <4> QED BY <1>3, <2>1, <4>1
    <3> QED BY <3>1 DEF Keys
  <2> QED BY <2>2, <2>3
<1>5. AC!ChangesAreOwned'
  <2>1. ASSUME ~undone, NEW q \in accountsQueued'
        PROVE  q \in Keys(s) \cup rekeyed
    <3>1. q \in accountsQueued /\ q # AC!KeyOf(accountsRows[i])
      BY <1>2, <2>1
    <3> QED BY <1>1, <1>4, <2>1, <3>1 DEF AC!ChangesAreOwned, AC!Positions
  <2> QED BY <1>2, <2>1 DEF AC!ChangesAreOwned, AC!Positions, Keys
<1>6. CASE s = <<>>
  <2>1. accountsOpen' = AC!Blank /\ session' = AC!Blank /\ current' = current
    BY <1>2, <1>6 DEF AC!RemoveAccount
  <2>2. AC!Blank \in Record
    BY DEF AC!Blank, AC!Row, Record, Held, Tuned
  <2> QED BY <1>1, <1>2, <1>3, <1>5, <1>6, <2>1, <2>2
       DEF AccountsInv, Typed, Closed, AC!OpenIsCurrent
<1>7. CASE s # <<>>
  <2>1. AC!SwitchTo(current, s)
    BY <1>2, <1>7 DEF AC!RemoveAccount
  <2> QED BY <1>1, <1>2, <1>3, <1>5, <2>1, SwitchAgrees
<1> QED BY <1>6, <1>7

\* moveAccount()
LEMMA MoveAgrees ==
    ASSUME AccountsInv, NEW from \in AC!Positions, NEW to \in AC!Positions, AC!MoveAccount(from, to)
    PROVE  AccountsInv'
<1> DEFINE s == AC!Dragged(from, to)
           c == AC!Followed(current, from, to)
<1>1. /\ accountsRows \in Seq(Real) /\ ids \in Nat \ {0} /\ current \in Nat \ {0}
      /\ undone \in BOOLEAN /\ import.name \in Names \cup {NoServer} /\ AC!ChangesAreOwned
      /\ from \in Nat \ {0} /\ to \in Nat \ {0} /\ accountsRows # <<>>
  BY DEF AccountsInv, Typed, AC!Positions
<1>2. /\ accountsRows' = s /\ from # to /\ current' = c
      /\ UNCHANGED <<accountsOpen, session, import, accountsQueued, rekeyed, undone, ids>>
  BY DEF AC!MoveAccount, AC!books
<1>3. /\ s \in Seq(Real) /\ Len(s) = Len(accountsRows)
      /\ \A i \in AC!Positions : AC!Followed(i, from, to) \in DOMAIN s /\ s[AC!Followed(i, from, to)] = accountsRows[i]
  BY <1>1, <1>2, DraggedTo
<1>4. c \in Nat \ {0}
  BY <1>1 DEF AC!Followed
<1> HIDE DEF s, c
<1>5. AC!ChangesAreOwned'
  <2>1. Keys(accountsRows) \subseteq Keys(s)
    BY <1>3 DEF Keys, AC!Positions
  <2> QED BY <1>1, <1>2, <2>1, OwnedStays
<1>6. s # <<>>
  BY <1>1, <1>3
<1>7. AC!OpenIsCurrent'
  BY <1>1, <1>2, <1>3 DEF AccountsInv, AC!OpenIsCurrent, AC!Positions, c
<1>8. Closed'
  BY <1>2, <1>6 DEF AccountsInv, Closed
<1>9. Typed'
  BY <1>1, <1>2, <1>3, <1>4 DEF AccountsInv, Typed
<1> QED BY <1>5, <1>7, <1>8, <1>9 DEF AccountsInv

\* importThunderbird() and its last step.
LEMMA ImportAgrees ==
    ASSUME AccountsInv, (\E n \in Names : AC!ImportThunderbird(n)) \/ AC!ImportEnds
    PROVE  undone' \/ AccountsInv'
<1>1. /\ accountsRows \in Seq(Real) /\ ids \in Nat \ {0} /\ current \in Nat \ {0}
      /\ undone \in BOOLEAN /\ import.name \in Names \cup {NoServer} /\ AC!ChangesAreOwned
      /\ session \in Record /\ accountsOpen \in Record
  BY DEF AccountsInv, Typed
<1>2. ASSUME NEW n \in Names, AC!ImportThunderbird(n)
      PROVE  AccountsInv'
  <2> DEFINE local == TRUE
             r == AC!Row(ids', NoServer, n, local, 0)
  <2>1. /\ ids' = ids + 1 /\ accountsRows' = Append(accountsRows, r)
        /\ import' = [name |-> n, found |-> FALSE]
        /\ UNCHANGED <<current, accountsOpen, session, accountsQueued, rekeyed, undone>>
    BY <1>2 DEF AC!ImportThunderbird, AC!books
  <2>2. r \in Real
    <3>1. ids' \in Nat \ {0}
      BY <1>1, <2>1
    <3> QED BY <3>1 DEF AC!Row, Real, Record, Held, Tuned
  <2> HIDE DEF r
  <2>3. /\ accountsRows' \in Seq(Real) /\ accountsRows' # <<>> /\ Keys(accountsRows) \subseteq Keys(accountsRows')
        /\ \A i \in DOMAIN accountsRows : i \in DOMAIN accountsRows' /\ accountsRows'[i] = accountsRows[i]
    BY <1>1, <2>1, <2>2, Appended
  <2>4. AC!ChangesAreOwned'
    BY <1>1, <2>1, <2>3, OwnedStays
  <2>5. AC!OpenIsCurrent'
    BY <2>1, <2>3 DEF AccountsInv, Closed, AC!OpenIsCurrent, AC!Positions
  <2>6. Closed'
    BY <2>1, <2>3 DEF AccountsInv, Closed
  <2>7. Typed'
    BY <1>1, <2>1, <2>3 DEF AccountsInv, Typed
  <2> QED BY <2>4, <2>5, <2>6, <2>7 DEF AccountsInv
<1>3. ASSUME AC!ImportEnds, undone' # TRUE
      PROVE  AccountsInv'
  <2> DEFINE at == {i \in AC!Positions : accountsRows[i].key = import.name}
  <2>1. /\ import' = AC!NoImport /\ UNCHANGED <<accountsQueued, rekeyed, ids>>
    BY <1>3 DEF AC!ImportEnds, AC!count
  <2>2. import'.name \in Names \cup {NoServer}
    BY <2>1 DEF AC!NoImport
  <2>3. CASE accountsRows' = accountsRows /\ undone' = undone
    <3>1. AC!ChangesAreOwned'
      BY <1>1, <2>1, <2>3, OwnedAlone
    <3>2. CASE AC!SwitchTo(current, accountsRows)
      BY <1>1, <2>1, <2>2, <2>3, <3>1, <3>2, SwitchAgrees
    <3>3. CASE UNCHANGED <<current, accountsOpen, session>>
      BY <1>1, <2>1, <2>2, <2>3, <3>1, <3>3, ListAlone
    <3> QED BY <1>3, <2>3, <3>2, <3>3 DEF AC!ImportEnds
  <2> QED BY <1>1, <1>3, <2>3 DEF AC!ImportEnds
<1> QED BY <1>2, <1>3

\* Opening an account, and leaving the program.
LEMMA OpenAgrees ==
    ASSUME AccountsInv, (\E i \in AC!Positions : AC!SwitchAccount(i)) \/ AC!Quit
    PROVE  AccountsInv'
<1>1. /\ accountsRows \in Seq(Real) /\ ids \in Nat \ {0} /\ current \in Nat \ {0}
      /\ undone \in BOOLEAN /\ import.name \in Names \cup {NoServer} /\ AC!ChangesAreOwned
      /\ AC!Positions \subseteq Nat \ {0}
  BY DEF AccountsInv, Typed, AC!Positions
<1>2. /\ UNCHANGED <<accountsRows, accountsQueued, rekeyed, undone, ids>>
      /\ import' \in {import, AC!NoImport}
  BY DEF AC!SwitchAccount, AC!Quit, AC!books, AC!count
<1>3. import'.name \in Names \cup {NoServer}
  BY <1>1, <1>2 DEF AC!NoImport
<1>4. AC!ChangesAreOwned'
  BY <1>1, <1>2, OwnedAlone
<1>5. \E i \in Nat \ {0} : AC!SwitchTo(i, accountsRows)
  BY <1>1 DEF AC!SwitchAccount, AC!Quit, AC!SwitchTo
<1> QED BY <1>1, <1>2, <1>3, <1>4, <1>5, SwitchAgrees

\* Until an import that found nothing moves the others under the position.
SoundInv == undone \in BOOLEAN /\ (~undone => AccountsInv)

LEMMA AccountsStart ==
    ASSUME AC!Init
    PROVE  SoundInv
<1> SUFFICES AccountsInv
  BY DEF AC!Init, SoundInv
<1> DEFINE server == IF accountsRows = <<>> THEN NoServer ELSE accountsRows[1].server
           local  == FALSE
           r      == AC!Row(1, server, NoServer, local, 0)
<1>1. accountsRows = <<>> \/ (accountsRows = <<r>> /\ r \in Real)
  <2>1. CASE accountsRows = <<>>
    BY <2>1
  <2>2. ASSUME NEW h \in Servers, accountsRows = <<AC!Row(1, h, NoServer, FALSE, 0)>>
        PROVE  accountsRows = <<r>> /\ r \in Real
    <3>1. server = h
      BY <2>2 DEF AC!Row
    <3>2. accountsRows = <<r>>
      BY <2>2, <3>1
    <3>3. r \in Real
      BY <3>1 DEF AC!Row, Real, Record, Held, Tuned
    <3> QED BY <3>2, <3>3
  <2> QED BY <2>1, <2>2 DEF AC!Init
<1> HIDE DEF r
<1>2. accountsRows \in Seq(Real)
  <2>1. CASE accountsRows = <<>>
    <3>1. << >> \in Seq(Real)
      OBVIOUS
    <3> QED BY <2>1, <3>1
  <2>2. CASE accountsRows = <<r>> /\ r \in Real
    <3>1. <<r>> \in Seq(Real)
      BY <2>2
    <3> QED BY <2>2, <3>1
  <2> QED BY <1>1, <2>1, <2>2
<1>3. accountsRows # <<>> => 1 \in DOMAIN accountsRows /\ accountsRows[1] \in Real
  BY <1>1
<1>4. AC!Blank \in Record
  BY DEF AC!Blank, AC!Row, Record, Held, Tuned
<1>5. accountsRows # <<>> => accountsRows[1] \in Record
  BY <1>3 DEF Real
<1>6. /\ current = 1 /\ accountsOpen = (IF accountsRows = <<>> THEN AC!Blank ELSE accountsRows[1]) /\ session = AC!Blank
      /\ accountsQueued = {} /\ import.name = NoServer /\ ids = 1 /\ undone = FALSE /\ rekeyed = {}
  BY DEF AC!Init, AC!NoImport
<1>7. Typed
  <2>1. accountsOpen \in Record /\ session \in Record
    BY <1>4, <1>5, <1>6
  <2>2. current \in Nat \ {0} /\ ids \in Nat \ {0}
    BY <1>6
  <2>3. undone \in BOOLEAN
    BY <1>6
  <2>4. import.name \in Names \cup {NoServer}
    BY <1>6
  <2> QED BY <1>2, <2>1, <2>2, <2>3, <2>4 DEF Typed
<1>8. AC!OpenIsCurrent
  BY <1>3, <1>6 DEF AC!OpenIsCurrent, AC!Positions
<1>9. AC!ChangesAreOwned
  BY <1>6 DEF AC!ChangesAreOwned
<1>10. Closed
  BY <1>3, <1>6 DEF Closed, AC!Positions, Real
<1> QED BY <1>7, <1>8, <1>9, <1>10 DEF AccountsInv

LEMMA AccountsStay ==
    ASSUME SoundInv, [AC!Next]_(AC!vars)
    PROVE  SoundInv'
<1>1. CASE UNCHANGED AC!vars
  <2>1. UNCHANGED <<accountsRows, current, accountsOpen, session, import, accountsQueued, rekeyed, undone, ids>>
    BY <1>1 DEF AC!vars, AC!books, AC!count
  <2> QED BY <2>1 DEF SoundInv, AccountsInv, Typed, Closed, AC!OpenIsCurrent, AC!ChangesAreOwned, AC!Positions
<1>2. ASSUME AccountsInv, NEW i \in 1 .. (Len(accountsRows) + 1), NEW d \in Dialogs, AC!SaveDetails(i, d)
      PROVE  AccountsInv'
  <2>1. i \in Nat \ {0}
    OBVIOUS
  <2> QED BY <1>2, <2>1, SaveAgrees
<1>3. CASE AC!Next
  <2>1. undone' \in {undone, TRUE}
    <3>1. ASSUME AC!ImportEnds
          PROVE  undone' \in {undone, TRUE}
      BY <3>1 DEF AC!ImportEnds, SoundInv
    <3> QED BY <1>3, <3>1 DEF AC!Next, AC!Connected, AC!ConnectionLost, AC!Change, AC!Flushed, AC!Quit, AC!SaveDetails, AC!SwitchAccount,
          AC!RemoveAccount, AC!SavePrefs, AC!MoveAccount, AC!ImportThunderbird, AC!books
  <2>2. ASSUME undone = FALSE
        PROVE  undone' \/ AccountsInv'
    <3>1. AccountsInv
      BY <2>2 DEF SoundInv
    <3> QED BY <1>2, <1>3, <3>1, QuietAgrees, PrefsAgree, RemoveAgrees, MoveAgrees, ImportAgrees, OpenAgrees DEF AC!Next
  <2>3. undone \in BOOLEAN
    BY DEF SoundInv
  <2>4. CASE undone = TRUE
    BY <2>1, <2>4 DEF SoundInv
  <2>5. CASE undone = FALSE
    <3>1. CASE undone' = TRUE
      BY <3>1 DEF SoundInv
    <3>2. CASE undone' = FALSE
      BY <2>2, <2>5, <3>2 DEF SoundInv
    <3> QED BY <2>1, <2>5, <3>1, <3>2
  <2> QED BY <2>3, <2>4, <2>5
<1> QED BY <1>1, <1>3

LEMMA SoundAgrees ==
    ASSUME SoundInv
    PROVE  AC!AccountsAgree
BY DEF SoundInv, AccountsInv, AC!AccountsAgree, AC!OpenIsCurrent, AC!ChangesAreOwned

(*****************************************************************************)
(* SF, what is filed as spam (SpamFiling).  A sender called "not spam"       *)
(* stays on the list of those, and no row of its mail, listed, hidden or     *)
(* yet to come, is marked.                                                   *)
(*****************************************************************************)

Marks == [at : {"none", "here", "hidden"}, state : 0 .. 4, spam : BOOLEAN, body : BOOLEAN]
Marked == /\ cache \in [SF!Folders -> [Letters -> Marks]]
          /\ spamSaid \in [Letters -> {"nothing", "ham", "junk"}]
          /\ ~wronged

\* A row that is not there is not marked, so that it is not when it comes back.
Bare == \A f \in SF!Folders, l \in Letters : cache[f][l].at = "none" => ~cache[f][l].spam

\* An answer is kept by its sender, and has reached every row of the sender's mail.
Answered == \A l \in Letters : spamSaid[l] = "ham" => /\ SF!Allowed(l)
                                                      /\ \A f \in SF!Folders : ~cache[f][l].spam
AnswerInv == Marked /\ Bare /\ Answered

-----------------------------------------------------------------------------
LEMMA AnswersStart ==
    ASSUME SF!Init
    PROVE  AnswerInv
<1>1. SF!NoRow \in Marks /\ ~SF!NoRow.spam
  BY DEF SF!NoRow, Marks
<1>2. cache = [f \in SF!Folders |-> [l \in Letters |-> SF!NoRow]] /\ spamSaid = [l \in Letters |-> "nothing"] /\ wronged = FALSE
  BY DEF SF!Init
<1> QED BY <1>1, <1>2 DEF AnswerInv, Marked, Bare, Answered

\* A row a step may leave behind: one not marked that was not, or marked by a
\* verdict the user did not forbid.
Keeps(new, old, l) == /\ new \in Marks
                      /\ new.spam => old.spam \/ ~SF!Allowed(l)
                      /\ new.at = "none" => ~new.spam

\* A step that leaves the answers as they are, and each row a good one.
LEMMA RowsKeepAnswers ==
    ASSUME AnswerInv, cache' \in [SF!Folders -> [Letters -> Marks]], ~wronged', UNCHANGED <<allow, spamSaid>>,
           \A f \in SF!Folders, l \in Letters : Keeps(cache'[f][l], cache[f][l], l)
    PROVE  AnswerInv'
BY DEF AnswerInv, Marked, Bare, Answered, Keeps, SF!Allowed

LEMMA VerdictIsMild ==
    ASSUME NEW l \in Letters, NEW f, NEW base \in 0 .. 2, NEW b \in BOOLEAN
    PROVE  /\ SF!Verdict(l, f, base, b).state \in 0 .. 4
           /\ SF!Verdict(l, f, base, b).spam \in BOOLEAN
           /\ SF!Verdict(l, f, base, b).spam => ~SF!Allowed(l)
<1> DEFINE rec(s, m) == [state |-> s, spam |-> m]
           no  == FALSE
           bad == b \/ f = "junk"
           v   == SF!Verdict(l, f, base, b)
<1>1. \A s, m : rec(s, m).state = s /\ rec(s, m).spam = m
  OBVIOUS
<1>2. no \in BOOLEAN /\ bad \in BOOLEAN /\ ~no /\ {4, 3, base} \subseteq 0 .. 4
  OBVIOUS
<1>3. v = IF SF!UserNotSpam(l) THEN rec(4, no) ELSE IF SF!Exempt(l, f) THEN rec(3, no) ELSE rec(base, bad)
  BY DEF SF!Verdict
<1>4. SF!Allowed(l) => SF!UserNotSpam(l)
  BY DEF SF!UserNotSpam
<1> HIDE DEF rec, no, bad, v
<1>5. CASE SF!UserNotSpam(l)
  <2>1. v.state = 4 /\ v.spam = no
    BY <1>1, <1>3, <1>5
  <2> QED BY <1>2, <2>1 DEF v
<1>6. CASE ~SF!UserNotSpam(l) /\ SF!Exempt(l, f)
  <2>1. v.state = 3 /\ v.spam = no
    BY <1>1, <1>3, <1>6
  <2> QED BY <1>2, <2>1 DEF v
<1>7. CASE ~SF!UserNotSpam(l) /\ ~SF!Exempt(l, f)
  <2>1. v.state = base /\ v.spam = bad
    BY <1>1, <1>3, <1>7
  <2> QED BY <1>2, <1>4, <1>7, <2>1 DEF v
<1> QED BY <1>5, <1>6, <1>7

\* A row with one of its fields changed.
At(r, a)   == [r EXCEPT !.at = a]
Bodied(r)  == [r EXCEPT !.body = TRUE]
Judged(r, v) == [r EXCEPT !.body = TRUE, !.state = v.state, !.spam = v.spam]
Excused(r) == [r EXCEPT !.state = 4, !.spam = FALSE]

LEMMA RowFields ==
    ASSUME NEW r \in Marks, NEW a \in {"none", "here", "hidden"}, NEW v, v.state \in 0 .. 4, v.spam \in BOOLEAN
    PROVE  /\ At(r, a) \in Marks /\ At(r, a).spam = r.spam /\ At(r, a).at = a
           /\ Bodied(r) \in Marks /\ Bodied(r).spam = r.spam /\ Bodied(r).at = r.at
           /\ Judged(r, v) \in Marks /\ Judged(r, v).spam = v.spam /\ Judged(r, v).at = r.at
           /\ Excused(r) \in Marks /\ ~Excused(r).spam /\ Excused(r).at = r.at
<1> DEFINE rec(c, t, m, d) == [at |-> c, state |-> t, spam |-> m, body |-> d]
           yes == TRUE
           no == FALSE
<1>1. /\ r.at \in {"none", "here", "hidden"} /\ r.state \in 0 .. 4 /\ r.spam \in BOOLEAN /\ r.body \in BOOLEAN
      /\ r = rec(r.at, r.state, r.spam, r.body)
  BY DEF Marks
<1>2. \A c, t, m, d : /\ rec(c, t, m, d).at = c /\ rec(c, t, m, d).spam = m
                      /\ rec(c, t, m, d) \in Marks <=> c \in {"none", "here", "hidden"} /\ t \in 0 .. 4 /\ m \in BOOLEAN /\ d \in BOOLEAN
  BY DEF Marks
<1>3. yes \in BOOLEAN /\ no \in BOOLEAN /\ ~no /\ 4 \in 0 .. 4
  OBVIOUS
<1>4. \A c, t, m, d, x :
        /\ [rec(c, t, m, d) EXCEPT !.at = x] = rec(x, t, m, d)
        /\ [rec(c, t, m, d) EXCEPT !.body = x] = rec(c, t, m, x)
        /\ [rec(c, t, m, d) EXCEPT !.state = x] = rec(c, x, m, d)
        /\ [rec(c, t, m, d) EXCEPT !.spam = x] = rec(c, t, x, d)
  OBVIOUS
<1>5. Bodied(r) = [r EXCEPT !.body = yes]
  BY DEF Bodied
<1>6. Judged(r, v) = [[[r EXCEPT !.body = yes] EXCEPT !.state = v.state] EXCEPT !.spam = v.spam]
  BY DEF Judged
<1>7. Excused(r) = [[r EXCEPT !.state = 4] EXCEPT !.spam = no]
  BY DEF Excused
<1> HIDE DEF rec, yes, no
<1>8. At(r, a) = rec(a, r.state, r.spam, r.body)
  BY <1>1, <1>4 DEF At
<1>9. Bodied(r) = rec(r.at, r.state, r.spam, yes)
  BY <1>1, <1>4, <1>5
<1>10. Judged(r, v) = rec(r.at, v.state, v.spam, yes)
  <2>1. [r EXCEPT !.body = yes] = rec(r.at, r.state, r.spam, yes)
    BY <1>1, <1>4
  <2>2. [rec(r.at, r.state, r.spam, yes) EXCEPT !.state = v.state] = rec(r.at, v.state, r.spam, yes)
    BY <1>4
  <2>3. [rec(r.at, v.state, r.spam, yes) EXCEPT !.spam = v.spam] = rec(r.at, v.state, v.spam, yes)
    BY <1>4
  <2> QED BY <1>6, <2>1, <2>2, <2>3
<1>11. Excused(r) = rec(r.at, 4, no, r.body)
  <2>1. [r EXCEPT !.state = 4] = rec(r.at, 4, r.spam, r.body)
    BY <1>1, <1>4
  <2>2. [rec(r.at, 4, r.spam, r.body) EXCEPT !.spam = no] = rec(r.at, 4, no, r.body)
    BY <1>4
  <2> QED BY <1>7, <2>1, <2>2
<1>12. At(r, a) \in Marks /\ At(r, a).spam = r.spam /\ At(r, a).at = a
  BY <1>1, <1>2, <1>8
<1>13. Bodied(r) \in Marks /\ Bodied(r).spam = r.spam /\ Bodied(r).at = r.at
  BY <1>1, <1>2, <1>3, <1>9
<1>14. Judged(r, v) \in Marks /\ Judged(r, v).spam = v.spam /\ Judged(r, v).at = r.at
  BY <1>1, <1>2, <1>3, <1>10
<1>15. Excused(r) \in Marks /\ Excused(r).spam = no /\ Excused(r).at = r.at
  BY <1>1, <1>2, <1>3, <1>11
<1> QED BY <1>3, <1>12, <1>13, <1>14, <1>15

LEMMA AtFields ==
    ASSUME NEW r \in Marks, NEW a \in {"none", "here", "hidden"}
    PROVE  At(r, a) \in Marks /\ At(r, a).spam = r.spam /\ At(r, a).at = a
<1> DEFINE v == [state |-> 4, spam |-> TRUE]
<1>1. v.state \in 0 .. 4 /\ v.spam \in BOOLEAN
  OBVIOUS
<1> HIDE DEF v
<1> QED BY <1>1, RowFields

LEMMA BodiedFields ==
    ASSUME NEW r \in Marks
    PROVE  /\ Bodied(r) \in Marks /\ Bodied(r).spam = r.spam /\ Bodied(r).at = r.at
           /\ Excused(r) \in Marks /\ ~Excused(r).spam /\ Excused(r).at = r.at
<1> DEFINE v == [state |-> 4, spam |-> TRUE]
           a == "here"
<1>1. v.state \in 0 .. 4 /\ v.spam \in BOOLEAN /\ a \in {"none", "here", "hidden"}
  OBVIOUS
<1> HIDE DEF v, a
<1> QED BY <1>1, RowFields

LEMMA JudgedFields ==
    ASSUME NEW r \in Marks, NEW v, v.state \in 0 .. 4, v.spam \in BOOLEAN
    PROVE  Judged(r, v) \in Marks /\ Judged(r, v).spam = v.spam /\ Judged(r, v).at = r.at
<1>1. "here" \in {"none", "here", "hidden"}
  OBVIOUS
<1> QED BY <1>1, RowFields

LEMMA StoredIsMild ==
    ASSUME NEW l \in Letters, NEW f \in SF!Folders, NEW r \in Marks, r.at = "none" => ~r.spam
    PROVE  Keeps(SF!Stored(r, SF!HeadVerdict(l, f)), r, l)
<1> DEFINE v == SF!HeadVerdict(l, f)
           spammy == look[l] = "spam"
<1>1. v.state \in 0 .. 4 /\ v.spam \in BOOLEAN /\ (v.spam => ~SF!Allowed(l))
  <2>1. v = SF!Verdict(l, f, 1, spammy) /\ spammy \in BOOLEAN
    BY DEF SF!HeadVerdict
  <2> HIDE DEF v, spammy
  <2> QED BY <2>1, VerdictIsMild
<1> HIDE DEF v
<1>2. CASE r.state > v.state
  BY <1>2 DEF SF!Stored, Keeps, v
<1>3. CASE ~(r.state > v.state)
  <2> DEFINE a == IF r.at = "none" THEN "here" ELSE r.at
             q == [at |-> a, state |-> v.state, spam |-> v.spam, body |-> r.body]
  <2>1. SF!Stored(r, v) = q
    BY <1>3 DEF SF!Stored, Marks
  <2>2. a \in {"here", "hidden"} /\ r.body \in BOOLEAN
    BY DEF Marks
  <2> HIDE DEF a
  <2>3. q \in Marks /\ q.spam = v.spam /\ q.at = a
    BY <1>1, <2>2 DEF Marks
  <2> HIDE DEF q
  <2>4. Keeps(q, r, l)
    BY <1>1, <2>2, <2>3 DEF Keeps
  <2> QED BY <2>1, <2>4 DEF v
<1> QED BY <1>2, <1>3

LEMMA SameKeeps ==
    ASSUME AnswerInv
    PROVE  \A f \in SF!Folders, l \in Letters : Keeps(cache[f][l], cache[f][l], l)
BY DEF AnswerInv, Marked, Bare, Keeps

LEMMA HiddenKeeps ==
    ASSUME NEW rows \in [SF!Folders -> [Letters -> Marks]], NEW f \in SF!Folders, NEW ls
    PROVE  /\ SF!Hidden(rows, f, ls) \in [SF!Folders -> [Letters -> Marks]]
           /\ \A g \in SF!Folders, l \in Letters :
                 /\ SF!Hidden(rows, f, ls)[g][l].spam = rows[g][l].spam
                 /\ SF!Hidden(rows, f, ls)[g][l].at \in {rows[g][l].at, "hidden"}
                 /\ ~(g = f /\ l \in ls) => SF!Hidden(rows, f, ls)[g][l] = rows[g][l]
                 /\ g = f /\ l \in ls => SF!Hidden(rows, f, ls)[g][l].at = "hidden"
<1>1. SF!Hidden(rows, f, ls) = [rows EXCEPT ![f] = [l \in Letters |-> IF l \in ls THEN At(rows[f][l], "hidden") ELSE rows[f][l]]]
  BY DEF SF!Hidden, At
<1>2. \A g \in SF!Folders, l \in Letters : SF!Hidden(rows, f, ls)[g][l] = IF g = f /\ l \in ls THEN At(rows[f][l], "hidden") ELSE rows[g][l]
  BY <1>1
<1>3. SF!Hidden(rows, f, ls) \in [SF!Folders -> [Letters -> Marks]]
  BY <1>1, AtFields
<1>4. \A g \in SF!Folders, l \in Letters : /\ rows[g][l] \in Marks /\ At(rows[g][l], "hidden").spam = rows[g][l].spam
                                       /\ At(rows[g][l], "hidden").at = "hidden"
  BY AtFields
<1> QED BY <1>2, <1>3, <1>4

LEMMA HidingKeeps ==
    ASSUME NEW rows \in [SF!Folders -> [Letters -> Marks]], NEW f \in SF!Folders, NEW ls,
           \A g \in SF!Folders, l \in Letters : Keeps(rows[g][l], cache[g][l], l),
           \A l \in Letters : l \in ls => rows[f][l].at # "none"
    PROVE  \A g \in SF!Folders, l \in Letters : Keeps(SF!Hidden(rows, f, ls)[g][l], cache[g][l], l)
<1> SUFFICES ASSUME NEW g \in SF!Folders, NEW l \in Letters
             PROVE  Keeps(SF!Hidden(rows, f, ls)[g][l], cache[g][l], l)
  OBVIOUS
<1>1. CASE g = f /\ l \in ls
  BY <1>1, HiddenKeeps DEF Keeps
<1>2. CASE ~(g = f /\ l \in ls)
  <2>1. SF!Hidden(rows, f, ls)[g][l] = rows[g][l]
    BY <1>2, HiddenKeeps
  <2> QED BY <2>1
<1> QED BY <1>1, <1>2

-----------------------------------------------------------------------------
LEMMA SyncAnswers ==
    ASSUME AnswerInv, NEW f \in SF!Folders, SF!Sync(f)
    PROVE  AnswerInv'
<1> DEFINE there == {l \in Letters : spamSrv[l] = f}
           arrived == SF!Arrivals(f, there)
           rows  == [cache EXCEPT ![f] = arrived]
           new   == {l \in there : cache[f][l].at = "none"}
           delta == f = "inbox" /\ \E l \in Letters : cache[f][l].at # "none"
           filed == {l \in new : delta /\ arrived[l].state < 3 /\ arrived[l].spam}
<1>1. cache \in [SF!Folders -> [Letters -> Marks]]
  BY DEF AnswerInv, Marked
<1>2. \A l \in Letters : Keeps(arrived[l], cache[f][l], l)
  BY <1>1, StoredIsMild, SameKeeps DEF SF!Arrivals, AnswerInv, Bare
<1>3. arrived \in [Letters -> Marks]
  BY <1>2 DEF Keeps, SF!Arrivals
<1>4. /\ cache' = SF!Hidden(rows, f, filed) /\ UNCHANGED <<allow, spamSaid>>
      /\ wronged' = (wronged \/ \E l \in filed : spamSaid[l] = "ham")
  BY DEF SF!Sync, SF!Teach
<1> HIDE DEF arrived
<1>5. rows \in [SF!Folders -> [Letters -> Marks]] /\ \A g \in SF!Folders, l \in Letters : Keeps(rows[g][l], cache[g][l], l)
  BY <1>1, <1>2, <1>3, SameKeeps
<1>6. \A l \in Letters : l \in filed => rows[f][l].spam /\ rows[f][l].at # "none"
  BY <1>1, <1>2 DEF Keeps
<1>7. \A l \in filed : spamSaid[l] # "ham"
  <2>1. \A l \in filed : l \in Letters /\ arrived[l].spam
    OBVIOUS
  <2> QED BY <2>1, <1>2 DEF Keeps, AnswerInv, Answered
<1> HIDE DEF rows, filed
<1>8. cache' \in [SF!Folders -> [Letters -> Marks]]
  BY <1>4, <1>5, HiddenKeeps
<1>9. \A g \in SF!Folders, l \in Letters : Keeps(cache'[g][l], cache[g][l], l)
  BY <1>4, <1>5, <1>6, HidingKeeps
<1>10. ~wronged'
  BY <1>4, <1>7 DEF AnswerInv, Marked
<1> QED BY <1>4, <1>8, <1>9, <1>10, RowsKeepAnswers

LEMMA RescoreAnswers ==
    ASSUME AnswerInv, NEW l \in Letters, NEW f \in SF!Folders, SF!Rescore(l, f)
    PROVE  AnswerInv'
<1> DEFINE v    == SF!BodyVerdict(l, f)
           row  == [cache[f][l] EXCEPT !.body = TRUE, !.state = v.state, !.spam = v.spam]
           file == f = "inbox" /\ l \in watch /\ v.state = 2 /\ v.spam
           rows == [cache EXCEPT ![f][l] = row]
<1>1. cache \in [SF!Folders -> [Letters -> Marks]] /\ cache[f][l].at = "here"
  BY DEF AnswerInv, Marked, SF!Rescore, SF!Here
<1>2. v.state \in 0 .. 4 /\ v.spam \in BOOLEAN /\ (v.spam => ~SF!Allowed(l))
  <2> DEFINE spammy == look[l] # "ham" \/ (Text[l] \in learned /\ f # "junk")
  <2>1. v = SF!Verdict(l, f, 2, spammy) /\ spammy \in BOOLEAN
    BY DEF SF!BodyVerdict
  <2> HIDE DEF v, spammy
  <2> QED BY <2>1, VerdictIsMild
<1>3. /\ cache' = IF file THEN SF!Hidden(rows, f, {l}) ELSE rows
      /\ wronged' = (wronged \/ (file /\ spamSaid[l] = "ham")) /\ UNCHANGED <<allow, spamSaid>>
  BY DEF SF!Rescore, SF!Teach
<1> HIDE DEF v
<1>4. row \in Marks /\ row.spam = v.spam /\ row.at = "here"
  <2>1. row = Judged(cache[f][l], v)
    BY DEF Judged
  <2>2. cache[f][l] \in Marks
    BY <1>1
  <2> HIDE DEF row
  <2> QED BY <1>1, <1>2, <2>1, <2>2, JudgedFields
<1> HIDE DEF row
<1>5. Keeps(row, cache[f][l], l)
  BY <1>2, <1>4 DEF Keeps
<1>6. /\ rows \in [SF!Folders -> [Letters -> Marks]]
      /\ \A g \in SF!Folders, k \in Letters : rows[g][k] = IF g = f /\ k = l THEN row ELSE cache[g][k]
  BY <1>1, <1>4
<1> HIDE DEF rows
<1>7. \A g \in SF!Folders, k \in Letters : Keeps(rows[g][k], cache[g][k], k)
  BY <1>5, <1>6, SameKeeps
<1>8. ~wronged'
  BY <1>2, <1>3 DEF AnswerInv, Marked, Answered
<1>9. CASE file
  <2>1. cache' = SF!Hidden(rows, f, {l})
    BY <1>3, <1>9
  <2>2. cache' \in [SF!Folders -> [Letters -> Marks]]
    BY <1>6, <2>1, HiddenKeeps
  <2>3. \A k \in Letters : k \in {l} => rows[f][k].at # "none"
    BY <1>4, <1>6
  <2>4. \A g \in SF!Folders, k \in Letters : Keeps(cache'[g][k], cache[g][k], k)
    BY <1>6, <1>7, <2>1, <2>3, HidingKeeps
  <2> QED BY <1>3, <1>8, <2>2, <2>4, RowsKeepAnswers
<1>10. CASE ~file
  <2>1. cache' = rows
    BY <1>3, <1>10
  <2> QED BY <1>3, <1>6, <1>7, <1>8, <2>1, RowsKeepAnswers
<1> QED BY <1>9, <1>10

LEMMA CachingAnswers ==
    ASSUME AnswerInv, NEW l \in Letters, NEW f \in SF!Folders, SF!CacheBody(l, f)
    PROVE  AnswerInv'
<1>1. cache \in [SF!Folders -> [Letters -> Marks]]
  BY DEF AnswerInv, Marked
<1>2. cache' = [cache EXCEPT ![f][l] = Bodied(cache[f][l])] /\ UNCHANGED <<allow, spamSaid, wronged>>
  BY DEF SF!CacheBody, SF!Teach, Bodied
<1>3. \A g \in SF!Folders, k \in Letters : cache'[g][k] = IF g = f /\ k = l THEN Bodied(cache[f][l]) ELSE cache[g][k]
  BY <1>1, <1>2
<1>4. Bodied(cache[f][l]) \in Marks
  BY <1>1, BodiedFields
<1>5. cache' \in [SF!Folders -> [Letters -> Marks]]
  BY <1>1, <1>2, <1>4
<1>6. \A g \in SF!Folders, k \in Letters : Keeps(cache'[g][k], cache[g][k], k)
  <2>1. Bodied(cache[f][l]).spam = cache[f][l].spam /\ Bodied(cache[f][l]).at = cache[f][l].at
    BY <1>1, BodiedFields
  <2>2. Keeps(Bodied(cache[f][l]), cache[f][l], l)
    BY <1>4, <2>1, SameKeeps DEF Keeps
  <2> QED BY <1>3, <2>2, SameKeeps
<1> QED BY <1>2, <1>5, <1>6, RowsKeepAnswers DEF AnswerInv, Marked

-----------------------------------------------------------------------------
LEMMA ClearedRows ==
    ASSUME AnswerInv, NEW ls
    PROVE  /\ SF!Cleared(cache, ls) \in [SF!Folders -> [Letters -> Marks]]
           /\ \A g \in SF!Folders, k \in Letters :
                /\ SF!Cleared(cache, ls)[g][k].at = cache[g][k].at
                /\ SF!Cleared(cache, ls)[g][k].spam => cache[g][k].spam /\ k \notin ls
<1>1. cache \in [SF!Folders -> [Letters -> Marks]]
  BY DEF AnswerInv, Marked
<1> DEFINE q(g, k) == IF k \in ls /\ cache[g][k].at # "none" THEN Excused(cache[g][k]) ELSE cache[g][k]
<1>2. \A g \in SF!Folders, k \in Letters : q(g, k) \in Marks /\ q(g, k).at = cache[g][k].at /\ (q(g, k).spam => cache[g][k].spam /\ k \notin ls)
  <2> SUFFICES ASSUME NEW g \in SF!Folders, NEW k \in Letters
               PROVE  q(g, k) \in Marks /\ q(g, k).at = cache[g][k].at /\ (q(g, k).spam => cache[g][k].spam /\ k \notin ls)
    OBVIOUS
  <2>1. cache[g][k] \in Marks /\ (cache[g][k].at = "none" => ~cache[g][k].spam)
    BY <1>1 DEF AnswerInv, Bare
  <2>2. Excused(cache[g][k]) \in Marks /\ ~Excused(cache[g][k]).spam /\ Excused(cache[g][k]).at = cache[g][k].at
    BY <2>1, BodiedFields
  <2>3. CASE k \in ls /\ cache[g][k].at # "none"
    BY <2>2, <2>3
  <2>4. CASE ~(k \in ls /\ cache[g][k].at # "none")
    BY <2>1, <2>4
  <2> QED BY <2>3, <2>4
<1>3. SF!Cleared(cache, ls) = [g \in SF!Folders |-> [k \in Letters |-> q(g, k)]]
  BY DEF SF!Cleared, Excused
<1> HIDE DEF q
<1> QED BY <1>2, <1>3

\* "Not spam" reaches the rows of the sender, and the sender.
LEMMA AbsolvedAnswers ==
    ASSUME AnswerInv, NEW l \in Letters, SF!Absolved(l), NEW rows \in [SF!Folders -> [Letters -> Marks]], cache' = rows,
           \A g \in SF!Folders, k \in Letters :
                /\ rows[g][k].at = "none" => cache[g][k].at = "none"
                /\ rows[g][k].spam => cache[g][k].spam /\ k \notin SF!OfSender(l)
    PROVE  AnswerInv'
<1>1. /\ allow' = allow \cup {From[l]} /\ UNCHANGED wronged
      /\ spamSaid' = [k \in Letters |-> IF k \in SF!OfSender(l) THEN "ham" ELSE spamSaid[k]]
  BY DEF SF!Absolved, SF!Say
<1>2. Marked'
  BY <1>1 DEF AnswerInv, Marked
<1>3. Bare'
  BY DEF AnswerInv, Bare
<1>4. Answered'
  BY <1>1 DEF AnswerInv, Answered, SF!Allowed, SF!OfSender
<1> QED BY <1>2, <1>3, <1>4 DEF AnswerInv

LEMMA NotSpamAnswers ==
    ASSUME AnswerInv, NEW l \in Letters, SF!NotSpam(l) \/ SF!NotSpamHere(l)
    PROVE  AnswerInv'
<1> DEFINE rows == SF!Cleared(cache, SF!OfSender(l))
<1>1. /\ rows \in [SF!Folders -> [Letters -> Marks]]
      /\ \A g \in SF!Folders, k \in Letters : /\ rows[g][k].at = cache[g][k].at
                                              /\ rows[g][k].spam => cache[g][k].spam /\ k \notin SF!OfSender(l)
  BY ClearedRows
<1>2. CASE SF!NotSpamHere(l)
  <2>1. SF!Absolved(l) /\ cache' = rows
    BY <1>2 DEF SF!NotSpamHere
  <2> QED BY <1>1, <2>1, AbsolvedAnswers
<1>3. CASE SF!NotSpam(l)
  <2> DEFINE gone == SF!Hidden(rows, "junk", {l})
  <2>1. SF!Absolved(l) /\ cache' = gone
    BY <1>3 DEF SF!NotSpam
  <2> HIDE DEF rows
  <2>2. /\ gone \in [SF!Folders -> [Letters -> Marks]]
        /\ \A g \in SF!Folders, k \in Letters : gone[g][k].spam = rows[g][k].spam /\ gone[g][k].at \in {rows[g][k].at, "hidden"}
    BY <1>1, HiddenKeeps DEF SF!Folders
  <2> HIDE DEF gone
  <2>3. \A g \in SF!Folders, k \in Letters : /\ gone[g][k].at = "none" => cache[g][k].at = "none"
                                             /\ gone[g][k].spam => cache[g][k].spam /\ k \notin SF!OfSender(l)
    BY <1>1, <2>2
  <2> QED BY <2>1, <2>2, <2>3, AbsolvedAnswers
<1> QED BY <1>2, <1>3

LEMMA JunkAnswers ==
    ASSUME AnswerInv, NEW l \in Letters, NEW withdraw \in BOOLEAN, SF!Junk(l, withdraw)
    PROVE  AnswerInv'
<1>1. cache \in [SF!Folders -> [Letters -> Marks]]
  BY DEF AnswerInv, Marked
<1>2. /\ allow' = IF withdraw THEN allow \ {From[l]} ELSE allow
      /\ IF withdraw THEN spamSaid' = [k \in Letters |-> IF k \in SF!OfSender(l) THEN "junk" ELSE spamSaid[k]]
                     ELSE spamSaid' = [spamSaid EXCEPT ![l] = "junk"]
      /\ spamSaid \in [Letters -> {"nothing", "ham", "junk"}]
      /\ spamOpen = "inbox" /\ cache' = SF!Hidden(cache, "inbox", {l}) /\ UNCHANGED wronged
  BY DEF SF!Junk, SF!Say, AnswerInv, Marked
<1>3. /\ cache' \in [SF!Folders -> [Letters -> Marks]]
      /\ \A g \in SF!Folders, k \in Letters : cache'[g][k].spam = cache[g][k].spam /\ cache'[g][k].at \in {cache[g][k].at, "hidden"}
  BY <1>1, <1>2, HiddenKeeps DEF SF!Folders
<1>4. Marked'
  BY <1>2, <1>3 DEF AnswerInv, Marked
<1>5. Bare'
  BY <1>3 DEF AnswerInv, Bare
<1>6. Answered'
  <2> SUFFICES ASSUME NEW k \in Letters, spamSaid'[k] = "ham"
               PROVE  From[k] \in allow' /\ \A g \in SF!Folders : ~cache'[g][k].spam
    BY DEF Answered, SF!Allowed
  <2>1. spamSaid[k] = "ham" /\ k # l /\ (withdraw => From[k] # From[l])
    BY <1>2 DEF SF!OfSender
  <2>2. From[k] \in allow /\ \A g \in SF!Folders : ~cache[g][k].spam
    BY <2>1 DEF AnswerInv, Answered, SF!Allowed
  <2>3. From[k] \in allow'
    BY <1>2, <2>1, <2>2
  <2> QED BY <1>3, <2>2, <2>3
<1> QED BY <1>4, <1>5, <1>6 DEF AnswerInv

-----------------------------------------------------------------------------
LEMMA ConfirmAnswers ==
    ASSUME AnswerInv, SF!Confirm
    PROVE  AnswerInv'
<1> DEFINE op == Head(spamQueue)
           emptied == [l \in Letters |-> IF l \in op.on THEN SF!NoRow ELSE cache[op.from][l]]
<1>1. cache \in [SF!Folders -> [Letters -> Marks]]
  BY DEF AnswerInv, Marked
<1>2. cache' = [cache EXCEPT ![op.from] = emptied] /\ UNCHANGED <<allow, spamSaid, wronged>>
  BY DEF SF!Confirm, SF!Teach
<1>3. SF!NoRow \in Marks /\ ~SF!NoRow.spam
  BY DEF SF!NoRow, Marks
<1>4. \A g \in SF!Folders, k \in Letters : cache'[g][k] \in {cache[g][k], SF!NoRow}
  BY <1>1, <1>2
<1>5. cache' \in [SF!Folders -> [Letters -> Marks]]
  BY <1>1, <1>2, <1>3
<1>6. \A g \in SF!Folders, k \in Letters : Keeps(cache'[g][k], cache[g][k], k)
  BY <1>3, <1>4, SameKeeps DEF Keeps
<1> QED BY <1>2, <1>5, <1>6, RowsKeepAnswers DEF AnswerInv, Marked

LEMMA RefuseAnswers ==
    ASSUME AnswerInv, SF!Refuse
    PROVE  AnswerInv'
<1> DEFINE op == Head(spamQueue)
           back == [l \in Letters |-> IF l \in op.on THEN At(cache[op.from][l], "here") ELSE cache[op.from][l]]
<1>1. cache \in [SF!Folders -> [Letters -> Marks]]
  BY DEF AnswerInv, Marked
<1>2. cache' = [cache EXCEPT ![op.from] = back] /\ UNCHANGED <<allow, spamSaid, wronged>>
  BY DEF SF!Refuse, SF!Teach, At
<1>3. \A g \in SF!Folders, k \in Letters : cache'[g][k] \in {cache[g][k], At(cache[g][k], "here")}
  BY <1>1, <1>2
<1>4. \A g \in SF!Folders, k \in Letters : Keeps(At(cache[g][k], "here"), cache[g][k], k)
  BY <1>1, AtFields DEF Keeps
<1>5. \A g \in SF!Folders, k \in Letters : Keeps(cache'[g][k], cache[g][k], k)
  BY <1>3, <1>4, SameKeeps
<1>6. cache' \in [SF!Folders -> [Letters -> Marks]]
  BY <1>1, <1>2, <1>5 DEF Keeps
<1> QED BY <1>2, <1>5, <1>6, RowsKeepAnswers DEF AnswerInv, Marked

LEMMA AnswersStay ==
    ASSUME AnswerInv, [SF!Next]_(SF!vars)
    PROVE  AnswerInv'
<1>1. CASE UNCHANGED <<cache, spamSaid, allow, wronged>>
  BY <1>1 DEF AnswerInv, Marked, Bare, Answered, SF!Allowed
<1>2. CASE UNCHANGED SF!vars
  BY <1>1, <1>2 DEF SF!vars
<1>3. ASSUME NEW l \in Letters, NEW f \in SF!Folders, SF!Deliver(l, f) \/ SF!OpenFolder(f)
      PROVE  AnswerInv'
  BY <1>1, <1>3 DEF SF!Deliver, SF!OpenFolder, SF!Teach
<1>4. CASE \E f \in SF!Folders : SF!OpenFolder(f)
  BY <1>1, <1>4 DEF SF!OpenFolder, SF!Teach
<1>5. CASE SF!Next
  BY <1>3, <1>4, <1>5, SyncAnswers, RescoreAnswers, CachingAnswers, NotSpamAnswers, JunkAnswers, ConfirmAnswers, RefuseAnswers
     DEF SF!Next
<1> QED BY <1>2, <1>5

LEMMA AnswersMean ==
    ASSUME AnswerInv
    PROVE  SF!AnswersStand
BY DEF AnswerInv, Marked, Answered, SF!AnswersStand, SF!Here, SF!Folders

(*****************************************************************************)
(* SC, the local score (SpamScore).  No rule tells a message apart from      *)
(* itself without the failures that stand beside arc=pass.                   *)
(*****************************************************************************)

\* Two messages the rules cannot tell apart but by a failure that arc excuses.
Spared(m, s) ==
  /\ m.has = s.has /\ m.passed = s.passed /\ m.arc = s.arc /\ m.submitted = s.submitted
  /\ m.head = s.head /\ m.crypto = s.crypto /\ m.arc /\ s.arc

LEMMA SparedRules ==
    ASSUME NEW m, NEW s, Spared(m, s)
    PROVE  /\ SC!Exempt(m) = SC!Exempt(s)
           /\ SC!UserRules(m) = SC!UserRules(s)
           /\ SC!Fired(m) = SC!Fired(s)
           /\ SC!LinkRules(m) = SC!LinkRules(s)
<1> DEFINE own(x) == SC!Has(x, "own") /\ SC!AuthFailed(x)
           bare(x) == SC!Has(x, "own") /\ ~x.passed /\ ~x.arc /\ ~x.submitted
           known(x) == SC!Has(x, "known") /\ SC!AuthFailed(x)
           failed(x) == SC!AuthFailed(x)
           soft(x) == x.soft /\ ~x.arc
           contact(x) == SC!Has(x, "known") /\ ~SC!AuthFailed(x) /\ ~SC!Has(x, "own") /\ ~SC!Has(x, "in-junk")
           long(x) == x.passed /\ ~SC!AuthFailed(x) /\ SC!Has(x, "familiar")
           good(x) == x.passed /\ ~SC!AuthFailed(x)
           had(x) == SC!Has(x, "familiar") /\ ~SC!AuthFailed(x)
<1>1. \A x : SC!Has(m, x) = SC!Has(s, x)
  BY DEF Spared, SC!Has
<1>2. ~SC!AuthFailed(m) /\ ~SC!AuthFailed(s)
  BY DEF Spared, SC!AuthFailed
<1>3. SC!ListMail(m) = SC!ListMail(s) /\ SC!Relayed(m) = SC!Relayed(s) /\ SC!OwnLinks(m) = SC!OwnLinks(s)
  BY <1>1, <1>2 DEF Spared, SC!ListMail, SC!Relayed, SC!OwnLinks
<1>4. SC!Exempt(m) = SC!Exempt(s)
  BY <1>1, <1>2 DEF Spared, SC!Exempt
<1>5. /\ SC!UserRules(m) = SC!UserRules(s) /\ SC!TransportRules(m) = SC!TransportRules(s)
      /\ SC!SoftwareRules(m) = SC!SoftwareRules(s) /\ SC!SubjectRules(m) = SC!SubjectRules(s)
      /\ SC!AddressedRules(m) = SC!AddressedRules(s) /\ SC!AttachmentRules(m) = SC!AttachmentRules(s)
      /\ SC!BodyRules(m) = SC!BodyRules(s) /\ SC!PitchRules(m) = SC!PitchRules(s) /\ SC!DomainRules(m) = SC!DomainRules(s)
  BY DEF Spared, SC!Has, SC!UserRules, SC!TransportRules, SC!SoftwareRules, SC!SubjectRules, SC!AddressedRules, SC!AttachmentRules,
         SC!BodyRules, SC!PitchRules, SC!DomainRules
<1>6. SC!UpstreamRules(m) = SC!UpstreamRules(s) /\ SC!CryptoRules(m) = SC!CryptoRules(s)
  BY DEF Spared, SC!UpstreamRules, SC!CryptoRules
<1>7. SC!ReplyToRules(m) = SC!ReplyToRules(s) /\ SC!NameRules(m) = SC!NameRules(s)
  BY <1>3 DEF Spared, SC!Has, SC!ReplyToRules, SC!NameRules
<1>8. /\ own(m) = own(s) /\ bare(m) = bare(s) /\ known(m) = known(s) /\ failed(m) = failed(s)
      /\ soft(m) = soft(s) /\ contact(m) = contact(s)
      /\ long(m) = long(s) /\ good(m) = good(s) /\ had(m) = had(s)
  <2>1. /\ own(m) = own(s) /\ known(m) = known(s) /\ failed(m) = failed(s)
    BY <1>2 DEF SC!AuthFailed
  <2>2. bare(m) = bare(s) /\ soft(m) = soft(s)
    BY DEF Spared
  <2>3. contact(m) = contact(s) /\ had(m) = had(s)
    BY <1>1, <1>2
  <2>4. long(m) = long(s) /\ good(m) = good(s)
    BY <1>1, <1>2 DEF Spared
  <2> QED BY <2>1, <2>2, <2>3, <2>4
<1>9. SC!AuthRules(m) = SC!AuthRules(s)
  <2> DEFINE rules(x) == SC!FirstOf(<<<<own(x), "own-address-forged">>,
            <<bare(x), "own-address-unverified">>, <<known(x), "known-contact-spoofed">>,
            <<failed(x), "auth-fail">>, <<soft(x), "auth-softfail">>>>)
            \cup SC!When(contact(x), "known-contact")
  <2>1. SC!AuthRules(m) = rules(m) /\ SC!AuthRules(s) = rules(s)
    BY DEF SC!AuthRules
  <2> HIDE DEF own, bare, known, failed, soft, contact
  <2>2. rules(m) = rules(s)
    BY <1>8
  <2> QED BY <2>1, <2>2
<1>10. SC!FamiliarRules(m) = SC!FamiliarRules(s)
  <2> DEFINE rules(x) == SC!FirstOf(<<<<long(x), "auth-pass-familiar">>, <<good(x), "auth-pass">>,
               <<had(x), "familiar-domain">>, <<SC!Has(x, "familiar"), "familiar-domain-spoofed">>>>)
               \cup SC!When(~SC!Has(x, "familiar") /\ SC!Has(x, "tld-elsewhere"), "unfamiliar-tld")
               \cup SC!When(SC!Has(x, "reply-to-known"), "thread-reply")
  <2>1. SC!FamiliarRules(m) = rules(m) /\ SC!FamiliarRules(s) = rules(s)
    BY DEF SC!FamiliarRules
  <2> HIDE DEF long, good, had
  <2>2. rules(m) = rules(s)
    BY <1>8 DEF Spared, SC!Has
  <2> QED BY <2>1, <2>2
<1>11. SC!Fired(m) = SC!Fired(s)
  BY <1>5, <1>6, <1>7, <1>9, <1>10 DEF SC!Fired, Spared, SC!Has
<1>12. SC!LinkRules(m) = SC!LinkRules(s)
  BY <1>3 DEF SC!LinkRules, Spared, SC!Has
<1> QED BY <1>4, <1>5, <1>11, <1>12

LEMMA RelaysAreSpared == SC!RelayIsNotForgery
<1> DEFINE no == FALSE
           s == [[SC!Scored EXCEPT !.failed = no] EXCEPT !.soft = no]
<1> SUFFICES ASSUME SC!Scored.arc
             PROVE  SC!Total(tuned, SC!Scored) = SC!Total(tuned, s) /\ SC!Verdict(tuned, SC!Scored) = SC!Verdict(tuned, s)
  BY DEF SC!RelayIsNotForgery
<1>1. Spared(SC!Scored, s)
  <2> DEFINE rec(h, a, b, p, r, u, d, c) == [has |-> h, failed |-> a, soft |-> b, passed |-> p, arc |-> r,
                                             submitted |-> u, head |-> d, crypto |-> c]
             p == SC!ResultsPassed(scoreSaid, trusted)
             r == SC!ArcPassed(scoreSaid, trusted)
             u == SC!Submitted(scoreSaid, trusted)
             a == SC!ResultsFailed(scoreSaid, trusted)
             b == SC!ResultsSoftFailed(scoreSaid, trusted)
  <2>1. SC!Scored = rec(facts, a, b, p, r, u, head, signed)
    BY DEF SC!Scored, SC!Letter
  <2>2. /\ rec(facts, a, b, p, r, u, head, signed).has = facts
        /\ rec(facts, a, b, p, r, u, head, signed).passed = p
        /\ rec(facts, a, b, p, r, u, head, signed).arc = r
        /\ rec(facts, a, b, p, r, u, head, signed).submitted = u
        /\ rec(facts, a, b, p, r, u, head, signed).head = head
        /\ rec(facts, a, b, p, r, u, head, signed).crypto = signed
    OBVIOUS
  <2>3. /\ rec(facts, no, no, p, r, u, head, signed).has = facts
        /\ rec(facts, no, no, p, r, u, head, signed).passed = p
        /\ rec(facts, no, no, p, r, u, head, signed).arc = r
        /\ rec(facts, no, no, p, r, u, head, signed).submitted = u
        /\ rec(facts, no, no, p, r, u, head, signed).head = head
        /\ rec(facts, no, no, p, r, u, head, signed).crypto = signed
    OBVIOUS
  <2> HIDE DEF p, r, u, a, b, no
  <2>4. /\ [rec(facts, a, b, p, r, u, head, signed) EXCEPT !.failed = no] = rec(facts, no, b, p, r, u, head, signed)
        /\ [rec(facts, no, b, p, r, u, head, signed) EXCEPT !.soft = no] = rec(facts, no, no, p, r, u, head, signed)
    OBVIOUS
  <2> HIDE DEF rec
  <2>5. s = rec(facts, no, no, p, r, u, head, signed)
    BY <2>1, <2>4
  <2> HIDE DEF s
  <2>6. /\ SC!Scored.has = s.has /\ SC!Scored.passed = s.passed /\ SC!Scored.arc = s.arc /\ SC!Scored.submitted = s.submitted
        /\ SC!Scored.head = s.head /\ SC!Scored.crypto = s.crypto
    BY <2>1, <2>2, <2>3, <2>5
  <2> QED BY <2>6 DEF Spared
<1> HIDE DEF s
<1>2. SC!Total(tuned, SC!Scored) = SC!Total(tuned, s)
  BY <1>1, SparedRules DEF SC!Total
<1>3. SC!Verdict(tuned, SC!Scored) = SC!Verdict(tuned, s)
  BY <1>1, <1>2, SparedRules DEF SC!Verdict
<1> QED BY <1>2, <1>3

(*****************************************************************************)
(* SP, the sorted columns (SortedPages).  What is listed under a column is   *)
(* the folder up to the row the next page starts after, and the page that    *)
(* is read or asked for continues it.                                        *)
(*****************************************************************************)

LEMMA LeastOfNumbers ==
    ASSUME NEW T, T \subseteq Nat, T # {}
    PROVE  \E x \in T : \A y \in T : x <= y
<1>1. \E x \in T : \A y \in T : <<y, x>> \notin OpToRel(<, Nat)
  BY NatLessThanWellFounded, WFMin
<1>2. \A x, y \in Nat : <<y, x>> \notin OpToRel(<, Nat) => x <= y
  BY DEF OpToRel
<1> QED BY <1>1, <1>2

\* What SortedPages counts with is what FiniteSets defines.
LEMMA SameCounts ==
    \A S : SP!IsFiniteSet(S) = IsFiniteSet(S) /\ SP!Cardinality(S) = Cardinality(S)
<1>1. \A S : SP!IsFiniteSet(S) = IsFiniteSet(S)
  BY DEF SP!IsFiniteSet, IsFiniteSet
<1>2. \A S : SP!Cardinality(S) = Cardinality(S)
  BY DEF SP!Cardinality, Cardinality, SP!IsFiniteSet, IsFiniteSet
<1> QED BY <1>1, <1>2

\* What is left of a folder after a row, and how much of it a row is at the end of.
Rest(f, o, after) == IF after = 0 THEN Paged[f] ELSE Paged[f] \ SP!UpTo(f, o, after)
Place(f, o, after, u) == Cardinality(SP!UpTo(f, o, u) \cap Rest(f, o, after))

LEMMA PlacesGrow ==
    ASSUME SP!SortedPagesAssumption, NEW f \in Places, NEW o \in Orders, NEW after
    PROVE  \A u, v \in Rest(f, o, after) :
             /\ Place(f, o, after, u) \in Nat
             /\ Rank[o][v] <= Rank[o][u] => Place(f, o, after, v) <= Place(f, o, after, u)
             /\ Rank[o][u] < Rank[o][v] => Place(f, o, after, u) < Place(f, o, after, v)
<1> SUFFICES ASSUME NEW u \in Rest(f, o, after), NEW v \in Rest(f, o, after)
             PROVE  /\ Place(f, o, after, u) \in Nat
                    /\ Rank[o][v] <= Rank[o][u] => Place(f, o, after, v) <= Place(f, o, after, u)
                    /\ Rank[o][u] < Rank[o][v] => Place(f, o, after, u) < Place(f, o, after, v)
  OBVIOUS
<1> DEFINE U == SP!UpTo(f, o, u) \cap Rest(f, o, after)
           V == SP!UpTo(f, o, v) \cap Rest(f, o, after)
<1>1. u \in Paged[f] /\ v \in Paged[f] /\ Rank[o][u] \in Nat /\ Rank[o][v] \in Nat
  BY DEF Rest, SP!SortedPagesAssumption
<1>2. \A x \in Paged[f] : Rank[o][x] \in Nat
  BY DEF SP!SortedPagesAssumption
<1>3. IsFiniteSet(Paged[f]) /\ U \subseteq Paged[f] /\ V \subseteq Paged[f]
  BY SameCounts DEF SP!SortedPagesAssumption, SP!UpTo
<1>4. IsFiniteSet(U) /\ IsFiniteSet(V) /\ Cardinality(U) \in Nat /\ Cardinality(V) \in Nat
  BY <1>3, FS_Subset, FS_CardinalityType
<1>5. Rank[o][v] <= Rank[o][u] => V \subseteq U
  BY <1>1, <1>2 DEF SP!UpTo
<1>6. Rank[o][u] < Rank[o][v] => U \subseteq V /\ v \in V /\ v \notin U
  BY <1>1, <1>2 DEF SP!UpTo
<1>7. Place(f, o, after, u) = Cardinality(U) /\ Place(f, o, after, v) = Cardinality(V)
  BY DEF Place
<1> HIDE DEF U, V
<1>8. Rank[o][v] <= Rank[o][u] => Cardinality(V) <= Cardinality(U)
  BY <1>4, <1>5, FS_Subset
<1>9. Rank[o][u] < Rank[o][v] => Cardinality(U) < Cardinality(V)
  BY <1>4, <1>6, FS_Subset
<1> QED BY <1>4, <1>7, <1>8, <1>9

LEMMA PageRows ==
    ASSUME NEW f, NEW o, NEW after
    PROVE  SP!Page(f, o, after) = {u \in Rest(f, o, after) : Place(f, o, after, u) <= PageSize}
BY SameCounts DEF SP!Page, Rest, Place

\* A page that is empty is so because nothing is left.
LEMMA EmptyPage ==
    ASSUME SP!SortedPagesAssumption, NEW f \in Places, NEW o \in Orders, NEW after, SP!Page(f, o, after) = {}
    PROVE  Rest(f, o, after) = {}
<1> SUFFICES ASSUME Rest(f, o, after) # {} PROVE FALSE
  OBVIOUS
<1> DEFINE T == {Rank[o][u] : u \in Rest(f, o, after)}
<1>1. \A u \in Rest(f, o, after) : u \in Paged[f] /\ Rank[o][u] \in Nat
  BY DEF SP!SortedPagesAssumption, Rest
<1>2. T \subseteq Nat /\ T # {}
  BY <1>1
<1>3. PICK u \in Rest(f, o, after) : \A v \in Rest(f, o, after) : Rank[o][u] <= Rank[o][v]
  <2>1. PICK x \in T : \A y \in T : x <= y
    <3> HIDE DEF T
    <3> QED BY <1>2, LeastOfNumbers
  <2>2. PICK u \in Rest(f, o, after) : x = Rank[o][u]
    BY <2>1
  <2> QED BY <2>1, <2>2
<1>4. SP!UpTo(f, o, u) \cap Rest(f, o, after) = {u}
  <2>1. \A v \in Rest(f, o, after) : Rank[o][v] <= Rank[o][u] => v = u
    BY <1>1, <1>3 DEF SP!SortedPagesAssumption
  <2>2. u \in SP!UpTo(f, o, u)
    BY <1>1 DEF SP!UpTo
  <2> QED BY <2>1, <2>2 DEF SP!UpTo
<1>5. Place(f, o, after, u) = 1
  BY <1>4, FS_Singleton DEF Place
<1>6. 1 <= PageSize
  BY DEF SP!SortedPagesAssumption
<1> QED BY <1>3, <1>5, <1>6, PageRows

\* A page that is not has a last row, and is all that is left up to it.
LEMMA PageEnds ==
    ASSUME SP!SortedPagesAssumption, NEW f \in Places, NEW o \in Orders, NEW after,
           SP!Page(f, o, after) # {}
    PROVE  /\ SP!Last(o, SP!Page(f, o, after)) \in SP!Page(f, o, after)
           /\ SP!Last(o, SP!Page(f, o, after)) \in Paged[f] /\ SP!Last(o, SP!Page(f, o, after)) # 0
           /\ SP!Page(f, o, after) = SP!UpTo(f, o, SP!Last(o, SP!Page(f, o, after))) \cap Rest(f, o, after)
<1> DEFINE rows == SP!Page(f, o, after)
           T == {PageSize - Place(f, o, after, u) : u \in rows}
<1>1. rows \subseteq Rest(f, o, after) /\ \A u \in rows : Place(f, o, after, u) <= PageSize
  BY PageRows
<1>2. \A u \in rows : u \in Paged[f] /\ Rank[o][u] \in Nat /\ Place(f, o, after, u) \in Nat
  BY <1>1, PlacesGrow DEF Rest, SP!SortedPagesAssumption
<1>3. PageSize \in Nat
  BY DEF SP!SortedPagesAssumption
<1>4. T \subseteq Nat /\ T # {}
  BY <1>1, <1>2, <1>3
<1>5. PICK u \in rows : \A v \in rows : PageSize - Place(f, o, after, u) <= PageSize - Place(f, o, after, v)
  <2>1. PICK x \in T : \A y \in T : x <= y
    <3> HIDE DEF T
    <3> QED BY <1>4, LeastOfNumbers
  <2>2. PICK u \in rows : x = PageSize - Place(f, o, after, u)
    BY <2>1
  <2>3. \A v \in rows : PageSize - Place(f, o, after, v) \in T
    OBVIOUS
  <2> QED BY <2>1, <2>2, <2>3
<1>6. \A v \in rows : Rank[o][v] <= Rank[o][u]
  <2> SUFFICES ASSUME NEW v \in rows, Rank[o][u] < Rank[o][v] PROVE FALSE
    BY <1>2
  <2>1. Place(f, o, after, u) < Place(f, o, after, v)
    BY <1>1, PlacesGrow
  <2> QED BY <1>2, <1>3, <1>5, <2>1
<1>7. SP!Last(o, rows) \in rows /\ \A v \in rows : Rank[o][v] <= Rank[o][SP!Last(o, rows)]
  BY <1>6 DEF SP!Last
<1>8. rows = SP!UpTo(f, o, SP!Last(o, rows)) \cap Rest(f, o, after)
  <2> DEFINE l == SP!Last(o, rows)
  <2> HIDE DEF l
  <2>1. l \in rows /\ \A v \in rows : Rank[o][v] <= Rank[o][l]
    BY <1>7 DEF l
  <2>2. rows \subseteq SP!UpTo(f, o, l) \cap Rest(f, o, after)
    BY <1>1, <1>2, <2>1 DEF SP!UpTo
  <2>3. ASSUME NEW v \in SP!UpTo(f, o, l) \cap Rest(f, o, after)
        PROVE  v \in rows
    <3>1. Place(f, o, after, v) <= Place(f, o, after, l) /\ Place(f, o, after, v) \in Nat
      BY <1>1, <2>1, PlacesGrow DEF SP!UpTo
    <3>2. Place(f, o, after, v) <= PageSize
      BY <1>1, <1>2, <1>3, <2>1, <3>1
    <3> QED BY <3>2, PageRows
  <2> QED BY <2>2, <2>3 DEF l
<1>9. SP!Last(o, rows) # 0
  BY <1>2, <1>7 DEF SP!SortedPagesAssumption
<1> QED BY <1>2, <1>7, <1>8, <1>9
-----------------------------------------------------------------------------
\* The page being read and the one asked for meanwhile: one of each at most, by
\* a column, the first page or one after a row.
IsJob(j) == j.order \notin {"newest", "oldest"} /\ (j.append \/ j.after = 0)
JobsOnce == /\ \A j \in worker \cup pending : IsJob(j)
            /\ \A j, k \in worker : j = k
            /\ \A j, k \in pending : j = k

\* With no row to go on from there is none at all, or the first page is on its
\* way and no later one behind it.
Begins == /\ exhausted => Paged[columnsFolder] = {}
          /\ ~exhausted => \E j \in worker \cup pending : SP!Wanted(j) /\ ~j.append
          /\ \A j \in pending : SP!Wanted(j) => ~j.append

\* What the page of a job that is read ends at is listed, or follows what is.
Follows(j) == IF j.append THEN j.after = anchor \/ anchor = SP!Last(order, SP!Page(columnsFolder, order, j.after))
                          ELSE anchor = SP!Last(order, SP!Page(columnsFolder, order, 0))
Goes == /\ anchor \in Paged[columnsFolder] /\ columnsList = SP!UpTo(columnsFolder, order, anchor)
        /\ exhausted => columnsList = Paged[columnsFolder]
        /\ \A j \in worker : SP!Wanted(j) => Follows(j)
        /\ \A j \in pending : SP!Wanted(j) => j.append /\ j.after = anchor

PagesInv == /\ columnsFolder \in Places /\ order \in Orders /\ JobsOnce
            /\ SP!Browsing /\ ~crossed => IF anchor = 0 THEN Begins ELSE Goes

LEMMA PagesStart ==
    ASSUME SP!SortedPagesAssumption, SP!Init
    PROVE  PagesInv
BY DEF SP!Init, PagesInv, JobsOnce, SP!Browsing, SP!SortedBrowse, SP!SortedPagesAssumption

\* Three ways a page continues a list.
LEMMA FirstPage ==
    ASSUME SP!SortedPagesAssumption, NEW f \in Places, NEW o \in Orders
    PROVE  /\ SP!Page(f, o, 0) = {} => Paged[f] = {} /\ SP!Last(o, SP!Page(f, o, 0)) = 0
           /\ SP!Page(f, o, 0) # {} => /\ SP!Last(o, SP!Page(f, o, 0)) \in Paged[f] \ {0}
                                       /\ SP!Page(f, o, 0) = SP!UpTo(f, o, SP!Last(o, SP!Page(f, o, 0)))
<1>1. Rest(f, o, 0) = Paged[f]
  BY DEF Rest
<1>2. SP!Page(f, o, 0) = {} => Paged[f] = {} /\ SP!Last(o, SP!Page(f, o, 0)) = 0
  BY <1>1, EmptyPage DEF SP!Last
<1>3. ASSUME SP!Page(f, o, 0) # {}
      PROVE  /\ SP!Last(o, SP!Page(f, o, 0)) \in Paged[f] \ {0}
             /\ SP!Page(f, o, 0) = SP!UpTo(f, o, SP!Last(o, SP!Page(f, o, 0)))
  <2> DEFINE l == SP!Last(o, SP!Page(f, o, 0))
  <2>1. l \in Paged[f] /\ l # 0 /\ SP!Page(f, o, 0) = SP!UpTo(f, o, l) \cap Rest(f, o, 0)
    BY <1>3, PageEnds
  <2>2. SP!UpTo(f, o, l) \subseteq Paged[f]
    BY DEF SP!UpTo
  <2> QED BY <1>1, <2>1, <2>2
<1> QED BY <1>2, <1>3

LEMMA NextPage ==
    ASSUME SP!SortedPagesAssumption, NEW f \in Places, NEW o \in Orders, NEW a \in Paged[f]
    PROVE  /\ SP!Page(f, o, a) = {} => SP!UpTo(f, o, a) = Paged[f]
           /\ SP!Page(f, o, a) # {} => /\ SP!Last(o, SP!Page(f, o, a)) \in Paged[f] \ {0}
                                       /\ SP!UpTo(f, o, a) \cup SP!Page(f, o, a) = SP!UpTo(f, o, SP!Last(o, SP!Page(f, o, a)))
                                       /\ SP!UpTo(f, o, a) # Paged[f]
<1>1. Rest(f, o, a) = Paged[f] \ SP!UpTo(f, o, a) /\ SP!UpTo(f, o, a) \subseteq Paged[f]
  BY DEF Rest, SP!UpTo, SP!SortedPagesAssumption
<1>2. SP!Page(f, o, a) = {} => SP!UpTo(f, o, a) = Paged[f]
  BY <1>1, EmptyPage
<1>3. ASSUME SP!Page(f, o, a) # {}
      PROVE  /\ SP!Last(o, SP!Page(f, o, a)) \in Paged[f] \ {0}
             /\ SP!UpTo(f, o, a) \cup SP!Page(f, o, a) = SP!UpTo(f, o, SP!Last(o, SP!Page(f, o, a)))
             /\ SP!UpTo(f, o, a) # Paged[f]
  <2> DEFINE l == SP!Last(o, SP!Page(f, o, a))
             rows == SP!Page(f, o, a)
  <2>1. l \in rows /\ l \in Paged[f] /\ l # 0 /\ rows = SP!UpTo(f, o, l) \cap Rest(f, o, a)
    BY <1>3, PageEnds
  <2> HIDE DEF l, rows
  <2>2. \A u \in Paged[f] : Rank[o][u] \in Nat
    BY DEF SP!SortedPagesAssumption
  <2>3. l \in Paged[f] /\ l \notin SP!UpTo(f, o, a)
    BY <1>1, <2>1
  <2>4. Rank[o][a] < Rank[o][l]
    BY <2>2, <2>3 DEF SP!UpTo
  <2>5. SP!UpTo(f, o, a) \subseteq SP!UpTo(f, o, l)
    BY <2>2, <2>3, <2>4 DEF SP!UpTo
  <2>6. SP!UpTo(f, o, a) \cup rows = SP!UpTo(f, o, l)
    <3>1. SP!UpTo(f, o, l) \subseteq Paged[f]
      BY DEF SP!UpTo
    <3> QED BY <1>1, <2>1, <2>5, <3>1
  <2> QED BY <2>1, <2>3, <2>6 DEF l, rows
<1> QED BY <1>2, <1>3

LEMMA SamePage ==
    ASSUME SP!SortedPagesAssumption, NEW f \in Places, NEW o \in Orders, NEW b,
           SP!Page(f, o, b) # {}
    PROVE  SP!UpTo(f, o, SP!Last(o, SP!Page(f, o, b))) \cup SP!Page(f, o, b) = SP!UpTo(f, o, SP!Last(o, SP!Page(f, o, b)))
BY PageEnds

-----------------------------------------------------------------------------
\* The first page under an order is read at once, or asked for last.
LEMMA SeedPages ==
    ASSUME SP!SortedPagesAssumption, PagesInv, columnsFolder' \in Places, order' \in Orders, order' # "newest",
           NEW put, SP!Seed(columnsFolder', order', put), ~searchShown'
    PROVE  PagesInv'
<1> PICK f \in Places, o \in Orders : f = columnsFolder' /\ o = order'
  OBVIOUS
<1> DEFINE rows == SP!Page(f, o, 0)
<1>1. CASE o = "oldest"
  <2>1. /\ exhausted' = (rows = {}) /\ anchor' = SP!Last(o, rows)
        /\ columnsList' = (IF rows = {} THEN put ELSE rows) /\ UNCHANGED <<worker, pending>>
    BY <1>1 DEF SP!Seed, SP!jobs
  <2>2. JobsOnce' /\ \A j \in worker' \cup pending' : ~SP!Wanted(j)'
    BY <1>1, <2>1 DEF PagesInv, JobsOnce, IsJob, SP!Wanted
  <2>3. CASE rows = {}
    <3>1. anchor' = 0 /\ exhausted' /\ Paged[f] = {}
      BY <2>1, <2>3, FirstPage
    <3> QED BY <2>2, <3>1 DEF PagesInv, Begins
  <2>4. CASE rows # {}
    <3>1. anchor' # 0 /\ ~exhausted' /\ anchor' \in Paged[f] /\ columnsList' = SP!UpTo(f, o, anchor')
      BY <2>1, <2>4, FirstPage
    <3> QED BY <2>2, <3>1 DEF PagesInv, Goes
  <2> QED BY <2>3, <2>4
<1>2. CASE o # "oldest"
  <2> PICK j : j = [folder |-> f, order |-> o, after |-> 0, append |-> FALSE]
    OBVIOUS
  <2>1. anchor' = 0 /\ exhausted' = FALSE /\ SP!StartPage(j)
    BY <1>2 DEF SP!Seed
  <2>2. j.folder = f /\ j.order = o /\ j.after = 0 /\ ~j.append
    OBVIOUS
  <2>3. IsJob(j) /\ SP!Wanted(j)'
    BY <1>2, <2>2 DEF IsJob, SP!Wanted, SP!SortedBrowse
  <2>4. \/ worker' = {j} /\ pending' = {}
        \/ worker' = worker /\ pending' = {j}
    BY <2>1 DEF SP!StartPage
  <2>5. JobsOnce'
    BY <2>3, <2>4 DEF PagesInv, JobsOnce
  <2>6. Begins'
    BY <2>1, <2>2, <2>3, <2>4 DEF Begins
  <2> QED BY <2>1, <2>5, <2>6 DEF PagesInv
<1> QED BY <1>1, <1>2

LEMMA SortPages ==
    ASSUME SP!SortedPagesAssumption, PagesInv, NEW o \in Orders, SP!SeedSortOrder(o)
    PROVE  PagesInv'
<1>1. order' = o /\ columnsFolder' = columnsFolder /\ searchShown' = searchShown /\ columnsFolder \in Places
  BY DEF SP!SeedSortOrder, PagesInv
<1>2. CASE searchShown
  BY <1>1, <1>2 DEF SP!SeedSortOrder, PagesInv, JobsOnce, SP!jobs, SP!Browsing
<1>3. CASE ~searchShown /\ o = "newest"
  BY <1>1, <1>3 DEF SP!SeedSortOrder, SP!Unsorted, PagesInv, JobsOnce, SP!jobs, SP!Browsing, SP!SortedBrowse
<1>4. CASE ~searchShown /\ o # "newest"
  BY <1>1, <1>4, SeedPages DEF SP!SeedSortOrder
<1> QED BY <1>2, <1>3, <1>4

LEMMA OpenedPages ==
    ASSUME SP!SortedPagesAssumption, PagesInv, NEW f \in Places, SP!Opened(f)
    PROVE  PagesInv'
<1>1. columnsFolder' = f /\ order' = order /\ searchShown' = FALSE /\ order \in Orders
  BY DEF SP!Opened, PagesInv
<1>2. CASE order = "newest"
  BY <1>1, <1>2 DEF SP!Opened, PagesInv, JobsOnce, SP!jobs, SP!Browsing, SP!SortedBrowse
<1>3. CASE order # "newest"
  BY <1>1, <1>3, SeedPages DEF SP!Opened, SP!SortedBrowse
<1> QED BY <1>2, <1>3

\* A page taken after what is listed.
LEMMA MorePages ==
    ASSUME SP!SortedPagesAssumption, PagesInv, SP!LoadMoreSorted
    PROVE  PagesInv'
<1>1. /\ anchor # 0 /\ ~exhausted /\ SP!SortedBrowse /\ columnsFolder \in Places /\ order \in Orders
      /\ UNCHANGED <<columnsFolder, order, searchShown, crossed>>
  BY DEF SP!LoadMoreSorted, PagesInv
<1>2. CASE order = "oldest"
  <2> DEFINE rows == SP!Page(columnsFolder, order, anchor)
  <2>1. /\ exhausted' = (IF rows = {} THEN TRUE ELSE exhausted)
        /\ anchor' = IF rows = {} THEN anchor ELSE SP!Last(order, rows)
        /\ columnsList' = IF rows = {} \/ searchShown THEN columnsList ELSE columnsList \cup rows
        /\ UNCHANGED <<worker, pending>>
    BY <1>2 DEF SP!LoadMoreSorted, SP!ApplyPage, SP!jobs
  <2>2. JobsOnce' /\ \A j \in worker' \cup pending' : ~SP!Wanted(j)'
    BY <1>1, <1>2, <2>1 DEF PagesInv, JobsOnce, IsJob, SP!Wanted
  <2>3. ASSUME SP!Browsing, ~crossed
        PROVE  anchor' # 0 /\ Goes'
    <3>1. anchor \in Paged[columnsFolder] /\ columnsList = SP!UpTo(columnsFolder, order, anchor) /\ ~searchShown
      BY <1>1, <2>3 DEF PagesInv, Goes, SP!Browsing
    <3>2. CASE rows = {}
      BY <1>1, <2>1, <2>2, <3>1, <3>2, NextPage DEF Goes
    <3>3. CASE rows # {}
      BY <1>1, <2>1, <2>2, <3>1, <3>3, NextPage DEF Goes
    <3> QED BY <3>2, <3>3
  <2>4. SP!Browsing' = SP!Browsing
    BY <1>1 DEF SP!Browsing, SP!SortedBrowse
  <2> QED BY <1>1, <2>2, <2>3, <2>4 DEF PagesInv
<1>3. CASE order # "oldest"
  <2> DEFINE j == [folder |-> columnsFolder, order |-> order, after |-> anchor, append |-> TRUE]
  <2>1. SP!StartPage(j) /\ UNCHANGED <<columnsList, anchor, exhausted>>
    BY <1>3 DEF SP!LoadMoreSorted
  <2>2. j.folder = columnsFolder /\ j.order = order /\ j.after = anchor /\ j.append
    OBVIOUS
  <2> HIDE DEF j
  <2>3. IsJob(j)
    BY <1>1, <1>3, <2>2 DEF IsJob, SP!SortedBrowse
  <2>4. \/ worker' = {j} /\ pending' = {}
        \/ worker' = worker /\ pending' = {j}
    BY <2>1 DEF SP!StartPage
  <2>5. JobsOnce'
    BY <2>3, <2>4 DEF PagesInv, JobsOnce
  <2>6. SP!Browsing' = SP!Browsing /\ \A k : SP!Wanted(k)' = SP!Wanted(k)
    BY <1>1 DEF SP!Browsing, SP!SortedBrowse, SP!Wanted
  <2>7. Goes => Goes'
    <3>1. \A k : Follows(k)' = Follows(k)
      BY <1>1, <2>1 DEF Follows
    <3>2. Follows(j)
      BY <2>2 DEF Follows
    <3> QED BY <1>1, <2>1, <2>2, <2>4, <2>6, <3>1, <3>2 DEF Goes
  <2> QED BY <1>1, <2>1, <2>5, <2>6, <2>7 DEF PagesInv
<1> QED BY <1>2, <1>3

\* A page that was read lands.
LEMMA ReadyPages ==
    ASSUME SP!SortedPagesAssumption, PagesInv, NEW j \in worker, SP!PageReady(j)
    PROVE  PagesInv'
<1>1. /\ worker' = pending /\ pending' = {} /\ UNCHANGED <<columnsFolder, order, searchShown>>
      /\ columnsFolder \in Places /\ order \in Orders
  BY DEF SP!PageReady, PagesInv
<1>2. JobsOnce' /\ \A k \in worker : k = j
  BY <1>1 DEF PagesInv, JobsOnce
<1>3. SP!Browsing' = SP!Browsing /\ \A k : SP!Wanted(k)' = SP!Wanted(k)
  BY <1>1 DEF SP!Browsing, SP!SortedBrowse, SP!Wanted
<1>4. CASE ~SP!Wanted(j)
  <2>1. UNCHANGED <<columnsList, anchor, exhausted, crossed>>
    BY <1>4 DEF SP!PageReady
  <2>2. Begins => Begins'
    BY <1>1, <1>2, <1>3, <1>4, <2>1 DEF Begins
  <2>3. Goes => Goes'
    BY <1>1, <2>1, <1>3 DEF Goes, Follows
  <2> QED BY <1>1, <1>2, <1>3, <2>1, <2>2, <2>3 DEF PagesInv
<1>5. CASE SP!Wanted(j)
  <2> DEFINE rows == SP!Page(columnsFolder, order, j.after)
  <2>1. /\ j.order = order /\ j.folder = columnsFolder /\ ~searchShown /\ SP!Browsing
        /\ exhausted' = (IF rows = {} THEN TRUE ELSE exhausted)
        /\ anchor' = (IF rows = {} THEN anchor ELSE SP!Last(order, rows))
        /\ columnsList' = (IF rows = {} THEN columnsList ELSE IF j.append THEN columnsList \cup rows ELSE rows)
        /\ ~crossed' => ~crossed /\ ~(j.append /\ anchor = 0)
    BY <1>5 DEF SP!PageReady, SP!ApplyPage, SP!Wanted, SP!Browsing
  <2>2. IsJob(j)
    BY DEF PagesInv, JobsOnce
  <2>3. ASSUME ~crossed', anchor = 0
        PROVE  IF anchor' = 0 THEN Begins' ELSE Goes'
    <3>1. Begins /\ ~j.append /\ j.after = 0
      BY <2>1, <2>2, <2>3 DEF PagesInv, IsJob
    <3>2. CASE rows = {}
      <4>1. Paged[columnsFolder] = {}
        BY <1>1, <3>1, <3>2, FirstPage
      <4> QED BY <1>1, <2>1, <2>3, <3>2, <4>1 DEF Begins
    <3>3. CASE rows # {}
      <4>1. anchor' \in Paged[columnsFolder] /\ anchor' # 0 /\ columnsList' = SP!UpTo(columnsFolder, order, anchor')
        BY <1>1, <2>1, <3>1, <3>3, FirstPage
      <4>2. exhausted' => columnsList' = Paged[columnsFolder]
        BY <2>1, <3>1, <3>3, <4>1 DEF Begins, SP!UpTo
      <4>3. \A k \in pending : SP!Wanted(k) => Follows(k)'
        BY <1>1, <2>1, <3>1, <3>3 DEF Begins, Follows
      <4> QED BY <1>1, <1>3, <4>1, <4>2, <4>3 DEF Goes
    <3> QED BY <3>2, <3>3
  <2>4. ASSUME ~crossed', anchor # 0
        PROVE  anchor' # 0 /\ Goes'
    <3>1. Goes /\ Follows(j)
      BY <1>5, <2>1, <2>4 DEF PagesInv, Goes
    <3>2. anchor \in Paged[columnsFolder] /\ columnsList = SP!UpTo(columnsFolder, order, anchor) /\ (exhausted => columnsList = Paged[columnsFolder])
      BY <3>1 DEF Goes
    <3>3. \A k \in pending : SP!Wanted(k) => k.append /\ k.after = anchor
      BY <3>1 DEF Goes
    <3>4. CASE j.append /\ j.after = anchor
      <4>1. CASE rows = {}
        <5>1. columnsList' = Paged[columnsFolder] /\ anchor' = anchor /\ columnsList' = SP!UpTo(columnsFolder, order, anchor)
          BY <1>1, <2>1, <3>2, <3>4, <4>1, NextPage
        <5> QED BY <1>1, <1>3, <2>4, <3>2, <3>3, <5>1 DEF Goes, Follows
      <4>2. CASE rows # {}
        <5>1. /\ anchor' \in Paged[columnsFolder] /\ anchor' # 0 /\ columnsList' = SP!UpTo(columnsFolder, order, anchor')
              /\ ~exhausted /\ exhausted' = exhausted
          BY <1>1, <2>1, <3>2, <3>4, <4>2, NextPage
        <5>2. \A k \in pending : SP!Wanted(k) => k.append /\ anchor' = SP!Last(order, SP!Page(columnsFolder, order, k.after))
          BY <2>1, <3>3, <3>4, <4>2
        <5> QED BY <1>1, <1>3, <5>1, <5>2 DEF Goes, Follows
      <4> QED BY <4>1, <4>2
    <3>5. CASE ~(j.append /\ j.after = anchor)
      <4>1. anchor = SP!Last(order, rows) /\ (~j.append => j.after = 0)
        BY <2>2, <3>1, <3>5 DEF Follows, IsJob
      <4>2. rows # {}
        BY <2>4, <4>1 DEF SP!Last
      <4>3. anchor' = anchor /\ exhausted' = exhausted
        BY <2>1, <4>1, <4>2
      <4>4. columnsList' = columnsList
        <5>1. CASE j.append
          <6>1. SP!UpTo(columnsFolder, order, SP!Last(order, rows)) \cup rows = SP!UpTo(columnsFolder, order, SP!Last(order, rows))
            BY <1>1, <4>2, SamePage
          <6>2. columnsList' = columnsList \cup rows
            BY <2>1, <4>2, <5>1
          <6> HIDE DEF rows
          <6> QED BY <3>2, <4>1, <6>1, <6>2
        <5>2. CASE ~j.append
          BY <1>1, <2>1, <3>2, <4>1, <4>2, <5>2, FirstPage
        <5> QED BY <5>1, <5>2
      <4> QED BY <1>1, <1>3, <2>4, <3>2, <3>3, <4>3, <4>4 DEF Goes, Follows
    <3> QED BY <3>4, <3>5
  <2> QED BY <1>1, <1>2, <2>3, <2>4 DEF PagesInv
<1> QED BY <1>4, <1>5

LEMMA PagesStay ==
    ASSUME SP!SortedPagesAssumption, PagesInv, [SP!Next]_(SP!vars)
    PROVE  PagesInv'
<1>1. CASE UNCHANGED SP!vars
  <2>1. UNCHANGED <<columnsFolder, order, columnsList, anchor, exhausted, worker, pending, searchShown, crossed>>
    BY <1>1 DEF SP!vars
  <2>2. /\ JobsOnce' = JobsOnce /\ SP!Browsing' = SP!Browsing /\ Begins' = Begins
        /\ Goes' = Goes
    BY <2>1 DEF JobsOnce, SP!Browsing, SP!SortedBrowse, Begins, SP!Wanted, Goes, Follows
  <2> QED BY <2>1, <2>2 DEF PagesInv
<1>2. CASE SP!ClearSearch
  BY <1>2, OpenedPages DEF SP!ClearSearch, PagesInv
<1>3. ASSUME NEW f \in Places, SP!OpenFolder(f)
      PROVE  PagesInv'
  BY <1>3, OpenedPages DEF SP!OpenFolder
<1>4. CASE SP!SearchStarts
  BY <1>4 DEF SP!SearchStarts, PagesInv, JobsOnce, SP!jobs, SP!Browsing
<1>5. CASE SP!LoadMore \/ SP!LoadAll
  BY <1>5 DEF SP!LoadMore, SP!LoadAll, PagesInv, JobsOnce, SP!jobs, SP!Browsing, SP!SortedBrowse
<1>6. CASE SP!Next
  BY <1>2, <1>3, <1>4, <1>5, <1>6, SortPages, MorePages, ReadyPages DEF SP!Next
<1> QED BY <1>1, <1>6

LEMMA PagesMean ==
    ASSUME PagesInv
    PROVE  SP!PagesAreWhole
BY DEF PagesInv, SP!PagesAreWhole, SP!NoHoles, SP!NeverStuck, Begins, Goes, SP!Wanted, SP!Browsing

(*****************************************************************************)
(* SR, the search (Search).  The two halves of the newest query end once     *)
(* each, and nothing of an older query is taken for its own.                 *)
(*****************************************************************************)

\* What is out: scans, and the events they have posted.
AllLocal == UNION {Local[q][f] : q \in Queries, f \in Places}
Scans == [seq : Nat, folder : Places, query : Queries, left : SUBSET AllLocal, sent : BOOLEAN]
Lines == [seq : Nat, uids : SUBSET AllLocal, folder : Places]
Ends  == [seq : Nat, sent : BOOLEAN, query : Queries]
SearchTyped ==
  /\ seq \in Nat /\ searchFolder \in Places /\ searchOnline \in BOOLEAN
  /\ searching \in BOOLEAN /\ localDone \in BOOLEAN /\ serverPending \in BOOLEAN /\ searchInFlight \in BOOLEAN
  /\ posted \in Seq(Lines \cup Ends) /\ \A i \in DOMAIN posted : posted[i].seq <= seq
  /\ workers \subseteq Scans /\ \A w \in workers : w.seq <= seq
  /\ \A x \in ask \cup searchQueued \cup searchFetches : x.seq \in Nat /\ x.seq <= seq
  /\ \A x \in ask \cup searchQueued : x.query \in Queries

\* The server's half: the newest query is in one place at most, and in one while
\* its answer is awaited, unless the backend took it along.
Out == {x \in ask \cup searchQueued \cup searchFetches : x.seq = seq}
ServerHalf ==
  /\ \A a, b \in ask : a = b
  /\ ask # {} \/ searchQueued # {} => searchInFlight
  /\ \A a \in ask, r \in searchQueued : ~(a.seq = seq /\ r.seq = seq)
  /\ \A x \in ask \cup searchQueued, t \in searchFetches : ~(x.seq = seq /\ t.seq = seq)
  /\ \A s, t \in searchFetches : s.seq = seq /\ t.seq = seq => s = t
  /\ Out # {} => serverPending
  /\ serverPending => Out # {} \/ SR!Deaf

\* The local half: the scan of the newest query, its rows, then its end.
IsEnd(e) == "uids" \notin DOMAIN e
Scanning == \E w \in workers : w.seq = seq
Posted   == \E i \in DOMAIN posted : posted[i].seq = seq
Ending   == \E i \in DOMAIN posted : posted[i].seq = seq /\ IsEnd(posted[i])
LocalHalf ==
  /\ \A v, w \in workers : v.seq = seq /\ w.seq = seq => v = w
  /\ Scanning => ~Ending
  /\ \A i, j \in DOMAIN posted : i < j /\ posted[i].seq = seq /\ posted[j].seq = seq => ~IsEnd(posted[i])
  /\ Scanning \/ Posted => ~localDone
  /\ searching /\ ~localDone => Scanning \/ Ending
  /\ searching /\ localDone => serverPending

\* While the hits of words are shown: what was delivered is listed, and what is
\* not yet is out.
Worded == active /\ ~pattern
Due(u) == \/ u \in found
          \/ \E w \in workers : w.seq = seq /\ u \in w.left
          \/ \E i \in DOMAIN posted : posted[i].seq = seq /\ ~IsEnd(posted[i]) /\ u \in posted[i].uids
Asked ==
  /\ query \in Queries
  /\ \A a \in ask : a.seq = seq => a.query = query /\ a.folder = searchFolder
  /\ \A r \in searchQueued : r.seq = seq => r.query = query
  /\ \A t \in searchFetches : t.seq = seq => t.uids \subseteq Remote[query][searchFolder]
Scanned ==
  /\ \A w \in workers : w.seq = seq => w.left \subseteq Local[query][searchFolder]
  /\ \A i \in DOMAIN posted : posted[i].seq = seq /\ ~IsEnd(posted[i]) => posted[i].uids \subseteq Local[query][searchFolder]
  /\ \A u \in Local[query][searchFolder] : Due(u)
Delivered ==
  /\ ~searching => localDone /\ ~serverPending
  /\ found \subseteq Local[query][searchFolder] \cup Remote[query][searchFolder]
  /\ found \subseteq DOMAIN searchList
  /\ localDone /\ ~serverPending => DOMAIN searchList \subseteq found
SearchInv == SearchTyped /\ ServerHalf /\ LocalHalf /\ (Worded => Asked /\ Scanned /\ Delivered)

LEMMA SearchBegins ==
    ASSUME SR!Init
    PROVE  SearchInv
<1>1. SearchTyped
  <2>1. seq \in Nat /\ searchFolder \in Places /\ searchOnline \in BOOLEAN /\ posted \in Seq(Lines \cup Ends) /\ DOMAIN posted = {}
    BY DEF SR!Init
  <2>2. workers = {} /\ ask = {} /\ searchQueued = {} /\ searchFetches = {}
    BY DEF SR!Init
  <2>3. searching \in BOOLEAN /\ localDone \in BOOLEAN /\ serverPending \in BOOLEAN /\ searchInFlight \in BOOLEAN
    BY DEF SR!Init
  <2> QED BY <2>1, <2>2, <2>3 DEF SearchTyped
<1>2. ServerHalf /\ LocalHalf /\ ~Worded
  BY DEF SR!Init, ServerHalf, LocalHalf, Worded, Out, Scanning, Posted, Ending
<1> QED BY <1>1, <1>2 DEF SearchInv

LEMMA SearchMeans ==
    ASSUME SearchInv
    PROVE  SR!SearchEnds /\ SR!SettledOnQuery
<1>1. SR!SearchEnds
  <2> SUFFICES ASSUME searching, ~SR!Deaf PROVE SR!Awaited
    BY DEF SR!SearchEnds
  <2>1. CASE ~localDone
    BY <2>1 DEF SearchInv, LocalHalf, Scanning, Ending, SR!Awaited
  <2>2. CASE localDone
    <3>1. serverPending /\ Out # {}
      BY <2>2 DEF SearchInv, LocalHalf, ServerHalf
    <3> QED BY <3>1 DEF SearchInv, ServerHalf, Out, SR!Deaf, SR!Awaited
  <2> QED BY <2>1, <2>2
<1>2. SR!SettledOnQuery
  <2> SUFFICES ASSUME Worded, ~searching
               PROVE  /\ Local[query][searchFolder] \subseteq DOMAIN searchList
                      /\ DOMAIN searchList \subseteq Local[query][searchFolder] \cup Remote[query][searchFolder]
    BY DEF SR!SettledOnQuery, Worded
  <2>1. localDone /\ ~serverPending /\ Scanned /\ Delivered
    BY DEF SearchInv, Delivered
  <2>2. ~Scanning /\ ~Posted
    BY <2>1 DEF SearchInv, LocalHalf
  <2> QED BY <2>1, <2>2 DEF Delivered, Scanned, Due, Scanning, Posted
<1> QED BY <1>1, <1>2

-----------------------------------------------------------------------------
\* What Append and Tail do to the events on their way.
LEMMA Posting ==
    ASSUME SearchTyped, NEW e \in Lines \cup Ends, e.seq <= seq, posted' = Append(posted, e)
    PROVE  /\ posted' \in Seq(Lines \cup Ends)
           /\ DOMAIN posted' = DOMAIN posted \cup {Len(posted) + 1}
           /\ posted'[Len(posted) + 1] = e
           /\ \A i \in DOMAIN posted : i \in Nat /\ i < Len(posted) + 1 /\ posted'[i] = posted[i]
           /\ Len(posted) + 1 \in Nat
BY DEF SearchTyped

LEMMA Taking ==
    ASSUME SearchTyped, posted # <<>>, posted' = Tail(posted)
    PROVE  /\ posted' \in Seq(Lines \cup Ends)
           /\ Head(posted) = posted[1] /\ 1 \in DOMAIN posted
           /\ DOMAIN posted \subseteq Nat
           /\ \A i \in DOMAIN posted' : i \in Nat /\ i + 1 \in DOMAIN posted /\ posted'[i] = posted[i + 1] /\ 1 < i + 1
           /\ \A i \in DOMAIN posted : i = 1 \/ (i - 1 \in DOMAIN posted' /\ posted'[i - 1] = posted[i])
BY DEF SearchTyped

LEMMA Events ==
    /\ \A s, us, f : ~IsEnd([seq |-> s, uids |-> us, folder |-> f])
    /\ \A s, b, q : IsEnd([seq |-> s, sent |-> b, query |-> q])
BY DEF IsEnd

-----------------------------------------------------------------------------
\* Halves that a step leaves alone.
LEMMA ServerStays ==
    ASSUME ServerHalf, UNCHANGED <<seq, ask, searchQueued, searchFetches, searchInFlight, serverPending, dropped>>
    PROVE  ServerHalf'
BY DEF ServerHalf, Out, SR!Deaf

LEMMA LocalStays ==
    ASSUME LocalHalf, UNCHANGED <<seq, workers, posted, localDone>>, searching' => searching,
           searching' /\ localDone => serverPending'
    PROVE  LocalHalf'
BY DEF LocalHalf, Scanning, Posted, Ending

LEMMA AskedStays ==
    ASSUME UNCHANGED <<seq, query, searchFolder, ask, searchQueued, searchFetches>>
    PROVE  Asked' = Asked
BY DEF Asked

LEMMA ScannedStays ==
    ASSUME UNCHANGED <<seq, query, searchFolder, workers, posted>>, found \subseteq found', Scanned
    PROVE  Scanned'
BY DEF Scanned, Due

LEMMA DeliveredStays ==
    ASSUME UNCHANGED <<query, searchFolder, searchList, searching, localDone, serverPending, found>>
    PROVE  Delivered' = Delivered
BY DEF Delivered

\* Steps in which no search is shown any more, or none begins to be.
LEMMA LeavingSearch ==
    ASSUME SearchInv, ~Worded', searchFolder' \in Places,
           UNCHANGED <<searchOnline, seq, searching, localDone, serverPending, searchInFlight, workers, posted, ask, searchQueued, searchFetches, dropped>>
    PROVE  SearchInv'
<1>1. SearchTyped'
  BY DEF SearchInv, SearchTyped
<1>2. ServerHalf' /\ LocalHalf'
  <2>1. searching /\ localDone => serverPending
    BY DEF SearchInv, LocalHalf
  <2> QED BY <2>1, ServerStays, LocalStays DEF SearchInv
<1> QED BY <1>1, <1>2 DEF SearchInv

LEMMA PatternSearch ==
    ASSUME SearchInv, SR!SearchPattern
    PROVE  SearchInv'
BY LeavingSearch DEF SR!SearchPattern, Worded, SearchInv, SearchTyped, SR!search, SR!server, SR!wire

LEMMA OpenSearch ==
    ASSUME SearchInv, NEW f \in Places, SR!OpenFolder(f)
    PROVE  SearchInv'
BY LeavingSearch DEF SR!OpenFolder, Worded, SR!search, SR!server, SR!wire

LEMMA SwitchSearch ==
    ASSUME SearchInv, NEW f \in Places, SR!SwitchProtocol(f)
    PROVE  SearchInv'
<1>1. /\ active' = FALSE /\ searchFolder' = f /\ ask' = {} /\ searchFetches' = {} /\ dropped' = dropped \cup {t.seq : t \in searchFetches}
      /\ UNCHANGED <<seq, searching, localDone, serverPending, workers, posted, searchInFlight, searchQueued, searchOnline>>
  BY DEF SR!SwitchProtocol, SR!search
<1>2. SearchTyped'
  BY <1>1 DEF SearchInv, SearchTyped
<1>3. LocalHalf'
  <2>1. searching /\ localDone => serverPending
    BY DEF SearchInv, LocalHalf
  <2> QED BY <1>1, <2>1, LocalStays DEF SearchInv
<1>4. ServerHalf'
  <2>1. ServerHalf
    BY DEF SearchInv
  <2>2. Out' \subseteq Out
    BY <1>1 DEF Out
  <2>3. serverPending => Out' # {} \/ SR!Deaf'
    <3> SUFFICES ASSUME serverPending, ~SR!Deaf PROVE Out' # {} \/ SR!Deaf'
      BY <1>1 DEF SR!Deaf
    <3>1. PICK x \in ask \cup searchQueued \cup searchFetches : x.seq = seq
      BY <2>1 DEF ServerHalf, Out
    <3>2. CASE x \in searchQueued
      BY <1>1, <3>1, <3>2 DEF Out
    <3>3. CASE x \in ask
      BY <1>1, <2>1, <3>3 DEF ServerHalf, SR!Deaf
    <3>4. CASE x \in searchFetches
      BY <1>1, <3>1, <3>4 DEF SR!Deaf
    <3> QED BY <3>1, <3>2, <3>3, <3>4
  <2> QED BY <1>1, <2>1, <2>2, <2>3 DEF ServerHalf
<1> QED BY <1>1, <1>2, <1>3, <1>4 DEF SearchInv, Worded

LEMMA ConnectionSearch ==
    ASSUME SearchInv, SR!Connection
    PROVE  SearchInv'
<1>1. searchOnline' \in BOOLEAN
  BY DEF SR!Connection
<1>2. UNCHANGED <<searchFolder, searchList, active, pattern, query, seq, searching, localDone, serverPending, found, workers, posted,
                  searchInFlight, ask, searchQueued, searchFetches, dropped>>
  BY DEF SR!Connection, SR!search, SR!server
<1> QED BY <1>1, <1>2 DEF SearchInv, SearchTyped, ServerHalf, Out, SR!Deaf, LocalHalf, Scanning, Posted, Ending, Worded, Asked,
                    Scanned, Due, Delivered

-----------------------------------------------------------------------------
\* A newer query, of which nothing is out yet.
LEMMA ClearingSearch ==
    ASSUME SearchInv, SR!ClearSearch
    PROVE  SearchInv'
<1>1. /\ active' = FALSE /\ seq' = seq + 1 /\ serverPending' = FALSE /\ searching' = FALSE
      /\ UNCHANGED <<searchFolder, localDone, workers, posted, searchInFlight, ask, searchQueued, searchFetches, dropped, searchOnline>>
  BY DEF SR!ClearSearch, SR!server, SR!wire
<1>2. SearchTyped
  BY DEF SearchInv
<1>3. SearchTyped'
  <2>1. seq' \in Nat /\ \A n \in Nat : n <= seq => n <= seq'
    BY <1>1, <1>2 DEF SearchTyped
  <2>2. serverPending' \in BOOLEAN /\ searching' \in BOOLEAN
    BY <1>1
  <2>3. \A i \in DOMAIN posted : posted[i].seq \in Nat
    BY <1>2 DEF SearchTyped, Lines, Ends
  <2>4. \A w \in workers : w.seq \in Nat
    BY <1>2 DEF SearchTyped, Scans
  <2> QED BY <1>1, <1>2, <2>1, <2>2, <2>3, <2>4 DEF SearchTyped
<1>4. \A x \in ask \cup searchQueued \cup searchFetches : x.seq # seq'
  BY <1>1, <1>2 DEF SearchTyped
<1>5. ServerHalf'
  BY <1>1, <1>4 DEF SearchInv, ServerHalf, Out
<1>6. LocalHalf'
  <2>1. \A w \in workers : w.seq # seq'
    BY <1>1, <1>2 DEF SearchTyped, Scans
  <2>2. \A i \in DOMAIN posted : posted[i].seq # seq'
    BY <1>1, <1>2 DEF SearchTyped
  <2> QED BY <1>1, <2>1, <2>2 DEF LocalHalf, Scanning, Posted, Ending
<1> QED BY <1>1, <1>3, <1>5, <1>6 DEF SearchInv, Worded

LEMMA WordsSearch ==
    ASSUME SR!SearchAssumption, SearchInv, NEW q \in Queries, SR!SearchWords(q)
    PROVE  SearchInv'
<1> PICK n : n = seq + 1
  OBVIOUS
<1> PICK w : w = [seq |-> n, folder |-> searchFolder, query |-> q, left |-> Local[q][searchFolder], sent |-> FALSE]
  OBVIOUS
<1> PICK r : r = [seq |-> n, query |-> q]
  OBVIOUS
<1> PICK a : a = [seq |-> n, query |-> q, folder |-> searchFolder]
  OBVIOUS
<1>1. /\ active' = TRUE /\ pattern' = FALSE /\ seq' = n /\ query' = q /\ searching' = TRUE /\ localDone' = FALSE
      /\ found' = {} /\ workers' = workers \cup {w} /\ serverPending' = searchOnline
      /\ UNCHANGED <<searchFolder, searchList, posted, searchFetches, dropped, searchOnline>>
  BY DEF SR!SearchWords, SR!wire
<1>2. \/ ~searchOnline /\ UNCHANGED <<searchInFlight, ask, searchQueued>>
      \/ searchOnline /\ searchInFlight /\ searchQueued' = {r} /\ UNCHANGED <<searchInFlight, ask>>
      \/ searchOnline /\ ~searchInFlight /\ ask' = {a} /\ searchInFlight' = TRUE /\ searchQueued' = {}
  BY DEF SR!SearchWords, SR!StartServerSearch
<1>3. SearchTyped /\ n \in Nat /\ n > seq
  BY DEF SearchInv, SearchTyped
<1>4. /\ w.seq = n /\ w.left = Local[q][searchFolder] /\ r.seq = n /\ r.query = q
      /\ a.seq = n /\ a.query = q /\ a.folder = searchFolder
  OBVIOUS
<1>5. \A x \in ask \cup searchQueued \cup searchFetches : x.seq \in Nat /\ x.seq <= n /\ x.seq # n
  BY <1>3 DEF SearchTyped
<1>6. \A v \in workers : v.seq # n /\ v.seq <= n
  BY <1>3 DEF SearchTyped, Scans
<1>7. \A i \in DOMAIN posted : posted[i].seq # n /\ posted[i].seq <= n
  BY <1>3 DEF SearchTyped, Lines, Ends
<1>8. SearchTyped'
  <2>1. w \in Scans
    <3> DEFINE no == FALSE
    <3>1. Local[q][searchFolder] \in SUBSET AllLocal /\ no \in BOOLEAN /\ searchFolder \in Places
      BY <1>3 DEF AllLocal, SearchTyped
    <3>2. w = [seq |-> n, folder |-> searchFolder, query |-> q, left |-> Local[q][searchFolder], sent |-> no]
      OBVIOUS
    <3> HIDE DEF no
    <3> QED BY <1>3, <3>1, <3>2 DEF Scans
  <2>2. searchFolder' \in Places /\ posted' \in Seq(Lines \cup Ends) /\ workers' \subseteq Scans
    BY <1>1, <1>3, <2>1 DEF SearchTyped
  <2>3. searching' \in BOOLEAN /\ localDone' \in BOOLEAN
    BY <1>1
  <2>4. serverPending' \in BOOLEAN /\ searchInFlight' \in BOOLEAN
    BY <1>1, <1>2, <1>3 DEF SearchInv, SearchTyped
  <2>5. \A x \in ask' \cup searchQueued' \cup searchFetches' : x.seq \in Nat /\ x.seq <= n
    BY <1>1, <1>2, <1>3, <1>4, <1>5
  <2>6. \A x \in ask' \cup searchQueued' : x.query \in Queries
    BY <1>1, <1>2, <1>3, <1>4 DEF SearchTyped
  <2>7. \A v \in workers' : v.seq <= n
    BY <1>1, <1>3, <1>4, <1>6
  <2> QED BY <1>1, <1>3, <1>7, <2>2, <2>3, <2>4, <2>5, <2>6, <2>7 DEF SearchTyped
<1>9. ServerHalf'
  BY <1>1, <1>2, <1>4, <1>5 DEF SearchInv, ServerHalf, Out
<1>10. LocalHalf'
  BY <1>1, <1>4, <1>6, <1>7 DEF LocalHalf, Scanning, Posted, Ending
<1>11. Asked'
  BY <1>1, <1>2, <1>4, <1>5 DEF Asked
<1>12. Scanned'
  BY <1>1, <1>4, <1>6, <1>7 DEF Scanned, Due
<1>13. Delivered'
  BY <1>1 DEF Delivered
<1> QED BY <1>8, <1>9, <1>10, <1>11, <1>12, <1>13 DEF SearchInv

-----------------------------------------------------------------------------
\* The scan.
Sent(w, u) == [w EXCEPT !.left = @ \ {u}, !.sent = TRUE]

LEMMA SentFields ==
    ASSUME NEW w \in Scans, NEW u
    PROVE  Sent(w, u) \in Scans /\ Sent(w, u).seq = w.seq /\ Sent(w, u).left = w.left \ {u}
<1> DEFINE yes == TRUE
           rec(a, b, c, d, x) == [seq |-> a, folder |-> b, query |-> c, left |-> d, sent |-> x]
<1>1. w = rec(w.seq, w.folder, w.query, w.left, w.sent)
  BY DEF Scans
<1>2. yes \in BOOLEAN /\ Sent(w, u) = [[w EXCEPT !.left = w.left \ {u}] EXCEPT !.sent = yes]
  BY DEF Sent
<1>3. w.seq \in Nat /\ w.folder \in Places /\ w.query \in Queries /\ w.left \ {u} \in SUBSET AllLocal
  BY DEF Scans
<1> HIDE DEF yes
<1>4. \A a, b, c, d, x, l : /\ [rec(a, b, c, d, x) EXCEPT !.left = l] = rec(a, b, c, l, x)
                            /\ [rec(a, b, c, d, x) EXCEPT !.sent = l] = rec(a, b, c, d, l)
  OBVIOUS
<1>5. \A a, b, c, d, x : /\ rec(a, b, c, d, x).seq = a /\ rec(a, b, c, d, x).left = d
                         /\ (a \in Nat /\ b \in Places /\ c \in Queries /\ d \in SUBSET AllLocal /\ x \in BOOLEAN
                               => rec(a, b, c, d, x) \in Scans)
  BY DEF Scans
<1> HIDE DEF rec
<1>6. [w EXCEPT !.left = w.left \ {u}] = rec(w.seq, w.folder, w.query, w.left \ {u}, w.sent)
  BY <1>1, <1>4
<1>7. [rec(w.seq, w.folder, w.query, w.left \ {u}, w.sent) EXCEPT !.sent = yes]
        = rec(w.seq, w.folder, w.query, w.left \ {u}, yes)
  BY <1>4
<1>8. Sent(w, u) = rec(w.seq, w.folder, w.query, w.left \ {u}, yes)
  BY <1>2, <1>6, <1>7
<1> QED BY <1>2, <1>3, <1>5, <1>8

LEMMA BatchSearch ==
    ASSUME SearchInv, NEW w \in workers, SR!ScanBatch(w)
    PROVE  SearchInv'
<1>1. PICK u \in w.left : /\ workers' = (workers \ {w}) \cup {Sent(w, u)}
                          /\ posted' = Append(posted, [seq |-> w.seq, uids |-> {u}, folder |-> w.folder])
  BY DEF SR!ScanBatch, Sent
<1> PICK v : v = Sent(w, u)
  OBVIOUS
<1> PICK e : e = [seq |-> w.seq, uids |-> {u}, folder |-> w.folder]
  OBVIOUS
<1>2. /\ UNCHANGED <<searchFolder, searchList, active, pattern, query, seq, searching, localDone, serverPending, found, searchInFlight,
                     ask, searchQueued, searchFetches, dropped, searchOnline>>
      /\ w.seq = seq
  BY DEF SR!ScanBatch, SR!search, SR!server, SR!wire
<1>3. SearchTyped /\ LocalHalf /\ w \in Scans
  BY DEF SearchInv, SearchTyped
<1>4. v \in Scans /\ v.seq = seq /\ v.left = w.left \ {u}
  BY <1>2, <1>3, SentFields
<1>5. e \in Lines \cup Ends /\ e.seq = seq /\ e.uids = {u} /\ ~IsEnd(e)
  BY <1>2, <1>3, Events DEF Scans, Lines
<1>6. workers' = (workers \ {w}) \cup {v} /\ posted' = Append(posted, e)
  BY <1>1
<1>7. /\ posted' \in Seq(Lines \cup Ends)
      /\ DOMAIN posted' = DOMAIN posted \cup {Len(posted) + 1}
      /\ posted'[Len(posted) + 1] = e
      /\ \A i \in DOMAIN posted : i \in Nat /\ i < Len(posted) + 1 /\ posted'[i] = posted[i]
      /\ Len(posted) + 1 \in Nat
  BY <1>3, <1>5, <1>6, Posting DEF SearchTyped
<1> PICK n : n = Len(posted) + 1
  OBVIOUS
<1>8. SearchTyped'
  BY <1>2, <1>3, <1>4, <1>5, <1>6, <1>7 DEF SearchTyped
<1>9. ServerHalf'
  BY <1>2, ServerStays DEF SearchInv
<1>10. Scanning /\ ~Ending /\ \A x \in workers : x.seq = seq => x = w
  BY <1>2, <1>3 DEF LocalHalf, Scanning
<1>11. LocalHalf'
  <2>1. \A x \in workers' : x.seq = seq => x = v
    BY <1>6, <1>10
  <2>2. ~Ending'
    BY <1>2, <1>5, <1>7, <1>10 DEF Ending
  <2>3. ~localDone /\ Scanning'
    BY <1>2, <1>3, <1>4, <1>6, <1>10 DEF LocalHalf, Scanning
  <2>4. \A i, j \in DOMAIN posted' : i < j /\ posted'[i].seq = seq /\ posted'[j].seq = seq => ~IsEnd(posted'[i])
    BY <1>2, <2>2 DEF Ending
  <2> QED BY <1>2, <2>1, <2>2, <2>3, <2>4 DEF LocalHalf
<1>12. Asked' = Asked /\ Delivered' = Delivered
  BY <1>2, AskedStays, DeliveredStays
<1>13. Scanned => Scanned'
  <2> SUFFICES ASSUME Scanned PROVE Scanned'
    OBVIOUS
  <2>1. w.left \subseteq Local[query][searchFolder]
    BY <1>2 DEF Scanned
  <2>2. \A x \in workers' : x.seq = seq => x.left \subseteq Local[query][searchFolder]
    BY <1>4, <1>6, <1>10, <2>1
  <2>3. \A i \in DOMAIN posted' : posted'[i].seq = seq /\ ~IsEnd(posted'[i]) => posted'[i].uids \subseteq Local[query][searchFolder]
    BY <1>5, <1>7, <2>1 DEF Scanned
  <2>4. ASSUME NEW x \in Local[query][searchFolder]
        PROVE  Due(x)'
    <3>1. CASE x \in found
      BY <1>2, <3>1 DEF Due
    <3>2. CASE \E k \in workers : k.seq = seq /\ x \in k.left
      <4>1. x \in w.left
        BY <1>10, <3>2
      <4>2. CASE x = u
        <5>1. n \in DOMAIN posted' /\ posted'[n] = e
          BY <1>7
        <5> QED BY <1>2, <1>5, <4>2, <5>1 DEF Due
      <4>3. CASE x # u
        BY <1>2, <1>4, <1>6, <4>1, <4>3 DEF Due
      <4> QED BY <4>2, <4>3
    <3>3. CASE \E i \in DOMAIN posted : posted[i].seq = seq /\ ~IsEnd(posted[i]) /\ x \in posted[i].uids
      BY <1>2, <1>7, <3>3 DEF Due
    <3> QED BY <2>4, <3>1, <3>2, <3>3 DEF Scanned, Due
  <2> QED BY <1>2, <2>2, <2>3, <2>4 DEF Scanned
<1>14. Worded' = Worded
  BY <1>2 DEF Worded
<1> QED BY <1>8, <1>9, <1>11, <1>12, <1>13, <1>14 DEF SearchInv

LEMMA EndSearch ==
    ASSUME SearchInv, NEW w \in workers, SR!ScanEnds(w)
    PROVE  SearchInv'
<1> PICK e : e = [seq |-> w.seq, sent |-> w.sent, query |-> w.query]
  OBVIOUS
<1>1. /\ workers' = workers \ {w} /\ posted' = Append(posted, e)
      /\ UNCHANGED <<searchFolder, searchList, active, pattern, query, seq, searching, localDone, serverPending, found, searchInFlight,
                     ask, searchQueued, searchFetches, dropped, searchOnline>>
      /\ w.left = {} \/ w.seq # seq
  BY DEF SR!ScanEnds, SR!search, SR!server, SR!wire
<1>2. SearchTyped /\ LocalHalf /\ w \in Scans
  BY DEF SearchInv, SearchTyped
<1>3. e \in Lines \cup Ends /\ e.seq = w.seq /\ IsEnd(e) /\ w.seq <= seq
  <2>1. e \in Ends
    BY <1>2 DEF Scans, Ends
  <2> QED BY <1>2, <2>1, Events DEF SearchTyped
<1>4. /\ posted' \in Seq(Lines \cup Ends)
      /\ DOMAIN posted' = DOMAIN posted \cup {Len(posted) + 1}
      /\ posted'[Len(posted) + 1] = e
      /\ \A i \in DOMAIN posted : i \in Nat /\ i < Len(posted) + 1 /\ posted'[i] = posted[i]
      /\ Len(posted) + 1 \in Nat
  BY <1>1, <1>2, <1>3, Posting
<1>5. SearchTyped'
  BY <1>1, <1>2, <1>3, <1>4 DEF SearchTyped
<1>6. ServerHalf'
  BY <1>1, ServerStays DEF SearchInv
<1>7. LocalHalf'
  <2>1. CASE w.seq = seq
    <3>1. Scanning /\ ~Ending /\ ~localDone /\ \A x \in workers : x.seq = seq => x = w
      BY <1>2, <2>1 DEF LocalHalf, Scanning
    <3>2. ~Scanning'
      BY <1>1, <3>1 DEF Scanning
    <3>3. Ending'
      BY <1>1, <1>3, <1>4, <2>1 DEF Ending
    <3>4. \A i, j \in DOMAIN posted' : i < j /\ posted'[i].seq = seq /\ posted'[j].seq = seq => ~IsEnd(posted'[i])
      <4> SUFFICES ASSUME NEW i \in DOMAIN posted', NEW j \in DOMAIN posted', i < j, posted'[i].seq = seq
                   PROVE  ~IsEnd(posted'[i])
        OBVIOUS
      <4>1. i \in DOMAIN posted
        BY <1>4
      <4> QED BY <1>4, <3>1, <4>1 DEF Ending
    <3> QED BY <1>1, <3>1, <3>2, <3>3, <3>4 DEF LocalHalf, Scanning
  <2>2. CASE w.seq # seq
    <3>1. Scanning' = Scanning /\ \A x \in workers' : x \in workers
      BY <1>1, <2>2 DEF Scanning
    <3>2. Posted' = Posted /\ Ending' = Ending
      BY <1>1, <1>3, <1>4, <2>2 DEF Posted, Ending
    <3>3. \A i, j \in DOMAIN posted' : i < j /\ posted'[i].seq = seq /\ posted'[j].seq = seq => ~IsEnd(posted'[i])
      BY <1>2, <1>3, <1>4, <2>2 DEF LocalHalf
    <3> QED BY <1>1, <1>2, <3>1, <3>2, <3>3 DEF LocalHalf
  <2> QED BY <2>1, <2>2
<1>8. Asked' = Asked /\ Delivered' = Delivered
  BY <1>1, AskedStays, DeliveredStays
<1>9. Scanned => Scanned'
  <2> SUFFICES ASSUME Scanned PROVE Scanned'
    OBVIOUS
  <2>1. \A i \in DOMAIN posted' : posted'[i].seq = seq /\ ~IsEnd(posted'[i]) => posted'[i].uids \subseteq Local[query][searchFolder]
    BY <1>3, <1>4 DEF Scanned
  <2>2. \A x : Due(x) => Due(x)'
    BY <1>1, <1>4 DEF Due
  <2> QED BY <1>1, <2>1, <2>2 DEF Scanned
<1>10. Worded' = Worded
  BY <1>1 DEF Worded
<1> QED BY <1>5, <1>6, <1>7, <1>8, <1>9, <1>10 DEF SearchInv

LEMMA DeliverSearch ==
    ASSUME SearchInv, SR!Deliver
    PROVE  SearchInv'
<1> PICK e : e = Head(posted)
  OBVIOUS
<1>1. /\ posted # <<>> /\ posted' = Tail(posted)
      /\ UNCHANGED <<searchFolder, active, pattern, query, seq, workers, searchInFlight, ask, searchQueued, searchFetches, dropped, searchOnline>>
  BY DEF SR!Deliver, SR!server, SR!wire
<1>2. \/ e.seq # seq /\ UNCHANGED <<searchList, searching, localDone, serverPending, found>>
      \/ e.seq = seq /\ ~IsEnd(e) /\ SR!RowsArrive(e)
      \/ e.seq = seq /\ IsEnd(e) /\ SR!LocalFinished(e)
  BY DEF SR!Deliver, IsEnd
<1>3. SearchTyped /\ LocalHalf
  BY DEF SearchInv
<1>4. /\ posted' \in Seq(Lines \cup Ends)
      /\ e = posted[1] /\ 1 \in DOMAIN posted
      /\ DOMAIN posted \subseteq Nat
      /\ \A i \in DOMAIN posted' : i \in Nat /\ i + 1 \in DOMAIN posted /\ posted'[i] = posted[i + 1] /\ 1 < i + 1
      /\ \A i \in DOMAIN posted : i = 1 \/ (i - 1 \in DOMAIN posted' /\ posted'[i - 1] = posted[i])
  BY <1>1, <1>3, Taking
<1>5. serverPending' = serverPending
  BY <1>2 DEF SR!RowsArrive, SR!LocalFinished
<1>6. SearchTyped'
  <2>1. searching' \in BOOLEAN /\ localDone' \in BOOLEAN
    BY <1>2, <1>3 DEF SR!RowsArrive, SR!LocalFinished, SearchTyped
  <2> QED BY <1>1, <1>3, <1>4, <1>5, <2>1 DEF SearchTyped
<1>7. ServerHalf'
  BY <1>1, <1>5, ServerStays DEF SearchInv
<1>8. /\ (Scanning' <=> Scanning) /\ (Posted' => Posted) /\ (Ending' => Ending)
      /\ \A i, j \in DOMAIN posted' : i < j /\ posted'[i].seq = seq /\ posted'[j].seq = seq => ~IsEnd(posted'[i])
  <2>1. \A i, j \in DOMAIN posted' : i < j /\ posted'[i].seq = seq /\ posted'[j].seq = seq => ~IsEnd(posted'[i])
    <3> SUFFICES ASSUME NEW i \in DOMAIN posted', NEW j \in DOMAIN posted', i < j, posted'[i].seq = seq, posted'[j].seq = seq
                 PROVE  ~IsEnd(posted'[i])
      OBVIOUS
    <3>1. i + 1 \in DOMAIN posted /\ j + 1 \in DOMAIN posted /\ i + 1 < j + 1
      BY <1>4
    <3> QED BY <1>3, <1>4, <3>1 DEF LocalHalf
  <2>2. Posted' => Posted
    BY <1>1, <1>4 DEF Posted
  <2>3. Ending' => Ending
    BY <1>1, <1>4 DEF Ending
  <2>4. Scanning' <=> Scanning
    BY <1>1 DEF Scanning
  <2> QED BY <2>1, <2>2, <2>3, <2>4
<1>9. Asked' = Asked /\ Worded' = Worded
  BY <1>1, AskedStays DEF Worded
<1>10. CASE e.seq # seq
  <2>1. UNCHANGED <<searchList, searching, localDone, serverPending, found>>
    BY <1>2, <1>10
  <2>2. Ending => Ending'
    BY <1>1, <1>4, <1>10 DEF Ending
  <2>3. LocalHalf'
    BY <1>1, <1>3, <1>8, <2>1, <2>2 DEF LocalHalf
  <2>4. Delivered' = Delivered
    BY <1>1, <2>1, DeliveredStays
  <2>5. Scanned => Scanned'
    <3>1. \A x : Due(x) => Due(x)'
      BY <1>1, <1>4, <1>10, <2>1 DEF Due
    <3>2. \A i \in DOMAIN posted' : posted'[i] = posted[i + 1] /\ i + 1 \in DOMAIN posted
      BY <1>4
    <3> QED BY <1>1, <3>1, <3>2 DEF Scanned
  <2> QED BY <1>6, <1>7, <1>9, <2>3, <2>4, <2>5 DEF SearchInv
<1>11. CASE e.seq = seq /\ ~IsEnd(e)
  <2>1. /\ found' = found \cup e.uids /\ UNCHANGED <<searching, localDone, serverPending>>
        /\ DOMAIN searchList' = DOMAIN searchList \cup e.uids
    BY <1>2, <1>11 DEF SR!RowsArrive, SR!Appended
  <2>2. Posted /\ ~localDone
    BY <1>3, <1>4, <1>11 DEF Posted, LocalHalf
  <2>3. Ending => Ending'
    BY <1>1, <1>4, <1>11 DEF Ending
  <2>4. LocalHalf'
    BY <1>1, <1>3, <1>8, <2>1, <2>2, <2>3 DEF LocalHalf
  <2>5. Worded /\ Scanned /\ Delivered => Delivered'
    <3> SUFFICES ASSUME Scanned, Delivered PROVE Delivered'
      OBVIOUS
    <3>1. e.uids \subseteq Local[query][searchFolder]
      BY <1>4, <1>11 DEF Scanned
    <3> QED BY <1>1, <2>1, <2>2, <3>1 DEF Delivered
  <2>6. Scanned => Scanned'
    <3>1. \A x : Due(x) => Due(x)'
      BY <1>1, <1>4, <2>1 DEF Due
    <3>2. \A i \in DOMAIN posted' : posted'[i] = posted[i + 1] /\ i + 1 \in DOMAIN posted
      BY <1>4
    <3> QED BY <1>1, <3>1, <3>2 DEF Scanned
  <2> QED BY <1>6, <1>7, <1>9, <2>4, <2>5, <2>6 DEF SearchInv
<1>12. CASE e.seq = seq /\ IsEnd(e)
  <2>1. /\ localDone' = TRUE /\ UNCHANGED <<found, serverPending>>
        /\ searchList' = SR!Pruned(searchList, found) /\ searching' = serverPending
    BY <1>2, <1>12 DEF SR!LocalFinished
  <2>2. ~Posted'
    <3> SUFFICES ASSUME NEW i \in DOMAIN posted', posted'[i].seq = seq PROVE FALSE
      BY <1>1 DEF Posted
    <3>1. i + 1 \in DOMAIN posted /\ posted[i + 1].seq = seq /\ 1 < i + 1
      BY <1>4
    <3> QED BY <1>3, <1>4, <1>12, <3>1 DEF LocalHalf
  <2>3. Ending /\ ~Scanning
    BY <1>3, <1>4, <1>12 DEF Ending, LocalHalf
  <2>4. LocalHalf'
    <3>1. ~Ending' /\ ~Scanning'
      BY <1>8, <2>2, <2>3 DEF Ending, Posted
    <3> QED BY <1>1, <1>3, <1>8, <2>1, <2>2, <3>1 DEF LocalHalf
  <2>5. Worded /\ Delivered => Delivered'
    <3> SUFFICES ASSUME Worded, Delivered PROVE Delivered'
      OBVIOUS
    <3>1. DOMAIN searchList' = DOMAIN searchList \cap found
      BY <2>1 DEF SR!Pruned, SR!Restrict, Worded
    <3> QED BY <1>1, <2>1, <3>1 DEF Delivered
  <2>6. Scanned => Scanned'
    <3>1. \A x : Due(x) => Due(x)'
      BY <1>1, <1>4, <1>12, <2>1 DEF Due
    <3>2. \A i \in DOMAIN posted' : posted'[i] = posted[i + 1] /\ i + 1 \in DOMAIN posted
      BY <1>4
    <3> QED BY <1>1, <3>1, <3>2 DEF Scanned
  <2> QED BY <1>6, <1>7, <1>9, <2>4, <2>5, <2>6 DEF SearchInv
<1> QED BY <1>2, <1>10, <1>11, <1>12

-----------------------------------------------------------------------------
\* The server.

\* What waited goes out, if it is still of the newest query.
LEMMA NextServer ==
    ASSUME SearchInv, NEW a \in ask, SR!NextServerSearch, UNCHANGED <<seq, searchFolder, query, active, pattern>>
    PROVE  /\ searchQueued' = {} /\ searchInFlight' \in BOOLEAN
           /\ \A x, y \in ask' : x = y
           /\ ask' # {} => searchInFlight'
           /\ (\E x \in ask' : x.seq = seq) <=> (\E r \in searchQueued : r.seq = seq)
           /\ \A x \in ask' : /\ x.seq = seq /\ x.query \in Queries
                              /\ Worded /\ Asked => x.query = query /\ x.folder = searchFolder
<1>1. CASE ~\E r \in searchQueued : r.seq = seq
  BY <1>1 DEF SR!NextServerSearch
<1>2. CASE \E r \in searchQueued : r.seq = seq
  <2> PICK r \in searchQueued : r.seq = seq /\ SR!StartServerSearch(r, FALSE, searchFolder)
    BY <1>2 DEF SR!NextServerSearch
  <2> PICK b : b = [seq |-> r.seq, query |-> r.query, folder |-> searchFolder]
    OBVIOUS
  <2>1. ask' = {b} /\ searchInFlight' = TRUE /\ searchQueued' = {}
    BY DEF SR!StartServerSearch
  <2>2. b.seq = seq /\ b.query = r.query /\ b.folder = searchFolder
    OBVIOUS
  <2>3. r.query \in Queries
    BY DEF SearchInv, SearchTyped
  <2> QED BY <1>2, <2>1, <2>2, <2>3 DEF Asked
<1> QED BY <1>1, <1>2

\* The end of the server's half.
LEMMA FinishedSearch ==
    ASSUME SearchInv, NEW l, NEW us, SR!FinishServerSearch(l, us), found' = us,
           Worded /\ Delivered => /\ us \subseteq Local[query][searchFolder] \cup Remote[query][searchFolder]
                                  /\ us \subseteq DOMAIN l,
           UNCHANGED <<searchFolder, active, pattern, query, seq, localDone, workers, posted>>
    PROVE  /\ LocalHalf' /\ searching' \in BOOLEAN /\ serverPending' = FALSE
           /\ Worded /\ Delivered => Delivered'
<1>1. /\ serverPending' = FALSE /\ searching' = (searching /\ ~localDone)
      /\ searchList' = IF localDone THEN SR!Pruned(l, us) ELSE l
  BY DEF SR!FinishServerSearch
<1>2. LocalHalf'
  <2>1. LocalHalf /\ (searching' => searching) /\ ~(searching' /\ localDone)
    BY <1>1 DEF SearchInv
  <2> QED BY <2>1, LocalStays
<1>3. ASSUME Worded, Delivered
      PROVE  Delivered'
  <2>1. us \subseteq Local[query][searchFolder] \cup Remote[query][searchFolder] /\ us \subseteq DOMAIN l
    BY <1>3
  <2>2. localDone => DOMAIN searchList' = DOMAIN l \cap us
    BY <1>1, <1>3 DEF SR!Pruned, SR!Restrict, Worded
  <2>3. ~searching' => localDone
    BY <1>1, <1>3 DEF Delivered
  <2>4. us \subseteq DOMAIN searchList'
    BY <1>1, <2>1, <2>2
  <2> QED BY <1>1, <2>1, <2>2, <2>3, <2>4 DEF Delivered
<1> QED BY <1>1, <1>2, <1>3

LEMMA FailedSearch ==
    ASSUME SearchInv, NEW a \in ask, SR!ServerFails(a)
    PROVE  SearchInv'
<1>1. /\ SR!NextServerSearch
      /\ UNCHANGED <<searchFolder, active, pattern, query, seq, localDone, found, workers, posted, searchFetches, dropped, searchOnline>>
      /\ \/ a.seq = seq /\ SR!FinishServerSearch(searchList, found)
         \/ a.seq # seq /\ UNCHANGED <<searchList, searching, serverPending>>
  BY DEF SR!ServerFails, SR!wire
<1>2. /\ searchQueued' = {} /\ searchInFlight' \in BOOLEAN
      /\ \A x, y \in ask' : x = y
      /\ ask' # {} => searchInFlight'
      /\ (\E x \in ask' : x.seq = seq) <=> (\E r \in searchQueued : r.seq = seq)
      /\ \A x \in ask' : /\ x.seq = seq /\ x.query \in Queries
                         /\ Worded /\ Asked => x.query = query /\ x.folder = searchFolder
  BY <1>1, NextServer
<1>3. SearchTyped /\ ServerHalf /\ LocalHalf /\ (Worded' <=> Worded)
  BY <1>1 DEF SearchInv, Worded
<1>4. Worded /\ Asked => Asked'
  BY <1>1, <1>2 DEF Asked
<1>5. Scanned => Scanned'
  BY <1>1, ScannedStays
<1>6. CASE a.seq = seq
  <2>1. SR!FinishServerSearch(searchList, found)
    BY <1>1, <1>6
  <2>2. LocalHalf' /\ searching' \in BOOLEAN /\ serverPending' = FALSE /\ (Worded /\ Delivered => Delivered')
    <3>1. Delivered => found \subseteq Local[query][searchFolder] \cup Remote[query][searchFolder] /\ found \subseteq DOMAIN searchList
      BY DEF Delivered
    <3> QED BY <1>1, <2>1, <3>1, FinishedSearch
  <2>3. SearchTyped'
    BY <1>1, <1>2, <1>3, <2>2 DEF SearchTyped
  <2>4. ServerHalf'
    BY <1>1, <1>2, <1>3, <1>6, <2>2 DEF ServerHalf, Out
  <2> QED BY <1>3, <1>4, <1>5, <2>2, <2>3, <2>4 DEF SearchInv
<1>7. CASE a.seq # seq
  <2>1. UNCHANGED <<searchList, searching, serverPending>>
    BY <1>1, <1>7
  <2>2. SearchTyped'
    BY <1>1, <1>2, <1>3, <2>1 DEF SearchTyped
  <2>3. ServerHalf'
    <3>1. Out' # {} <=> Out # {}
      BY <1>1, <1>2, <1>3, <1>7 DEF Out, ServerHalf
    <3>2. SR!Deaf => SR!Deaf'
      BY <1>1 DEF SR!Deaf
    <3> QED BY <1>1, <1>2, <1>3, <2>1, <3>1, <3>2 DEF ServerHalf
  <2>4. LocalHalf' /\ Delivered' = Delivered
    BY <1>1, <1>3, <2>1, LocalStays, DeliveredStays DEF LocalHalf
  <2> QED BY <1>3, <1>4, <1>5, <2>2, <2>3, <2>4 DEF SearchInv
<1> QED BY <1>6, <1>7

LEMMA AnsweredSearch ==
    ASSUME SearchInv, NEW a \in ask, SR!ServerAnswers(a)
    PROVE  SearchInv'
<1> PICK known, rest : known = SR!Ids(a) \cap Known[searchFolder] /\ rest = SR!Ids(a) \ known
  OBVIOUS
<1> PICK l : l = SR!Appended(searchFolder, known)
  OBVIOUS
<1> PICK t : t = [seq |-> seq, folder |-> searchFolder, uids |-> rest]
  OBVIOUS
<1>1. /\ SR!NextServerSearch
      /\ UNCHANGED <<searchFolder, active, pattern, query, seq, localDone, workers, posted, dropped, searchOnline>>
      /\ \/ a.seq # seq /\ UNCHANGED <<searchList, searching, serverPending, found, searchFetches>>
         \/ a.seq = seq /\ found' = found \cup known /\ rest = {} /\ SR!FinishServerSearch(l, found') /\ UNCHANGED searchFetches
         \/ /\ a.seq = seq /\ found' = found \cup known /\ searchFetches' = searchFetches \cup {t}
            /\ searchList' = l /\ UNCHANGED <<searching, serverPending>>
  BY DEF SR!ServerAnswers, SR!wire
<1>2. /\ searchQueued' = {} /\ searchInFlight' \in BOOLEAN
      /\ \A x, y \in ask' : x = y
      /\ ask' # {} => searchInFlight'
      /\ (\E x \in ask' : x.seq = seq) <=> (\E r \in searchQueued : r.seq = seq)
      /\ \A x \in ask' : /\ x.seq = seq /\ x.query \in Queries
                         /\ Worded /\ Asked => x.query = query /\ x.folder = searchFolder
  BY <1>1, NextServer
<1>3. SearchTyped /\ ServerHalf /\ LocalHalf /\ (Worded' <=> Worded)
  BY <1>1 DEF SearchInv, Worded
<1>4. found \subseteq found'
  BY <1>1
<1>5. Scanned => Scanned'
  BY <1>1, <1>4, ScannedStays
<1>6. CASE a.seq # seq
  <2>1. UNCHANGED <<searchList, searching, serverPending, found, searchFetches>>
    BY <1>1, <1>6
  <2>2. SearchTyped'
    BY <1>1, <1>2, <1>3, <2>1 DEF SearchTyped
  <2>3. ServerHalf'
    <3>1. Out' # {} <=> Out # {}
      BY <1>1, <1>2, <1>3, <1>6, <2>1 DEF Out, ServerHalf
    <3>2. SR!Deaf => SR!Deaf'
      BY <1>1 DEF SR!Deaf
    <3> QED BY <1>1, <1>2, <1>3, <2>1, <3>1, <3>2 DEF ServerHalf
  <2>4. LocalHalf' /\ Delivered' = Delivered
    BY <1>1, <1>3, <2>1, LocalStays, DeliveredStays DEF LocalHalf
  <2>5. Worded /\ Asked => Asked'
    BY <1>1, <1>2, <2>1 DEF Asked
  <2> QED BY <1>3, <1>5, <2>2, <2>3, <2>4, <2>5 DEF SearchInv
<1>7. ASSUME a.seq = seq
      PROVE  /\ serverPending /\ ask' = {}
             /\ \A x \in searchQueued \cup searchFetches : x.seq # seq
             /\ Worded /\ Asked => /\ known \cup rest \subseteq Remote[query][searchFolder]
             /\ DOMAIN l = DOMAIN searchList \cup known
  <2>1. /\ serverPending /\ \A x \in searchQueued \cup searchFetches : x.seq # seq
    BY <1>3, <1>7 DEF ServerHalf, Out
  <2>2. ask' = {}
    BY <1>2, <2>1
  <2>3. Worded /\ Asked => known \cup rest \subseteq Remote[query][searchFolder]
    BY <1>7 DEF Asked, SR!Ids
  <2>4. DOMAIN l = DOMAIN searchList \cup known
    BY DEF SR!Appended
  <2> QED BY <2>1, <2>2, <2>3, <2>4
<1>8. CASE a.seq = seq /\ found' = found \cup known /\ rest = {} /\ SR!FinishServerSearch(l, found') /\ UNCHANGED searchFetches
  <2>1. Worded /\ Asked /\ Delivered => found' \subseteq Local[query][searchFolder] \cup Remote[query][searchFolder] /\ found' \subseteq DOMAIN l
    BY <1>7, <1>8 DEF Delivered
  <2>2. Worded => Asked /\ Delivered
    BY DEF SearchInv
  <2> PICK us : us = found'
    OBVIOUS
  <2>3. LocalHalf' /\ searching' \in BOOLEAN /\ serverPending' = FALSE /\ (Worded /\ Delivered => Delivered')
    BY <1>1, <1>8, <2>1, <2>2, FinishedSearch
  <2>4. SearchTyped'
    BY <1>1, <1>2, <1>3, <1>8, <2>3 DEF SearchTyped
  <2>5. ServerHalf'
    BY <1>1, <1>2, <1>3, <1>7, <1>8, <2>3 DEF ServerHalf, Out
  <2>6. Worded /\ Asked => Asked'
    BY <1>1, <1>2, <1>8 DEF Asked
  <2> QED BY <1>3, <1>5, <2>3, <2>4, <2>5, <2>6 DEF SearchInv
<1>9. CASE /\ a.seq = seq /\ found' = found \cup known /\ searchFetches' = searchFetches \cup {t}
           /\ searchList' = l /\ UNCHANGED <<searching, serverPending>>
  <2>1. t.seq = seq /\ t.uids = rest
    OBVIOUS
  <2>2. SearchTyped'
    BY <1>1, <1>2, <1>3, <1>9, <2>1 DEF SearchTyped
  <2>3. ServerHalf'
    <3>1. t \in Out'
      BY <1>1, <1>9, <2>1 DEF Out
    <3>2. \A x \in searchFetches' : x.seq = seq => x = t
      BY <1>7, <1>9
    <3> QED BY <1>1, <1>2, <1>7, <1>9, <3>1, <3>2 DEF ServerHalf
  <2>4. LocalHalf'
    BY <1>1, <1>3, <1>9, LocalStays DEF LocalHalf
  <2>5. Worded /\ Asked => Asked'
    BY <1>1, <1>2, <1>7, <1>9, <2>1 DEF Asked
  <2>6. Worded /\ Asked /\ Delivered => Delivered'
    BY <1>1, <1>7, <1>9 DEF Delivered
  <2> QED BY <1>3, <1>5, <2>2, <2>3, <2>4, <2>5, <2>6 DEF SearchInv
<1> QED BY <1>1, <1>6, <1>8, <1>9

LEMMA FetchedSearch ==
    ASSUME SearchInv, NEW t \in searchFetches, SR!FetchAnswers(t)
    PROVE  SearchInv'
<1>1. /\ searchFetches' = searchFetches \ {t}
      /\ UNCHANGED <<searchFolder, active, pattern, query, seq, localDone, workers, posted, searchInFlight, ask, searchQueued, dropped, searchOnline>>
  BY DEF SR!FetchAnswers, SR!wire
<1>2. SearchTyped /\ ServerHalf /\ LocalHalf /\ (Worded' <=> Worded)
  BY <1>1 DEF SearchInv, Worded
<1>3. Asked => Asked'
  BY <1>1 DEF Asked
<1>4. CASE t.seq # seq
  <2>1. UNCHANGED <<searchList, searching, serverPending, found>>
    BY <1>4 DEF SR!FetchAnswers
  <2>2. SearchTyped'
    BY <1>1, <1>2, <2>1 DEF SearchTyped
  <2>3. Out' = Out /\ SR!Deaf' = SR!Deaf
    BY <1>1, <1>4 DEF Out, SR!Deaf
  <2>4. ServerHalf'
    BY <1>1, <1>2, <2>1, <2>3 DEF ServerHalf
  <2>5. LocalHalf' /\ Delivered' = Delivered
    BY <1>1, <1>2, <2>1, LocalStays, DeliveredStays DEF LocalHalf
  <2>6. Scanned => Scanned'
    BY <1>1, <2>1, ScannedStays
  <2> QED BY <1>2, <1>3, <2>2, <2>4, <2>5, <2>6 DEF SearchInv
<1>5. CASE t.seq = seq
  <2> PICK us \in {SR!Fetched(t), {}} : found' = found \cup us /\ SR!FinishServerSearch(SR!Appended(t.folder, us), found')
    BY <1>5 DEF SR!FetchAnswers
  <2> PICK l : l = SR!Appended(t.folder, us)
    OBVIOUS
  <2>1. DOMAIN l = DOMAIN searchList \cup us /\ us \subseteq t.uids
    BY DEF SR!Appended, SR!Fetched
  <2>2. Worded => Asked /\ Scanned /\ Delivered
    BY DEF SearchInv
  <2>3. Worded /\ Delivered => found' \subseteq Local[query][searchFolder] \cup Remote[query][searchFolder] /\ found' \subseteq DOMAIN l
    BY <1>5, <2>1, <2>2 DEF Asked, Delivered
  <2>4. LocalHalf' /\ searching' \in BOOLEAN /\ serverPending' = FALSE /\ (Worded /\ Delivered => Delivered')
    BY <1>1, <2>3, FinishedSearch
  <2>5. SearchTyped'
    BY <1>1, <1>2, <2>4 DEF SearchTyped
  <2>6. ServerHalf'
    <3>1. Out' = {}
      BY <1>1, <1>2, <1>5 DEF ServerHalf, Out
    <3> QED BY <1>1, <1>2, <2>4, <3>1 DEF ServerHalf
  <2>7. Scanned => Scanned'
    BY <1>1, ScannedStays
  <2> QED BY <1>2, <1>3, <2>4, <2>5, <2>6, <2>7 DEF SearchInv
<1> QED BY <1>4, <1>5

LEMMA SearchStays ==
    ASSUME SR!SearchAssumption, SearchInv, [SR!Next]_(SR!vars)
    PROVE  SearchInv'
<1>1. CASE UNCHANGED SR!vars
  <2>1. UNCHANGED <<searchFolder, searchList, active, pattern, query, seq, searching, localDone, serverPending, found, workers,
                    posted, searchInFlight, ask, searchQueued, searchFetches, dropped, searchOnline>>
    BY <1>1 DEF SR!vars
  <2> QED BY <2>1 DEF SearchInv, SearchTyped, ServerHalf, Out, SR!Deaf, LocalHalf, Scanning, Posted, Ending, Worded, Asked,
                      Scanned, Due, Delivered
<1>2. CASE SR!Next
  BY <1>2, WordsSearch, PatternSearch, ClearingSearch, DeliverSearch, ConnectionSearch, AnsweredSearch, FailedSearch,
     OpenSearch, SwitchSearch, BatchSearch, EndSearch, FetchedSearch DEF SR!Next
<1> QED BY <1>1, <1>2

(***************************************************************************)
(* What a behaviour that follows one part does to it.                      *)
(***************************************************************************)

LEMMA PartStarts ==
    ASSUME Init
    PROVE  /\ followed = "bodies" => BC!Init
           /\ followed = "accounts" => AC!Init
           /\ followed = "spam" => SF!Init
           /\ followed = "columns" => SP!Init
           /\ followed = "search" => SR!Init
BY DEF Init

LEMMA PartSteps ==
    ASSUME [Next]_vars
    PROVE  /\ followed' = followed
           /\ followed = "bodies" => [BC!Next]_(BC!vars)
           /\ followed = "accounts" => [AC!Next]_(AC!vars)
           /\ followed = "spam" => [SF!Next]_(SF!vars)
           /\ followed = "columns" => [SP!Next]_(SP!vars)
           /\ followed = "search" => [SR!Next]_(SR!vars)
<1>1. CASE UNCHANGED vars
  <2>1. UNCHANGED <<followed, varsBC, varsAC, varsSF, varsSP, varsSR>>
    BY <1>1 DEF vars
  <2>2. UNCHANGED BC!vars
    BY <2>1 DEF varsBC, BC!vars
  <2>3. UNCHANGED AC!vars
    BY <2>1 DEF varsAC, AC!vars, AC!books, AC!count
  <2>4. UNCHANGED SF!vars
    BY <2>1 DEF varsSF, SF!vars
  <2>5. UNCHANGED SP!vars
    BY <2>1 DEF varsSP, SP!vars, SP!jobs
  <2>6. UNCHANGED SR!vars
    BY <2>1 DEF varsSR, SR!vars
  <2> QED BY <2>1, <2>2, <2>3, <2>4, <2>5, <2>6
<1>2. CASE Next
  BY <1>2 DEF Next
<1> QED BY <1>1, <1>2

-----------------------------------------------------------------------------
(* The theorems.                                                            *)

\* At every moment a payload's count covers the part rows that name it: over
\* bodies written twice, a reader's own stores, the migration's chunks landing
\* on bodies replaced meanwhile, evictions and purges, no release takes the file
\* of a payload that another cached message still refers to.
THEOREM PayloadsStayCounted ==
    ASSUME DeskAssumption
    PROVE  Spec => []PayloadsAreCounted
<1> DEFINE Inv == followed = "bodies" => CountInv
<1>1. BC!BodyCacheAssumption
  BY DEF DeskAssumption
<1>2. Init => Inv
  BY <1>1, PartStarts, CountsStart
<1>3. Inv /\ [Next]_vars => Inv'
  <2> SUFFICES ASSUME Inv, [Next]_vars, followed' = "bodies" PROVE CountInv'
    OBVIOUS
  <2>1. followed = "bodies" /\ [BC!Next]_(BC!vars)
    BY PartSteps
  <2> QED BY <1>1, <2>1, StepKeepsCounts
<1>4. Inv => PayloadsAreCounted
  BY CountsMean DEF PayloadsAreCounted
<1> QED BY <1>2, <1>3, <1>4, PTL DEF Spec

\* The account on screen is the one its position in the settings names, with the
\* settings stored for it, and the connection is on what is stored; no change is
\* queued for an account that is gone: through every save, drag, removal, import
\* and quit, until an import that found nothing takes its account back out.
THEOREM AccountsAlwaysAgree == Spec => []AccountsAgree
<1> DEFINE Inv == followed = "accounts" => SoundInv
<1>1. Init => Inv
  BY PartStarts, AccountsStart
<1>2. Inv /\ [Next]_vars => Inv'
  <2> SUFFICES ASSUME Inv, [Next]_vars, followed' = "accounts" PROVE SoundInv'
    OBVIOUS
  <2>1. followed = "accounts" /\ [AC!Next]_(AC!vars)
    BY PartSteps
  <2> QED BY <2>1, AccountsStay
<1>3. Inv => AccountsAgree
  BY SoundAgrees DEF AccountsAgree
<1> QED BY <1>1, <1>2, <1>3, PTL DEF Spec

\* An answer stands: mail of a sender called "not spam", and not marked as spam
\* since, is never filed into the junk folder nor marked, however late its
\* bodies, refusals and re-scores are; and a failure reported beside arc=pass
\* changes neither the score nor the verdict.  The user's word against every
\* rule at once is a sum over a set, which TLC adds up.
THEOREM AnswersAlwaysStand ==
    Spec => [](/\ followed = "spam" => SF!AnswersStand
               /\ followed = "score" => SC!RelayIsNotForgery)
<1> DEFINE Inv == followed = "spam" => AnswerInv
<1>1. Init => Inv
  BY PartStarts, AnswersStart
<1>2. Inv /\ [Next]_vars => Inv'
  <2> SUFFICES ASSUME Inv, [Next]_vars, followed' = "spam" PROVE AnswerInv'
    OBVIOUS
  <2>1. followed = "spam" /\ [SF!Next]_(SF!vars)
    BY PartSteps
  <2> QED BY <2>1, AnswersStay
<1>3. Inv => (followed = "spam" => SF!AnswersStand) /\ (followed = "score" => SC!RelayIsNotForgery)
  BY AnswersMean, RelaysAreSpared
<1> QED BY <1>1, <1>2, <1>3, PTL DEF Spec

\* What is listed is what was asked for.  Under a sorted column the list is the
\* folder up to the row its next page follows, all of it when the pages are
\* exhausted, whatever was opened, re-sorted and scrolled while a page was read.
\* A search ends with the two halves of the newest query, and settles on the
\* messages of its folder that it found; what an older query's workers and
\* answers still bring is not taken for it.
THEOREM PagesAndSearchesHold ==
    ASSUME DeskAssumption
    PROVE  Spec => [](/\ followed = "columns" => SP!PagesAreWhole
                      /\ followed = "search" => SR!SearchEnds /\ SR!SettledOnQuery)
<1> DEFINE Inv == /\ followed = "columns" => PagesInv
                  /\ followed = "search" => SearchInv
<1>1. SP!SortedPagesAssumption /\ SR!SearchAssumption
  BY DEF DeskAssumption
<1>2. Init => Inv
  BY <1>1, PartStarts, PagesStart, SearchBegins
<1>3. Inv /\ [Next]_vars => Inv'
  <2> SUFFICES ASSUME Inv, [Next]_vars PROVE Inv'
    OBVIOUS
  <2>1. ASSUME followed' = "columns" PROVE PagesInv'
    <3>1. followed = "columns" /\ [SP!Next]_(SP!vars)
      BY <2>1, PartSteps
    <3> QED BY <1>1, <3>1, PagesStay
  <2>2. ASSUME followed' = "search" PROVE SearchInv'
    <3>1. followed = "search" /\ [SR!Next]_(SR!vars)
      BY <2>2, PartSteps
    <3> QED BY <1>1, <3>1, SearchStays
  <2> QED BY <2>1, <2>2
<1>4. Inv => /\ followed = "columns" => SP!PagesAreWhole
             /\ followed = "search" => SR!SearchEnds /\ SR!SettledOnQuery
  BY PagesMean, SearchMeans
<1> QED BY <1>2, <1>3, <1>4, PTL DEF Spec
===============================================================================
