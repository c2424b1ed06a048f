------------------------------ MODULE SeenProofs ------------------------------
(***************************************************************************)
(* Proofs about SeenSync for any messages and any number of changes,       *)
(* marks, questions, folder moves and renumberings: whichever old answer   *)
(* lands, a queued mark stands in the cache, the list shows nothing as     *)
(* unread that the badge does not count, and queued changes name messages  *)
(* by the ids the cache holds.                                             *)
(***************************************************************************)
EXTENDS SeenSync, WellFoundedInduction, TLAPS

Op == [flag : Flags, on : SUBSET Msgs, at : Nat]

------------------------------------------------------------------------------
(* The newest change that names a message, in any queue.                    *)

NamingIn(q, m) == {i \in DOMAIN q : m \in q[i].on}
HeldIn(q, m) == IF NamingIn(q, m) = {} THEN "none" ELSE q[Max(NamingIn(q, m))].flag

\* The one element no other exceeds is the greatest.
LEMMA MaxIs ==
    ASSUME NEW S, S \subseteq Nat, NEW x \in S, \A y \in S : y <= x
    PROVE  Max(S) = x
<1>1. x \in S /\ \A y \in S : x >= y
  OBVIOUS
<1>2. ASSUME NEW z \in S, \A y \in S : z >= y
      PROVE  z = x
  <2>1. z \in Nat /\ x \in Nat /\ z >= x /\ x >= z
    BY <1>1, <1>2
  <2> QED BY <2>1
<1> QED BY <1>1, <1>2, Zenon DEF Max

LEMMA LeastIn ==
    ASSUME NEW R, IsWellFoundedOn(R, Nat), NEW S, S \subseteq Nat, S # {}
    PROVE  \E n \in S : \A k \in S : ~(<<k, n>> \in R)
BY WFMin

\* A nonempty set of naturals below a bound has a greatest element: the one
\* least far from the bound.
LEMMA MaxOf ==
    ASSUME NEW b \in Nat, NEW S, S \subseteq 0 .. b, S # {}
    PROVE  Max(S) \in S /\ \A y \in S : y <= Max(S)
<1> DEFINE far == {b - i : i \in S}
<1>1. far \subseteq Nat /\ far # {}
  OBVIOUS
<1>2. PICK d \in far : \A k \in far : ~(<<k, d>> \in OpToRel(<, Nat))
  BY <1>1, LeastIn, NatLessThanWellFounded
<1>3. ASSUME NEW k \in far
      PROVE  d <= k
  <2>1. d \in Nat /\ k \in Nat
    BY <1>1
  <2>2. ~(k < d)
    BY <1>2, <2>1 DEF OpToRel
  <2> QED BY <2>1, <2>2
<1>4. PICK x \in S : d = b - x
  OBVIOUS
<1>5. ASSUME NEW y \in S PROVE y <= x
  <2>1. b - y \in far
    OBVIOUS
  <2>2. b - x <= b - y
    BY <1>3, <1>4, <2>1
  <2>3. x \in Nat /\ y \in Nat
    BY <1>4, <1>5
  <2> HIDE DEF far
  <2> QED BY <2>2, <2>3
<1>6. Max(S) = x
  <2>1. S \subseteq Nat
    OBVIOUS
  <2> QED BY <1>5, <2>1, MaxIs
<1> QED BY <1>5, <1>6

LEMMA NewestNames ==
    ASSUME NEW q \in Seq(Op), NEW m, NamingIn(q, m) # {}
    PROVE  /\ Max(NamingIn(q, m)) \in NamingIn(q, m)
           /\ \A i \in NamingIn(q, m) : i <= Max(NamingIn(q, m))
<1>1. NamingIn(q, m) \subseteq 0 .. Len(q) /\ Len(q) \in Nat
  BY DEF NamingIn
<1> QED BY <1>1, MaxOf

LEMMA HeldIsAFlag ==
    ASSUME NEW q \in Seq(Op), NEW m
    PROVE  /\ HeldIn(q, m) \in Flags \cup {"none"}
           /\ HeldIn(q, m) # "none" <=> NamingIn(q, m) # {}
<1>1. CASE NamingIn(q, m) = {}
  BY <1>1 DEF HeldIn
<1>2. CASE NamingIn(q, m) # {}
  <2>1. q[Max(NamingIn(q, m))] \in Op
    <3>1. Max(NamingIn(q, m)) \in DOMAIN q
      BY <1>2, NewestNames DEF NamingIn
    <3> QED BY <3>1
  <2> QED BY <1>2, <2>1 DEF HeldIn, Op, Flags
<1> QED BY <1>1, <1>2

LEMMA NobodyHeld ==
    ASSUME NEW m
    PROVE  HeldIn(<<>>, m) = "none"
BY DEF HeldIn, NamingIn

\* A change added last is the newest of the messages it names.
LEMMA HeldByTheNew ==
    ASSUME NEW q \in Seq(Op), NEW op \in Op, NEW m
    PROVE  HeldIn(Append(q, op), m) = IF m \in op.on THEN op.flag ELSE HeldIn(q, m)
<1> DEFINE r == Append(q, op)  n == Len(q) + 1
<1>1. /\ Len(q) \in Nat /\ DOMAIN q = 1 .. Len(q) /\ DOMAIN r = 1 .. n /\ r[n] = op
      /\ \A i \in 1 .. Len(q) : r[i] = q[i]
  OBVIOUS
<1>2. CASE m \in op.on
  <2>1. n \in NamingIn(r, m) /\ NamingIn(r, m) \subseteq Nat /\ \A y \in NamingIn(r, m) : y <= n
    BY <1>1, <1>2 DEF NamingIn
  <2>2. Max(NamingIn(r, m)) = n
    BY <2>1, MaxIs
  <2> QED BY <1>1, <1>2, <2>1, <2>2 DEF HeldIn
<1>3. CASE m \notin op.on
  <2>1. NamingIn(r, m) = NamingIn(q, m)
    BY <1>1, <1>3 DEF NamingIn
  <2>2. CASE NamingIn(q, m) = {}
    BY <1>3, <2>1, <2>2 DEF HeldIn
  <2>3. CASE NamingIn(q, m) # {}
    <3>1. Max(NamingIn(q, m)) \in 1 .. Len(q)
      BY <1>1, <2>3, NewestNames DEF NamingIn
    <3> QED BY <1>1, <1>3, <2>1, <2>3, <3>1 DEF HeldIn
  <2> QED BY <2>2, <2>3
<1> QED BY <1>2, <1>3

\* Forgetting the oldest change changes what is held of a message only where it
\* was the only one.
LEMMA HeldByTheRest ==
    ASSUME NEW q \in Seq(Op), q # <<>>, NEW m
    PROVE  HeldIn(Tail(q), m) \in {HeldIn(q, m), "none"}
<1> DEFINE t == Tail(q)
<1>1. /\ t \in Seq(Op) /\ Len(q) \in Nat \ {0} /\ DOMAIN q = 1 .. Len(q)
      /\ DOMAIN t = 1 .. Len(q) - 1
      /\ \A i \in 1 .. Len(q) - 1 : t[i] = q[i + 1]
  OBVIOUS
<1> HIDE DEF t
<1> SUFFICES ASSUME NamingIn(t, m) # {}
             PROVE  HeldIn(t, m) = HeldIn(q, m)
  BY DEF HeldIn, t
<1> DEFINE x == Max(NamingIn(t, m))
<1>2. x \in NamingIn(t, m) /\ \A i \in NamingIn(t, m) : i <= x
  BY <1>1, NewestNames
<1> HIDE DEF x
<1>3. x \in 1 .. Len(q) - 1 /\ m \in q[x + 1].on /\ t[x] = q[x + 1]
  BY <1>1, <1>2 DEF NamingIn
<1>4. x + 1 \in NamingIn(q, m)
  BY <1>1, <1>3 DEF NamingIn
<1>5. ASSUME NEW y \in NamingIn(q, m) PROVE y <= x + 1
  <2>1. y \in 1 .. Len(q) /\ m \in q[y].on
    BY <1>1 DEF NamingIn
  <2>2. CASE y = 1
    BY <1>3, <2>2
  <2>3. CASE y # 1
    <3>1. y - 1 \in 1 .. Len(q) - 1 /\ t[y - 1] = q[y - 1 + 1] /\ y - 1 + 1 = y
      BY <1>1, <2>1, <2>3
    <3>2. y - 1 \in NamingIn(t, m)
      BY <1>1, <2>1, <3>1 DEF NamingIn
    <3> QED BY <1>2, <1>3, <2>1, <3>2
  <2> QED BY <2>2, <2>3
<1>6. NamingIn(q, m) \subseteq Nat
  BY <1>1 DEF NamingIn
<1>7. Max(NamingIn(q, m)) = x + 1
  BY <1>4, <1>5, <1>6, MaxIs
<1> QED BY <1>3, <1>4, <1>7 DEF HeldIn, x
------------------------------------------------------------------------------
(* Types.                                                                   *)

Shown == [Msgs -> Flags \cup {"none"}]
Question == [st : {"no", "out", "back"}, ids : SUBSET Msgs, snap : Shown]

\* Only a change still in the queue is under way.
SentIsQueued == sent # "no" => queue # <<>>

LEMMA HeldHere ==
    ASSUME NEW m
    PROVE  Held(m) = HeldIn(queue, m)
BY DEF Held, HeldIn, Naming, NamingIn

LEMMA InitTyped ==
    ASSUME Init
    PROVE  TypeOK
<1>1. srv \in [Msgs -> Flags] /\ cached = srv /\ shown \in Shown
  BY DEF Init, Off, Shown
<1>2. cached \in Shown
  BY <1>1 DEF Shown, Flags
<1>3. Idle \in Question
  BY DEF Idle, Question, Shown
<1>4. asked \in [Reads -> Question]
  BY <1>3 DEF Init
<1>5. queue \in Seq(Op) /\ sent = "no"
  BY DEF Init
<1>6. open \in BOOLEAN /\ epoch \in Nat /\ cachedAt \in 0 .. epoch
  <2>1. open = FALSE /\ epoch = 0 /\ cachedAt = 0
    BY DEF Init
  <2>2. epoch \in Nat /\ cachedAt \in 0 .. epoch
    BY <2>1
  <2>3. open \in BOOLEAN
    BY <2>1
  <2> QED BY <2>2, <2>3
<1> QED BY <1>1, <1>2, <1>4, <1>5, <1>6 DEF TypeOK, Op, Question, Shown

LEMMA Typed ==
    TypeOK <=> /\ srv \in [Msgs -> Flags] /\ epoch \in Nat /\ cachedAt \in 0 .. epoch
                      /\ cached \in Shown /\ shown \in Shown
                      /\ open \in BOOLEAN /\ sent \in {"no", "sent", "done"}
                      /\ queue \in Seq(Op) /\ asked \in [Reads -> Question]
BY DEF TypeOK, Op, Question, Shown

LEMMA TypedNext ==
    TypeOK' <=> /\ srv' \in [Msgs -> Flags] /\ epoch' \in Nat /\ cachedAt' \in 0 .. epoch'
                       /\ cached' \in Shown /\ shown' \in Shown
                       /\ open' \in BOOLEAN /\ sent' \in {"no", "sent", "done"}
                       /\ queue' \in Seq(Op) /\ asked' \in [Reads -> Question]
BY DEF TypeOK, Op, Question, Shown

\* A mark adds one change, with the ids the cache holds now.
LEMMA JournalledTyped ==
    ASSUME TypeOK, NEW flag \in Flags, NEW on \in SUBSET Msgs, Journalled(flag, on)
    PROVE  /\ queue' \in Seq(Op)
           /\ \E op \in Op : op.flag = flag /\ op.on = on /\ op.at = cachedAt /\ queue' = Append(queue, op)
<1> DEFINE new == [flag |-> flag, on |-> on, at |-> cachedAt]
<1>1. new \in Op /\ new.flag = flag /\ new.on = on /\ new.at = cachedAt
  BY Typed DEF Op
<1>2. queue' = Append(queue, new) /\ queue \in Seq(Op)
  BY Typed DEF Journalled
<1> HIDE DEF new
<1> QED BY <1>1, <1>2

LEMMA MarkTyped ==
    ASSUME TypeOK, NEW m \in Msgs, NEW flag \in Flags, MarkSeen(m, flag) \/ MarkFolderRead
    PROVE  TypeOK'
<1>1. CASE MarkSeen(m, flag)
  <2>1. cached' \in Shown /\ shown' \in Shown
    BY <1>1, Typed DEF MarkSeen, Shown
  <2>2. queue' \in Seq(Op)
    BY <1>1, JournalledTyped DEF MarkSeen
  <2> QED BY <1>1, <2>1, <2>2, Typed, TypedNext DEF MarkSeen
<1>2. CASE MarkFolderRead
  <2>1. cached' \in Shown /\ shown' \in Shown
    BY <1>2, Typed DEF MarkFolderRead, Shown, Flags
  <2>2. queue' \in Seq(Op)
    <3>1. "seen" \in Flags /\ {x \in Msgs : cached[x] = "unseen"} \in SUBSET Msgs
      BY DEF Flags
    <3> QED BY <1>2, <3>1, JournalledTyped DEF MarkFolderRead
  <2> QED BY <1>2, <2>1, <2>2, Typed, TypedNext DEF MarkFolderRead
<1> QED BY <1>1, <1>2

LEMMA ReplayTyped ==
    ASSUME TypeOK, SentIsQueued,
           \/ \E m \in Msgs : ReadElsewhere(m)
           \/ OpenFolder \/ LeaveFolder \/ Renumber \/ Send \/ Apply \/ Confirm \/ LinkLost
           \/ ApplyFolderInvalidated
    PROVE  TypeOK'
<1>1. CASE \E m \in Msgs : ReadElsewhere(m)
  <2>1. srv' \in [Msgs -> Flags]
    BY <1>1, Typed DEF ReadElsewhere, Flags
  <2> QED BY <1>1, <2>1, Typed, TypedNext DEF ReadElsewhere
<1>2. CASE OpenFolder \/ LeaveFolder
  <2>1. shown' \in Shown
    BY <1>2, Typed DEF OpenFolder, LeaveFolder, Off, Shown
  <2> QED BY <1>2, <2>1, Typed, TypedNext DEF OpenFolder, LeaveFolder
<1>3. CASE Renumber
  BY <1>3, Typed, TypedNext DEF Renumber
<1>4. CASE Send
  BY <1>4, Typed, TypedNext DEF Send
<1>5. CASE Apply
  <2>1. Head(queue) \in Op
    <3>1. queue # <<>> /\ queue \in Seq(Op)
      BY <1>5, Typed DEF Apply, SentIsQueued
    <3> QED BY <3>1
  <2>2. srv' \in [Msgs -> Flags]
    BY <1>5, <2>1, Typed DEF Apply, Op
  <2> QED BY <1>5, <2>2, Typed, TypedNext DEF Apply
<1>6. CASE Confirm
  <2>1. queue' \in Seq(Op)
    <3>1. queue # <<>> /\ queue \in Seq(Op)
      BY <1>6, Typed DEF Confirm, SentIsQueued
    <3> QED BY <1>6, <3>1 DEF Confirm
  <2> QED BY <1>6, <2>1, Typed, TypedNext DEF Confirm
<1>7. CASE LinkLost
  <2>1. Idle \in Question
    BY DEF Idle, Question, Shown
  <2> QED BY <1>7, <2>1, Typed, TypedNext DEF LinkLost
<1>8. CASE ApplyFolderInvalidated
  <2>1. Off \in Shown
    BY DEF Off, Shown
  <2> QED BY <1>8, <2>1, Typed, TypedNext DEF ApplyFolderInvalidated
<1> QED BY <1>1, <1>2, <1>3, <1>4, <1>5, <1>6, <1>7, <1>8

\* Asking changes one question; an answer carries the server's flags.
LEMMA AskTyped ==
    ASSUME TypeOK, NEW r \in Reads, NEW ids \in SUBSET Msgs, Asking(r, ids) \/ Answer(r)
    PROVE  TypeOK'
<1>1. asked[r] \in Question /\ srv \in Shown
  BY Typed DEF Shown
<1>2. asked' \in [Reads -> Question]
  <2>1. CASE Asking(r, ids)
    BY <1>1, <2>1, Typed DEF Asking, Question
  <2>2. CASE Answer(r)
    <3> DEFINE told == [m \in Msgs |-> IF m \in asked[r].ids THEN srv[m] ELSE "none"]
    <3>1. told \in Shown
      BY Typed DEF Shown
    <3>2. asked' = [asked EXCEPT ![r].st = "back", ![r].snap = told]
      BY <2>2 DEF Answer
    <3> HIDE DEF told
    <3> QED BY <1>1, <3>1, <3>2, Typed DEF Question
  <2> QED BY <2>1, <2>2
<1> QED BY <1>2, Typed, TypedNext DEF Asking, Answer

LEMMA IdleTyped ==
    Idle \in Question /\ Idle.st = "no"
BY DEF Idle, Question, Shown

LEMMA LandTyped ==
    ASSUME TypeOK, Land
    PROVE  TypeOK'
<1>1. asked' \in [Reads -> Question]
  BY IdleTyped, Typed DEF Land, LandOpen, LandWindow, LandVerify, LandUnseen, LandCounts, Landing
<1>2. ASSUME NEW r \in Reads
      PROVE  asked[r].snap \in Shown /\ asked[r].ids \in SUBSET Msgs
  BY Typed DEF Question
<1>3. ASSUME NEW m PROVE Held(m) \in Flags \cup {"none"}
  BY HeldHere, HeldIsAFlag, Typed
<1>4. ASSUME NEW rows, NEW snap \in Shown
      PROVE  Stored(rows, snap) \in Shown
  BY <1>3, Typed DEF Stored, Shown
<1>5. "window" \in Reads /\ "verify" \in Reads /\ "unseen" \in Reads /\ "counts" \in Reads /\ "open" \in Reads
  BY DEF Reads
<1>10. ASSUME NEW list \in Shown, NEW rows, NEW flags \in Shown
       PROVE  Listed(list, rows, flags) \in Shown
  BY DEF Listed, Shown
<1>11. CASE LandOpen
  <2> DEFINE rows == asked["open"].ids  snap == asked["open"].snap  new == Stored(rows, snap)
             some == {m \in Msgs : new[m] # "none"}
  <2>1. /\ cached' = new
        /\ shown' = IF open THEN Listed(Listed(shown, rows, snap), some, new) ELSE shown
    BY <1>11 DEF LandOpen
  <2>2. new \in Shown /\ shown \in Shown /\ snap \in Shown
    BY <1>2, <1>4, <1>5, Typed
  <2> HIDE DEF new, some, rows, snap
  <2>3. Listed(shown, rows, snap) \in Shown
    BY <1>10, <2>2
  <2>4. Listed(Listed(shown, rows, snap), some, new) \in Shown
    BY <1>10, <2>2, <2>3
  <2>5. cached' \in Shown /\ shown' \in Shown
    BY <2>1, <2>2, <2>4
  <2> QED BY <1>1, <1>11, <2>5, Typed, TypedNext DEF LandOpen
<1>6. CASE LandWindow
  <2>1. cached' \in Shown
    BY <1>2, <1>4, <1>5, <1>6 DEF LandWindow
  <2>2. shown' \in Shown
    <3>1. Listed(shown, asked["window"].ids, asked["window"].snap) \in Shown
      BY <1>2, <1>5, <1>10, Typed
    <3> QED BY <1>6, <3>1, Typed DEF LandWindow
  <2> QED BY <1>1, <1>6, <2>1, <2>2, Typed, TypedNext DEF LandWindow
<1>7. CASE LandVerify
  <2>1. cached' \in Shown
    BY <1>2, <1>4, <1>5, <1>7 DEF LandVerify
  <2>2. shown' \in Shown
    BY <1>7, Typed DEF LandVerify, Shown, Flags
  <2> QED BY <1>1, <1>7, <2>1, <2>2, Typed, TypedNext DEF LandVerify
<1>8. CASE LandUnseen
  <2>1. cached' \in Shown
    BY <1>2, <1>5, <1>8 DEF LandUnseen, UnseenSetApplied, Shown
  <2> QED BY <1>1, <1>8, <2>1, Typed, TypedNext DEF LandUnseen
<1>9. CASE LandCounts
  <2>1. cached' \in Shown /\ shown' \in Shown
    BY <1>9, Typed DEF LandCounts, Shown, Flags
  <2> QED BY <1>1, <1>9, <2>1, Typed, TypedNext DEF LandCounts
<1> QED BY <1>6, <1>7, <1>8, <1>9, <1>11 DEF Land

LEMMA AskSets ==
    ASSUME Ask
    PROVE  \E r \in Reads, ids \in SUBSET Msgs : Asking(r, ids)
<1>1. CASE AskOpen
  BY <1>1 DEF AskOpen, Newest, Reads
<1>5. CASE AskRefresh
  BY <1>5 DEF AskRefresh, Newest, Reads
<1>6. CASE AskHistory
  BY <1>6 DEF AskHistory, Newest, Reads
<1>2. CASE AskVerify
  BY <1>2 DEF AskVerify, Reads
<1>3. CASE AskUnseen
  BY <1>3 DEF AskUnseen, Reads
<1>4. CASE AskCounts
  BY <1>4 DEF AskCounts, Reads
<1> QED BY <1>1, <1>2, <1>3, <1>4, <1>5, <1>6 DEF Ask

LEMMA TypeKept ==
    ASSUME TypeOK, SentIsQueued, [Next]_vars
    PROVE  TypeOK' /\ SentIsQueued'
<1>1. TypeOK'
  <2>1. CASE \E m \in Msgs : \E flag \in Flags : MarkSeen(m, flag)
    BY <2>1, MarkTyped
  <2>2. CASE MarkFolderRead
    <3>1. "seen" \in Flags /\ \E m \in Msgs : cached[m] = "unseen"
      BY <2>2 DEF MarkFolderRead, Flags
    <3> QED BY <2>2, <3>1, MarkTyped
  <2>3. CASE Ask
    BY <2>3, AskSets, AskTyped
  <2>4. CASE \E r \in Reads : Answer(r)
    BY <2>4, AskTyped
  <2>5. CASE Land
    BY <2>5, LandTyped
  <2>6. CASE UNCHANGED vars
    BY <2>6, Typed, TypedNext DEF vars
  <2> QED BY <2>1, <2>2, <2>3, <2>4, <2>5, <2>6, ReplayTyped DEF Next
<1>2. SentIsQueued'
  <2>1. CASE UNCHANGED <<queue, sent>> \/ sent' = "no"
    BY <2>1 DEF SentIsQueued
  <2>2. CASE Send \/ Apply
    BY <2>2 DEF Send, Apply, SentIsQueued, Owes
  <2>3. CASE \E flag \in Flags, on \in SUBSET Msgs : Journalled(flag, on)
    BY <2>3, JournalledTyped, Typed DEF SentIsQueued
  <2>4. CASE \E m \in Msgs : \E flag \in Flags : MarkSeen(m, flag)
    BY <2>3, <2>4 DEF MarkSeen
  <2>5. CASE MarkFolderRead
    <3>1. "seen" \in Flags /\ {x \in Msgs : cached[x] = "unseen"} \in SUBSET Msgs
      BY DEF Flags
    <3> QED BY <2>3, <2>5, <3>1 DEF MarkFolderRead
  <2>6. CASE Ask
    BY <2>1, <2>6, AskSets DEF Asking
  <2> QED BY <2>1, <2>2, <2>4, <2>5, <2>6 DEF Next, vars, ReadElsewhere, OpenFolder, LeaveFolder,
             Renumber, Confirm, LinkLost, Answer, Land, LandOpen, LandWindow, LandVerify, LandUnseen, LandCounts,
             ApplyFolderInvalidated
<1> QED BY <1>1, <1>2
------------------------------------------------------------------------------
(* What keeps the marks together: an answer that is back carries the        *)
(* server's flag of each row asked about, and the unread ids are those of   *)
(* the whole folder; a list has a row exactly for each cached message while *)
(* the folder is open; only cached messages are named by a change; and a    *)
(* message a change calls read is listed as read, so that a late window,    *)
(* which leaves read rows read, cannot make it bold again.                  *)

AnswersAreFlags ==
    /\ \A r \in Reads : asked[r].st = "back" => \A m \in asked[r].ids : asked[r].snap[m] \in Flags
    /\ asked["unseen"].st # "no" => asked["unseen"].ids = Msgs

ListIsOpen == \A m \in Msgs : IF open THEN shown[m] = "none" <=> cached[m] = "none" ELSE shown[m] = "none"

HeldAreCached == \A m \in Msgs : Held(m) # "none" => cached[m] # "none"

ReadIsShown == \A m \in Msgs \ overrun : open /\ Held(m) = "seen" => shown[m] = "seen"

\* A verification asks about cached rows, and no renumbering is acted on meanwhile.
VerifiedAreCached ==
    asked["verify"].st # "no" => \A m \in asked["verify"].ids : cached[m] # "none"

SeenInv == /\ TypeOK /\ SentIsQueued /\ OpsNameCachedIds /\ AnswersAreFlags /\ VerifiedAreCached
           /\ ListIsOpen /\ HeldAreCached /\ ReadIsShown
           /\ MarksStand /\ BoldIsCounted

\* The same of one message.
Agree(m) ==
    /\ IF open THEN shown[m] = "none" <=> cached[m] = "none" ELSE shown[m] = "none"
    /\ Held(m) # "none" => cached[m] # "none"
    /\ m \notin overrun => /\ open /\ Held(m) = "seen" => shown[m] = "seen"
                           /\ Held(m) # "none" => cached[m] = Held(m)
                           /\ shown[m] = "unseen" => cached[m] = "unseen"

LEMMA AllAgree ==
    (\A m \in Msgs : Agree(m)) <=> /\ ListIsOpen /\ HeldAreCached /\ ReadIsShown
                                   /\ MarksStand /\ BoldIsCounted
BY DEF Agree, ListIsOpen, HeldAreCached, ReadIsShown, MarksStand, BoldIsCounted

LEMMA AllAgreeNext ==
    (\A m \in Msgs : Agree(m)') <=> /\ ListIsOpen' /\ HeldAreCached' /\ ReadIsShown'
                                    /\ MarksStand' /\ BoldIsCounted'
BY DEF Agree, ListIsOpen, HeldAreCached, ReadIsShown, MarksStand, BoldIsCounted

LEMMA HeldNext ==
    ASSUME NEW m
    PROVE  /\ Held(m)' = HeldIn(queue', m)
           /\ queue' = queue => Held(m)' = Held(m)
BY DEF Held, HeldIn, Naming, NamingIn

\* What a mark makes of the messages it names, and of the others.
LEMMA HeldAfterMark ==
    ASSUME TypeOK, NEW flag \in Flags, NEW on \in SUBSET Msgs, Journalled(flag, on), NEW m
    PROVE  Held(m)' = IF m \in on THEN flag ELSE Held(m)
<1>1. PICK op \in Op : op.flag = flag /\ op.on = on /\ op.at = cachedAt /\ queue' = Append(queue, op)
  BY JournalledTyped
<1>2. HeldIn(queue', m) = IF m \in op.on THEN op.flag ELSE HeldIn(queue, m)
  BY <1>1, HeldByTheNew, Typed
<1> QED BY <1>1, <1>2, HeldNext, HeldHere

LEMMA MarkAgrees ==
    ASSUME TypeOK, NEW m \in Msgs, Agree(m), NEW x \in Msgs, NEW flag \in Flags,
           MarkSeen(x, flag) \/ MarkFolderRead
    PROVE  Agree(m)'
<1>1. CASE MarkSeen(x, flag)
  <2>1. Held(m)' = IF m \in {x} THEN flag ELSE Held(m)
    BY <1>1, HeldAfterMark DEF MarkSeen
  <2>2. /\ shown'[m] = IF m = x THEN flag ELSE shown[m]
        /\ cached'[m] = IF m = x /\ cached[m] # "none" THEN flag ELSE cached[m]
        /\ open' = open /\ overrun' = overrun /\ open
        /\ m = x => shown[m] # "none"
    BY <1>1, Typed DEF MarkSeen, Shown
  <2> QED BY <2>1, <2>2 DEF Agree, Flags
<1>2. CASE MarkFolderRead
  <2>1. Held(m)' = IF m \in {n \in Msgs : cached[n] = "unseen"} THEN "seen" ELSE Held(m)
    <3>1. "seen" \in Flags /\ {n \in Msgs : cached[n] = "unseen"} \in SUBSET Msgs
      BY DEF Flags
    <3> QED BY <1>2, <3>1, HeldAfterMark DEF MarkFolderRead
  <2>2. /\ cached'[m] = IF cached[m] = "unseen" THEN "seen" ELSE cached[m]
        /\ shown'[m] = IF shown[m] = "none" THEN "none" ELSE "seen"
        /\ open' = open /\ overrun' = overrun
    BY <1>2 DEF MarkFolderRead
  <2> QED BY <2>1, <2>2 DEF Agree
<1> QED BY <1>1, <1>2

\* Opening lists the cache, leaving and a renumbering list nothing, and a
\* confirmed change leaves what newer ones say, if any.
LEMMA MoveAgrees ==
    ASSUME TypeOK, SentIsQueued, NEW m \in Msgs, Agree(m),
           OpenFolder \/ LeaveFolder \/ Confirm \/ ApplyFolderInvalidated
    PROVE  Agree(m)'
<1>1. CASE OpenFolder
  <2>1. shown'[m] = cached[m] /\ cached' = cached /\ open' = TRUE /\ overrun' = overrun /\ Held(m)' = Held(m)
    BY <1>1, HeldNext DEF OpenFolder
  <2> QED BY <2>1 DEF Agree
<1>2. CASE LeaveFolder
  <2>1. shown'[m] = "none" /\ cached' = cached /\ open' = FALSE /\ overrun' = overrun /\ Held(m)' = Held(m)
    BY <1>2, HeldNext DEF LeaveFolder, Off
  <2> QED BY <2>1 DEF Agree
<1>3. CASE Confirm
  <2>1. queue # <<>> /\ queue \in Seq(Op)
    BY <1>3, Typed DEF Confirm, SentIsQueued
  <2>2. Held(m)' \in {Held(m), "none"}
    BY <1>3, <2>1, HeldByTheRest, HeldNext, HeldHere DEF Confirm
  <2> QED BY <1>3, <2>2 DEF Agree, Confirm
<1>4. CASE ApplyFolderInvalidated
  <2>1. Held(m)' = "none"
    BY <1>4, NobodyHeld, HeldNext DEF ApplyFolderInvalidated
  <2> QED BY <1>4, <2>1 DEF Agree, ApplyFolderInvalidated, Off
<1> QED BY <1>1, <1>2, <1>3, <1>4

LEMMA RestAgrees ==
    ASSUME NEW m \in Msgs, Agree(m), UNCHANGED <<cached, shown, open, queue, overrun>>
    PROVE  Agree(m)'
BY HeldNext DEF Agree

\* Every late answer: what it stores yields to the queue, or is counted as
\* overrun; what it lists as unread is unread in the cache.
LEMMA LandAgrees ==
    ASSUME TypeOK, AnswersAreFlags, VerifiedAreCached, NEW m \in Msgs, Agree(m), Land
    PROVE  Agree(m)'
<1>1. Held(m)' = Held(m) /\ open' = open
  <2>1. queue' = queue /\ open' = open
    BY DEF Land, LandOpen, LandWindow, LandVerify, LandUnseen, LandCounts
  <2> QED BY <2>1, HeldNext
<1>2. Held(m) \in Flags \cup {"none"}
  BY HeldHere, HeldIsAFlag, Typed
<1>3. cached[m] \in Flags \cup {"none"} /\ shown[m] \in Flags \cup {"none"}
  BY Typed DEF Shown
<1>4. ASSUME NEW r \in Reads, Landing(r), m \in asked[r].ids
      PROVE  asked[r].snap[m] \in Flags
  BY <1>4 DEF Landing, AnswersAreFlags
<1>5. /\ "window" \in Reads /\ "verify" \in Reads /\ "unseen" \in Reads /\ "counts" \in Reads
      /\ "open" \in Reads
  BY DEF Reads
<1>10. CASE LandOpen
  <2> DEFINE got == asked["open"].snap[m]  rows == asked["open"].ids
             listed == IF m \notin rows \/ shown[m] = "seen" THEN shown[m] ELSE got
  <2>1. m \in rows => got \in Flags
    BY <1>4, <1>5, <1>10 DEF LandOpen
  <2>2. /\ cached'[m] = IF m \notin rows THEN cached[m] ELSE IF Held(m) # "none" THEN Held(m) ELSE got
        /\ shown'[m] = IF open THEN (IF cached'[m] = "none" \/ listed = "seen" THEN listed ELSE cached'[m])
                       ELSE shown[m]
        /\ overrun' = overrun
    BY <1>10 DEF LandOpen, Stored, Listed
  <2> HIDE DEF got, rows
  <2>3. CASE m \in rows
    BY <1>1, <1>2, <1>3, <2>1, <2>2, <2>3 DEF Agree, Flags
  <2>4. CASE m \notin rows
    BY <1>1, <1>2, <1>3, <2>2, <2>4 DEF Agree, Flags
  <2> QED BY <2>3, <2>4
<1>6. CASE LandWindow
  <2> DEFINE got == asked["window"].snap[m]  rows == asked["window"].ids
  <2>1. m \in rows => got \in Flags
    BY <1>4, <1>5, <1>6 DEF LandWindow
  <2>2. /\ cached'[m] = IF m \notin rows THEN cached[m] ELSE IF Held(m) # "none" THEN Held(m) ELSE got
        /\ shown'[m] = IF open THEN (IF m \notin rows \/ shown[m] = "seen" THEN shown[m] ELSE got)
                       ELSE shown[m]
        /\ overrun' = overrun
    BY <1>6 DEF LandWindow, Stored, Listed
  <2> HIDE DEF got, rows
  <2> QED BY <1>1, <1>2, <1>3, <2>1, <2>2 DEF Agree, Flags
<1>7. CASE LandVerify
  <2> DEFINE got == asked["verify"].snap[m]  rows == asked["verify"].ids
  <2>1. m \in rows => got \in Flags
    BY <1>4, <1>5, <1>7 DEF LandVerify
  <2>2. /\ cached'[m] = IF m \notin rows THEN cached[m] ELSE IF Held(m) # "none" THEN Held(m) ELSE got
        /\ shown'[m] = IF m \in rows /\ shown[m] # "none" /\ got = "seen" THEN "seen" ELSE shown[m]
        /\ overrun' = overrun
    BY <1>7 DEF LandVerify, Stored
  <2>3. m \in rows => cached[m] # "none"
    BY <1>7 DEF LandVerify, Landing, VerifiedAreCached
  <2> HIDE DEF got, rows
  <2> QED BY <1>1, <1>2, <1>3, <2>1, <2>2, <2>3 DEF Agree, Flags
<1>8. CASE LandUnseen
  <2> DEFINE got == asked["unseen"].snap[m]
  <2>1. got \in Flags
    BY <1>4, <1>5, <1>8 DEF LandUnseen, Landing, AnswersAreFlags
  <2>2. /\ cached'[m] = IF cached[m] = "none" THEN "none" ELSE got
        /\ shown'[m] = shown[m]
    BY <1>8 DEF LandUnseen, UnseenSetApplied
  <2>3. ASSUME m \notin overrun'
        PROVE  /\ m \notin overrun
               /\ cached'[m] = cached[m] \/ (Held(m) = "none" /\ shown[m] # "unseen")
    BY <1>8, <2>3 DEF LandUnseen
  <2> HIDE DEF got
  <2>4. cached'[m] = "none" <=> cached[m] = "none"
    BY <2>1, <2>2 DEF Flags
  <2>5. CASE m \in overrun'
    BY <1>1, <2>2, <2>4, <2>5 DEF Agree
  <2>6. CASE m \notin overrun'
    BY <1>1, <2>2, <2>3, <2>4, <2>6 DEF Agree
  <2> QED BY <2>5, <2>6
<1>9. CASE LandCounts
  <2>1. CASE Owes
    <3>1. cached'[m] = cached[m] /\ shown'[m] = shown[m] /\ overrun' = overrun
      BY <1>9, <2>1 DEF LandCounts
    <3> QED BY <1>1, <3>1 DEF Agree
  <2>2. CASE ~Owes
    <3>1. Held(m) = "none"
      BY <2>2, HeldHere, NobodyHeld DEF Owes
    <3>2. /\ overrun' = overrun
          /\ \/ cached'[m] = cached[m] /\ shown'[m] = shown[m]
             \/ /\ cached'[m] = IF cached[m] = "none" THEN "none" ELSE "seen"
                /\ shown'[m] = IF shown[m] = "none" THEN "none" ELSE "seen"
      BY <1>9, Typed DEF LandCounts, Shown
    <3> QED BY <1>1, <3>1, <3>2 DEF Agree
  <2> QED BY <2>1, <2>2
<1> QED BY <1>6, <1>7, <1>8, <1>9, <1>10 DEF Land

\* An answer carries the flags the server has when it is given.
LEMMA AnswersKept ==
    ASSUME TypeOK, AnswersAreFlags, [Next]_vars
    PROVE  AnswersAreFlags'
<1>1. ASSUME NEW r \in Reads, Landing(r)
      PROVE  AnswersAreFlags'
  BY <1>1, IdleTyped, Typed DEF AnswersAreFlags, Landing
<1>2. ASSUME NEW r \in Reads, NEW ids \in SUBSET Msgs, Asking(r, ids), r = "unseen" => ids = Msgs
      PROVE  AnswersAreFlags'
  <2>1. /\ asked[r] \in Question /\ asked'[r].st = "out" /\ asked'[r].ids = ids
        /\ \A q \in Reads \ {r} : asked'[q] = asked[q]
    BY <1>2, Typed DEF Asking, Question
  <2>2. ASSUME NEW q \in Reads, asked'[q].st = "back"
        PROVE  \A m \in asked'[q].ids : asked'[q].snap[m] \in Flags
    BY <2>1, <2>2 DEF AnswersAreFlags
  <2>3. asked'["unseen"].st # "no" => asked'["unseen"].ids = Msgs
    BY <1>2, <2>1 DEF AnswersAreFlags, Reads
  <2> QED BY <2>2, <2>3 DEF AnswersAreFlags
<1>3. ASSUME NEW r \in Reads, Answer(r)
      PROVE  AnswersAreFlags'
  <2> DEFINE told == [m \in Msgs |-> IF m \in asked[r].ids THEN srv[m] ELSE "none"]
  <2>1. \A m \in asked[r].ids : told[m] \in Flags
    <3>1. asked[r].ids \subseteq Msgs
      BY Typed DEF Question
    <3> QED BY <3>1, Typed
  <2>2. asked' = [asked EXCEPT ![r].st = "back", ![r].snap = told]
    BY <1>3 DEF Answer
  <2> HIDE DEF told
  <2>3. /\ asked[r] \in Question /\ asked'[r].ids = asked[r].ids /\ asked'[r].snap = told
        /\ \A q \in Reads \ {r} : asked'[q] = asked[q]
    BY <2>2, Typed DEF Question
  <2>4. ASSUME NEW q \in Reads, asked'[q].st = "back"
        PROVE  \A m \in asked'[q].ids : asked'[q].snap[m] \in Flags
    BY <2>1, <2>3, <2>4 DEF AnswersAreFlags
  <2>5. asked[r].st # "no"
    BY <1>3 DEF Answer
  <2>6. asked'["unseen"].st # "no" => asked'["unseen"].ids = Msgs
    BY <2>3, <2>5 DEF AnswersAreFlags, Reads
  <2> QED BY <2>4, <2>6 DEF AnswersAreFlags
<1>4. CASE LinkLost
  <2>1. \A q \in Reads : asked'[q].st = "no"
    BY <1>4, IdleTyped DEF LinkLost
  <2> QED BY <2>1 DEF AnswersAreFlags, Reads
<1>5. CASE asked' = asked
  BY <1>5 DEF AnswersAreFlags
<1>6. CASE Land
  BY <1>1, <1>6 DEF Land, LandOpen, LandWindow, LandVerify, LandUnseen, LandCounts, Reads
<1>7. CASE Ask
  <2>1. CASE AskUnseen
    BY <1>2, <2>1 DEF AskUnseen, Reads
  <2>2. CASE AskOpen \/ AskRefresh \/ AskHistory
    BY <1>2, <2>2 DEF AskOpen, AskRefresh, AskHistory, Newest, Reads
  <2>3. CASE AskVerify \/ AskCounts
    BY <1>2, <2>3 DEF AskVerify, AskCounts, Reads
  <2> QED BY <1>7, <2>1, <2>2, <2>3 DEF Ask
<1> QED BY <1>3, <1>4, <1>5, <1>6, <1>7 DEF Next, vars, ReadElsewhere, MarkSeen, MarkFolderRead,
           OpenFolder, LeaveFolder, Renumber, Send, Apply, Confirm, ApplyFolderInvalidated

\* A change is made with the ids the cache holds, and dropped with them.
LEMMA IdsKept ==
    ASSUME TypeOK, SentIsQueued, OpsNameCachedIds, [Next]_vars
    PROVE  OpsNameCachedIds'
<1>1. CASE UNCHANGED <<queue, cachedAt>>
  BY <1>1 DEF OpsNameCachedIds
<1>2. ASSUME NEW flag \in Flags, NEW on \in SUBSET Msgs, Journalled(flag, on), cachedAt' = cachedAt
      PROVE  OpsNameCachedIds'
  <2>1. PICK op \in Op : op.at = cachedAt /\ queue' = Append(queue, op)
    BY <1>2, JournalledTyped
  <2>2. queue \in Seq(Op)
    BY Typed
  <2>3. ASSUME NEW i \in DOMAIN queue'
        PROVE  queue'[i].at = cachedAt
    <3>1. CASE i \in DOMAIN queue
      BY <2>1, <2>2, <3>1 DEF OpsNameCachedIds
    <3>2. CASE i \notin DOMAIN queue
      <4>1. i = Len(queue) + 1
        BY <2>1, <2>2, <2>3, <3>2
      <4> QED BY <2>1, <2>2, <4>1
    <3> QED BY <3>1, <3>2
  <2> QED BY <1>2, <2>3 DEF OpsNameCachedIds
<1>3. CASE \E m \in Msgs : \E flag \in Flags : MarkSeen(m, flag)
  BY <1>2, <1>3 DEF MarkSeen
<1>4. CASE MarkFolderRead
  <2>1. "seen" \in Flags /\ {x \in Msgs : cached[x] = "unseen"} \in SUBSET Msgs
    BY DEF Flags
  <2> QED BY <1>2, <1>4, <2>1 DEF MarkFolderRead
<1>5. CASE Confirm
  <2>1. queue # <<>> /\ queue \in Seq(Op) /\ queue' = Tail(queue) /\ cachedAt' = cachedAt
    BY <1>5, Typed DEF Confirm, SentIsQueued
  <2>2. ASSUME NEW i \in DOMAIN queue'
        PROVE  i + 1 \in DOMAIN queue /\ queue'[i] = queue[i + 1]
    BY <2>1, <2>2
  <2> QED BY <2>1, <2>2 DEF OpsNameCachedIds
<1>6. CASE ApplyFolderInvalidated
  BY <1>6 DEF ApplyFolderInvalidated, OpsNameCachedIds
<1>7. CASE Ask
  BY <1>1, <1>7, AskSets DEF Asking
<1> QED BY <1>1, <1>3, <1>4, <1>5, <1>6, <1>7 DEF Next, vars, ReadElsewhere,
           OpenFolder, LeaveFolder, Renumber, Send, Apply, LinkLost, Answer,
           Land, LandOpen, LandWindow, LandVerify, LandUnseen, LandCounts

\* A cached row stays cached until a renumbering is noticed.
LEMMA CachedStay ==
    ASSUME TypeOK, AnswersAreFlags, [Next]_vars, ~ApplyFolderInvalidated,
           NEW m \in Msgs, cached[m] # "none"
    PROVE  cached'[m] # "none"
<1>1. CASE cached' = cached
  BY <1>1
<1>2. CASE \E x \in Msgs : \E flag \in Flags : MarkSeen(x, flag)
  BY <1>2, Typed DEF MarkSeen, Flags, Shown
<1>3. CASE MarkFolderRead \/ LandCounts
  BY <1>3 DEF MarkFolderRead, LandCounts
<1>4. ASSUME NEW r \in Reads, Landing(r), m \in asked[r].ids
      PROVE  asked[r].snap[m] \in Flags
  BY <1>4 DEF Landing, AnswersAreFlags
<1>5. "open" \in Reads /\ "window" \in Reads /\ "verify" \in Reads /\ "unseen" \in Reads
  BY DEF Reads
<1>10. CASE LandOpen
  BY <1>4, <1>5, <1>10 DEF LandOpen, Stored, Flags
<1>6. CASE LandWindow
  BY <1>4, <1>5, <1>6 DEF LandWindow, Stored, Flags
<1>7. CASE LandVerify
  BY <1>4, <1>5, <1>7 DEF LandVerify, Stored, Flags
<1>8. CASE LandUnseen
  BY <1>4, <1>5, <1>8 DEF LandUnseen, Landing, AnswersAreFlags, UnseenSetApplied, Flags
<1>9. CASE Ask
  BY <1>1, <1>9, AskSets DEF Asking
<1> QED BY <1>1, <1>2, <1>3, <1>6, <1>7, <1>8, <1>9, <1>10 DEF Next, vars, Land, ReadElsewhere,
           OpenFolder, LeaveFolder, Renumber, Send, Apply, Confirm, LinkLost, Answer

LEMMA VerifiedKept ==
    ASSUME TypeOK, AnswersAreFlags, VerifiedAreCached, [Next]_vars
    PROVE  VerifiedAreCached'
<1> DEFINE v == asked["verify"]
<1>1. "verify" \in Reads /\ v \in Question
  BY Typed DEF Reads
<1>2. CASE v'.st = "no"
  BY <1>2 DEF VerifiedAreCached
<1>3. CASE ApplyFolderInvalidated
  BY <1>3 DEF ApplyFolderInvalidated, VerifiedAreCached
<1>4. CASE AskVerify
  BY <1>1, <1>4, Typed DEF AskVerify, Asking, VerifiedAreCached
<1>5. ASSUME v'.ids = v.ids, v.st # "no", ~ApplyFolderInvalidated
      PROVE  VerifiedAreCached'
  <2>1. v.ids \subseteq Msgs
    BY <1>1 DEF Question
  <2> QED BY <1>5, <2>1, CachedStay DEF VerifiedAreCached
<1>6. CASE asked' = asked /\ ~ApplyFolderInvalidated
  BY <1>2, <1>5, <1>6
<1>7. CASE LinkLost
  BY <1>1, <1>2, <1>7, IdleTyped DEF LinkLost
<1>8. ASSUME NEW r \in Reads, Answer(r)
      PROVE  VerifiedAreCached'
  BY <1>1, <1>8, Typed DEF Answer, VerifiedAreCached
<1>9. CASE AskOpen \/ AskRefresh \/ AskHistory \/ AskUnseen \/ AskCounts
  BY <1>1, <1>9, Typed DEF AskOpen, AskRefresh, AskHistory, AskUnseen, AskCounts, Asking, VerifiedAreCached,
     Reads
<1>10. CASE LandVerify
  BY <1>1, <1>2, <1>10, IdleTyped, Typed DEF LandVerify, Landing
<1>11. CASE LandOpen \/ LandWindow \/ LandUnseen \/ LandCounts
  <2>1. v' = v
    BY <1>1, <1>11, Typed DEF LandOpen, LandWindow, LandUnseen, LandCounts, Landing, Reads
  <2> QED BY <1>2, <1>3, <1>5, <2>1
<1> QED BY <1>3, <1>4, <1>6, <1>7, <1>8, <1>9, <1>10, <1>11 DEF Next, Ask, Land, vars, ReadElsewhere, MarkSeen,
           MarkFolderRead, OpenFolder, LeaveFolder, Renumber, Send, Apply, Confirm

LEMMA MarksKept ==
    ASSUME SeenInv, [Next]_vars, NEW m \in Msgs
    PROVE  Agree(m)'
<1> USE DEF SeenInv
<1>1. Agree(m)
  BY AllAgree
<1>2. CASE UNCHANGED <<cached, shown, open, queue, overrun>>
  BY <1>1, <1>2, RestAgrees
<1>3. CASE \E x \in Msgs : \E flag \in Flags : MarkSeen(x, flag)
  BY <1>1, <1>3, MarkAgrees
<1>4. CASE MarkFolderRead
  <2>1. "seen" \in Flags
    BY DEF Flags
  <2> QED BY <1>1, <1>4, <2>1, MarkAgrees
<1>5. CASE Ask
  BY <1>2, <1>5, AskSets DEF Asking
<1>6. CASE OpenFolder \/ LeaveFolder \/ Confirm \/ ApplyFolderInvalidated
  BY <1>1, <1>6, MoveAgrees
<1>7. CASE Land
  BY <1>1, <1>7, LandAgrees
<1> QED BY <1>2, <1>3, <1>4, <1>5, <1>6, <1>7 DEF Next, vars, ReadElsewhere, Renumber, Send, Apply, LinkLost, Answer

LEMMA SeenInvInit ==
    ASSUME Init
    PROVE  SeenInv
<1>1. TypeOK
  BY InitTyped
<1>2. queue = <<>> /\ sent = "no" /\ open = FALSE /\ shown = Off /\ cached = srv
  BY DEF Init
<1>3. AnswersAreFlags /\ VerifiedAreCached
  BY IdleTyped DEF Init, AnswersAreFlags, VerifiedAreCached, Reads
<1>4. ASSUME NEW m \in Msgs PROVE Agree(m)
  <2>1. Held(m) = "none"
    BY <1>2, HeldHere, NobodyHeld
  <2> QED BY <1>2, <2>1 DEF Agree, Off
<1> QED BY <1>1, <1>2, <1>3, <1>4, AllAgree DEF SeenInv, SentIsQueued, OpsNameCachedIds, VerifiedAreCached

LEMMA SeenInvKept ==
    ASSUME SeenInv, [Next]_vars
    PROVE  SeenInv'
<1>1. \A m \in Msgs : Agree(m)'
  BY MarksKept
<1> QED BY <1>1, TypeKept, AnswersKept, IdsKept, VerifiedKept, AllAgreeNext DEF SeenInv

LEMMA SeenInvHolds ==
    Spec => []SeenInv
<1>1. Init => SeenInv
  BY SeenInvInit
<1>2. SeenInv /\ [Next]_vars => SeenInv'
  BY SeenInvKept
<1> QED BY <1>1, <1>2, PTL DEF Spec

\* Every variable of SeenSync keeps its type; what the cache knows of the
\* numbering never runs ahead of the server.
THEOREM TypeCorrect ==
    Spec => []TypeOK
<1>1. SeenInv => TypeOK
  BY DEF SeenInv
<1> QED BY <1>1, SeenInvHolds, PTL

\* A cached row a queued change names shows what the newest such change says,
\* whatever old window, verification or count lands on it, however many
\* questions are under way (storeHeadersIn, reconcileSeenWithServer).
THEOREM MarksStandAlways ==
    Spec => []MarksStand
<1>1. SeenInv => MarksStand
  BY DEF SeenInv
<1> QED BY <1>1, SeenInvHolds, PTL

\* The list shows no mail as unread that the badge does not count
\* (appendHeaders, verifyCachedUnread, reconcileSeenWithServer).
THEOREM BoldIsAlwaysCounted ==
    Spec => []BoldIsCounted
<1>1. SeenInv => BoldIsCounted
  BY DEF SeenInv
<1> QED BY <1>1, SeenInvHolds, PTL

\* Queued changes name messages by the ids the cache holds, through every
\* renumbering the client notices (applyFolderInvalidated).
THEOREM OpsAlwaysNameCachedIds ==
    Spec => []OpsNameCachedIds
<1>1. SeenInv => OpsNameCachedIds
  BY DEF SeenInv
<1> QED BY <1>1, SeenInvHolds, PTL

==============================================================================
