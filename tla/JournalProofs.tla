---------------------------- MODULE JournalProofs ----------------------------
(***************************************************************************)
(* Theorems about Journal, for any messages, mailboxes, op limit, backend, *)
(* chunking and fault budget.  First type correctness, and from it that no *)
(* cached copy is lost; then that the in-flight guard always has its reply; *)
(* then what the journal's rows and its requests say of each other: over   *)
(* IMAP ops reach the server strictly one at a time, over JMAP a try is    *)
(* spent only on a refusal, hidden mail has an op that will remove it, and *)
(* an op is retired together with those that depend on it; last, that the  *)
(* cache shows what the server will show once the queue has drained.       *)
(***************************************************************************)
EXTENDS Journal, FiniteSetTheorems, WellFoundedInduction, TLAPS

-----------------------------------------------------------------------------
(* Lemmas about the table and the cache.                                    *)

\* A nonempty set of naturals has a least element.
LEMMA LeastIn ==
    ASSUME NEW R, IsWellFoundedOn(R, Nat), NEW S, S \subseteq Nat, S # {}
    PROVE  \E n \in S : \A k \in S : ~(<<k, n>> \in R)
BY WFMin

LEMMA LeastNatural ==
    ASSUME NEW S, S \subseteq Nat, S # {}
    PROVE  \E n \in S : \A k \in S : n <= k
<1>1. PICK n \in S : \A k \in S : ~(<<k, n>> \in OpToRel(<, Nat))
  BY LeastIn, NatLessThanWellFounded
<1>2. ASSUME NEW k \in S
      PROVE  n <= k
  <2>1. ~(k < n)
    BY <1>1 DEF OpToRel
  <2> QED BY <2>1
<1> QED BY <1>2

\* The rows the queries pick by ORDER BY id exist, and bound the others.
LEMMA OldestIsFirst ==
    ASSUME NEW T \in SUBSET Op, T # {}
    PROVE  Oldest(T) \in T /\ \A p \in T : Oldest(T).id <= p.id
<1> DEFINE ids == {o.id : o \in T}
<1>1. ids \subseteq Nat /\ ids # {}
  BY DEF Op, Ids
<1>2. PICK n \in ids : \A k \in ids : n <= k
  BY <1>1, LeastNatural
<1>3. PICK o \in T : o.id = n
  BY <1>2
<1>4. \A p \in T : o.id <= p.id
  BY <1>2, <1>3
<1> QED BY <1>4 DEF Oldest

LEMMA NewestIsLast ==
    ASSUME NEW T \in SUBSET Op, T # {}
    PROVE  Newest(T) \in T /\ \A p \in T : p.id <= Newest(T).id
<1> DEFINE below == {MaxOps - o.id : o \in T}
<1>1. below \subseteq Nat /\ below # {}
  BY JournalAssumption DEF Op, Ids
<1>2. PICK n \in below : \A k \in below : n <= k
  BY <1>1, LeastNatural
<1>3. PICK o \in T : MaxOps - o.id = n
  BY <1>2
<1>4. \A p \in T : p.id <= o.id
  <2> TAKE p \in T
  <2>1. MaxOps - o.id <= MaxOps - p.id
    BY <1>2, <1>3
  <2> QED BY <2>1, JournalAssumption DEF Op, Ids
<1> QED BY <1>4 DEF Newest

LEMMA LiveRows ==
    ASSUME NEW j \in SUBSET Op, IsFiniteSet(j)
    PROVE  /\ Live(j) \in SUBSET j /\ Live(j) \in SUBSET Op
           /\ IsFiniteSet(Live(j))
           /\ Cardinality(Live(j)) \in Nat
<1>1. Live(j) \subseteq j
  BY DEF Live
<1> QED BY <1>1, FS_Subset, FS_CardinalityType

\* Rewriting rows one for one leaves a finite set.
LEMMA RetiredRows ==
    ASSUME NEW j \in SUBSET Op, IsFiniteSet(j), NEW T
    PROVE  Retired(j, T) \in SUBSET Op /\ IsFiniteSet(Retired(j, T))
<1> DEFINE g == [o \in j |-> IF o \in T THEN [o EXCEPT !.retired = TRUE] ELSE o]
<1>1. g \in Surjection(j, Retired(j, T))
  BY DEF Retired, Surjection
<1>2. IsFiniteSet(Retired(j, T))
  BY <1>1, FS_Surjection
<1>3. Retired(j, T) \in SUBSET Op
  BY DEF Retired, Op
<1> QED BY <1>2, <1>3

LEMMA FailedRows ==
    ASSUME NEW j \in SUBSET Op, IsFiniteSet(j), NEW id
    PROVE  Failed(j, id) \in SUBSET Op /\ IsFiniteSet(Failed(j, id))
<1> DEFINE g == [o \in j |-> IF o.id = id THEN [o EXCEPT !.tries = @ + 1] ELSE o]
<1>1. g \in Surjection(j, Failed(j, id))
  BY DEF Failed, Surjection
<1>2. IsFiniteSet(Failed(j, id))
  BY <1>1, FS_Surjection
<1>3. Failed(j, id) \in SUBSET Op
  BY DEF Failed, Op
<1> QED BY <1>2, <1>3

LEMMA DroppedRows ==
    ASSUME NEW j \in SUBSET Op, IsFiniteSet(j), NEW id
    PROVE  Dropped(j, id) \in SUBSET Op /\ IsFiniteSet(Dropped(j, id))
<1>1. Dropped(j, id) \subseteq j
  BY DEF Dropped
<1> QED BY <1>1, FS_Subset

LEMMA MarkedFlags ==
    ASSUME NEW f \in [Msgs -> SUBSET Flags], NEW kind, NEW S
    PROVE  Marked(f, kind, S) \in [Msgs -> SUBSET Flags]
BY DEF Marked, FlagOf, Flags

LEMMA UndoneFlags ==
    ASSUME NEW f, NEW T
    PROVE  \A first : Undone(f, T, first) \in [Msgs -> SUBSET Flags]
BY DEF Undone

-----------------------------------------------------------------------------
(* Type correctness.                                                        *)

\* What the end of a handler writes.
TailTyped ==
    /\ hidden \subseteq cached
    /\ flags \in [Msgs -> SUBSET Flags]
    /\ journal \subseteq Op /\ IsFiniteSet(journal)
    /\ inFlight \in 0..MaxOps
    /\ pending \in Nat
    /\ resync \in BOOLEAN
    /\ wire \subseteq Request

\* drainJournal() leaves every variable it writes in its type.
LEMMA DrainTyped ==
    ASSUME TypeOK, NEW j \in SUBSET Op, IsFiniteSet(j), NEW h, h \subseteq cached',
           NEW f, NEW shown \in Nat, NEW w \in SUBSET Request,
           Drain(j, h, f, shown, w)
    PROVE  TailTyped'
<1> DEFINE stale == Stale(j)
           left  == j \ stale
<1>1. left \in SUBSET Op /\ IsFiniteSet(left)
  BY FS_Subset
<1>2. /\ journal' = left
      /\ hidden' \subseteq cached'
      /\ flags' \in [Msgs -> SUBSET Flags]
  BY UndoneFlags DEF Drain
<1>3. CASE Live(left) = {}
  BY <1>1, <1>2, <1>3, JournalAssumption DEF Drain, TailTyped, TypeOK
<1>4. CASE Live(left) # {}
  <2> DEFINE next == Oldest(Live(left))
  <2>1. next \in Op
    BY <1>1, <1>4, OldestIsFirst, LiveRows
  <2>2. [op |-> next, answer |-> "awaited", leg |-> "current"] \in Request
    BY <2>1 DEF Request
  <2>3. next.id \in 0..MaxOps
    BY <2>1, JournalAssumption DEF Op, Ids
  <2> HIDE DEF next
  <2>4. /\ inFlight' = next.id
        /\ wire' = w \cup {[op |-> next, answer |-> "awaited", leg |-> "current"]}
        /\ pending' = shown
        /\ resync' = resync
    BY <1>4 DEF Drain, next
  <2> QED BY <1>1, <1>2, <2>2, <2>3, <2>4 DEF TailTyped, TypeOK
<1> QED BY <1>3, <1>4

\* A handler that ends without a drain does too.
LEMMA RestTyped ==
    ASSUME TypeOK, NEW j \in SUBSET Op, IsFiniteSet(j), NEW h, h \subseteq cached',
           NEW f \in [Msgs -> SUBSET Flags], NEW shown \in Nat,
           NEW w \in SUBSET Request, NEW busy \in 0..MaxOps,
           Rest(j, h, f, shown, w, busy)
    PROVE  TailTyped'
BY DEF Rest, TailTyped, TypeOK

LEMMA CountAndDrainTyped ==
    ASSUME TypeOK, NEW j \in SUBSET Op, IsFiniteSet(j), NEW h, h \subseteq cached',
           NEW f \in [Msgs -> SUBSET Flags],
           NEW w \in SUBSET Request, NEW busy \in 0..MaxOps, NEW up,
           CountAndDrain(j, h, f, w, busy, up)
    PROVE  TailTyped'
<1> DEFINE shown == Cardinality(Live(j))
<1>1. shown \in Nat
  BY LiveRows
<1>2. CASE busy = 0 /\ up
  BY <1>1, <1>2, DrainTyped DEF CountAndDrain
<1>3. CASE ~(busy = 0 /\ up)
  BY <1>1, <1>3, RestTyped DEF CountAndDrain
<1> QED BY <1>2, <1>3

LEMMA SpendTyped ==
    ASSUME TypeOK, NEW fault \in Faults, Spend(fault)
    PROVE  budget' \in [Faults \cup {"any"} -> Nat]
BY DEF Spend, TypeOK

LEMMA NewOpTyped ==
    ASSUME TypeOK, nextId <= MaxOps, NEW kind \in FlagKinds \cup RemovalKinds,
           NEW F \in Folders, NEW target \in Folders \cup {NoFolder}, NEW S \in SUBSET Msgs
    PROVE  NewOp(kind, F, target, S) \in Op
BY JournalAssumption DEF NewOp, Op, Ids, TypeOK

\* A gesture's row and whatever draining it starts.
LEMMA RecordTyped ==
    ASSUME TypeOK, NEW kind \in FlagKinds \cup RemovalKinds, NEW F \in Folders,
           NEW target \in Folders \cup {NoFolder}, NEW S \in SUBSET Msgs,
           NEW h, h \subseteq cached, NEW f \in [Msgs -> SUBSET Flags],
           cached' = cached, Record(kind, F, target, S, h, f)
    PROVE  /\ TailTyped'
           /\ nextId' \in 1..(MaxOps + 1)
           /\ budget' \in [Faults \cup {"any"} -> Nat]
<1>1. CASE /\ nextId' = nextId + 1
           /\ CountAndDrain(journal \cup {NewOp(kind, F, target, S)}, h, f, wire,
                            inFlight, connected)
           /\ UNCHANGED budget
  <2> DEFINE j == journal \cup {NewOp(kind, F, target, S)}
  <2>1. nextId <= MaxOps
    BY DEF Record
  <2>2. j \in SUBSET Op /\ IsFiniteSet(j)
    <3>1. NewOp(kind, F, target, S) \in Op
      BY <2>1, NewOpTyped
    <3> QED BY <3>1, FS_AddElement DEF TypeOK
  <2> HIDE DEF j
  <2>3. CountAndDrain(j, h, f, wire, inFlight, connected)
    BY <1>1 DEF j
  <2>4. TailTyped'
    BY <2>2, <2>3, CountAndDrainTyped DEF TypeOK
  <2> QED BY <1>1, <2>1, <2>4, JournalAssumption DEF TypeOK
<1>2. CASE /\ Spend("nospace")
           /\ Rest(journal, h, f, pending, wire, inFlight)
           /\ UNCHANGED nextId
  <2>1. TailTyped'
    BY <1>2, RestTyped DEF TypeOK
  <2> QED BY <1>2, <2>1, SpendTyped DEF TypeOK, Faults
<1> QED BY <1>1, <1>2 DEF Record

\* What a handler that leaves the rest alone has to show.
LEMMA TypeFromTail ==
    ASSUME TypeOK, TailTyped', cached' \subseteq Msgs,
           nextId' \in 1..(MaxOps + 1), budget' \in [Faults \cup {"any"} -> Nat],
           where' \in [Msgs -> {"home", "moved", "gone"}],
           srvFlags' \in [Msgs -> SUBSET Flags], defied' \subseteq Msgs,
           open' \in BOOLEAN, connected' \in BOOLEAN, timer' \in BOOLEAN
    PROVE  TypeOK'
BY DEF TypeOK, TailTyped

LEMMA GesturesTyped ==
    ASSUME TypeOK, NEW F \in Folders, NEW S \in SUBSET Msgs
    PROVE  /\ \A kind \in FlagKinds : Mark(kind, F, S) => TypeOK'
           /\ \A kind \in RemovalKinds, target \in Folders \cup {NoFolder} :
                 Remove(kind, F, target, S) => TypeOK'
<1>1. ASSUME NEW kind \in FlagKinds, Mark(kind, F, S)
      PROVE  TypeOK'
  <2>1. Marked(flags, kind, S) \in [Msgs -> SUBSET Flags]
    BY MarkedFlags DEF TypeOK
  <2>2. /\ cached' = cached
        /\ Record(kind, F, NoFolder, S, hidden, Marked(flags, kind, S))
        /\ UNCHANGED <<server, open, connected, timer>>
    BY <1>1 DEF Mark
  <2>3. /\ TailTyped'
        /\ nextId' \in 1..(MaxOps + 1)
        /\ budget' \in [Faults \cup {"any"} -> Nat]
    BY <2>1, <2>2, RecordTyped DEF TypeOK
  <2> QED BY <2>2, <2>3, TypeFromTail DEF TypeOK, server
<1>2. ASSUME NEW kind \in RemovalKinds, NEW target \in Folders \cup {NoFolder},
             Remove(kind, F, target, S)
      PROVE  TypeOK'
  <2>1. hidden \cup S \subseteq cached
    BY <1>2 DEF Remove, Visible, TypeOK
  <2>2. /\ cached' = cached
        /\ Record(kind, F, target, S, hidden \cup S, flags)
        /\ UNCHANGED <<server, open, connected, timer>>
    BY <1>2 DEF Remove
  <2>3. /\ TailTyped'
        /\ nextId' \in 1..(MaxOps + 1)
        /\ budget' \in [Faults \cup {"any"} -> Nat]
    BY <2>1, <2>2, RecordTyped DEF TypeOK
  <2> QED BY <2>2, <2>3, TypeFromTail DEF TypeOK, server
<1> QED BY <1>1, <1>2

LEMMA FailedListTyped ==
    ASSUME TypeOK, FailedList
    PROVE  TypeOK'
<1>1. ASSUME NEW op \in journal, RetryFailedChange(op)
      PROVE  TypeOK'
  <2> DEFINE revived == [op EXCEPT !.retired = FALSE, !.tries = 0, !.old = FALSE]
             j == (journal \ {op}) \cup {revived}
  <2>1. op \in Op
    BY DEF TypeOK
  <2>2. revived \in Op
    BY <2>1 DEF Op
  <2>3. j \in SUBSET Op /\ IsFiniteSet(j)
    BY <2>2, FS_RemoveElement, FS_AddElement DEF TypeOK
  <2>4. HiddenAgain(op) \subseteq cached
    BY DEF HiddenAgain, TypeOK
  <2>5. MarkedAgain(op) \in [Msgs -> SUBSET Flags]
    BY MarkedFlags DEF MarkedAgain, TypeOK
  <2>6. /\ CountAndDrain(j, HiddenAgain(op), MarkedAgain(op), wire, inFlight, connected)
        /\ Spend("retry")
        /\ UNCHANGED <<server, cached, nextId, open, connected, timer>>
    BY <1>1 DEF RetryFailedChange
  <2> HIDE DEF j
  <2>7. TailTyped'
    BY <2>3, <2>4, <2>5, <2>6, CountAndDrainTyped DEF TypeOK
  <2> QED BY <2>6, <2>7, SpendTyped, TypeFromTail DEF TypeOK, server, Faults
<1>2. ASSUME NEW op \in journal, DiscardFailedChange(op)
      PROVE  TypeOK'
  <2>1. TailTyped'
    BY <1>2, DroppedRows, LiveRows, RestTyped DEF DiscardFailedChange, TypeOK
  <2> QED BY <1>2, <2>1, TypeFromTail DEF DiscardFailedChange, TypeOK, server
<1>3. ASSUME DiscardAllFailedChanges
      PROVE  TypeOK'
  <2>1. TailTyped'
    BY <1>3, LiveRows, RestTyped DEF DiscardAllFailedChanges, TypeOK
  <2> QED BY <1>3, <2>1, TypeFromTail DEF DiscardAllFailedChanges, TypeOK, server
<1> QED BY <1>1, <1>2, <1>3 DEF FailedList

LEMMA ApplyTyped ==
    ASSUME TypeOK, NEW op, NEW S, ApplyAtServer(op, S)
    PROVE  /\ where' \in [Msgs -> {"home", "moved", "gone"}]
           /\ srvFlags' \in [Msgs -> SUBSET Flags]
<1>1. Marked(srvFlags, op.kind, S) \in [Msgs -> SUBSET Flags]
  BY MarkedFlags DEF TypeOK
<1> QED BY <1>1 DEF ApplyAtServer, TypeOK

LEMMA AnswerTyped ==
    ASSUME TypeOK, NEW r \in wire, NEW error \in Errors, Answer(r, error)
    PROVE  wire' \subseteq Request
<1>1. [r EXCEPT !.answer = error] \in Request
  BY DEF TypeOK, Request
<1> QED BY <1>1 DEF Answer, TypeOK

LEMMA ServerAnswersTyped ==
    ASSUME TypeOK, NEW r \in wire, ServerAnswers(r)
    PROVE  TypeOK'
<1>1. \E S : \E error \in Errors : ApplyAtServer(r.op, S) /\ Answer(r, error)
  <2>1. CASE ServerAccepts(r)
    BY <2>1 DEF ServerAccepts, Errors
  <2>2. CASE ServerMisses(r)
    BY <2>2 DEF ServerMisses, Errors
  <2>3. CASE ServerForbids(r)
    BY <2>3 DEF ServerForbids, Errors
  <2>4. CASE ServerRefuses(r)
    BY <2>4 DEF ServerRefuses, Errors
  <2>5. CASE ServerThrottles(r)
    BY <2>5 DEF ServerThrottles, Errors
  <2>6. CASE RequestLost(r)
    BY <2>6 DEF RequestLost, Errors
  <2> QED BY <2>1, <2>2, <2>3, <2>4, <2>5, <2>6 DEF ServerAnswers
<1>2. budget' \in [Faults \cup {"any"} -> Nat]
  <2>1. UNCHANGED budget \/ \E fault \in Faults : Spend(fault)
    BY DEF ServerAnswers, ServerAccepts, ServerMisses, ServerForbids, ServerRefuses,
           ServerThrottles, RequestLost, Faults
  <2> QED BY <2>1, SpendTyped DEF TypeOK
<1>3. UNCHANGED <<defied, cache, table, memory>>
  BY DEF ServerAnswers
<1> QED BY <1>1, <1>2, <1>3, ApplyTyped, AnswerTyped DEF TypeOK, cache, table, memory

LEMMA SettledTyped ==
    ASSUME TypeOK, NEW r
    PROVE  Settled(r) \in SUBSET Request
BY DEF Settled, TypeOK, Request

\* The ways a reply ends, the ones that leave the queue waiting first.
LEMMA FinishWaitingTyped ==
    ASSUME TypeOK, NEW r \in wire,
           FinishStale(r) \/ FinishDeferred(r) \/ FinishThrottled(r) \/ FinishRefused(r)
    PROVE  TypeOK'
<1>1. CASE FinishStale(r)
  BY <1>1 DEF FinishStale, TypeOK, server, cache, table
<1>2. Settled(r) \in SUBSET Request
  BY SettledTyped
<1>3. 0 \in 0..MaxOps /\ Cardinality(Live(journal)) \in Nat
  BY LiveRows, JournalAssumption DEF TypeOK
<1>4. CASE FinishDeferred(r)
  <2>1. TailTyped'
    BY <1>2, <1>3, <1>4, RestTyped DEF FinishDeferred, TypeOK
  <2> QED BY <1>4, <2>1, TypeFromTail DEF FinishDeferred, TypeOK, server
<1>5. CASE FinishThrottled(r)
  <2>1. TailTyped'
    BY <1>2, <1>3, <1>5, RestTyped DEF FinishThrottled, TypeOK
  <2> QED BY <1>5, <2>1, TypeFromTail DEF FinishThrottled, TypeOK, server
<1>6. CASE FinishRefused(r)
  <2>1. Failed(journal, r.op.id) \in SUBSET Op /\ IsFiniteSet(Failed(journal, r.op.id))
    BY FailedRows DEF TypeOK
  <2>2. TailTyped'
    BY <1>2, <1>3, <1>6, <2>1, RestTyped DEF FinishRefused, TypeOK
  <2> QED BY <1>6, <2>2, TypeFromTail DEF FinishRefused, TypeOK, server
<1> QED BY <1>1, <1>4, <1>5, <1>6

\* ... and the ones that go on to the next op.
LEMMA FinishDrainingTyped ==
    ASSUME TypeOK, NEW r \in wire,
           FinishConfirmed(r) \/ FinishNotFound(r) \/ FinishGivenUp(r)
    PROVE  TypeOK'
<1>1. Settled(r) \in SUBSET Request
  BY SettledTyped
<1>2. 0 \in 0..MaxOps
  BY JournalAssumption
<1>3. CASE FinishConfirmed(r)
  <2> DEFINE op   == r.op
             lost == IF op.kind = "move" THEN Unnameable(journal, op) ELSE {}
             gone == IF op.kind \in RemovalKinds THEN op.names ELSE {}
             j    == Dropped(Retired(journal, lost), op.id)
             h    == (hidden \ gone) \ Removed(lost)
             f    == Undone(flags, lost, "oldest")
  <2>1. /\ cached' = cached \ gone
        /\ CountAndDrain(j, h, f, Settled(r), 0, connected)
        /\ UNCHANGED <<server, nextId, open, connected, timer, budget>>
    BY <1>3 DEF FinishConfirmed
  <2>2. j \in SUBSET Op /\ IsFiniteSet(j)
    BY RetiredRows, DroppedRows DEF TypeOK
  <2>3. h \subseteq cached \ gone
    BY DEF TypeOK
  <2>4. f \in [Msgs -> SUBSET Flags]
    BY UndoneFlags
  <2> HIDE DEF op, lost, gone, j, h, f
  <2>5. TailTyped'
    BY <1>1, <1>2, <2>1, <2>2, <2>3, <2>4, CountAndDrainTyped
  <2> QED BY <2>1, <2>5, TypeFromTail DEF TypeOK, server
<1>4. CASE FinishNotFound(r)
  <2>1. TailTyped'
    BY <1>1, <1>2, <1>4, DroppedRows, CountAndDrainTyped DEF FinishNotFound, TypeOK
  <2> QED BY <1>4, <2>1, TypeFromTail DEF FinishNotFound, TypeOK, server
<1>5. CASE FinishGivenUp(r)
  <2> DEFINE failed == Failed(journal, r.op.id)
             chain  == Chain(failed, r.op)
             j      == Retired(failed, chain)
             h      == hidden \ Removed(chain)
             f      == Undone(flags, chain, "newest")
  <2>1. /\ CountAndDrain(j, h, f, Settled(r), 0, connected)
        /\ UNCHANGED <<where, srvFlags, cached, nextId, open, connected, timer, budget>>
        /\ defied' = defied \cup Done(r.op)
    BY <1>5 DEF FinishGivenUp
  <2>2. j \in SUBSET Op /\ IsFiniteSet(j)
    BY FailedRows, RetiredRows DEF TypeOK
  <2>3. h \subseteq cached
    BY DEF TypeOK
  <2>4. f \in [Msgs -> SUBSET Flags]
    BY UndoneFlags
  <2> HIDE DEF failed, chain, j, h, f
  <2>5. TailTyped'
    BY <1>1, <1>2, <2>1, <2>2, <2>3, <2>4, CountAndDrainTyped
  <2>6. Done(r.op) \subseteq Msgs
    BY DEF TypeOK, Request, Op, Done
  <2> QED BY <2>1, <2>5, <2>6, TypeFromTail DEF TypeOK
<1> QED BY <1>3, <1>4, <1>5

LEMMA ClosedTyped ==
    ASSUME TypeOK
    PROVE  /\ Closed(wire) \subseteq Request
           /\ {[r EXCEPT !.leg = "previous"] : r \in Closed(wire)} \subseteq Request
BY DEF Closed, TypeOK, Request, Errors

\* Connect and the timer drain when nothing is in flight.
LEMMA WakeTyped ==
    ASSUME TypeOK, cached' = cached, NEW awake \in BOOLEAN,
           IF awake THEN Drain(journal, hidden, flags, pending, wire)
           ELSE Rest(journal, hidden, flags, pending, wire, inFlight)
    PROVE  TailTyped'
<1>1. CASE awake
  BY <1>1, DrainTyped DEF TypeOK
<1>2. CASE ~awake
  BY <1>2, RestTyped DEF TypeOK
<1> QED BY <1>1, <1>2

\* A process that ends inside a handler, wherever it had got to.
LEMMA RestartTyped ==
    ASSUME TypeOK, NEW j \in SUBSET Op, IsFiniteSet(j), NEW h,
           NEW f \in [Msgs -> SUBSET Flags], cached' \subseteq Msgs, h \subseteq cached',
           NEW fault \in Faults, Spend(fault), RestartFrom(j, h, f)
    PROVE  TypeOK'
<1>1. budget' \in [Faults \cup {"any"} -> Nat]
  BY SpendTyped
<1>2. Cardinality(Live(j)) \in Nat
  BY LiveRows
<1>3. 0 \in 0..MaxOps
  BY JournalAssumption
<1>4. hidden' \subseteq h
  BY DEF RestartFrom, ReconcileSoftDeletes
<1>5. TailTyped'
  BY <1>2, <1>3, <1>4 DEF RestartFrom, TailTyped
<1>6. /\ UNCHANGED <<where, srvFlags, defied, nextId>>
      /\ open' \in BOOLEAN /\ connected' \in BOOLEAN /\ timer' \in BOOLEAN
  BY DEF RestartFrom, server
<1> QED BY <1>1, <1>5, <1>6, TypeFromTail DEF TypeOK

LEMMA EnvironmentTyped ==
    ASSUME TypeOK, Environment \/ Connect \/ SwitchBack \/ TimerFires
    PROVE  TypeOK'
<1>1. ASSUME NEW x \in Msgs, ChangedElsewhere(x)
      PROVE  TypeOK'
  <2>1. where' \in [Msgs -> {"home", "moved", "gone"}]
    BY <1>1 DEF ChangedElsewhere, TypeOK
  <2>2. budget' \in [Faults \cup {"any"} -> Nat]
    BY <1>1, SpendTyped DEF ChangedElsewhere, Faults
  <2> QED BY <1>1, <2>1, <2>2 DEF ChangedElsewhere, TypeOK, cache, table, memory
<1>2. CASE ConnectionLost
  <2>1. budget' \in [Faults \cup {"any"} -> Nat]
    BY <1>2, SpendTyped DEF ConnectionLost, Faults
  <2> QED BY <1>2, <2>1, ClosedTyped DEF ConnectionLost, TypeOK, server, cache, table
<1>3. CASE SwitchAway
  <2>1. budget' \in [Faults \cup {"any"} -> Nat]
    BY <1>3, SpendTyped DEF SwitchAway, Faults
  <2>2. wire' \subseteq Request
    BY <1>3, ClosedTyped DEF SwitchAway
  <2>3. 0 \in 0..MaxOps
    BY JournalAssumption
  <2>4. /\ inFlight' = 0 /\ open' = FALSE /\ connected' = FALSE
        /\ UNCHANGED <<server, cache, table, pending, timer, resync>>
    BY <1>3 DEF SwitchAway
  <2> QED BY <2>1, <2>2, <2>3, <2>4 DEF TypeOK, server, cache, table
<1>4. CASE WeekPasses
  <2> DEFINE g == [o \in journal |-> [o EXCEPT !.old = TRUE]]
  <2>1. budget' \in [Faults \cup {"any"} -> Nat]
    BY <1>4, SpendTyped DEF WeekPasses, Faults
  <2>2. g \in Surjection(journal, journal')
    BY <1>4 DEF WeekPasses, Surjection
  <2>3. IsFiniteSet(journal')
    BY <2>2, FS_Surjection DEF TypeOK
  <2>4. journal' \subseteq Op
    <3>1. \A o \in Op : [o EXCEPT !.old = TRUE] \in Op
      BY DEF Op
    <3> QED BY <1>4, <3>1 DEF WeekPasses, TypeOK
  <2> QED BY <1>4, <2>1, <2>3, <2>4 DEF WeekPasses, TypeOK, server, cache, memory
<1>5. CASE Restart
  BY <1>5, RestartTyped DEF Restart, TypeOK, Faults
<1>6. CASE Connect
  <2>1. TailTyped'
    BY <1>6, WakeTyped DEF Connect
  <2> QED BY <1>6, <2>1, TypeFromTail DEF Connect, TypeOK, server
<1>7. CASE SwitchBack
  BY <1>7, LiveRows DEF SwitchBack, TypeOK, server, cache, table
<1>8. CASE TimerFires
  <2> DEFINE awake == open /\ connected /\ inFlight = 0
  <2>1. awake \in BOOLEAN
    OBVIOUS
  <2>2. IF awake THEN Drain(journal, hidden, flags, pending, wire)
        ELSE Rest(journal, hidden, flags, pending, wire, inFlight)
    BY <1>8 DEF TimerFires
  <2> HIDE DEF awake
  <2>3. TailTyped'
    BY <1>8, <2>1, <2>2, WakeTyped DEF TimerFires
  <2> QED BY <1>8, <2>3, TypeFromTail DEF TimerFires, TypeOK, server
<1> QED BY <1>1, <1>2, <1>3, <1>4, <1>5, <1>6, <1>7, <1>8 DEF Environment

LEMMA CrashesTyped ==
    ASSUME TypeOK
    PROVE  /\ \A kind \in FlagKinds, F \in Folders, S \in SUBSET Msgs :
                 CrashInMark(kind, F, S) => TypeOK'
           /\ \A F \in Folders, S \in SUBSET Msgs : CrashInRemove(F, S) => TypeOK'
           /\ \A r \in wire : CrashInConfirm(r) \/ CrashInRetire(r) => TypeOK'
<1>1. ASSUME NEW kind \in FlagKinds, NEW F \in Folders, NEW S \in SUBSET Msgs,
             CrashInMark(kind, F, S)
      PROVE  TypeOK'
  <2>1. Marked(flags, kind, S) \in [Msgs -> SUBSET Flags]
    BY MarkedFlags DEF TypeOK
  <2> QED BY <1>1, <2>1, RestartTyped DEF CrashInMark, TypeOK, Faults
<1>2. ASSUME NEW F \in Folders, NEW S \in SUBSET Msgs, CrashInRemove(F, S)
      PROVE  TypeOK'
  <2>1. hidden \cup S \subseteq cached
    BY <1>2 DEF CrashInRemove, Visible, TypeOK
  <2> QED BY <1>2, <2>1, RestartTyped DEF CrashInRemove, TypeOK, Faults
<1>3. ASSUME NEW r \in wire, CrashInConfirm(r)
      PROVE  TypeOK'
  <2>1. cached' \subseteq Msgs /\ hidden \ r.op.names \subseteq cached'
    BY <1>3 DEF CrashInConfirm, TypeOK
  <2> QED BY <1>3, <2>1, RestartTyped DEF CrashInConfirm, TypeOK, Faults
<1>4. ASSUME NEW r \in wire, CrashInRetire(r)
      PROVE  TypeOK'
  <2> DEFINE failed == Failed(journal, r.op.id)
             newest == Newest(Chain(failed, r.op))
             h == hidden \ Removed({newest})
             f == Undone(flags, {newest}, "oldest")
  <2>1. failed \in SUBSET Op /\ IsFiniteSet(failed)
    BY FailedRows DEF TypeOK
  <2>2. h \subseteq cached /\ f \in [Msgs -> SUBSET Flags]
    BY UndoneFlags DEF TypeOK
  <2>3. /\ RestartFrom(failed, h, f)
        /\ Spend("crash")
        /\ cached' = cached
    BY <1>4 DEF CrashInRetire
  <2> HIDE DEF failed, newest, h, f
  <2> QED BY <2>1, <2>2, <2>3, RestartTyped DEF TypeOK, Faults
<1> QED BY <1>1, <1>2, <1>3, <1>4

LEMMA InitTyped == Init => TypeOK
<1> SUFFICES ASSUME Init PROVE TypeOK
  OBVIOUS
<1>1. srvFlags \in [Msgs -> SUBSET Flags]
  BY DEF Init, Flags
<1>2. IsFiniteSet(journal)
  BY FS_EmptySet DEF Init
<1>3. 0 \in 0..MaxOps /\ 1 \in 1..(MaxOps + 1)
  BY JournalAssumption
<1> QED BY <1>1, <1>2, <1>3, JournalAssumption DEF Init, TypeOK

LEMMA NextTyped == TypeOK /\ [Next]_vars => TypeOK'
<1> SUFFICES ASSUME TypeOK, [Next]_vars PROVE TypeOK'
  OBVIOUS
<1>1. CASE Gestures
  <2>1. PICK F \in Folders, S \in SUBSET Msgs :
          \/ CrashInRemove(F, S)
          \/ \E kind \in FlagKinds : Mark(kind, F, S) \/ CrashInMark(kind, F, S)
          \/ \E kind \in RemovalKinds, target \in Folders \cup {NoFolder} :
                Remove(kind, F, target, S)
    BY <1>1 DEF Gestures
  <2> QED BY <2>1, GesturesTyped, CrashesTyped
<1>2. CASE FailedList
  BY <1>2, FailedListTyped
<1>3. CASE Replies
  <2>1. PICK r \in wire :
          ServerAnswers(r) \/ Finish(r) \/ CrashInConfirm(r) \/ CrashInRetire(r)
    BY <1>3 DEF Replies
  <2> QED BY <2>1, ServerAnswersTyped, FinishWaitingTyped, FinishDrainingTyped, CrashesTyped
        DEF Finish
<1>4. CASE Environment \/ Connect \/ SwitchBack \/ TimerFires
  BY <1>4, EnvironmentTyped
<1>5. CASE UNCHANGED vars
  BY <1>5 DEF TypeOK, vars, server, cache, table, memory
<1> QED BY <1>1, <1>2, <1>3, <1>4, <1>5 DEF Next

\* Every variable keeps its type: queued rows are well formed and finitely
\* many, only cached rows are hidden, the count shown is a number.
THEOREM TypeCorrect == Spec => []TypeOK
BY InitTyped, NextTyped, PTL DEF Spec

-----------------------------------------------------------------------------
(* No copy is lost.                                                         *)

\* The strengthening: a removal the server has said yes to is of messages no
\* longer in this mailbox, although the client has yet to hear of it.
Agreed ==
    \A r \in wire : r.answer = "None" /\ r.op.kind \in RemovalKinds =>
        \A x \in r.op.names : where[x] # "home"

CopiesInv == TypeOK /\ Agreed /\ NoCopyLost

\* A drain sends requests; it answers none.
LEMMA DrainAnswersNothing ==
    ASSUME NEW j, NEW h, NEW f, NEW shown, NEW w, Drain(j, h, f, shown, w)
    PROVE  \A r \in wire' : r \in w \/ r.answer = "awaited"
<1> DEFINE next == Oldest(Live(j \ Stale(j)))
           sent == [op |-> next, answer |-> "awaited", leg |-> "current"]
<1>1. wire' = w \/ wire' = w \cup {sent}
  BY DEF Drain
<1>2. sent.answer = "awaited"
  OBVIOUS
<1> HIDE DEF sent
<1> QED BY <1>1, <1>2

LEMMA TailAnswersNothing ==
    ASSUME NEW j, NEW h, NEW f, NEW w, NEW busy, NEW up,
           CountAndDrain(j, h, f, w, busy, up)
    PROVE  \A r \in wire' : r \in w \/ r.answer = "awaited"
<1> DEFINE shown == Cardinality(Live(j))
<1>1. \/ Drain(j, h, f, shown, w)
      \/ Rest(j, h, f, shown, w, busy)
  BY DEF CountAndDrain
<1> HIDE DEF shown
<1>2. CASE Drain(j, h, f, shown, w)
  BY <1>2, DrainAnswersNothing
<1>3. CASE Rest(j, h, f, shown, w, busy)
  BY <1>3 DEF Rest
<1> QED BY <1>1, <1>2, <1>3

\* A yes or a not found in the wire was there before, for the same op.
Verdicts == {"None", "NotFound"}
OldAnswers ==
    \A r \in wire' : r.answer \in Verdicts =>
        \E q \in wire : q.answer = r.answer /\ q.op = r.op

LEMMA SettledAnswers ==
    ASSUME TypeOK, NEW r
    PROVE  \A q \in Settled(r) : \E p \in wire : p.answer = q.answer /\ p.op = q.op
<1> SUFFICES ASSUME NEW p \in wire
             PROVE  LET q == [p EXCEPT !.leg = "previous"]
                    IN  p.answer = q.answer /\ p.op = q.op
  BY DEF Settled
<1> QED BY DEF TypeOK, Request

LEMMA ClosedAnswers ==
    ASSUME TypeOK
    PROVE  /\ \A q \in Closed(wire) : q.answer \in Verdicts => q \in wire
           /\ \A q \in {[r EXCEPT !.leg = "previous"] : r \in Closed(wire)} :
                 q.answer \in Verdicts => \E p \in wire : p.answer = q.answer /\ p.op = q.op
<1>1. ASSUME NEW q \in Closed(wire), q.answer \in Verdicts
      PROVE  q \in wire
  <2>1. \A p \in wire : [p EXCEPT !.answer = "Protocol"].answer = "Protocol"
    BY DEF TypeOK, Request
  <2> QED BY <1>1, <2>1 DEF Closed, Verdicts
<1>2. ASSUME NEW p \in Closed(wire), [p EXCEPT !.leg = "previous"].answer \in Verdicts
      PROVE  /\ p \in wire /\ p.answer = [p EXCEPT !.leg = "previous"].answer
             /\ p.op = [p EXCEPT !.leg = "previous"].op
  <2>1. p \in Request
    BY ClosedTyped
  <2> QED BY <1>1, <1>2, <2>1 DEF Request
<1> QED BY <1>1, <1>2

\* Whatever leaves the server as it is and lets the client hear nothing new
\* keeps Agreed.
LEMMA AgreedKept ==
    ASSUME Agreed, UNCHANGED where, OldAnswers
    PROVE  Agreed'
BY DEF Agreed, OldAnswers, Verdicts

\* The handlers that end in CountAndDrain after a reply.
LEMMA SettledDrainOld ==
    ASSUME TypeOK, NEW r, NEW j, NEW h, NEW f, NEW busy, NEW up,
           \/ CountAndDrain(j, h, f, Settled(r), busy, up)
           \/ wire' = Settled(r)
    PROVE  OldAnswers
<1>1. \A q \in wire' : q \in Settled(r) \/ q.answer = "awaited"
  BY TailAnswersNothing
<1>2. \A q \in Settled(r) : \E p \in wire : p.answer = q.answer /\ p.op = q.op
  BY SettledAnswers
<1> SUFFICES ASSUME NEW q \in wire', q.answer \in Verdicts
             PROVE  \E p \in wire : p.answer = q.answer /\ p.op = q.op
  BY DEF OldAnswers
<1>3. q \in Settled(r)
  BY <1>1 DEF Verdicts
<1> QED BY <1>2, <1>3

\* The handlers that leave the requests alone but for what a drain sends.
LEMMA SameRequestsOld ==
    ASSUME \A q \in wire' : q \in wire \/ q.answer = "awaited"
    PROVE  OldAnswers
<1> SUFFICES ASSUME NEW q \in wire', q.answer \in Verdicts
             PROVE  \E p \in wire : p.answer = q.answer /\ p.op = q.op
  BY DEF OldAnswers
<1>1. q \in wire
  BY DEF Verdicts
<1> QED BY <1>1

LEMMA FinishesOld ==
    ASSUME TypeOK, NEW r \in wire, Finish(r)
    PROVE  OldAnswers
<1>1. CASE FinishStale(r)
  <2>1. \A q \in wire' : q \in wire \/ q.answer = "awaited"
    BY <1>1 DEF FinishStale
  <2> QED BY <2>1, SameRequestsOld
<1>2. CASE FinishConfirmed(r)
  <2>1. PICK j, h, f : CountAndDrain(j, h, f, Settled(r), 0, connected)
    BY <1>2 DEF FinishConfirmed
  <2> QED BY <2>1, SettledDrainOld
<1>3. CASE FinishNotFound(r)
  <2>1. PICK j, h, f : CountAndDrain(j, h, f, Settled(r), 0, connected)
    BY <1>3 DEF FinishNotFound
  <2> QED BY <2>1, SettledDrainOld
<1>4. CASE FinishDeferred(r) \/ FinishThrottled(r) \/ FinishRefused(r)
  <2>1. wire' = Settled(r)
    BY <1>4 DEF FinishDeferred, FinishThrottled, FinishRefused, Rest
  <2> QED BY <2>1, SettledDrainOld
<1>5. CASE FinishGivenUp(r)
  <2>1. PICK j, h, f : CountAndDrain(j, h, f, Settled(r), 0, connected)
    BY <1>5 DEF FinishGivenUp
  <2> QED BY <2>1, SettledDrainOld
<1> QED BY <1>1, <1>2, <1>3, <1>4, <1>5 DEF Finish

\* Nothing the user does answers a request.
LEMMA GesturesOld ==
    ASSUME TypeOK, Gestures \/ FailedList
    PROVE  OldAnswers
<1>1. \A j, h, f : CountAndDrain(j, h, f, wire, inFlight, connected) => OldAnswers
  BY TailAnswersNothing, SameRequestsOld
<1>2. \A j, h, f, s, b : Rest(j, h, f, s, wire, b) => OldAnswers
  BY SameRequestsOld DEF Rest
<1>3. \A kind, F, target, S, h, f : Record(kind, F, target, S, h, f) => OldAnswers
  BY <1>1, <1>2 DEF Record
<1>4. \A j, h, f : RestartFrom(j, h, f) => OldAnswers
  BY DEF RestartFrom, OldAnswers
<1>5. CASE Gestures
  BY <1>3, <1>4, <1>5 DEF Gestures, Mark, Remove, CrashInMark, CrashInRemove
<1>6. CASE FailedList
  BY <1>1, <1>2, <1>6
     DEF FailedList, RetryFailedChange, DiscardFailedChange, DiscardAllFailedChanges
<1> QED BY <1>5, <1>6

\* Sessions, timers, crashes of a handler and the other clients of the mailbox.
LEMMA OthersOld ==
    ASSUME TypeOK
    PROVE  /\ Environment \/ Connect \/ SwitchBack \/ TimerFires => OldAnswers
           /\ \A r \in wire : CrashInConfirm(r) \/ CrashInRetire(r) => OldAnswers
<1>1. wire' = wire => OldAnswers
  BY DEF OldAnswers
<1>2. \A j, h, f : RestartFrom(j, h, f) => OldAnswers
  BY DEF RestartFrom, OldAnswers
<1>3. \A b : \/ Drain(journal, hidden, flags, pending, wire)
            \/ Rest(journal, hidden, flags, pending, wire, b)
            => OldAnswers
  BY DrainAnswersNothing, SameRequestsOld DEF Rest
<1>4. CASE ConnectionLost
  BY <1>4, ClosedAnswers DEF ConnectionLost, OldAnswers
<1>5. CASE SwitchAway
  BY <1>5, ClosedAnswers DEF SwitchAway, OldAnswers
<1>6. Connect \/ TimerFires => OldAnswers
  BY <1>3 DEF Connect, TimerFires
<1>7. (\E x \in Msgs : ChangedElsewhere(x)) \/ WeekPasses \/ SwitchBack => OldAnswers
  BY <1>1 DEF ChangedElsewhere, WeekPasses, SwitchBack
<1>8. \A r \in wire : CrashInConfirm(r) \/ CrashInRetire(r) => OldAnswers
  BY <1>2 DEF CrashInConfirm, CrashInRetire
<1>9. Restart => OldAnswers
  BY <1>2 DEF Restart
<1> QED BY <1>4, <1>5, <1>6, <1>7, <1>8, <1>9 DEF Environment

\* A message that has left its mailbox does not come back to it, and the
\* requests outstanding beside r keep what was answered to them.
LEMMA ServerMoves ==
    ASSUME TypeOK, NEW op, NEW S, ApplyAtServer(op, S)
    PROVE  \A x \in Msgs : where[x] # "home" => where'[x] # "home"
<1> SUFFICES ASSUME NEW x \in Msgs, where[x] # "home"
             PROVE  where'[x] # "home"
  OBVIOUS
<1>1. CASE op.kind \in FlagKinds
  BY <1>1 DEF ApplyAtServer
<1>2. CASE op.kind \notin FlagKinds
  BY <1>2 DEF ApplyAtServer
<1> QED BY <1>1, <1>2

LEMMA AnswerKeeps ==
    ASSUME Agreed, NEW r \in wire, NEW error, Answer(r, error), wire \subseteq Request,
           \A x \in Msgs : where[x] # "home" => where'[x] # "home",
           error = "None" /\ r.op.kind \in RemovalKinds =>
              \A x \in r.op.names : where'[x] # "home"
    PROVE  Agreed'
<1> SUFFICES ASSUME NEW q \in wire', q.answer = "None", q.op.kind \in RemovalKinds,
                    NEW x \in q.op.names
             PROVE  where'[x] # "home"
  BY DEF Agreed
<1> DEFINE new == [r EXCEPT !.answer = error]
<1>1. wire' = (wire \ {r}) \cup {new}
  BY DEF Answer
<1>2. new.answer = error /\ new.op = r.op
  BY DEF Request
<1>3. CASE q \in wire
  BY <1>3 DEF Agreed, Request, Op
<1>4. CASE q = new
  BY <1>2, <1>4
<1> HIDE DEF new
<1> QED BY <1>1, <1>3, <1>4

\* A server that says yes to a removal has no copy of it left at home.
LEMMA YesMeansRemoved ==
    ASSUME TypeOK, NEW op \in Op, op.kind \in RemovalKinds,
           ApplyAtServer(op, Reachable(op))
    PROVE  \A x \in op.names : where'[x] # "home"
<1> SUFFICES ASSUME NEW x \in op.names
             PROVE  where'[x] # "home"
  OBVIOUS
<1>1. x \in Msgs
  BY DEF Op
<1>2. op.kind \notin FlagKinds
  BY DEF FlagKinds, RemovalKinds
<1>3. where' = [m \in Msgs |-> IF m \notin Reachable(op) THEN where[m]
                              ELSE IF op.kind = "move" THEN "moved" ELSE "gone"]
  BY <1>2 DEF ApplyAtServer
<1>4. CASE x \in Reachable(op)
  BY <1>1, <1>3, <1>4
<1>5. CASE x \notin Reachable(op)
  BY <1>1, <1>3, <1>5 DEF Reachable
<1> QED BY <1>4, <1>5

LEMMA ServerKeepsAgreed ==
    ASSUME TypeOK, Agreed, NEW r \in wire, ServerAnswers(r)
    PROVE  /\ Agreed'
           /\ \A x \in Msgs : where[x] # "home" => where'[x] # "home"
<1>1. wire \subseteq Request /\ r.op \in Op
  BY DEF TypeOK, Request
<1>2. CASE ServerAccepts(r)
  <2>1. ApplyAtServer(r.op, Reachable(r.op)) /\ Answer(r, "None")
    BY <1>2 DEF ServerAccepts
  <2>2. \A x \in Msgs : where[x] # "home" => where'[x] # "home"
    BY <2>1, ServerMoves
  <2>3. r.op.kind \in RemovalKinds => \A x \in r.op.names : where'[x] # "home"
    BY <1>1, <2>1, YesMeansRemoved
  <2> QED BY <1>1, <2>1, <2>2, <2>3, AnswerKeeps
<1>3. CASE ~ServerAccepts(r)
  <2>1. PICK S, error : ApplyAtServer(r.op, S) /\ error # "None" /\ Answer(r, error)
    <3>1. ServerMisses(r) => \E S : ApplyAtServer(r.op, S) /\ Answer(r, "NotFound")
      BY DEF ServerMisses
    <3>2. ServerForbids(r) => \E S : ApplyAtServer(r.op, S) /\ Answer(r, "Auth")
      BY DEF ServerForbids
    <3>3. ServerRefuses(r) => \E S : ApplyAtServer(r.op, S) /\ Answer(r, "Protocol")
      BY DEF ServerRefuses
    <3>4. ServerThrottles(r) => \E S : ApplyAtServer(r.op, S) /\ Answer(r, "Throttled")
      BY DEF ServerThrottles
    <3>5. RequestLost(r) => \E S : ApplyAtServer(r.op, S) /\ Answer(r, "Connection")
      BY DEF RequestLost
    <3> QED BY <1>3, <3>1, <3>2, <3>3, <3>4, <3>5 DEF ServerAnswers
  <2>2. \A x \in Msgs : where[x] # "home" => where'[x] # "home"
    BY <2>1, ServerMoves
  <2> QED BY <1>1, <2>1, <2>2, AnswerKeeps
<1> QED BY <1>2, <1>3

\* The server's side changes only when it answers or another client acts.
LEMMA WhereMoves ==
    ASSUME [Next]_vars
    PROVE  \/ UNCHANGED where
           \/ \E r \in wire : ServerAnswers(r)
           \/ \E x \in Msgs : ChangedElsewhere(x)
<1>1. CASE Gestures \/ FailedList
  BY ZenonT(60), <1>1
     DEF Gestures, FailedList, Mark, Remove, CrashInMark, CrashInRemove, RestartFrom,
         RetryFailedChange, DiscardFailedChange, DiscardAllFailedChanges, server
<1>2. \A r \in wire : Finish(r) => UNCHANGED where
  BY DEF Finish, FinishStale, FinishConfirmed, FinishNotFound, FinishDeferred,
         FinishThrottled, FinishRefused, FinishGivenUp, server
<1>3. \A r \in wire : CrashInConfirm(r) \/ CrashInRetire(r) => UNCHANGED where
  BY DEF CrashInConfirm, CrashInRetire, RestartFrom, server
<1>4. CASE Replies
  BY <1>2, <1>3, <1>4 DEF Replies
<1>5. CASE Environment \/ Connect \/ SwitchBack \/ TimerFires
  BY <1>5
     DEF Environment, ConnectionLost, SwitchAway, WeekPasses, Restart, RestartFrom,
         Connect, SwitchBack, TimerFires, server
<1> QED BY <1>1, <1>4, <1>5 DEF Next, vars, server

\* Only a confirmed removal destroys rows, and only those it names.
LEMMA RowsDestroyed ==
    ASSUME TypeOK, [Next]_vars
    PROVE  \/ cached' = cached
           \/ /\ UNCHANGED where
              /\ \E r \in wire : /\ r.answer = "None" /\ r.op.kind \in RemovalKinds
                                 /\ cached' = cached \ r.op.names
<1>1. CASE Gestures \/ FailedList
  BY <1>1
     DEF Gestures, FailedList, Mark, Remove, CrashInMark, CrashInRemove,
         RetryFailedChange, DiscardFailedChange, DiscardAllFailedChanges
<1>2. ASSUME NEW r \in wire, FinishConfirmed(r) \/ CrashInConfirm(r)
      PROVE  \/ cached' = cached
             \/ /\ UNCHANGED where
                /\ r.answer = "None" /\ r.op.kind \in RemovalKinds
                /\ cached' = cached \ r.op.names
  <2>1. CASE FinishConfirmed(r)
    <3>1. cached' = cached \ (IF r.op.kind \in RemovalKinds THEN r.op.names ELSE {})
      BY <2>1 DEF FinishConfirmed
    <3>2. r.answer = "None" /\ UNCHANGED where
      BY <2>1 DEF FinishConfirmed, Reply, server
    <3> QED BY <3>1, <3>2
  <2>2. CASE CrashInConfirm(r)
    BY <2>2 DEF CrashInConfirm, Reply, RestartFrom, server
  <2> QED BY <1>2, <2>1, <2>2
<1>3. \A r \in wire : Finish(r) /\ ~FinishConfirmed(r) => cached' = cached
  BY DEF Finish, FinishStale, FinishNotFound, FinishDeferred,
         FinishThrottled, FinishRefused, FinishGivenUp, cache
<1>4. \A r \in wire : CrashInRetire(r) \/ ServerAnswers(r) => cached' = cached
  BY DEF CrashInRetire, ServerAnswers, cache
<1>5. CASE Replies
  BY <1>2, <1>3, <1>4, <1>5 DEF Replies
<1>6. CASE Environment \/ Connect \/ SwitchBack \/ TimerFires
  BY <1>6
     DEF Environment, ChangedElsewhere, ConnectionLost, SwitchAway, WeekPasses, Restart,
         Connect, SwitchBack, TimerFires, cache
<1> QED BY <1>1, <1>5, <1>6 DEF Next, vars, cache

LEMMA NextCopies == CopiesInv /\ [Next]_vars => CopiesInv'
<1> SUFFICES ASSUME TypeOK, Agreed, NoCopyLost, [Next]_vars PROVE CopiesInv'
  BY DEF CopiesInv
<1>1. TypeOK'
  BY NextTyped
<1>2. Agreed' /\ \A x \in Msgs : where[x] # "home" => where'[x] # "home"
  <2>1. CASE \E r \in wire : ServerAnswers(r)
    BY <2>1, ServerKeepsAgreed
  <2>2. CASE \E x \in Msgs : ChangedElsewhere(x)
    <3>1. wire' = wire
      BY <2>2 DEF ChangedElsewhere
    <3>2. \A x \in Msgs : where[x] # "home" => where'[x] # "home"
      BY <2>2 DEF ChangedElsewhere, TypeOK
    <3>3. \A r \in wire : r.op.names \subseteq Msgs
      BY DEF TypeOK, Request, Op
    <3> QED BY <3>1, <3>2, <3>3 DEF Agreed
  <2>3. CASE UNCHANGED where /\ OldAnswers
    BY <2>3, AgreedKept
  <2>4. CASE UNCHANGED where /\ ~(\E r \in wire : ServerAnswers(r))
                             /\ ~(\E x \in Msgs : ChangedElsewhere(x))
    <3>1. CASE UNCHANGED vars
      BY <3>1 DEF vars, OldAnswers, Agreed, server
    <3>2. CASE Next
      <4>1. OldAnswers
        BY <2>4, <3>2, GesturesOld, FinishesOld, OthersOld DEF Next, Replies
      <4> QED BY <2>4, <4>1, AgreedKept
    <3> QED BY <3>1, <3>2
  <2> QED BY <2>1, <2>2, <2>4, WhereMoves
<1>3. NoCopyLost'
  BY <1>2, RowsDestroyed DEF NoCopyLost, Agreed
<1> QED BY <1>1, <1>2, <1>3 DEF CopiesInv

LEMMA InitCopies == Init => CopiesInv
BY InitTyped DEF Init, CopiesInv, Agreed, NoCopyLost

\* The cached copy of a message outlives every interleaving of gestures,
\* replies, lost connections, switches, crashes and retries until the server
\* has agreed that the message is no longer in this mailbox: finishJournalOp()
\* is the only place that destroys rows, on an answer that can only say so.
THEOREM NoCopyIsLost == Spec => []NoCopyLost
<1>1. Spec => []CopiesInv
  BY InitCopies, NextCopies, PTL DEF Spec
<1>2. CopiesInv => NoCopyLost
  BY DEF CopiesInv
<1> QED BY <1>1, <1>2, PTL
-----------------------------------------------------------------------------
(***************************************************************************)
(* The in-flight guard: m_journalBusy can never be left set by a discarded *)
(* row, an account switch, a crash or a reply that names an earlier run of *)
(* the same op.                                                            *)
(***************************************************************************)

\* The strengthening: an id names one row, and no row has an id still to be
\* handed out.  Without it discarding a retired row could take the live row
\* the guard waits on with it.
Keyed(j) == \A o, p \in j : o.id = p.id => o = p
RowsKeyed == Keyed(journal) /\ \A o \in journal : o.id < nextId

GuardInv == TypeOK /\ RowsKeyed /\ GuardHasReply

-----------------------------------------------------------------------------
(* The requests and the guard at the end of a handler.                      *)

\* A drain from an idle guard sends the one request it waits for.
LEMMA DrainGuards ==
    ASSUME NEW j \in SUBSET Op, NEW h, NEW f, NEW shown, NEW w,
           \A r \in w : r.leg = "previous",
           Drain(j, h, f, shown, w)
    PROVE  GuardHasReply' /\ journal' \subseteq j
<1> DEFINE left == j \ Stale(j)
           next == Oldest(Live(left))
           sent == [op |-> next, answer |-> "awaited", leg |-> "current"]
<1>1. journal' = left
  BY DEF Drain
<1>2. CASE Live(left) = {}
  <2>1. wire' = w /\ inFlight' = 0
    BY <1>2 DEF Drain
  <2> QED BY <1>1, <2>1 DEF GuardHasReply
<1>3. CASE Live(left) # {}
  <2>1. wire' = w \cup {sent} /\ inFlight' = next.id
    BY <1>3 DEF Drain
  <2>2. next \in Live(left)
    <3>1. Live(left) \in SUBSET Op
      BY DEF Live
    <3> HIDE DEF left
    <3> QED BY <1>3, <3>1, OldestIsFirst
  <2>3. sent.leg = "current" /\ sent.op = next
    OBVIOUS
  <2> HIDE DEF sent, next, left
  <2> QED BY <1>1, <2>1, <2>2, <2>3 DEF GuardHasReply, left
<1> QED BY <1>1, <1>2, <1>3

\* A handler that waits for nothing and sends nothing.
LEMMA IdleGuards ==
    ASSUME \A r \in wire' : r.leg = "previous", inFlight' = 0
    PROVE  GuardHasReply'
BY DEF GuardHasReply

\* The end of a handler that has taken the guard down.
LEMMA SettledGuards ==
    ASSUME NEW j \in SUBSET Op, NEW h, NEW f, NEW w, NEW up,
           \A r \in w : r.leg = "previous",
           CountAndDrain(j, h, f, w, 0, up)
    PROVE  GuardHasReply' /\ journal' \subseteq j
<1> DEFINE shown == Cardinality(Live(j))
<1>1. Drain(j, h, f, shown, w) \/ Rest(j, h, f, shown, w, 0)
  BY DEF CountAndDrain
<1> HIDE DEF shown
<1>2. CASE Drain(j, h, f, shown, w)
  BY <1>2, DrainGuards
<1>3. CASE Rest(j, h, f, shown, w, 0)
  BY <1>3, IdleGuards DEF Rest
<1> QED BY <1>1, <1>2, <1>3

\* With the guard down nothing in the wire is waited for.
LEMMA IdleWire ==
    ASSUME TypeOK, GuardHasReply, inFlight = 0
    PROVE  \A r \in wire : r.leg = "previous"
<1> SUFFICES ASSUME NEW r \in wire, r.leg # "previous" PROVE FALSE
  OBVIOUS
<1>1. r.leg = "current" /\ r.op.id \in 1..MaxOps
  BY DEF TypeOK, Request, Op, Ids
<1> QED BY <1>1, JournalAssumption DEF GuardHasReply

\* The end of a handler that leaves the requests alone: every row that was
\* live still is.
LEMMA WaitingGuards ==
    ASSUME TypeOK, GuardHasReply, NEW j \in SUBSET Op, NEW h, NEW f, NEW shown, NEW up,
           \A o \in Live(journal) : \E p \in Live(j) : p.id = o.id,
           \/ CountAndDrain(j, h, f, wire, inFlight, up)
           \/ Rest(j, h, f, shown, wire, inFlight)
           \/ inFlight = 0 /\ Drain(j, h, f, shown, wire)
    PROVE  GuardHasReply' /\ journal' \subseteq j
<1>1. CASE inFlight = 0 /\ Drain(j, h, f, shown, wire)
  BY <1>1, IdleWire, DrainGuards
<1>2. CASE inFlight = 0 /\ CountAndDrain(j, h, f, wire, inFlight, up)
  BY <1>2, IdleWire, SettledGuards
<1>3. ASSUME NEW s, Rest(j, h, f, s, wire, inFlight)
      PROVE  GuardHasReply' /\ journal' \subseteq j
  <2>1. wire' = wire /\ inFlight' = inFlight /\ journal' = j
    BY <1>3 DEF Rest
  <2> QED BY <2>1 DEF GuardHasReply
<1>4. CASE inFlight # 0 /\ CountAndDrain(j, h, f, wire, inFlight, up)
  <2>1. Rest(j, h, f, Cardinality(Live(j)), wire, inFlight)
    BY <1>4 DEF CountAndDrain
  <2> QED BY <2>1, <1>3
<1> QED BY <1>1, <1>2, <1>3, <1>4

LEMMA SettledLegs ==
    ASSUME TypeOK, NEW r
    PROVE  \A q \in Settled(r) : q.leg = "previous"
BY DEF Settled, TypeOK, Request

-----------------------------------------------------------------------------
(* Ids.                                                                     *)

LEMMA KeyedRows ==
    ASSUME NEW j \in SUBSET Op, NEW n \in Nat, Keyed(j), \A o \in j : o.id < n
    PROVE  /\ \A T : Keyed(Retired(j, T)) /\ \A o \in Retired(j, T) : o.id < n
           /\ \A id : Keyed(Failed(j, id)) /\ \A o \in Failed(j, id) : o.id < n
           /\ \A k \in SUBSET j : Keyed(k) /\ \A o \in k : o.id < n
<1>1. ASSUME NEW T
      PROVE  Keyed(Retired(j, T)) /\ \A o \in Retired(j, T) : o.id < n
  <2> DEFINE g(o) == IF o \in T THEN [o EXCEPT !.retired = TRUE] ELSE o
  <2>1. \A o \in j : g(o).id = o.id
    BY DEF Op
  <2>2. Retired(j, T) = {g(o) : o \in j}
    BY DEF Retired
  <2> HIDE DEF g
  <2> QED BY <2>1, <2>2 DEF Keyed
<1>2. ASSUME NEW id
      PROVE  Keyed(Failed(j, id)) /\ \A o \in Failed(j, id) : o.id < n
  <2> DEFINE g(o) == IF o.id = id THEN [o EXCEPT !.tries = @ + 1] ELSE o
  <2>1. \A o \in j : g(o).id = o.id
    BY DEF Op
  <2>2. Failed(j, id) = {g(o) : o \in j}
    BY DEF Failed
  <2> HIDE DEF g
  <2> QED BY <2>1, <2>2 DEF Keyed
<1>3. \A k \in SUBSET j : Keyed(k) /\ \A o \in k : o.id < n
  BY DEF Keyed
<1> QED BY <1>1, <1>2, <1>3

\* A table whose rows keep their ids, or lose some, stays keyed.
LEMMA KeyedKept ==
    ASSUME NEW j, Keyed(j), \A o \in j : o.id < nextId, journal' \subseteq j, nextId' = nextId
    PROVE  RowsKeyed'
BY DEF RowsKeyed, Keyed

-----------------------------------------------------------------------------
(* The actions.                                                             *)

LEMMA RecordGuards ==
    ASSUME GuardInv, NEW kind \in FlagKinds \cup RemovalKinds, NEW F \in Folders,
           NEW target \in Folders \cup {NoFolder}, NEW S \in SUBSET Msgs, NEW h, NEW f,
           Record(kind, F, target, S, h, f)
    PROVE  RowsKeyed' /\ GuardHasReply'
<1>1. CASE /\ nextId' = nextId + 1
           /\ CountAndDrain(journal \cup {NewOp(kind, F, target, S)}, h, f, wire,
                            inFlight, connected)
  <2> DEFINE new == NewOp(kind, F, target, S)
             j   == journal \cup {new}
  <2>1. new \in Op /\ new.id = nextId
    BY NewOpTyped DEF GuardInv, Record, NewOp
  <2>2. nextId \in Nat
    BY JournalAssumption DEF GuardInv, TypeOK
  <2> HIDE DEF new
  <2>3. j \in SUBSET Op
    BY <2>1 DEF GuardInv, TypeOK
  <2>4. Keyed(j) /\ \A o \in j : o.id < nextId'
    <3>1. \A o \in journal : o.id < nextId /\ o.id \in Nat
      BY DEF GuardInv, TypeOK, RowsKeyed, Op, Ids
    <3> QED BY <1>1, <2>1, <2>2, <3>1 DEF GuardInv, RowsKeyed, Keyed
  <2>5. \A o \in Live(journal) : \E p \in Live(j) : p.id = o.id
    BY DEF Live
  <2>6. CountAndDrain(j, h, f, wire, inFlight, connected)
    BY <1>1 DEF new
  <2> HIDE DEF j
  <2>7. GuardHasReply' /\ journal' \subseteq j
    BY <2>3, <2>5, <2>6, WaitingGuards DEF GuardInv
  <2> QED BY <2>4, <2>7 DEF RowsKeyed, Keyed
<1>2. CASE /\ Rest(journal, h, f, pending, wire, inFlight)
           /\ UNCHANGED nextId
  <2>1. GuardHasReply' /\ journal' \subseteq journal
    BY <1>2, WaitingGuards DEF GuardInv, TypeOK
  <2> QED BY <1>2, <2>1, KeyedKept DEF GuardInv, RowsKeyed
<1> QED BY <1>1, <1>2 DEF Record

LEMMA RestartGuards ==
    ASSUME GuardInv, NEW j, Keyed(j), \A o \in j : o.id < nextId, NEW h, NEW f,
           RestartFrom(j, h, f)
    PROVE  RowsKeyed' /\ GuardHasReply'
<1>1. wire' = {} /\ inFlight' = 0 /\ journal' = j /\ nextId' = nextId
  BY DEF RestartFrom
<1> QED BY <1>1, IdleGuards, KeyedKept

LEMMA GesturesGuards ==
    ASSUME GuardInv, Gestures
    PROVE  RowsKeyed' /\ GuardHasReply'
<1>1. PICK F \in Folders, S \in SUBSET Msgs :
        \/ CrashInRemove(F, S)
        \/ \E kind \in FlagKinds : Mark(kind, F, S) \/ CrashInMark(kind, F, S)
        \/ \E kind \in RemovalKinds, target \in Folders \cup {NoFolder} :
              Remove(kind, F, target, S)
  BY DEF Gestures
<1>2. ASSUME NEW kind \in FlagKinds, Mark(kind, F, S)
      PROVE  RowsKeyed' /\ GuardHasReply'
  BY <1>2, RecordGuards DEF Mark
<1>3. ASSUME NEW kind \in RemovalKinds, NEW target \in Folders \cup {NoFolder},
             Remove(kind, F, target, S)
      PROVE  RowsKeyed' /\ GuardHasReply'
  BY <1>3, RecordGuards DEF Remove
<1>4. ASSUME NEW kind \in FlagKinds, CrashInRemove(F, S) \/ CrashInMark(kind, F, S)
      PROVE  RowsKeyed' /\ GuardHasReply'
  <2>1. \E h, f : RestartFrom(journal, h, f)
    BY <1>4 DEF CrashInRemove, CrashInMark
  <2> QED BY <2>1, RestartGuards DEF GuardInv, RowsKeyed
<1> QED BY <1>1, <1>2, <1>3, <1>4 DEF FlagKinds

\* Discarding takes rows by id: Keyed is what keeps the live ones.
LEMMA FailedListGuards ==
    ASSUME GuardInv, FailedList
    PROVE  RowsKeyed' /\ GuardHasReply'
<1>1. ASSUME NEW op \in journal, RetryFailedChange(op)
      PROVE  RowsKeyed' /\ GuardHasReply'
  <2> DEFINE revived == [op EXCEPT !.retired = FALSE, !.tries = 0, !.old = FALSE]
             j == (journal \ {op}) \cup {revived}
  <2>1. op \in Op /\ op.retired
    BY <1>1 DEF GuardInv, TypeOK, RetryFailedChange
  <2>2. revived \in Op /\ revived.id = op.id
    BY <2>1 DEF Op
  <2>3. CountAndDrain(j, HiddenAgain(op), MarkedAgain(op), wire, inFlight, connected)
    BY <1>1 DEF RetryFailedChange
  <2> HIDE DEF revived
  <2>4. j \in SUBSET Op
    BY <2>2 DEF GuardInv, TypeOK
  <2>5. Keyed(j) /\ \A o \in j : o.id < nextId
    BY <2>2 DEF GuardInv, RowsKeyed, Keyed
  <2>6. \A o \in Live(journal) : \E p \in Live(j) : p.id = o.id
    BY <2>1 DEF Live
  <2> HIDE DEF j
  <2>7. GuardHasReply' /\ journal' \subseteq j
    BY <2>3, <2>4, <2>6, WaitingGuards DEF GuardInv
  <2> QED BY <1>1, <2>5, <2>7, KeyedKept DEF RetryFailedChange
<1>2. ASSUME NEW op \in journal, DiscardFailedChange(op)
      PROVE  RowsKeyed' /\ GuardHasReply'
  <2> DEFINE j == Dropped(journal, op.id)
  <2>1. op.retired
    BY <1>2 DEF DiscardFailedChange
  <2>2. j \in SUBSET Op /\ j \subseteq journal
    BY DEF Dropped, GuardInv, TypeOK
  <2>3. \A o \in Live(journal) : \E p \in Live(j) : p.id = o.id
    BY <2>1 DEF Live, Dropped, GuardInv, RowsKeyed, Keyed
  <2>4. \E s : Rest(j, hidden, flags, s, wire, inFlight)
    BY <1>2 DEF DiscardFailedChange
  <2> HIDE DEF j
  <2>5. GuardHasReply' /\ journal' \subseteq j
    BY <2>2, <2>3, <2>4, WaitingGuards DEF GuardInv
  <2> QED BY <1>2, <2>2, <2>5 DEF DiscardFailedChange, GuardInv, RowsKeyed, Keyed
<1>3. CASE DiscardAllFailedChanges
  <2> DEFINE j == Live(journal)
  <2>1. j \in SUBSET Op /\ j \subseteq journal
    BY DEF Live, GuardInv, TypeOK
  <2>2. \A o \in Live(journal) : \E p \in Live(j) : p.id = o.id
    BY DEF Live
  <2>3. \E s : Rest(j, hidden, flags, s, wire, inFlight)
    BY <1>3 DEF DiscardAllFailedChanges
  <2> HIDE DEF j
  <2>4. GuardHasReply' /\ journal' \subseteq j
    BY <2>1, <2>2, <2>3, WaitingGuards DEF GuardInv
  <2> QED BY <1>3, <2>1, <2>4 DEF DiscardAllFailedChanges, GuardInv, RowsKeyed, Keyed
<1> QED BY <1>1, <1>2, <1>3 DEF FailedList

LEMMA ServerGuards ==
    ASSUME GuardInv, NEW r \in wire, ServerAnswers(r)
    PROVE  RowsKeyed' /\ GuardHasReply'
<1> DEFINE new(e) == [r EXCEPT !.answer = e]
<1>1. PICK e : Answer(r, e)
  BY DEF ServerAnswers, ServerAccepts, ServerMisses, ServerForbids, ServerRefuses,
         ServerThrottles, RequestLost
<1>2. wire' = (wire \ {r}) \cup {new(e)}
  BY <1>1 DEF Answer
<1>3. new(e).op = r.op /\ new(e).leg = r.leg
  BY DEF GuardInv, TypeOK, Request
<1>4. UNCHANGED <<journal, nextId, inFlight>>
  BY DEF ServerAnswers, table, memory
<1> HIDE DEF new
<1>5. GuardHasReply'
  BY <1>2, <1>3, <1>4 DEF GuardInv, GuardHasReply
<1> QED BY <1>4, <1>5 DEF GuardInv, RowsKeyed

\* Whoever is answered, the guard goes down with every request settled, and
\* only a drain puts it up again.
LEMMA FinishGuards ==
    ASSUME GuardInv, NEW r \in wire, Finish(r)
    PROVE  RowsKeyed' /\ GuardHasReply'
<1>1. /\ journal \in SUBSET Op /\ IsFiniteSet(journal) /\ nextId \in Nat
      /\ Keyed(journal) /\ \A o \in journal : o.id < nextId
  BY JournalAssumption DEF GuardInv, TypeOK, RowsKeyed
<1>2. \A q \in Settled(r) : q.leg = "previous"
  BY SettledLegs DEF GuardInv
<1>3. ASSUME NEW j \in SUBSET Op, NEW h, NEW f, Keyed(j), \A o \in j : o.id < nextId,
             CountAndDrain(j, h, f, Settled(r), 0, connected), nextId' = nextId
      PROVE  RowsKeyed' /\ GuardHasReply'
  BY <1>2, <1>3, SettledGuards, KeyedKept
<1>4. ASSUME NEW j \in SUBSET Op, NEW s, Keyed(j), \A o \in j : o.id < nextId,
             Rest(j, hidden, flags, s, Settled(r), 0), nextId' = nextId
      PROVE  RowsKeyed' /\ GuardHasReply'
  BY <1>2, <1>4, IdleGuards, KeyedKept DEF Rest
<1>5. CASE FinishStale(r)
  <2>1. wire' = wire \ {r} /\ inFlight' = inFlight /\ inFlight # r.op.id
        /\ journal' = journal /\ nextId' = nextId
    BY <1>5 DEF FinishStale, table
  <2>2. r.leg # "current"
    BY <2>1 DEF GuardInv, GuardHasReply
  <2> QED BY <2>1, <2>2 DEF GuardInv, GuardHasReply, RowsKeyed
<1>6. CASE FinishConfirmed(r)
  <2>1. PICK lost, h, f :
          CountAndDrain(Dropped(Retired(journal, lost), r.op.id), h, f, Settled(r), 0, connected)
    BY <1>6 DEF FinishConfirmed
  <2> DEFINE k == Retired(journal, lost)
             j == Dropped(k, r.op.id)
  <2>2. k \in SUBSET Op /\ Keyed(k) /\ \A o \in k : o.id < nextId
    BY <1>1, RetiredRows, KeyedRows
  <2> HIDE DEF k
  <2>3. j \in SUBSET k
    BY DEF Dropped
  <2>4. j \in SUBSET Op /\ Keyed(j) /\ \A o \in j : o.id < nextId
    BY <1>1, <2>2, <2>3, KeyedRows
  <2>5. CountAndDrain(j, h, f, Settled(r), 0, connected)
    BY <2>1 DEF k
  <2> HIDE DEF j
  <2> QED BY <1>3, <1>6, <2>4, <2>5 DEF FinishConfirmed
<1>7. CASE FinishNotFound(r)
  <2> DEFINE j == Dropped(journal, r.op.id)
  <2>1. j \in SUBSET journal
    BY DEF Dropped
  <2>2. j \in SUBSET Op /\ Keyed(j) /\ \A o \in j : o.id < nextId
    BY <1>1, <2>1, KeyedRows
  <2>3. CountAndDrain(j, hidden, flags, Settled(r), 0, connected)
    BY <1>7 DEF FinishNotFound
  <2> HIDE DEF j
  <2> QED BY <1>3, <1>7, <2>2, <2>3 DEF FinishNotFound
<1>8. CASE FinishDeferred(r) \/ FinishThrottled(r)
  <2>1. nextId' = nextId /\ \E s : Rest(journal, hidden, flags, s, Settled(r), 0)
    BY <1>8 DEF FinishDeferred, FinishThrottled
  <2> QED BY <1>1, <1>4, <2>1
<1>9. CASE FinishRefused(r)
  <2> DEFINE j == Failed(journal, r.op.id)
  <2>1. j \in SUBSET Op /\ Keyed(j) /\ \A o \in j : o.id < nextId
    BY <1>1, FailedRows, KeyedRows
  <2>2. nextId' = nextId /\ \E s : Rest(j, hidden, flags, s, Settled(r), 0)
    BY <1>9 DEF FinishRefused
  <2> HIDE DEF j
  <2> QED BY <1>4, <2>1, <2>2
<1>10. CASE FinishGivenUp(r)
  <2> DEFINE k == Failed(journal, r.op.id)
             j == Retired(k, Chain(k, r.op))
  <2>1. k \in SUBSET Op /\ IsFiniteSet(k) /\ Keyed(k) /\ \A o \in k : o.id < nextId
    BY <1>1, FailedRows, KeyedRows
  <2>2. PICK h, f : CountAndDrain(j, h, f, Settled(r), 0, connected)
    BY <1>10 DEF FinishGivenUp
  <2> HIDE DEF k
  <2>3. j \in SUBSET Op /\ Keyed(j) /\ \A o \in j : o.id < nextId
    BY <1>1, <2>1, RetiredRows, KeyedRows
  <2> HIDE DEF j
  <2> QED BY <1>3, <1>10, <2>2, <2>3 DEF FinishGivenUp
<1> QED BY <1>5, <1>6, <1>7, <1>8, <1>9, <1>10 DEF Finish

LEMMA CrashGuards ==
    ASSUME GuardInv, NEW r \in wire, CrashInConfirm(r) \/ CrashInRetire(r)
    PROVE  RowsKeyed' /\ GuardHasReply'
<1>1. /\ journal \in SUBSET Op /\ nextId \in Nat
      /\ Keyed(journal) /\ \A o \in journal : o.id < nextId
  BY JournalAssumption DEF GuardInv, TypeOK, RowsKeyed
<1>2. CASE CrashInConfirm(r)
  BY <1>1, <1>2, RestartGuards DEF CrashInConfirm
<1>3. CASE CrashInRetire(r)
  <2> DEFINE j == Failed(journal, r.op.id)
  <2>1. Keyed(j) /\ \A o \in j : o.id < nextId
    BY <1>1, KeyedRows
  <2>2. \E h, f : RestartFrom(j, h, f)
    BY <1>3 DEF CrashInRetire
  <2> HIDE DEF j
  <2> QED BY <2>1, <2>2, RestartGuards
<1> QED BY <1>2, <1>3

\* Closing a session fails requests where they stand.
LEMMA ClosedLegs ==
    ASSUME TypeOK
    PROVE  \E g \in [wire -> Request] :
              /\ Closed(wire) = {g[r] : r \in wire}
              /\ \A r \in wire : g[r].op = r.op /\ g[r].leg = r.leg
<1>1. CASE Proto = "imap"
  <2> DEFINE g == [r \in wire |-> [r EXCEPT !.answer = "Protocol"]]
  <2>1. g \in [wire -> Request]
    BY DEF TypeOK, Request, Errors
  <2>2. \A r \in wire : g[r].op = r.op /\ g[r].leg = r.leg
    BY DEF TypeOK, Request
  <2>3. Closed(wire) = {g[r] : r \in wire}
    BY <1>1 DEF Closed
  <2> QED BY <2>1, <2>2, <2>3
<1>2. CASE Proto # "imap"
  <2> DEFINE g == [r \in wire |-> r]
  <2>1. g \in [wire -> Request]
    BY DEF TypeOK
  <2>2. Closed(wire) = {g[r] : r \in wire}
    BY <1>2 DEF Closed
  <2> QED BY <2>1, <2>2
<1> QED BY <1>1, <1>2

LEMMA OthersGuards ==
    ASSUME GuardInv, Environment \/ Connect \/ SwitchBack \/ TimerFires
    PROVE  RowsKeyed' /\ GuardHasReply'
<1>1. CASE (\E x \in Msgs : ChangedElsewhere(x)) \/ SwitchBack
  <2>1. UNCHANGED <<journal, nextId, inFlight, wire>>
    BY <1>1 DEF ChangedElsewhere, SwitchBack, table, memory
  <2> QED BY <2>1 DEF GuardInv, GuardHasReply, RowsKeyed
<1>2. CASE ConnectionLost
  <2>1. PICK g \in [wire -> Request] :
              /\ Closed(wire) = {g[r] : r \in wire}
              /\ \A r \in wire : g[r].op = r.op /\ g[r].leg = r.leg
    BY ClosedLegs DEF GuardInv
  <2>2. wire' = {g[r] : r \in wire} /\ UNCHANGED <<journal, nextId, inFlight>>
    BY <1>2, <2>1 DEF ConnectionLost, table
  <2> QED BY <2>1, <2>2 DEF GuardInv, GuardHasReply, RowsKeyed
<1>3. CASE SwitchAway
  <2>1. /\ wire' = {[r EXCEPT !.leg = "previous"] : r \in Closed(wire)}
        /\ inFlight' = 0 /\ UNCHANGED <<journal, nextId>>
    BY <1>3 DEF SwitchAway, table
  <2>2. Closed(wire) \subseteq Request
    BY ClosedTyped DEF GuardInv
  <2>3. \A r \in wire' : r.leg = "previous"
    BY <2>1, <2>2 DEF Request
  <2> QED BY <2>1, <2>3, IdleGuards DEF GuardInv, RowsKeyed
<1>4. CASE WeekPasses
  <2> DEFINE aged(o) == [o EXCEPT !.old = TRUE]
  <2>1. \A o \in journal : aged(o).id = o.id /\ aged(o).retired = o.retired
    BY DEF GuardInv, TypeOK, Op
  <2>2. journal' = {aged(o) : o \in journal} /\ UNCHANGED <<nextId, inFlight, wire>>
    BY <1>4 DEF WeekPasses, memory
  <2> HIDE DEF aged
  <2>3. RowsKeyed'
    BY <2>1, <2>2 DEF GuardInv, RowsKeyed, Keyed
  <2>4. GuardHasReply'
    BY <2>1, <2>2 DEF GuardInv, GuardHasReply, Live
  <2> QED BY <2>3, <2>4
<1>5. CASE Restart
  BY <1>5, RestartGuards DEF Restart, GuardInv, RowsKeyed
<1>6. CASE Connect \/ TimerFires
  <2>1. nextId' = nextId
    BY <1>6 DEF Connect, TimerFires
  <2>2. \/ inFlight = 0 /\ Drain(journal, hidden, flags, pending, wire)
        \/ Rest(journal, hidden, flags, pending, wire, inFlight)
    BY <1>6 DEF Connect, TimerFires
  <2>3. GuardHasReply' /\ journal' \subseteq journal
    BY <2>2, WaitingGuards DEF GuardInv, TypeOK
  <2> QED BY <2>1, <2>3, KeyedKept DEF GuardInv, RowsKeyed
<1> QED BY <1>1, <1>2, <1>3, <1>4, <1>5, <1>6 DEF Environment

LEMMA InitGuards == Init => GuardInv
BY InitTyped DEF Init, GuardInv, RowsKeyed, Keyed, GuardHasReply

LEMMA NextGuards == GuardInv /\ [Next]_vars => GuardInv'
<1> SUFFICES ASSUME GuardInv, [Next]_vars PROVE GuardInv'
  OBVIOUS
<1>1. TypeOK'
  BY NextTyped DEF GuardInv
<1>2. RowsKeyed' /\ GuardHasReply'
  <2>1. CASE Gestures \/ FailedList
    BY <2>1, GesturesGuards, FailedListGuards
  <2>2. CASE Replies
    BY <2>2, ServerGuards, FinishGuards, CrashGuards DEF Replies
  <2>3. CASE Environment \/ Connect \/ SwitchBack \/ TimerFires
    BY <2>3, OthersGuards
  <2>4. CASE UNCHANGED vars
    BY <2>4 DEF vars, table, memory, GuardInv, RowsKeyed, Keyed, GuardHasReply, Live
  <2> QED BY <2>1, <2>2, <2>3, <2>4 DEF Next
<1> QED BY <1>1, <1>2 DEF GuardInv

\* m_journalBusy never latches and never waits on two replies: whatever is
\* discarded, retried, lost, switched away from or cut short by a crash, a
\* guard that is up has one current request, for the live row it names.
THEOREM GuardIsAnswered == Spec => []GuardHasReply
<1>1. Spec => []GuardInv
  BY InitGuards, NextGuards, PTL DEF Spec
<1>2. GuardInv => GuardHasReply
  BY DEF GuardInv
<1> QED BY <1>1, <1>2, PTL
-----------------------------------------------------------------------------
(***************************************************************************)
(* The journal's rows and its requests.                                    *)
(***************************************************************************)

\* The same change, whatever was counted against it since.
Same(o, q) == o.id = q.id /\ o.kind = q.kind /\ o.folder = q.folder /\ o.names = q.names

\* A request is for a row the table has or had: an id is never reused for
\* another change while its reply is outstanding.
Matched ==
    /\ \A r \in wire : r.op.id < nextId
    /\ \A r \in wire, o \in journal : o.id = r.op.id => Same(o, r.op)

\* With one message per gesture a change names one message.
OfOne(names) == \A x, y \in names : x = y
OneNamed ==
    MaxNamed <= 1 => /\ \A o \in journal : OfOne(o.names)
                     /\ \A r \in wire : OfOne(r.op.names)

QueueInv == GuardInv /\ Matched /\ OneNamed

-----------------------------------------------------------------------------
(* What a step does to the rows and to the requests.                        *)

\* Every row was there, or is the one gesture's new one.
RowsFollow ==
    /\ \A o \in journal' : \/ \E q \in journal : Same(o, q)
                           \/ o.id = nextId /\ nextId' = nextId + 1
                              /\ (MaxNamed <= 1 => OfOne(o.names))
    /\ nextId' \in {nextId, nextId + 1}

\* Every request was there, or is for a row that is.
WireFollows == \A r \in wire' : (\E q \in wire : q.op = r.op) \/ r.op \in journal'

\* No row is retired that was not before.
NothingRetires == \A o \in journal' : o.retired => \E q \in journal : q.retired /\ q.id = o.id

LEMMA QueueKept ==
    ASSUME GuardInv, GuardInv', Matched, OneNamed, RowsFollow, WireFollows
    PROVE  Matched' /\ OneNamed'
<1>1. nextId \in Nat
  BY JournalAssumption DEF GuardInv, TypeOK
<1>2. \A r \in wire : r.op.id \in Nat
  BY DEF GuardInv, TypeOK, Request, Op, Ids
<1>3. ASSUME NEW r \in wire'
      PROVE  r.op.id < nextId'
  <2>1. CASE r.op \in journal'
    BY <2>1 DEF GuardInv, RowsKeyed
  <2>2. CASE \E q \in wire : q.op = r.op
    BY <1>1, <1>2, <2>2 DEF Matched, RowsFollow
  <2> QED BY <2>1, <2>2 DEF WireFollows
<1>4. ASSUME NEW r \in wire', NEW o \in journal', o.id = r.op.id
      PROVE  Same(o, r.op)
  <2>1. CASE r.op \in journal'
    <3>1. o = r.op
      BY <1>4, <2>1 DEF GuardInv, RowsKeyed, Keyed
    <3> QED BY <3>1 DEF Same
  <2>2. CASE \E q \in wire : q.op = r.op
    <3>1. PICK q \in wire : q.op = r.op
      BY <2>2
    <3>2. o.id < nextId
      BY <1>4, <3>1 DEF Matched
    <3>3. PICK p \in journal : Same(o, p)
      BY <1>1, <3>2 DEF RowsFollow
    <3>4. Same(p, r.op)
      BY <1>4, <3>1, <3>3 DEF Matched, Same
    <3> QED BY <3>3, <3>4 DEF Same
  <2> QED BY <2>1, <2>2 DEF WireFollows
<1>5. OneNamed'
  BY DEF OneNamed, RowsFollow, WireFollows, Same
<1> QED BY <1>3, <1>4, <1>5 DEF Matched

\* A drain keeps rows and sends at most one request, for a row it keeps.
LEMMA DrainSends ==
    ASSUME NEW j \in SUBSET Op, NEW h, NEW f, NEW shown, NEW w,
           Drain(j, h, f, shown, w)
    PROVE  /\ journal' \subseteq j
           /\ \/ wire' = w
              \/ \E sent : /\ wire' = w \cup {sent} /\ sent.op \in journal'
                           /\ sent.answer = "awaited" /\ sent.leg = "current"
<1> DEFINE left == j \ Stale(j)
           next == Oldest(Live(left))
           sent == [op |-> next, answer |-> "awaited", leg |-> "current"]
<1>1. journal' = left
  BY DEF Drain
<1>2. CASE Live(left) = {}
  <2>1. wire' = w
    BY <1>2 DEF Drain
  <2> QED BY <1>1, <2>1
<1>3. CASE Live(left) # {}
  <2>1. wire' = w \cup {sent}
    BY <1>3 DEF Drain
  <2>2. next \in left
    <3>1. Live(left) \in SUBSET Op /\ Live(left) \subseteq left
      BY DEF Live
    <3> HIDE DEF left
    <3> QED BY <1>3, <3>1, OldestIsFirst
  <2>3. sent.leg = "current" /\ sent.op = next /\ sent.answer = "awaited"
    OBVIOUS
  <2> HIDE DEF sent, next, left
  <2>4. journal' \subseteq j
    BY <1>1 DEF left
  <2> QED BY <1>1, <2>1, <2>2, <2>3, <2>4
<1> QED BY <1>2, <1>3

LEMMA TailSends ==
    ASSUME NEW j \in SUBSET Op, NEW h, NEW f, NEW w, NEW busy, NEW up,
           CountAndDrain(j, h, f, w, busy, up)
    PROVE  /\ journal' \subseteq j
           /\ \/ wire' = w
              \/ \E sent : /\ up /\ wire' = w \cup {sent} /\ sent.op \in journal'
                           /\ sent.answer = "awaited" /\ sent.leg = "current"
<1> DEFINE shown == Cardinality(Live(j))
<1>1. (up /\ Drain(j, h, f, shown, w)) \/ Rest(j, h, f, shown, w, busy)
  BY DEF CountAndDrain
<1> HIDE DEF shown
<1>2. CASE up /\ Drain(j, h, f, shown, w)
  BY <1>2, DrainSends
<1>3. CASE Rest(j, h, f, shown, w, busy)
  BY <1>3 DEF Rest
<1> QED BY <1>1, <1>2, <1>3

\* Rewriting rows leaves each the change it was.
LEMMA RetiredSame ==
    ASSUME NEW j \in SUBSET Op, NEW T
    PROVE  /\ \A o \in Retired(j, T) : \E q \in j :
                 /\ Same(o, q) /\ o.tries = q.tries
                 /\ o.retired <=> (q.retired \/ q \in T)
                 /\ ~o.retired => o = q
           /\ \A q \in j : ~q.retired /\ q \notin T => q \in Retired(j, T)
<1> DEFINE g(o) == IF o \in T THEN [o EXCEPT !.retired = TRUE] ELSE o
<1>1. \A q \in j : /\ Same(g(q), q) /\ g(q).tries = q.tries
                   /\ g(q).retired <=> (q.retired \/ q \in T)
                   /\ ~g(q).retired => g(q) = q
                   /\ q \notin T => g(q) = q
  BY DEF Op, Same
<1>2. Retired(j, T) = {g(o) : o \in j}
  BY DEF Retired
<1> HIDE DEF g
<1> QED BY <1>1, <1>2

LEMMA FailedSame ==
    ASSUME NEW j \in SUBSET Op, NEW id
    PROVE  /\ \A o \in Failed(j, id) : \E q \in j :
                 /\ Same(o, q) /\ o.retired = q.retired
                 /\ o.tries \in {q.tries, q.tries + 1}
           /\ \A q \in j : \E o \in Failed(j, id) : Same(o, q) /\ o.retired = q.retired
<1> DEFINE g(o) == IF o.id = id THEN [o EXCEPT !.tries = @ + 1] ELSE o
<1>1. \A q \in j : /\ Same(g(q), q) /\ g(q).retired = q.retired
                   /\ g(q).tries \in {q.tries, q.tries + 1}
  BY DEF Op, Same
<1>2. Failed(j, id) = {g(o) : o \in j}
  BY DEF Failed
<1> HIDE DEF g
<1> QED BY <1>1, <1>2

LEMMA SettledSame ==
    ASSUME TypeOK, NEW r
    PROVE  \A q \in Settled(r) : \E p \in wire : q.op = p.op
BY SettledAnswers
\* The end of a handler that makes no new row.
Kept(j) == \A o \in j : \E q \in journal : Same(o, q) /\ (o.retired => q.retired)

LEMMA TailFollows ==
    ASSUME NEW j \in SUBSET Op, NEW h, NEW f, NEW w, NEW shown, NEW busy, NEW up,
           \/ CountAndDrain(j, h, f, w, busy, up)
           \/ Rest(j, h, f, shown, w, busy)
           \/ Drain(j, h, f, shown, w),
           \A r \in w : \E q \in wire : q.op = r.op,
           \A o \in j : \E q \in journal : Same(o, q), nextId' = nextId
    PROVE  RowsFollow /\ WireFollows /\ (Kept(j) => NothingRetires)
<1>1. /\ journal' \subseteq j
      /\ \/ wire' = w
         \/ \E sent : wire' = w \cup {sent} /\ sent.op \in journal'
  BY TailSends, DrainSends DEF Rest
<1>2. RowsFollow
  BY <1>1 DEF RowsFollow
<1>3. WireFollows
  BY <1>1 DEF WireFollows
<1>4. Kept(j) => NothingRetires
  BY <1>1 DEF NothingRetires, Kept, Same
<1> QED BY <1>2, <1>3, <1>4

\* The handlers that leave the rows and the requests alone.
LEMMA StillFollows ==
    ASSUME UNCHANGED <<journal, nextId>>, \A r \in wire' : \E q \in wire : q.op = r.op
    PROVE  RowsFollow /\ WireFollows /\ NothingRetires
BY DEF RowsFollow, WireFollows, NothingRetires, Same

LEMMA RestartFollows ==
    ASSUME NEW j, NEW h, NEW f, RestartFrom(j, h, f), Kept(j)
    PROVE  RowsFollow /\ WireFollows /\ NothingRetires
<1>1. journal' = j /\ wire' = {} /\ nextId' = nextId
  BY DEF RestartFrom
<1> QED BY <1>1 DEF RowsFollow, WireFollows, NothingRetires, Kept, Same

LEMMA KeptItself == Kept(journal) /\ \A k : k \subseteq journal => Kept(k)
BY DEF Kept, Same

LEMMA SmallGesture ==
    ASSUME NEW S \in SUBSET Msgs, Cardinality(S) <= MaxNamed, MaxNamed <= 1
    PROVE  OfOne(S)
<1>1. IsFiniteSet(S) /\ Cardinality(S) \in Nat
  BY FS_Subset, FS_CardinalityType, JournalAssumption
<1>2. Cardinality(S) \in {0, 1}
  BY <1>1, JournalAssumption
<1>3. CASE Cardinality(S) = 0
  BY <1>1, <1>3, FS_EmptySet DEF OfOne
<1>4. CASE Cardinality(S) = 1
  <2>1. \E x : S = {x}
    BY <1>1, <1>4, FS_Singleton
  <2> QED BY <2>1 DEF OfOne
<1> QED BY <1>2, <1>3, <1>4

LEMMA RecordFollows ==
    ASSUME GuardInv, NEW kind \in FlagKinds \cup RemovalKinds, NEW F \in Folders,
           NEW target \in Folders \cup {NoFolder}, NEW S \in SUBSET Msgs, NEW h, NEW f,
           Cardinality(S) <= MaxNamed, Record(kind, F, target, S, h, f)
    PROVE  RowsFollow /\ WireFollows /\ NothingRetires
<1>1. CASE /\ nextId' = nextId + 1
           /\ CountAndDrain(journal \cup {NewOp(kind, F, target, S)}, h, f, wire,
                            inFlight, connected)
  <2> DEFINE new == NewOp(kind, F, target, S)
             j   == journal \cup {new}
  <2>1. new \in Op /\ new.id = nextId /\ new.names = S /\ ~new.retired
    BY NewOpTyped DEF GuardInv, Record, NewOp
  <2> HIDE DEF new
  <2>2. j \in SUBSET Op
    BY <2>1 DEF GuardInv, TypeOK
  <2>3. CountAndDrain(j, h, f, wire, inFlight, connected)
    BY <1>1 DEF new
  <2> HIDE DEF j
  <2>4. /\ journal' \subseteq j
        /\ \/ wire' = wire
           \/ \E sent : wire' = wire \cup {sent} /\ sent.op \in journal'
    BY <2>2, <2>3, TailSends
  <2>5. MaxNamed <= 1 => OfOne(new.names)
    BY <2>1, SmallGesture
  <2>6. RowsFollow
    BY <1>1, <2>1, <2>4, <2>5 DEF RowsFollow, Same, j
  <2>7. NothingRetires
    BY <2>1, <2>4 DEF NothingRetires, j
  <2>8. WireFollows
    BY <2>4 DEF WireFollows
  <2> QED BY <2>6, <2>7, <2>8
<1>2. CASE /\ Rest(journal, h, f, pending, wire, inFlight)
           /\ UNCHANGED nextId
  BY <1>2, StillFollows DEF Rest
<1> QED BY <1>1, <1>2 DEF Record

LEMMA GesturesFollow ==
    ASSUME GuardInv, Gestures
    PROVE  RowsFollow /\ WireFollows /\ NothingRetires
<1>1. PICK F \in Folders, S \in SUBSET Msgs :
        /\ Cardinality(S) <= MaxNamed
        /\ \/ CrashInRemove(F, S)
           \/ \E kind \in FlagKinds : Mark(kind, F, S) \/ CrashInMark(kind, F, S)
           \/ \E kind \in RemovalKinds, target \in Folders \cup {NoFolder} :
                 Remove(kind, F, target, S)
  BY DEF Gestures
<1>2. ASSUME NEW kind \in FlagKinds, Mark(kind, F, S)
      PROVE  RowsFollow /\ WireFollows /\ NothingRetires
  BY <1>1, <1>2, RecordFollows DEF Mark
<1>3. ASSUME NEW kind \in RemovalKinds, NEW target \in Folders \cup {NoFolder},
             Remove(kind, F, target, S)
      PROVE  RowsFollow /\ WireFollows /\ NothingRetires
  BY <1>1, <1>3, RecordFollows DEF Remove
<1>4. ASSUME NEW kind \in FlagKinds, CrashInRemove(F, S) \/ CrashInMark(kind, F, S)
      PROVE  RowsFollow /\ WireFollows /\ NothingRetires
  <2>1. \E h, f : RestartFrom(journal, h, f)
    BY <1>4 DEF CrashInRemove, CrashInMark
  <2> QED BY <2>1, RestartFollows, KeptItself
<1> QED BY <1>1, <1>2, <1>3, <1>4 DEF FlagKinds

LEMMA FailedListFollows ==
    ASSUME GuardInv, FailedList
    PROVE  RowsFollow /\ WireFollows /\ NothingRetires
<1>1. \A r \in wire : \E q \in wire : q.op = r.op
  OBVIOUS
<1>2. ASSUME NEW op \in journal, RetryFailedChange(op)
      PROVE  RowsFollow /\ WireFollows /\ NothingRetires
  <2> DEFINE revived == [op EXCEPT !.retired = FALSE, !.tries = 0, !.old = FALSE]
             j == (journal \ {op}) \cup {revived}
  <2>1. op \in Op
    BY DEF GuardInv, TypeOK
  <2>2. revived \in Op /\ Same(revived, op) /\ ~revived.retired
    BY <2>1 DEF Op, Same
  <2>3. /\ CountAndDrain(j, HiddenAgain(op), MarkedAgain(op), wire, inFlight, connected)
        /\ nextId' = nextId
    BY <1>2 DEF RetryFailedChange
  <2> HIDE DEF revived
  <2>4. j \in SUBSET Op /\ Kept(j)
    BY <2>2 DEF GuardInv, TypeOK, Kept, Same
  <2> HIDE DEF j
  <2>5. \A o \in j : \E q \in journal : Same(o, q)
    BY <2>4 DEF Kept
  <2> QED BY <1>1, <2>3, <2>4, <2>5, TailFollows
<1>3. ASSUME NEW k, k \subseteq journal, NEW s, Rest(k, hidden, flags, s, wire, inFlight),
             nextId' = nextId
      PROVE  RowsFollow /\ WireFollows /\ NothingRetires
  <2>1. k \in SUBSET Op
    BY <1>3 DEF GuardInv, TypeOK
  <2>2. Kept(k) /\ \A o \in k : \E q \in journal : Same(o, q)
    BY <1>3 DEF Kept, Same
  <2> QED BY <1>1, <1>3, <2>1, <2>2, TailFollows
<1>4. ASSUME NEW op \in journal, DiscardFailedChange(op)
      PROVE  RowsFollow /\ WireFollows /\ NothingRetires
  <2>1. Dropped(journal, op.id) \subseteq journal
    BY DEF Dropped
  <2> QED BY <1>3, <1>4, <2>1 DEF DiscardFailedChange
<1>5. CASE DiscardAllFailedChanges
  <2>1. Live(journal) \subseteq journal
    BY DEF Live
  <2> QED BY <1>3, <1>5, <2>1 DEF DiscardAllFailedChanges
<1> QED BY <1>2, <1>4, <1>5 DEF FailedList

LEMMA ServerFollows ==
    ASSUME GuardInv, NEW r \in wire, ServerAnswers(r)
    PROVE  RowsFollow /\ WireFollows /\ NothingRetires
<1> DEFINE new(e) == [r EXCEPT !.answer = e]
<1>1. PICK e : Answer(r, e)
  BY DEF ServerAnswers, ServerAccepts, ServerMisses, ServerForbids, ServerRefuses,
         ServerThrottles, RequestLost
<1>2. wire' = (wire \ {r}) \cup {new(e)}
  BY <1>1 DEF Answer
<1>3. new(e).op = r.op
  BY DEF GuardInv, TypeOK, Request
<1>4. UNCHANGED <<journal, nextId>>
  BY DEF ServerAnswers, table
<1> HIDE DEF new
<1> QED BY <1>2, <1>3, <1>4, StillFollows
\* Every way a reply ends but the two that retire rows.
LEMMA FinishFollows ==
    ASSUME GuardInv, NEW r \in wire, Finish(r)
    PROVE  /\ RowsFollow /\ WireFollows
           /\ NothingRetires \/ FinishConfirmed(r) \/ FinishGivenUp(r)
<1>1. journal \in SUBSET Op
  BY DEF GuardInv, TypeOK
<1>2. \A q \in Settled(r) : \E p \in wire : p.op = q.op
  BY SettledSame DEF GuardInv
<1>3. ASSUME NEW j \in SUBSET Op, NEW h, NEW f, NEW s, NEW up,
             \A o \in j : \E q \in journal : Same(o, q), nextId' = nextId,
             \/ CountAndDrain(j, h, f, Settled(r), 0, up)
             \/ Rest(j, h, f, s, Settled(r), 0)
      PROVE  RowsFollow /\ WireFollows /\ (Kept(j) => NothingRetires)
  BY <1>2, <1>3, TailFollows
<1>4. CASE FinishStale(r)
  <2>1. UNCHANGED <<journal, nextId>> /\ wire' = wire \ {r}
    BY <1>4 DEF FinishStale, table
  <2> QED BY <2>1, StillFollows
<1>5. CASE FinishConfirmed(r)
  <2>1. PICK lost, h, f :
          CountAndDrain(Dropped(Retired(journal, lost), r.op.id), h, f, Settled(r), 0, connected)
    BY <1>5 DEF FinishConfirmed
  <2> DEFINE k == Retired(journal, lost)
             j == Dropped(k, r.op.id)
  <2>2. k \in SUBSET Op
    BY <1>1, RetiredRows DEF GuardInv, TypeOK
  <2>3. \A o \in k : \E q \in journal : Same(o, q)
    BY <1>1, RetiredSame
  <2> HIDE DEF k
  <2>4. j \in SUBSET Op /\ \A o \in j : \E q \in journal : Same(o, q)
    BY <2>2, <2>3 DEF Dropped
  <2>5. CountAndDrain(j, h, f, Settled(r), 0, connected)
    BY <2>1 DEF k
  <2> HIDE DEF j
  <2> QED BY <1>3, <1>5, <2>4, <2>5 DEF FinishConfirmed
<1>6. CASE FinishNotFound(r)
  <2> DEFINE j == Dropped(journal, r.op.id)
  <2>1. j \subseteq journal
    BY DEF Dropped
  <2>2. j \in SUBSET Op /\ Kept(j) /\ \A o \in j : \E q \in journal : Same(o, q)
    BY <1>1, <2>1 DEF Kept, Same
  <2>3. CountAndDrain(j, hidden, flags, Settled(r), 0, connected)
    BY <1>6 DEF FinishNotFound
  <2> HIDE DEF j
  <2> QED BY <1>3, <1>6, <2>2, <2>3 DEF FinishNotFound
<1>7. CASE FinishDeferred(r) \/ FinishThrottled(r)
  <2>1. nextId' = nextId /\ wire' = Settled(r) /\ journal' = journal
    BY <1>7 DEF FinishDeferred, FinishThrottled, Rest
  <2> QED BY <1>2, <2>1, StillFollows
<1>8. CASE FinishRefused(r)
  <2> DEFINE j == Failed(journal, r.op.id)
  <2>1. j \in SUBSET Op
    BY <1>1, FailedRows DEF GuardInv, TypeOK
  <2>2. Kept(j) /\ \A o \in j : \E q \in journal : Same(o, q)
    BY <1>1, FailedSame DEF Kept
  <2>3. nextId' = nextId /\ \E s : Rest(j, hidden, flags, s, Settled(r), 0)
    BY <1>8 DEF FinishRefused
  <2> HIDE DEF j
  <2> QED BY <1>3, <2>1, <2>2, <2>3
<1>9. CASE FinishGivenUp(r)
  <2> DEFINE k == Failed(journal, r.op.id)
             j == Retired(k, Chain(k, r.op))
  <2>1. k \in SUBSET Op /\ IsFiniteSet(k) /\ \A o \in k : \E q \in journal : Same(o, q)
    BY <1>1, FailedRows, FailedSame DEF GuardInv, TypeOK
  <2>2. PICK h, f : CountAndDrain(j, h, f, Settled(r), 0, connected)
    BY <1>9 DEF FinishGivenUp
  <2> HIDE DEF k
  <2>3. j \in SUBSET Op /\ \A o \in j : \E q \in k : Same(o, q)
    BY <2>1, RetiredRows, RetiredSame
  <2>4. \A o \in j : \E q \in journal : Same(o, q)
    BY <2>1, <2>3 DEF Same
  <2> HIDE DEF j
  <2> QED BY <1>3, <1>9, <2>2, <2>3, <2>4 DEF FinishGivenUp
<1> QED BY <1>4, <1>5, <1>6, <1>7, <1>8, <1>9 DEF Finish

LEMMA CrashFollows ==
    ASSUME GuardInv, NEW r \in wire, CrashInConfirm(r) \/ CrashInRetire(r)
    PROVE  RowsFollow /\ WireFollows /\ NothingRetires
<1>1. Kept(Failed(journal, r.op.id))
  <2>1. journal \in SUBSET Op
    BY DEF GuardInv, TypeOK
  <2> QED BY <2>1, FailedSame DEF Kept
<1>2. CASE CrashInConfirm(r)
  <2>1. \E h, f : RestartFrom(journal, h, f)
    BY <1>2 DEF CrashInConfirm
  <2> QED BY <2>1, RestartFollows, KeptItself
<1>3. CASE CrashInRetire(r)
  <2>1. \E h, f : RestartFrom(Failed(journal, r.op.id), h, f)
    BY <1>3 DEF CrashInRetire
  <2> QED BY <1>1, <2>1, RestartFollows
<1> QED BY <1>2, <1>3

LEMMA OthersFollow ==
    ASSUME GuardInv, Environment \/ Connect \/ SwitchBack \/ TimerFires
    PROVE  RowsFollow /\ WireFollows /\ NothingRetires
<1>1. \A r \in wire : \E q \in wire : q.op = r.op
  OBVIOUS
<1>2. CASE (\E x \in Msgs : ChangedElsewhere(x)) \/ SwitchBack
  <2>1. UNCHANGED <<journal, nextId, wire>>
    BY <1>2 DEF ChangedElsewhere, SwitchBack, table
  <2> QED BY <2>1, StillFollows
<1>3. CASE ConnectionLost
  <2>1. PICK g \in [wire -> Request] :
              /\ Closed(wire) = {g[r] : r \in wire}
              /\ \A r \in wire : g[r].op = r.op /\ g[r].leg = r.leg
    BY ClosedLegs DEF GuardInv
  <2>2. wire' = {g[r] : r \in wire} /\ UNCHANGED <<journal, nextId>>
    BY <1>3, <2>1 DEF ConnectionLost, table
  <2> QED BY <2>1, <2>2, StillFollows
<1>4. CASE SwitchAway
  <2>1. PICK g \in [wire -> Request] :
              /\ Closed(wire) = {g[r] : r \in wire}
              /\ \A r \in wire : g[r].op = r.op /\ g[r].leg = r.leg
    BY ClosedLegs DEF GuardInv
  <2> DEFINE back(q) == [q EXCEPT !.leg = "previous"]
  <2>2. wire' = {back(q) : q \in Closed(wire)} /\ UNCHANGED <<journal, nextId>>
    BY <1>4 DEF SwitchAway, table
  <2>3. \A q \in Closed(wire) : back(q).op = q.op
    BY ClosedTyped DEF GuardInv, Request
  <2> HIDE DEF back
  <2> QED BY <2>1, <2>2, <2>3, StillFollows
<1>5. CASE WeekPasses
  <2> DEFINE aged(o) == [o EXCEPT !.old = TRUE]
  <2>1. \A o \in journal : Same(aged(o), o) /\ aged(o).retired = o.retired
    BY DEF GuardInv, TypeOK, Op, Same
  <2>2. journal' = {aged(o) : o \in journal} /\ UNCHANGED <<nextId, wire>>
    BY <1>5 DEF WeekPasses
  <2> HIDE DEF aged
  <2> QED BY <2>1, <2>2 DEF RowsFollow, WireFollows, NothingRetires, Same
<1>6. CASE Restart
  BY <1>6, RestartFollows, KeptItself DEF Restart
<1>7. CASE Connect \/ TimerFires
  <2>1. /\ nextId' = nextId /\ journal \in SUBSET Op
        /\ Kept(journal) /\ \A o \in journal : \E q \in journal : Same(o, q)
    BY <1>7 DEF Connect, TimerFires, GuardInv, TypeOK, Kept, Same
  <2>2. \/ Drain(journal, hidden, flags, pending, wire)
        \/ Rest(journal, hidden, flags, pending, wire, inFlight)
    BY <1>7 DEF Connect, TimerFires
  <2> QED BY <1>1, <2>1, <2>2, TailFollows
<1> QED BY <1>2, <1>3, <1>4, <1>5, <1>6, <1>7 DEF Environment

\* Rows are retired by the reply to a move or by the last refusal, and
\* nothing else.
LEMMA NextFollows ==
    ASSUME GuardInv, [Next]_vars
    PROVE  /\ RowsFollow /\ WireFollows
           /\ \/ NothingRetires
              \/ \E r \in wire : FinishConfirmed(r) \/ FinishGivenUp(r)
<1>1. CASE Replies
  BY <1>1, ServerFollows, FinishFollows, CrashFollows DEF Replies
<1>2. CASE UNCHANGED vars
  <2>1. UNCHANGED <<journal, nextId>> /\ \A r \in wire' : \E q \in wire : q.op = r.op
    BY <1>2 DEF vars, table
  <2> QED BY <2>1, StillFollows
<1> QED BY <1>1, <1>2, GesturesFollow, FailedListFollows, OthersFollow DEF Next

LEMMA InitQueue == Init => QueueInv
BY InitGuards DEF Init, QueueInv, Matched, OneNamed

LEMMA NextQueue == QueueInv /\ [Next]_vars => QueueInv'
<1> SUFFICES ASSUME QueueInv, [Next]_vars PROVE QueueInv'
  OBVIOUS
<1>1. GuardInv'
  BY NextGuards DEF QueueInv
<1>2. Matched' /\ OneNamed'
  BY <1>1, NextFollows, QueueKept DEF QueueInv
<1> QED BY <1>1, <1>2 DEF QueueInv
-----------------------------------------------------------------------------
(* An op is retired together with its dependents.                           *)

\* The body of DependentsGoTogether.
Together ==
    \A o \in journal' : o.retired /\ (\E b \in Live(journal) : b.id = o.id) =>
        \A p \in Live(journal') :
            ~(p.id > o.id /\ p.folder = o.folder /\ p.names \cap o.names # {})

LEMMA NoneRetiredNoneLeft ==
    ASSUME GuardInv, NothingRetires
    PROVE  Together
<1> SUFFICES ASSUME NEW o \in journal', o.retired, NEW b \in Live(journal), b.id = o.id
             PROVE  FALSE
  BY DEF Together
<1>1. PICK q \in journal : q.retired /\ q.id = o.id
  BY DEF NothingRetires
<1> QED BY <1>1 DEF GuardInv, RowsKeyed, Keyed, Live

\* The table a cascade leaves: with T the rows it retires, whatever stays
\* live is no dependent of theirs.
LEMMA CascadeTakesAll ==
    ASSUME NEW k \in SUBSET Op, Keyed(k), NEW T, journal' \subseteq Retired(k, T),
           \A o \in Live(journal) : \E q \in k : q.id = o.id /\ ~q.retired,
           \A o \in T \cap k, p \in Live(k) \ T :
              ~(p.id > o.id /\ p.folder = o.folder /\ p.names \cap o.names # {})
    PROVE  Together
<1> SUFFICES ASSUME NEW o \in journal', o.retired, NEW b \in Live(journal), b.id = o.id,
                    NEW p \in Live(journal')
             PROVE  ~(p.id > o.id /\ p.folder = o.folder /\ p.names \cap o.names # {})
  BY DEF Together
<1>1. PICK q \in k : Same(o, q) /\ (o.retired <=> (q.retired \/ q \in T))
  BY RetiredSame
<1>2. q \in T
  <2>1. PICK c \in k : c.id = b.id /\ ~c.retired
    OBVIOUS
  <2>2. c = q
    BY <1>1, <2>1 DEF Keyed, Same
  <2> QED BY <1>1, <2>1, <2>2
<1>3. PICK s \in k : /\ Same(p, s) /\ (p.retired <=> (s.retired \/ s \in T))
  BY RetiredSame DEF Live
<1>4. s \in Live(k) \ T
  BY <1>3 DEF Live
<1> QED BY <1>1, <1>2, <1>3, <1>4 DEF Same

\* A move takes every later op of the mailbox it emptied.
LEMMA ConfirmedTogether ==
    ASSUME QueueInv, NEW r \in wire, FinishConfirmed(r)
    PROVE  Together
<1> DEFINE lost == IF r.op.kind = "move" THEN Unnameable(journal, r.op) ELSE {}
           k == Retired(journal, lost)
<1>1. PICK h, f :
        CountAndDrain(Dropped(k, r.op.id), h, f, Settled(r), 0, connected)
  BY DEF FinishConfirmed
<1>2. /\ journal \in SUBSET Op /\ Keyed(journal) /\ r.op \in Op
  BY DEF QueueInv, GuardInv, TypeOK, RowsKeyed, Request
<1>3. Dropped(k, r.op.id) \subseteq k /\ k \in SUBSET Op
  BY <1>2, RetiredRows DEF Dropped, QueueInv, GuardInv, TypeOK
<1>4. journal' \subseteq k
  BY <1>1, <1>3, TailSends
<1>5. ASSUME NEW o \in lost \cap journal, NEW p \in Live(journal) \ lost
      PROVE  ~(p.id > o.id /\ p.folder = o.folder /\ p.names \cap o.names # {})
  <2>1. o.id > r.op.id /\ o.folder = r.op.folder /\ p \in Live(journal)
        /\ ~(p.id > r.op.id /\ p.folder = r.op.folder)
    BY <1>5 DEF Unnameable
  <2>2. o.id \in Nat /\ p.id \in Nat /\ r.op.id \in Nat
    BY <1>2 DEF Live, Op, Ids
  <2> QED BY <2>1, <2>2
<1>6. \A o \in Live(journal) : \E q \in journal : q.id = o.id /\ ~q.retired
  BY DEF Live
<1> HIDE DEF lost
<1> QED BY <1>2, <1>4, <1>5, <1>6, CascadeTakesAll

\* A refusal takes the ops that name one of its messages; with one message a
\* gesture that is every op that names one of theirs.
LEMMA GivenUpTogether ==
    ASSUME QueueInv, MaxNamed <= 1, NEW r \in wire, FinishGivenUp(r)
    PROVE  Together
<1> DEFINE k == Failed(journal, r.op.id)
           chain == Chain(k, r.op)
<1>1. PICK h, f : CountAndDrain(Retired(k, chain), h, f, Settled(r), 0, connected)
  BY DEF FinishGivenUp
<1>2. /\ journal \in SUBSET Op /\ IsFiniteSet(journal) /\ Keyed(journal) /\ r.op \in Op
  BY DEF QueueInv, GuardInv, TypeOK, RowsKeyed, Request
<1>3. k \in SUBSET Op /\ IsFiniteSet(k) /\ Keyed(k)
  <2>1. \A o \in journal : o.id < nextId
    BY DEF QueueInv, GuardInv, RowsKeyed
  <2>2. nextId \in Nat
    BY JournalAssumption DEF QueueInv, GuardInv, TypeOK
  <2> QED BY <1>2, <2>1, <2>2, FailedRows, KeyedRows
<1>4. \A o \in k : \E q \in journal : Same(o, q) /\ o.retired = q.retired
  BY <1>2, FailedSame
<1>5. \A q \in journal : \E o \in k : Same(o, q) /\ o.retired = q.retired
  BY <1>2, FailedSame
<1> HIDE DEF k
<1>6. Retired(k, chain) \in SUBSET Op
  BY <1>3, RetiredRows
<1>7. journal' \subseteq Retired(k, chain)
  BY <1>1, <1>6, TailSends
<1>8. \A o \in k : OfOne(o.names) /\ (o.id = r.op.id => Same(o, r.op))
  BY <1>4 DEF QueueInv, OneNamed, Matched, Same
<1>9. ASSUME NEW o \in chain \cap k, NEW p \in Live(k) \ chain,
             p.id > o.id, p.folder = o.folder, NEW x \in p.names \cap o.names
      PROVE  FALSE
  <2>1. o.id \in Nat /\ p.id \in Nat /\ r.op.id \in Nat /\ p \in k
    BY <1>2, <1>3 DEF Live, Op, Ids
  <2>2. CASE o.id = r.op.id
    <3>1. Same(o, r.op)
      BY <1>8, <2>2
    <3> QED BY <1>9, <2>2, <3>1 DEF Chain, Same
  <2>3. CASE o.id # r.op.id
    <3>1. o.id > r.op.id /\ o.folder = r.op.folder /\ \E y \in o.names : y \in r.op.names
      BY <1>9, <2>3 DEF Chain
    <3>2. x \in r.op.names
      BY <1>8, <1>9, <3>1 DEF OfOne
    <3>3. p.id > r.op.id
      BY <1>9, <2>1, <3>1
    <3>4. p \in Live(k) /\ p.folder = r.op.folder /\ p.names \cap r.op.names # {}
      BY <1>9, <3>1, <3>2
    <3> QED BY <1>9, <3>3, <3>4 DEF Chain
  <2> QED BY <2>2, <2>3
<1>10. \A o \in Live(journal) : \E q \in k : q.id = o.id /\ ~q.retired
  BY <1>5 DEF Live, Same
<1> HIDE DEF chain
<1> QED BY <1>3, <1>7, <1>9, <1>10, CascadeTakesAll

\* retireJournalOp() and rewriteJournalIds(): where a gesture names one
\* message, an op given up on or overtaken by a move leaves no later op behind
\* to be replayed against what was undone.  With two messages a gesture the
\* code does leave one: its cascade is one step deep.
THEOREM DependentsGo ==
    ASSUME MaxNamed <= 1
    PROVE  Spec => DependentsGoTogether
<1>1. QueueInv /\ [Next]_vars => [Together]_vars
  <2> SUFFICES ASSUME QueueInv, [Next]_vars PROVE Together
    OBVIOUS
  <2>1. CASE NothingRetires
    BY <2>1, NoneRetiredNoneLeft DEF QueueInv
  <2>2. CASE \E r \in wire : FinishConfirmed(r) \/ FinishGivenUp(r)
    BY <2>2, ConfirmedTogether, GivenUpTogether
  <2> QED BY <2>1, <2>2, NextFollows DEF QueueInv
<1>2. Spec => []QueueInv
  BY InitQueue, NextQueue, PTL DEF Spec
<1>3. DependentsGoTogether <=> [][Together]_vars
  BY DEF DependentsGoTogether, Together
<1> QED BY <1>1, <1>2, <1>3, PTL DEF Spec
-----------------------------------------------------------------------------
(* Strictly one at a time, over IMAP.                                       *)

\* The strengthening: over IMAP a session that closes fails what it carries,
\* and the next one connects once those failures are delivered.  So a
\* connected session carries nothing of an earlier one, and a closed one
\* has nothing the server could still act on.
InOrder(w, up) ==
    /\ \A r \in w : r.answer \in {"awaited", "None", "Protocol"}
    /\ up => \A r \in w : r.leg = "current"
    /\ ~up => \A r \in w : r.answer # "awaited"
Orderly == Proto = "imap" => InOrder(wire, connected)

OrderInv == GuardInv /\ Orderly

\* A step that sends at most what a connected drain sends.
LEMMA SendingInOrder ==
    ASSUME NEW w, InOrder(w, connected'),
           \/ wire' = w
           \/ \E sent : /\ connected' /\ wire' = w \cup {sent}
                        /\ sent.answer = "awaited" /\ sent.leg = "current"
    PROVE  Orderly'
BY DEF Orderly, InOrder

LEMMA TailInOrder ==
    ASSUME NEW j \in SUBSET Op, NEW h, NEW f, NEW w, NEW busy,
           InOrder(w, connected), connected' = connected,
           CountAndDrain(j, h, f, w, busy, connected)
    PROVE  Orderly'
<1>1. CASE wire' = w
  BY <1>1, SendingInOrder
<1>2. CASE wire' # w
  <2>1. PICK sent : /\ connected /\ wire' = w \cup {sent}
                    /\ sent.answer = "awaited" /\ sent.leg = "current"
    BY <1>2, TailSends
  <2> QED BY <2>1, SendingInOrder
<1> QED BY <1>1, <1>2

LEMMA EmptyInOrder == wire' = {} => Orderly'
BY DEF Orderly, InOrder

LEMMA SameInOrder ==
    ASSUME Orderly, UNCHANGED <<wire, connected>>
    PROVE  Orderly'
BY DEF Orderly, InOrder

LEMMA GesturesInOrder ==
    ASSUME OrderInv, Proto = "imap", Gestures \/ FailedList
    PROVE  Orderly'
<1>1. InOrder(wire, connected)
  BY DEF OrderInv, Orderly
<1>2. journal \in SUBSET Op
  BY DEF OrderInv, GuardInv, TypeOK
<1>3. ASSUME NEW kind \in FlagKinds \cup RemovalKinds, NEW F \in Folders,
             NEW target \in Folders \cup {NoFolder}, NEW S \in SUBSET Msgs, NEW h, NEW f,
             Record(kind, F, target, S, h, f), connected' = connected
      PROVE  Orderly'
  <2> DEFINE j == journal \cup {NewOp(kind, F, target, S)}
  <2>1. j \in SUBSET Op
    BY <1>2, <1>3, NewOpTyped DEF OrderInv, GuardInv, Record
  <2>2. \/ CountAndDrain(j, h, f, wire, inFlight, connected)
        \/ wire' = wire
    BY <1>3 DEF Record, Rest
  <2> HIDE DEF j
  <2> QED BY <1>1, <1>3, <2>1, <2>2, TailInOrder, SendingInOrder
<1>4. \A j, h, f : RestartFrom(j, h, f) => Orderly'
  BY EmptyInOrder DEF RestartFrom
<1>5. CASE Gestures
  <2>1. PICK F \in Folders, S \in SUBSET Msgs :
          \/ CrashInRemove(F, S)
          \/ \E kind \in FlagKinds : Mark(kind, F, S) \/ CrashInMark(kind, F, S)
          \/ \E kind \in RemovalKinds, target \in Folders \cup {NoFolder} :
                Remove(kind, F, target, S)
    BY <1>5 DEF Gestures
  <2>2. CASE CrashInRemove(F, S) \/ \E kind \in FlagKinds : CrashInMark(kind, F, S)
    BY <1>4, <2>2 DEF CrashInRemove, CrashInMark
  <2>3. ASSUME NEW kind \in FlagKinds, Mark(kind, F, S)
        PROVE  Orderly'
    BY <1>3, <2>3 DEF Mark
  <2>4. ASSUME NEW kind \in RemovalKinds, NEW target \in Folders \cup {NoFolder},
               Remove(kind, F, target, S)
        PROVE  Orderly'
    BY <1>3, <2>4 DEF Remove
  <2> QED BY <2>1, <2>2, <2>3, <2>4
<1>6. ASSUME NEW op \in journal, RetryFailedChange(op)
      PROVE  Orderly'
  <2> DEFINE revived == [op EXCEPT !.retired = FALSE, !.tries = 0, !.old = FALSE]
             j == (journal \ {op}) \cup {revived}
  <2>1. revived \in Op
    BY <1>2 DEF Op
  <2>2. /\ CountAndDrain(j, HiddenAgain(op), MarkedAgain(op), wire, inFlight, connected)
        /\ connected' = connected
    BY <1>6 DEF RetryFailedChange
  <2>3. j \in SUBSET Op
    BY <1>2, <2>1
  <2> HIDE DEF j
  <2> QED BY <1>1, <2>2, <2>3, TailInOrder
<1>7. CASE (\E op \in journal : DiscardFailedChange(op)) \/ DiscardAllFailedChanges
  <2>1. UNCHANGED <<wire, connected>>
    BY <1>7 DEF DiscardFailedChange, DiscardAllFailedChanges, Rest
  <2> QED BY <2>1, SameInOrder DEF OrderInv
<1> QED BY <1>5, <1>6, <1>7 DEF FailedList

LEMMA ServerInOrder ==
    ASSUME OrderInv, Proto = "imap", NEW r \in wire, ServerAnswers(r)
    PROVE  Orderly'
<1> DEFINE new(e) == [r EXCEPT !.answer = e]
<1>1. PICK e \in {"None", "Protocol"} : Answer(r, e)
  BY DEF ServerAnswers, ServerAccepts, ServerMisses, ServerForbids, ServerRefuses,
         ServerThrottles, RequestLost
<1>2. wire' = (wire \ {r}) \cup {new(e)}
  BY <1>1 DEF Answer
<1>3. new(e).leg = r.leg /\ new(e).answer = e
  BY DEF OrderInv, GuardInv, TypeOK, Request
<1>4. connected' = connected
  BY DEF ServerAnswers, memory
<1> HIDE DEF new
<1> QED BY <1>1, <1>2, <1>3, <1>4 DEF OrderInv, Orderly, InOrder

\* The reply to the op in flight of a connected session is the only request
\* there is; a closed session sends nothing after it.
LEMMA FinishInOrder ==
    ASSUME OrderInv, Proto = "imap", NEW r \in wire, Finish(r)
    PROVE  Orderly'
<1>1. InOrder(wire, connected) /\ wire \subseteq Request /\ journal \in SUBSET Op
  BY DEF OrderInv, Orderly, GuardInv, TypeOK
<1>2. InOrder(Settled(r), connected)
  <2>1. CASE connected
    <3>1. wire \ {r} = {}
      BY <1>1, <2>1 DEF InOrder, OrderInv, GuardInv, GuardHasReply
    <3> QED BY <3>1 DEF Settled, InOrder
  <2>2. CASE ~connected
    <3>1. \A q \in Settled(r) : \E p \in wire : p.answer = q.answer
      BY SettledAnswers DEF OrderInv, GuardInv
    <3> QED BY <1>1, <2>2, <3>1 DEF InOrder
  <2> QED BY <2>1, <2>2
<1>3. r.answer \notin {"Auth", "Connection", "NotFound", "Throttled"}
  BY <1>1 DEF InOrder
<1>4. CASE FinishStale(r)
  <2>1. wire' = wire \ {r} /\ (connected' <=> connected)
    BY <1>3, <1>4 DEF FinishStale
  <2> QED BY <1>1, <2>1 DEF Orderly, InOrder
<1>5. CASE FinishConfirmed(r)
  <2>1. PICK lost, h, f :
          CountAndDrain(Dropped(Retired(journal, lost), r.op.id), h, f, Settled(r), 0, connected)
    BY <1>5 DEF FinishConfirmed
  <2>2. Dropped(Retired(journal, lost), r.op.id) \in SUBSET Op
    BY <1>1, RetiredRows DEF Dropped, OrderInv, GuardInv, TypeOK
  <2>3. connected' = connected
    BY <1>5 DEF FinishConfirmed
  <2> QED BY <1>2, <2>1, <2>2, <2>3, TailInOrder
<1>6. CASE FinishNotFound(r) \/ FinishDeferred(r) \/ FinishThrottled(r)
  BY <1>3, <1>6 DEF FinishNotFound, FinishDeferred, FinishThrottled, Reply
<1>7. CASE FinishRefused(r)
  <2>1. wire' = Settled(r) /\ connected' = connected
    BY <1>7 DEF FinishRefused, Rest
  <2> QED BY <1>2, <2>1, SendingInOrder
<1>8. CASE FinishGivenUp(r)
  <2> DEFINE k == Failed(journal, r.op.id)
             j == Retired(k, Chain(k, r.op))
  <2>1. k \in SUBSET Op /\ IsFiniteSet(k)
    BY FailedRows DEF OrderInv, GuardInv, TypeOK
  <2>2. j \in SUBSET Op
    BY <2>1, RetiredRows
  <2>3. PICK h, f : CountAndDrain(j, h, f, Settled(r), 0, connected)
    BY <1>8 DEF FinishGivenUp
  <2>4. connected' = connected
    BY <1>8 DEF FinishGivenUp
  <2> HIDE DEF j
  <2> QED BY <1>2, <2>2, <2>3, <2>4, TailInOrder
<1> QED BY <1>4, <1>5, <1>6, <1>7, <1>8 DEF Finish

LEMMA OthersInOrder ==
    ASSUME OrderInv, Proto = "imap", Environment \/ Connect \/ SwitchBack \/ TimerFires
    PROVE  Orderly'
<1>1. wire \subseteq Request /\ journal \in SUBSET Op /\ InOrder(wire, connected)
  BY DEF OrderInv, Orderly, GuardInv, TypeOK
<1>2. CASE (\E x \in Msgs : ChangedElsewhere(x)) \/ SwitchBack \/ WeekPasses
  <2>1. UNCHANGED <<wire, connected>>
    BY <1>2 DEF ChangedElsewhere, SwitchBack, WeekPasses, memory
  <2> QED BY <2>1, SameInOrder DEF OrderInv
<1>3. \A q \in Closed(wire) : q.answer = "Protocol"
  BY <1>1 DEF Closed, Request
<1>4. CASE ConnectionLost
  BY <1>3, <1>4 DEF ConnectionLost, Orderly, InOrder
<1>5. CASE SwitchAway
  <2> DEFINE back(q) == [q EXCEPT !.leg = "previous"]
  <2>1. wire' = {back(q) : q \in Closed(wire)} /\ ~connected'
    BY <1>5 DEF SwitchAway
  <2>2. \A q \in Closed(wire) : back(q).answer = "Protocol"
    BY <1>3, ClosedTyped DEF OrderInv, GuardInv, Request
  <2> HIDE DEF back
  <2> QED BY <2>1, <2>2 DEF Orderly, InOrder
<1>6. CASE Restart
  BY <1>6, EmptyInOrder DEF Restart, RestartFrom
<1>7. CASE Connect
  <2>1. wire = {}
    BY <1>1, <1>7 DEF Connect, InOrder
  <2>2. connected'
    BY <1>7 DEF Connect
  <2>3. \/ wire' = wire
        \/ \E sent : /\ wire' = wire \cup {sent}
                     /\ sent.answer = "awaited" /\ sent.leg = "current"
    BY <1>1, <1>7, DrainSends DEF Connect, Rest
  <2>4. InOrder(wire, connected')
    BY <2>1 DEF InOrder
  <2> QED BY <2>2, <2>3, <2>4, SendingInOrder
<1>8. CASE TimerFires
  <2>1. connected' = connected
    BY <1>8 DEF TimerFires
  <2>2. \/ wire' = wire
        \/ \E sent : /\ connected /\ wire' = wire \cup {sent}
                     /\ sent.answer = "awaited" /\ sent.leg = "current"
    <3>1. CASE connected /\ Drain(journal, hidden, flags, pending, wire)
      BY <1>1, <3>1, DrainSends
    <3>2. CASE Rest(journal, hidden, flags, pending, wire, inFlight)
      BY <3>2 DEF Rest
    <3> QED BY <1>8, <3>1, <3>2 DEF TimerFires
  <2> QED BY <1>1, <2>1, <2>2, SendingInOrder
<1> QED BY <1>2, <1>4, <1>5, <1>6, <1>7, <1>8 DEF Environment

LEMMA NextInOrder == OrderInv /\ Proto = "imap" /\ [Next]_vars => OrderInv'
<1> SUFFICES ASSUME OrderInv, Proto = "imap", [Next]_vars PROVE OrderInv'
  OBVIOUS
<1>1. CASE Replies
  <2>1. \A r \in wire : CrashInConfirm(r) \/ CrashInRetire(r) => Orderly'
    BY EmptyInOrder DEF CrashInConfirm, CrashInRetire, RestartFrom
  <2> QED BY <1>1, <2>1, ServerInOrder, FinishInOrder, NextGuards DEF Replies, OrderInv
<1>2. CASE UNCHANGED vars
  BY <1>2, NextGuards, SameInOrder DEF vars, memory, OrderInv
<1> QED BY <1>1, <1>2, GesturesInOrder, OthersInOrder, NextGuards DEF Next, OrderInv

\* drainJournal(): over IMAP ops reach the server strictly one at a time and
\* in order.  Across lost sessions, switches, retries and refusals, while an op
\* is in flight no other command is outstanding that the server may yet act on.
THEOREM OneAtATime ==
    ASSUME Proto = "imap"
    PROVE  Spec => []StrictlyOneAtATime
<1>1. Init => OrderInv
  BY InitGuards DEF Init, OrderInv, Orderly, InOrder
<1>2. OrderInv /\ [Next]_vars => OrderInv'
  BY NextInOrder
<1>3. OrderInv => StrictlyOneAtATime
  <2> SUFFICES ASSUME OrderInv, NEW r \in wire, r.answer = "awaited"
               PROVE  r.op.id = inFlight
    BY DEF StrictlyOneAtATime
  <2>1. r.leg = "current"
    BY DEF OrderInv, Orderly, InOrder
  <2> QED BY <2>1 DEF OrderInv, GuardInv, GuardHasReply
<1> QED BY <1>1, <1>2, <1>3, PTL DEF Spec
-----------------------------------------------------------------------------
(* A try is spent only on a refusal, over JMAP.                             *)

Refusals(w) == {r \in w : r.answer = "Protocol"}
Refused == Budget["refuse"] - budget["refuse"]

\* The strengthening: a refusal on its way counts too, whichever row it will be
\* counted against.  An account switch may leave two replies to one op.
Counted(j, w, n) ==
    /\ IsFiniteSet(w)
    /\ Cardinality(Refusals(w)) <= n
    /\ \A o \in j : o.tries + Cardinality(Refusals(w)) <= n

CountInv == TypeOK /\ Counted(journal, wire, Refused)

LEMMA RefusalsCount ==
    ASSUME NEW w, IsFiniteSet(w)
    PROVE  /\ IsFiniteSet(Refusals(w)) /\ Cardinality(Refusals(w)) \in Nat
           /\ \A v \in SUBSET w : /\ IsFiniteSet(v)
                                  /\ Cardinality(Refusals(v)) <= Cardinality(Refusals(w))
           /\ \A r \in Refusals(w) :
                 Cardinality(Refusals(w \ {r})) = Cardinality(Refusals(w)) - 1
<1>1. IsFiniteSet(Refusals(w)) /\ Cardinality(Refusals(w)) \in Nat
  <2>1. Refusals(w) \subseteq w
    BY DEF Refusals
  <2> QED BY <2>1, FS_Subset, FS_CardinalityType
<1>2. ASSUME NEW v \in SUBSET w
      PROVE  IsFiniteSet(v) /\ Cardinality(Refusals(v)) <= Cardinality(Refusals(w))
  <2>1. Refusals(v) \subseteq Refusals(w)
    BY DEF Refusals
  <2> QED BY <1>1, <2>1, FS_Subset
<1>3. ASSUME NEW r \in Refusals(w)
      PROVE  Cardinality(Refusals(w \ {r})) = Cardinality(Refusals(w)) - 1
  <2>1. Refusals(w \ {r}) = Refusals(w) \ {r}
    BY DEF Refusals
  <2> QED BY <1>1, <2>1, FS_RemoveElement
<1> QED BY <1>1, <1>2, <1>3

\* Requests rewritten one for one count no more than they did.
LEMMA RewrittenCount ==
    ASSUME NEW w, IsFiniteSet(w), NEW v, NEW e \in Surjection(w, v),
           \A r \in w : e[r].answer = r.answer
    PROVE  IsFiniteSet(v) /\ Cardinality(Refusals(v)) <= Cardinality(Refusals(w))
<1>1. IsFiniteSet(v)
  BY FS_Surjection
<1>2. Cardinality(Refusals(v)) <= Cardinality(Refusals(w))
  <2> DEFINE g == [r \in Refusals(w) |-> e[r]]
  <2>1. g \in Surjection(Refusals(w), Refusals(v))
    BY DEF Surjection, Refusals
  <2> QED BY <2>1, FS_Surjection, RefusalsCount
<1> QED BY <1>1, <1>2

\* Fewer refusals on their way, and no row with more tries than one had.
LEMMA CountedLess ==
    ASSUME NEW j \in SUBSET Op, NEW w, NEW n \in Int, Counted(j, w, n),
           NEW k \in SUBSET Op, NEW v, IsFiniteSet(v),
           Cardinality(Refusals(v)) <= Cardinality(Refusals(w)),
           \A o \in k : o.tries = 0 \/ \E q \in j : o.tries = q.tries
    PROVE  Counted(k, v, n)
<1>1. Cardinality(Refusals(v)) \in Nat /\ Cardinality(Refusals(w)) \in Nat
  BY RefusalsCount DEF Counted
<1>2. ASSUME NEW o \in k
      PROVE  o.tries + Cardinality(Refusals(v)) <= n
  <2>1. CASE o.tries = 0
    BY <1>1, <2>1 DEF Counted
  <2>2. ASSUME NEW q \in j, o.tries = q.tries
        PROVE  o.tries + Cardinality(Refusals(v)) <= n
    BY <1>1, <2>2 DEF Counted, Op
  <2> QED BY <2>1, <2>2
<1> QED BY <1>1, <1>2 DEF Counted

\* The try a refusal costs was counted while the refusal was on its way.
LEMMA CountedFailed ==
    ASSUME NEW j \in SUBSET Op, NEW w, NEW n \in Int, Counted(j, w, n), NEW id,
           NEW v, IsFiniteSet(v), Cardinality(Refusals(v)) + 1 <= Cardinality(Refusals(w))
    PROVE  Counted(Failed(j, id), v, n)
<1>1. Cardinality(Refusals(v)) \in Nat /\ Cardinality(Refusals(w)) \in Nat
  BY RefusalsCount DEF Counted
<1>2. ASSUME NEW o \in Failed(j, id)
      PROVE  o.tries + Cardinality(Refusals(v)) <= n
  <2>1. PICK q \in j : o.tries \in {q.tries, q.tries + 1}
    BY FailedSame
  <2>2. q.tries \in Nat /\ q.tries + Cardinality(Refusals(w)) <= n
    BY DEF Counted, Op
  <2> QED BY <1>1, <2>1, <2>2
<1> QED BY <1>1, <1>2 DEF Counted

LEMMA CountedTail ==
    ASSUME NEW j \in SUBSET Op, NEW w, NEW n \in Int, Counted(j, w, n),
           NEW h, NEW f, NEW shown, NEW busy, NEW up,
           \/ CountAndDrain(j, h, f, w, busy, up)
           \/ Rest(j, h, f, shown, w, busy)
           \/ Drain(j, h, f, shown, w)
    PROVE  Counted(journal', wire', n)
<1>1. journal' \subseteq j
  BY TailSends, DrainSends DEF Rest
<1>2. CASE wire' = w
  BY <1>1, <1>2 DEF Counted
<1>3. CASE wire' # w
  <2>1. PICK sent : wire' = w \cup {sent} /\ sent.answer = "awaited"
    BY <1>3, TailSends, DrainSends DEF Rest
  <2>2. IsFiniteSet(wire')
    BY <2>1, FS_AddElement DEF Counted
  <2>3. Refusals(wire') = Refusals(w)
    BY <2>1 DEF Refusals
  <2> QED BY <1>1, <2>2, <2>3 DEF Counted
<1> QED BY <1>2, <1>3
LEMMA SettledCount ==
    ASSUME TypeOK, IsFiniteSet(wire), NEW r \in wire
    PROVE  /\ IsFiniteSet(Settled(r))
           /\ Cardinality(Refusals(Settled(r))) <= Cardinality(Refusals(wire))
           /\ r.answer = "Protocol" =>
                 Cardinality(Refusals(Settled(r))) + 1 <= Cardinality(Refusals(wire))
<1> DEFINE e == [q \in wire \ {r} |-> [q EXCEPT !.leg = "previous"]]
<1>1. e \in Surjection(wire \ {r}, Settled(r))
  BY DEF Settled, Surjection
<1>2. \A q \in wire \ {r} : e[q].answer = q.answer
  BY DEF TypeOK, Request
<1>3. IsFiniteSet(wire \ {r})
      /\ Cardinality(Refusals(wire \ {r})) <= Cardinality(Refusals(wire))
  BY RefusalsCount
<1> HIDE DEF e
<1>4. IsFiniteSet(Settled(r))
      /\ Cardinality(Refusals(Settled(r))) <= Cardinality(Refusals(wire \ {r}))
  BY <1>1, <1>2, <1>3, RewrittenCount
<1>5. /\ Cardinality(Refusals(wire)) \in Nat
      /\ Cardinality(Refusals(wire \ {r})) \in Nat
      /\ Cardinality(Refusals(Settled(r))) \in Nat
  BY <1>3, <1>4, RefusalsCount
<1>6. r.answer = "Protocol" =>
         Cardinality(Refusals(wire \ {r})) = Cardinality(Refusals(wire)) - 1
  BY RefusalsCount DEF Refusals
<1> QED BY <1>3, <1>4, <1>5, <1>6

LEMMA RefusedTyped ==
    ASSUME TypeOK
    PROVE  /\ Refused \in Int
           /\ \A fault \in Faults \ {"refuse"} : Spend(fault) => Refused' = Refused
           /\ Spend("refuse") => Refused' = Refused + 1
BY JournalAssumption DEF Refused, TypeOK, Spend, Faults

LEMMA CountedItself ==
    ASSUME CountInv, UNCHANGED <<journal, wire>>, Refused' = Refused
    PROVE  Counted(journal', wire', Refused')
BY DEF CountInv

\* A process that ends forgets its requests.
LEMMA CountedRestart ==
    ASSUME CountInv, NEW j \in SUBSET Op, NEW h, NEW f, RestartFrom(j, h, f),
           \/ j = journal
           \/ \E id, r : r \in Refusals(wire) /\ j = Failed(journal, id),
           Refused' = Refused
    PROVE  Counted(journal', wire', Refused')
<1>1. journal' = j /\ wire' = {}
  BY DEF RestartFrom
<1>2. /\ IsFiniteSet({}) /\ Cardinality(Refusals({})) = 0
      /\ Cardinality(Refusals(wire)) \in Nat /\ IsFiniteSet(Refusals(wire))
  <2>1. Refusals({}) = {}
    BY DEF Refusals
  <2> QED BY <2>1, FS_EmptySet, RefusalsCount DEF CountInv, Counted
<1>3. /\ journal \in SUBSET Op /\ Refused \in Int
      /\ Counted(journal, wire, Refused)
  BY RefusedTyped DEF CountInv, TypeOK
<1>4. CASE j = journal
  BY <1>1, <1>2, <1>3, <1>4, CountedLess
<1>5. ASSUME NEW id, NEW r \in Refusals(wire), j = Failed(journal, id)
      PROVE  Counted(journal', wire', Refused')
  <2>1. Cardinality(Refusals(wire)) # 0
    BY <1>2, FS_EmptySet
  <2>2. Cardinality(Refusals({})) + 1 <= Cardinality(Refusals(wire))
    BY <1>2, <2>1
  <2> QED BY <1>1, <1>2, <1>3, <1>5, <2>2, CountedFailed
<1> QED BY <1>4, <1>5

LEMMA GesturesCounted ==
    ASSUME CountInv, Gestures \/ FailedList
    PROVE  Counted(journal', wire', Refused')
<1>1. /\ journal \in SUBSET Op /\ Refused \in Int
      /\ Counted(journal, wire, Refused)
  BY RefusedTyped DEF CountInv, TypeOK
<1>2. /\ budget' = budget => Refused' = Refused
      /\ \A fault \in Faults \ {"refuse"} : Spend(fault) => Refused' = Refused
  BY RefusedTyped DEF Refused, CountInv
<1>3. /\ IsFiniteSet(wire) /\ Cardinality(Refusals(wire)) <= Cardinality(Refusals(wire))
  BY RefusalsCount DEF CountInv, Counted
<1>4. ASSUME NEW j \in SUBSET Op, NEW h, NEW f, NEW s, NEW up,
             \A o \in j : o.tries = 0 \/ \E q \in journal : o.tries = q.tries,
             \/ CountAndDrain(j, h, f, wire, inFlight, up)
             \/ Rest(j, h, f, s, wire, inFlight),
             Refused' = Refused
      PROVE  Counted(journal', wire', Refused')
  <2>1. Counted(j, wire, Refused)
    BY <1>1, <1>3, <1>4, CountedLess
  <2> QED BY <1>1, <1>4, <2>1, CountedTail
<1>5. ASSUME NEW kind \in FlagKinds \cup RemovalKinds, NEW F \in Folders,
             NEW target \in Folders \cup {NoFolder}, NEW S \in SUBSET Msgs, NEW h, NEW f,
             Record(kind, F, target, S, h, f)
      PROVE  Counted(journal', wire', Refused')
  <2> DEFINE new == NewOp(kind, F, target, S)
             j   == journal \cup {new}
  <2>1. CASE /\ CountAndDrain(j, h, f, wire, inFlight, connected)
             /\ UNCHANGED budget
    <3>1. new \in Op /\ new.tries = 0
      BY <1>5, NewOpTyped DEF CountInv, Record, NewOp
    <3> HIDE DEF new
    <3>2. j \in SUBSET Op /\ \A o \in j : o.tries = 0 \/ \E q \in journal : o.tries = q.tries
      BY <1>1, <3>1
    <3> HIDE DEF j
    <3> QED BY <1>2, <1>4, <2>1, <3>2
  <2>2. CASE Spend("nospace") /\ Rest(journal, h, f, pending, wire, inFlight)
    <3>1. Refused' = Refused
      BY <1>2, <2>2 DEF Faults
    <3> QED BY <1>1, <1>4, <2>2, <3>1
  <2> QED BY <1>5, <2>1, <2>2 DEF Record
<1>6. ASSUME NEW h, NEW f, RestartFrom(journal, h, f), Spend("crash")
      PROVE  Counted(journal', wire', Refused')
  <2>1. Refused' = Refused
    BY <1>2, <1>6 DEF Faults
  <2> QED BY <1>1, <1>6, <2>1, CountedRestart
<1>7. CASE Gestures
  <2>1. PICK F \in Folders, S \in SUBSET Msgs :
          \/ CrashInRemove(F, S)
          \/ \E kind \in FlagKinds : Mark(kind, F, S) \/ CrashInMark(kind, F, S)
          \/ \E kind \in RemovalKinds, target \in Folders \cup {NoFolder} :
                Remove(kind, F, target, S)
    BY <1>7 DEF Gestures
  <2>2. CASE CrashInRemove(F, S) \/ \E kind \in FlagKinds : CrashInMark(kind, F, S)
    BY <1>6, <2>2 DEF CrashInRemove, CrashInMark
  <2>3. ASSUME NEW kind \in FlagKinds, Mark(kind, F, S)
        PROVE  Counted(journal', wire', Refused')
    BY <1>5, <2>3 DEF Mark
  <2>4. ASSUME NEW kind \in RemovalKinds, NEW target \in Folders \cup {NoFolder},
               Remove(kind, F, target, S)
        PROVE  Counted(journal', wire', Refused')
    BY <1>5, <2>4 DEF Remove
  <2> QED BY <2>1, <2>2, <2>3, <2>4
<1>8. ASSUME NEW op \in journal, RetryFailedChange(op)
      PROVE  Counted(journal', wire', Refused')
  <2> DEFINE revived == [op EXCEPT !.retired = FALSE, !.tries = 0, !.old = FALSE]
             j == (journal \ {op}) \cup {revived}
  <2>1. revived \in Op /\ revived.tries = 0
    BY <1>1 DEF Op
  <2>2. /\ CountAndDrain(j, HiddenAgain(op), MarkedAgain(op), wire, inFlight, connected)
        /\ Spend("retry")
    BY <1>8 DEF RetryFailedChange
  <2>3. Refused' = Refused
    BY <1>2, <2>2 DEF Faults
  <2> HIDE DEF revived
  <2>4. j \in SUBSET Op /\ \A o \in j : o.tries = 0 \/ \E q \in journal : o.tries = q.tries
    BY <1>1, <2>1
  <2> HIDE DEF j
  <2> QED BY <1>4, <2>2, <2>3, <2>4
<1>9. CASE (\E op \in journal : DiscardFailedChange(op)) \/ DiscardAllFailedChanges
  <2>1. PICK k, s : /\ Rest(k, hidden, flags, s, wire, inFlight) /\ k \subseteq journal
                    /\ UNCHANGED budget
    <3>1. ASSUME NEW op \in journal, DiscardFailedChange(op)
          PROVE  /\ \E s : Rest(Dropped(journal, op.id), hidden, flags, s, wire, inFlight)
                 /\ Dropped(journal, op.id) \subseteq journal /\ UNCHANGED budget
      BY <3>1 DEF DiscardFailedChange, Dropped
    <3>2. ASSUME DiscardAllFailedChanges
          PROVE  /\ \E s : Rest(Live(journal), hidden, flags, s, wire, inFlight)
                 /\ Live(journal) \subseteq journal /\ UNCHANGED budget
      BY <3>2 DEF DiscardAllFailedChanges, Live
    <3> QED BY <1>9, <3>1, <3>2
  <2>2. k \in SUBSET Op /\ \A o \in k : o.tries = 0 \/ \E q \in journal : o.tries = q.tries
    BY <1>1, <2>1
  <2> QED BY <1>2, <1>4, <2>1, <2>2
<1> QED BY <1>7, <1>8, <1>9 DEF FailedList
\* A server that refuses spends one of the refusals; no other answer is one.
LEMMA ServerCounted ==
    ASSUME CountInv, NEW r \in wire, ServerAnswers(r)
    PROVE  Counted(journal', wire', Refused')
<1> DEFINE new(e) == [r EXCEPT !.answer = e]
           rest   == wire \ {r}
<1>1. PICK e : /\ Answer(r, e)
               /\ \/ e # "Protocol" /\ Refused' = Refused
                  \/ Refused' = Refused + 1
  <2>1. budget' = budget => Refused' = Refused
    BY DEF Refused
  <2>2. \A fault \in Faults \ {"refuse"} : Spend(fault) => Refused' = Refused
    BY RefusedTyped DEF CountInv
  <2>3. Spend("refuse") => Refused' = Refused + 1
    BY RefusedTyped DEF CountInv
  <2>4. {"throttle", "drop"} \subseteq Faults \ {"refuse"}
    BY DEF Faults
  <2>5. ServerAccepts(r) => Answer(r, "None") /\ budget' = budget
    BY DEF ServerAccepts
  <2>6. ServerMisses(r) => Answer(r, "NotFound") /\ budget' = budget
    BY DEF ServerMisses
  <2>7. ServerForbids(r) => Answer(r, "Auth") /\ budget' = budget
    BY DEF ServerForbids
  <2>8. ServerRefuses(r) => Answer(r, "Protocol") /\ Spend("refuse")
    BY DEF ServerRefuses
  <2>9. ServerThrottles(r) => Answer(r, "Throttled") /\ Spend("throttle")
    BY DEF ServerThrottles
  <2>10. RequestLost(r) => Answer(r, "Connection") /\ Spend("drop")
    BY DEF RequestLost
  <2> QED BY <2>1, <2>2, <2>3, <2>4, <2>5, <2>6, <2>7, <2>8, <2>9, <2>10 DEF ServerAnswers
<1>2. wire' = rest \cup {new(e)} /\ journal' = journal
  BY <1>1 DEF Answer, ServerAnswers, table
<1>3. new(e).answer = e
  BY DEF CountInv, TypeOK, Request
<1> HIDE DEF new, rest
<1>4. /\ IsFiniteSet(rest)
      /\ Cardinality(Refusals(rest)) <= Cardinality(Refusals(wire))
      /\ Cardinality(Refusals(wire)) \in Nat
  BY RefusalsCount DEF CountInv, Counted, rest
<1>5. IsFiniteSet(wire') /\ IsFiniteSet(Refusals(rest)) /\ Cardinality(Refusals(rest)) \in Nat
  BY <1>2, <1>4, RefusalsCount, FS_AddElement
<1>6. \/ /\ Refused' = Refused
         /\ Cardinality(Refusals(wire')) <= Cardinality(Refusals(wire))
      \/ /\ Refused' = Refused + 1
         /\ Cardinality(Refusals(wire')) <= Cardinality(Refusals(wire)) + 1
  <2>1. CASE e # "Protocol"
    <3>1. Refusals(wire') = Refusals(rest)
      BY <1>2, <1>3, <2>1 DEF Refusals
    <3>2. Cardinality(Refusals(wire')) <= Cardinality(Refusals(wire)) + 1
      BY <1>4, <1>5, <3>1
    <3> QED BY <1>1, <1>4, <3>1, <3>2
  <2>2. CASE e = "Protocol"
    <3>1. Refusals(wire') = Refusals(rest) \cup {new(e)}
      BY <1>2, <1>3, <2>2 DEF Refusals
    <3>2. Cardinality(Refusals(wire')) <= Cardinality(Refusals(rest)) + 1
      <4> DEFINE P == Refusals(rest)
                 x == new(e)
      <4>1. IsFiniteSet(P) /\ Cardinality(P) \in Nat
        BY <1>5
      <4> HIDE DEF P, x
      <4>2. Cardinality(P \cup {x}) \in {Cardinality(P), Cardinality(P) + 1}
        BY <4>1, FS_AddElement
      <4>3. Cardinality(P \cup {x}) <= Cardinality(P) + 1
        BY <4>1, <4>2
      <4> QED BY <3>1, <4>3 DEF P, x
    <3>3. Cardinality(Refusals(wire')) \in Nat
      BY <1>5, RefusalsCount
    <3> QED BY <1>1, <1>4, <1>5, <2>2, <3>2, <3>3
  <2> QED BY <2>1, <2>2
<1>7. \A o \in journal : o.tries \in Nat
  BY DEF CountInv, TypeOK, Op
<1>8. Cardinality(Refusals(wire')) \in Nat /\ Refused \in Int
  BY <1>5, RefusalsCount, RefusedTyped DEF CountInv
<1>9. /\ Cardinality(Refusals(wire)) <= Refused
      /\ \A o \in journal : o.tries + Cardinality(Refusals(wire)) <= Refused
  BY DEF CountInv, Counted
<1>10. Cardinality(Refusals(wire')) <= Refused'
  BY <1>4, <1>6, <1>8, <1>9
<1>11. \A o \in journal : o.tries + Cardinality(Refusals(wire')) <= Refused'
  BY <1>4, <1>6, <1>7, <1>8, <1>9
<1> QED BY <1>2, <1>5, <1>10, <1>11 DEF Counted

LEMMA FinishCounted ==
    ASSUME CountInv, NEW r \in wire, Finish(r)
    PROVE  Counted(journal', wire', Refused')
<1>1. /\ journal \in SUBSET Op /\ IsFiniteSet(journal) /\ Refused \in Int
      /\ Counted(journal, wire, Refused) /\ IsFiniteSet(wire)
  BY RefusedTyped DEF CountInv, TypeOK, Counted
<1>2. /\ IsFiniteSet(Settled(r))
      /\ Cardinality(Refusals(Settled(r))) <= Cardinality(Refusals(wire))
      /\ r.answer = "Protocol" =>
            Cardinality(Refusals(Settled(r))) + 1 <= Cardinality(Refusals(wire))
  BY <1>1, SettledCount DEF CountInv
<1>3. Refused' = Refused
  BY DEF Finish, FinishStale, FinishConfirmed, FinishNotFound, FinishDeferred,
         FinishThrottled, FinishRefused, FinishGivenUp, Refused
<1>4. ASSUME NEW j \in SUBSET Op, NEW h, NEW f, NEW s, NEW up,
             Counted(j, Settled(r), Refused),
             \/ CountAndDrain(j, h, f, Settled(r), 0, up)
             \/ Rest(j, h, f, s, Settled(r), 0)
      PROVE  Counted(journal', wire', Refused')
  BY <1>1, <1>3, <1>4, CountedTail
<1>5. CASE FinishStale(r)
  <2>1. journal' = journal /\ wire' = wire \ {r}
    BY <1>5 DEF FinishStale, table
  <2>2. /\ IsFiniteSet(wire \ {r})
        /\ Cardinality(Refusals(wire \ {r})) <= Cardinality(Refusals(wire))
    BY <1>1, RefusalsCount
  <2> QED BY <1>1, <1>3, <2>1, <2>2, CountedLess
<1>6. CASE FinishConfirmed(r)
  <2>1. PICK lost, h, f :
          CountAndDrain(Dropped(Retired(journal, lost), r.op.id), h, f, Settled(r), 0, connected)
    BY <1>6 DEF FinishConfirmed
  <2> DEFINE k == Retired(journal, lost)
             j == Dropped(k, r.op.id)
  <2>2. k \in SUBSET Op /\ \A o \in k : \E q \in journal : o.tries = q.tries
    BY <1>1, RetiredRows, RetiredSame
  <2> HIDE DEF k
  <2>3. j \in SUBSET Op /\ \A o \in j : o.tries = 0 \/ \E q \in journal : o.tries = q.tries
    BY <2>2 DEF Dropped
  <2>4. CountAndDrain(j, h, f, Settled(r), 0, connected)
    BY <2>1 DEF k
  <2> HIDE DEF j
  <2>5. Counted(j, Settled(r), Refused)
    BY <1>1, <1>2, <2>3, CountedLess
  <2> QED BY <1>4, <2>3, <2>4, <2>5
<1>7. CASE FinishNotFound(r) \/ FinishDeferred(r) \/ FinishThrottled(r)
  <2>1. PICK j, s : /\ j \subseteq journal
                    /\ \/ CountAndDrain(j, hidden, flags, Settled(r), 0, connected)
                       \/ Rest(j, hidden, flags, s, Settled(r), 0)
    <3>1. Dropped(journal, r.op.id) \subseteq journal
      BY DEF Dropped
    <3>2. CASE FinishNotFound(r)
      BY <3>1, <3>2 DEF FinishNotFound
    <3>3. CASE FinishDeferred(r) \/ FinishThrottled(r)
      BY <3>3 DEF FinishDeferred, FinishThrottled
    <3> QED BY <1>7, <3>2, <3>3
  <2>2. j \in SUBSET Op /\ \A o \in j : o.tries = 0 \/ \E q \in journal : o.tries = q.tries
    BY <1>1, <2>1
  <2>3. Counted(j, Settled(r), Refused)
    BY <1>1, <1>2, <2>2, CountedLess
  <2> QED BY <1>4, <2>1, <2>2, <2>3
<1>8. ASSUME FinishRefused(r) \/ FinishGivenUp(r)
      PROVE  /\ Counted(Failed(journal, r.op.id), Settled(r), Refused)
             /\ Failed(journal, r.op.id) \in SUBSET Op /\ IsFiniteSet(Failed(journal, r.op.id))
  <2>1. r.answer = "Protocol"
    BY <1>8 DEF FinishRefused, FinishGivenUp, Reply
  <2> QED BY <1>1, <1>2, <2>1, CountedFailed, FailedRows
<1>9. CASE FinishRefused(r)
  <2>1. \E s : Rest(Failed(journal, r.op.id), hidden, flags, s, Settled(r), 0)
    BY <1>9 DEF FinishRefused
  <2> QED BY <1>4, <1>8, <1>9, <2>1
<1>10. CASE FinishGivenUp(r)
  <2> DEFINE k == Failed(journal, r.op.id)
             j == Retired(k, Chain(k, r.op))
  <2>1. PICK h, f : CountAndDrain(j, h, f, Settled(r), 0, connected)
    BY <1>10 DEF FinishGivenUp
  <2>2. k \in SUBSET Op /\ IsFiniteSet(k) /\ Counted(k, Settled(r), Refused)
    BY <1>8, <1>10
  <2> HIDE DEF k
  <2>3. j \in SUBSET Op /\ \A o \in j : o.tries = 0 \/ \E q \in k : o.tries = q.tries
    BY <2>2, RetiredRows, RetiredSame
  <2> HIDE DEF j
  <2>4. Cardinality(Refusals(Settled(r))) <= Cardinality(Refusals(Settled(r)))
    BY <1>2, RefusalsCount
  <2>5. Counted(j, Settled(r), Refused)
    BY <1>1, <1>2, <2>2, <2>3, <2>4, CountedLess
  <2> QED BY <1>4, <2>1, <2>3, <2>5
<1> QED BY <1>5, <1>6, <1>7, <1>9, <1>10 DEF Finish

LEMMA CrashCounted ==
    ASSUME CountInv, NEW r \in wire, CrashInConfirm(r) \/ CrashInRetire(r)
    PROVE  Counted(journal', wire', Refused')
<1>1. Refused' = Refused
  BY RefusedTyped DEF CrashInConfirm, CrashInRetire, CountInv, Faults
<1>2. journal \in SUBSET Op /\ Failed(journal, r.op.id) \in SUBSET Op
  BY FailedRows DEF CountInv, TypeOK
<1>3. CASE CrashInConfirm(r)
  <2>1. \E h, f : RestartFrom(journal, h, f)
    BY <1>3 DEF CrashInConfirm
  <2> QED BY <1>1, <1>2, <2>1, CountedRestart
<1>4. CASE CrashInRetire(r)
  <2>1. \E h, f : RestartFrom(Failed(journal, r.op.id), h, f)
    BY <1>4 DEF CrashInRetire
  <2>2. r \in Refusals(wire)
    BY <1>4 DEF CrashInRetire, Reply, Refusals
  <2> QED BY <1>1, <1>2, <2>1, <2>2, CountedRestart
<1> QED BY <1>3, <1>4

LEMMA OthersCounted ==
    ASSUME CountInv, Proto = "jmap", Environment \/ Connect \/ SwitchBack \/ TimerFires
    PROVE  Counted(journal', wire', Refused')
<1>1. /\ journal \in SUBSET Op /\ Refused \in Int /\ wire \subseteq Request
      /\ Counted(journal, wire, Refused) /\ IsFiniteSet(wire)
  BY RefusedTyped DEF CountInv, TypeOK, Counted
<1>2. Refused' = Refused
  <2>1. budget' = budget \/ \E fault \in {"foreign", "drop", "switch", "week", "restart"} : Spend(fault)
    BY DEF Environment, ChangedElsewhere, ConnectionLost, SwitchAway, WeekPasses, Restart,
           Connect, SwitchBack, TimerFires
  <2>2. budget' = budget => Refused' = Refused
    BY DEF Refused
  <2>3. {"foreign", "drop", "switch", "week", "restart"} \subseteq Faults \ {"refuse"}
    BY DEF Faults
  <2> QED BY <2>1, <2>2, <2>3, RefusedTyped DEF CountInv
<1>3. Closed(wire) = wire
  BY DEF Closed
<1>4. CASE (\E x \in Msgs : ChangedElsewhere(x)) \/ SwitchBack \/ ConnectionLost
  <2>1. UNCHANGED <<journal, wire>>
    BY <1>3, <1>4 DEF ChangedElsewhere, SwitchBack, ConnectionLost, table
  <2> QED BY <1>2, <2>1, CountedItself
<1>5. CASE SwitchAway
  <2> DEFINE e == [q \in wire |-> [q EXCEPT !.leg = "previous"]]
  <2>1. e \in Surjection(wire, wire') /\ journal' = journal
    BY <1>3, <1>5 DEF SwitchAway, Surjection, table
  <2>2. \A q \in wire : e[q].answer = q.answer
    BY <1>1 DEF Request
  <2> HIDE DEF e
  <2>3. IsFiniteSet(wire') /\ Cardinality(Refusals(wire')) <= Cardinality(Refusals(wire))
    BY <1>1, <2>1, <2>2, RewrittenCount
  <2> QED BY <1>1, <1>2, <2>1, <2>3, CountedLess
<1>6. CASE WeekPasses
  <2> DEFINE aged(o) == [o EXCEPT !.old = TRUE]
  <2>1. \A o \in journal : aged(o).tries = o.tries
    BY <1>1 DEF Op
  <2>2. journal' = {aged(o) : o \in journal} /\ wire' = wire
    BY <1>6 DEF WeekPasses
  <2> HIDE DEF aged
  <2> QED BY <1>1, <1>2, <2>1, <2>2 DEF Counted
<1>7. CASE Restart
  <2>1. RestartFrom(journal, hidden, flags)
    BY <1>7 DEF Restart
  <2> QED BY <1>1, <1>2, <2>1, CountedRestart
<1>8. CASE Connect \/ TimerFires
  <2>1. \/ Drain(journal, hidden, flags, pending, wire)
        \/ Rest(journal, hidden, flags, pending, wire, inFlight)
    BY <1>8 DEF Connect, TimerFires
  <2>2. Counted(journal', wire', Refused)
    BY <1>1, <2>1, CountedTail
  <2> QED BY <1>2, <2>2
<1> QED BY <1>4, <1>5, <1>6, <1>7, <1>8 DEF Environment

LEMMA NextCounted == CountInv /\ Proto = "jmap" /\ [Next]_vars => CountInv'
<1> SUFFICES ASSUME CountInv, Proto = "jmap", [Next]_vars PROVE CountInv'
  OBVIOUS
<1>1. TypeOK'
  BY NextTyped DEF CountInv
<1>2. Counted(journal', wire', Refused')
  <2>1. CASE Replies
    BY <2>1, ServerCounted, FinishCounted, CrashCounted DEF Replies
  <2>2. CASE UNCHANGED vars
    BY <2>2, CountedItself DEF vars, table, Refused
  <2> QED BY <2>1, <2>2, GesturesCounted, OthersCounted DEF Next
<1> QED BY <1>1, <1>2 DEF CountInv

\* finishJournalOp(): over JMAP no op has counted more tries than the server
\* has refused commands, whatever is dropped, throttled, retried, switched away
\* from or answered twice: a flaky connection never burns an op's chances.
THEOREM TriesCountRefusals ==
    ASSUME Proto = "jmap"
    PROVE  Spec => []TriesAreRefusals
<1>1. Init => CountInv
  <2> SUFFICES ASSUME Init PROVE CountInv
    OBVIOUS
  <2>1. wire = {} /\ journal = {} /\ Refused = 0
    BY JournalAssumption DEF Init, Refused, Faults
  <2>2. IsFiniteSet(wire) /\ Cardinality(Refusals(wire)) = 0
    BY <2>1, FS_EmptySet DEF Refusals
  <2> QED BY <2>1, <2>2, InitTyped DEF CountInv, Counted
<1>2. CountInv /\ [Next]_vars => CountInv'
  BY NextCounted
<1>3. CountInv => TriesAreRefusals
  <2> SUFFICES ASSUME CountInv, NEW o \in Live(journal)
               PROVE  o.tries <= Refused
    BY DEF TriesAreRefusals, Refused
  <2>1. o \in journal /\ o.tries \in Nat
    BY DEF Live, CountInv, TypeOK, Op
  <2>2. Cardinality(Refusals(wire)) \in Nat /\ Refused \in Int
    BY RefusalsCount, RefusedTyped DEF CountInv, Counted
  <2> QED BY <2>1, <2>2 DEF CountInv, Counted
<1> QED BY <1>1, <1>2, <1>3, PTL DEF Spec
-----------------------------------------------------------------------------
(* Hidden mail has an op that will remove it.                               *)

\* Where the code keeps it: a JMAP server that rejects one object of a set for
\* being gone has done the others, which is so of one object, or with neither
\* a later chunk nor a mailbox it also forbids.
RejectionIsOfAll == Proto = "imap" \/ MaxNamed <= 1 \/ (~Chunked /\ Forbidden = {})

\* The strengthening: a removal answered "not found" is of messages no longer
\* in this mailbox, although the client has yet to forget it.
MissedAreGone ==
    \A r \in wire : r.answer = "NotFound" /\ r.op.kind \in RemovalKinds =>
        \A x \in r.op.names : where[x] # "home"

BudgetFalls == budget["nospace"] <= Budget["nospace"]

HideInv ==
    CopiesInv /\ QueueInv /\ MissedAreGone /\ BudgetFalls /\ HiddenIsJustified

\* The rows h hides of what is still at home are named by live removals of j.
Justified(j, h) == \A x \in h : where[x] = "home" => x \in Removed(Live(j))

LEMMA RemovedBy ==
    ASSUME NEW T, NEW x
    PROVE  x \in Removed(T) <=> \E o \in T : o.kind \in RemovalKinds /\ x \in o.names
BY DEF Removed

\* Expiry unhides what it takes from the queue.
LEMMA DrainJustifies ==
    ASSUME NEW j, NEW h, NEW f, NEW shown, NEW w,
           Justified(j, h), Drain(j, h, f, shown, w)
    PROVE  Justified(journal', hidden')
<1>1. journal' = j \ Stale(j) /\ hidden' = h \ Removed(Stale(j))
  BY DEF Drain
<1> SUFFICES ASSUME NEW x \in hidden', where[x] = "home"
             PROVE  \E o \in Live(journal') : o.kind \in RemovalKinds /\ x \in o.names
  BY RemovedBy DEF Justified
<1>2. PICK o \in Live(j) : o.kind \in RemovalKinds /\ x \in o.names
  BY <1>1, RemovedBy DEF Justified
<1>3. o \notin Stale(j)
  BY <1>1, <1>2, RemovedBy
<1> QED BY <1>1, <1>2, <1>3 DEF Live

LEMMA TailJustifies ==
    ASSUME NEW j, NEW h, NEW f, NEW w, NEW shown, NEW busy, NEW up, Justified(j, h),
           \/ CountAndDrain(j, h, f, w, busy, up)
           \/ Rest(j, h, f, shown, w, busy)
    PROVE  Justified(journal', hidden')
<1> DEFINE n == Cardinality(Live(j))
<1>1. \/ Drain(j, h, f, n, w)
      \/ Rest(j, h, f, n, w, busy)
      \/ Rest(j, h, f, shown, w, busy)
  BY DEF CountAndDrain
<1> HIDE DEF n
<1>2. CASE Drain(j, h, f, n, w)
  BY <1>2, DrainJustifies
<1>3. CASE Rest(j, h, f, n, w, busy) \/ Rest(j, h, f, shown, w, busy)
  BY <1>3 DEF Rest
<1> QED BY <1>1, <1>2, <1>3

\* A new process shows again what no live op justifies.
LEMMA RestartJustifies ==
    ASSUME NEW j, NEW h, NEW f, RestartFrom(j, h, f)
    PROVE  Justified(journal', hidden')
BY DEF RestartFrom, ReconcileSoftDeletes, Justified

LEMMA MoreLive ==
    ASSUME NEW j, NEW h, NEW k, Justified(j, h), Live(j) \subseteq Live(k)
    PROVE  Justified(k, h)
BY RemovedBy DEF Justified

LEMMA RecordJustifies ==
    ASSUME TypeOK, Justified(journal, hidden), NEW kind \in FlagKinds \cup RemovalKinds,
           NEW F, NEW target, NEW S, NEW h, NEW f,
           h = hidden \/ (kind \in RemovalKinds /\ h = hidden \cup S),
           Record(kind, F, target, S, h, f), BudgetFalls, EveryGestureRecorded'
    PROVE  Justified(journal', hidden')
<1> DEFINE new == NewOp(kind, F, target, S)
           j   == journal \cup {new}
<1>1. ~Spend("nospace")
  BY JournalAssumption DEF Spend, EveryGestureRecorded, BudgetFalls, TypeOK, Faults
<1>2. CountAndDrain(j, h, f, wire, inFlight, connected)
  BY <1>1 DEF Record
<1>3. new.kind = kind /\ new.names = S /\ ~new.retired
  BY DEF NewOp
<1> HIDE DEF new
<1>4. Live(j) = Live(journal) \cup {new}
  BY <1>3 DEF Live
<1>5. Justified(j, hidden)
  BY <1>4, MoreLive
<1>6. Justified(j, h)
  BY <1>3, <1>4, <1>5, RemovedBy DEF Justified
<1> HIDE DEF j
<1> QED BY <1>2, <1>6, TailJustifies

LEMMA GesturesJustify ==
    ASSUME HideInv, EveryGestureRecorded, EveryGestureRecorded', Gestures \/ FailedList
    PROVE  Justified(journal', hidden')
<1>1. TypeOK /\ Justified(journal, hidden) /\ BudgetFalls /\ Keyed(journal)
  BY DEF HideInv, CopiesInv, HiddenIsJustified, Justified, QueueInv, GuardInv, RowsKeyed
<1>2. CASE Gestures
  <2>1. PICK F \in Folders, S \in SUBSET Msgs :
          \/ CrashInRemove(F, S)
          \/ \E kind \in FlagKinds : Mark(kind, F, S) \/ CrashInMark(kind, F, S)
          \/ \E kind \in RemovalKinds, target \in Folders \cup {NoFolder} :
                Remove(kind, F, target, S)
    BY <1>2 DEF Gestures
  <2>2. CASE CrashInRemove(F, S) \/ \E kind \in FlagKinds : CrashInMark(kind, F, S)
    BY <2>2, RestartJustifies DEF CrashInRemove, CrashInMark
  <2>3. ASSUME NEW kind \in FlagKinds, Mark(kind, F, S)
        PROVE  Justified(journal', hidden')
    <3>1. Record(kind, F, NoFolder, S, hidden, Marked(flags, kind, S))
      BY <2>3 DEF Mark
    <3> QED BY <1>1, <3>1, RecordJustifies
  <2>4. ASSUME NEW kind \in RemovalKinds, NEW target \in Folders \cup {NoFolder},
               Remove(kind, F, target, S)
        PROVE  Justified(journal', hidden')
    <3>1. Record(kind, F, target, S, hidden \cup S, flags)
      BY <2>4 DEF Remove
    <3> QED BY <1>1, <3>1, RecordJustifies
  <2> QED BY <2>1, <2>2, <2>3, <2>4
<1>3. ASSUME NEW op \in journal, RetryFailedChange(op)
      PROVE  Justified(journal', hidden')
  <2> DEFINE revived == [op EXCEPT !.retired = FALSE, !.tries = 0, !.old = FALSE]
             j == (journal \ {op}) \cup {revived}
  <2>1. op \in Op /\ op.retired
    BY <1>1, <1>3 DEF TypeOK, RetryFailedChange
  <2>2. ~revived.retired /\ revived.kind = op.kind /\ revived.names = op.names
    BY <2>1 DEF Op
  <2>3. CountAndDrain(j, HiddenAgain(op), MarkedAgain(op), wire, inFlight, connected)
    BY <1>3 DEF RetryFailedChange
  <2> HIDE DEF revived
  <2>4. Live(j) = Live(journal) \cup {revived}
    BY <2>1, <2>2 DEF Live
  <2>5. Justified(j, hidden)
    BY <1>1, <2>4, MoreLive
  <2>6. \A x \in HiddenAgain(op) : x \in hidden \/ (op.kind \in RemovalKinds /\ x \in op.names)
    BY DEF HiddenAgain
  <2>7. Justified(j, HiddenAgain(op))
    BY <2>2, <2>4, <2>5, <2>6, RemovedBy DEF Justified
  <2> HIDE DEF j
  <2> QED BY <2>3, <2>7, TailJustifies
<1>4. ASSUME NEW op \in journal, DiscardFailedChange(op)
      PROVE  Justified(journal', hidden')
  <2>1. op.retired /\ \E s : Rest(Dropped(journal, op.id), hidden, flags, s, wire, inFlight)
    BY <1>4 DEF DiscardFailedChange
  <2>2. Live(journal) \subseteq Live(Dropped(journal, op.id))
    BY <1>1, <2>1 DEF Live, Dropped, Keyed
  <2>3. Justified(Dropped(journal, op.id), hidden)
    BY <1>1, <2>2, MoreLive
  <2> QED BY <2>1, <2>3, TailJustifies
<1>5. CASE DiscardAllFailedChanges
  <2>1. \E s : Rest(Live(journal), hidden, flags, s, wire, inFlight)
    BY <1>5 DEF DiscardAllFailedChanges
  <2>2. Live(journal) \subseteq Live(Live(journal))
    BY DEF Live
  <2>3. Justified(Live(journal), hidden)
    BY <1>1, <2>2, MoreLive
  <2> QED BY <2>1, <2>3, TailJustifies
<1> QED BY <1>2, <1>3, <1>4, <1>5 DEF FailedList

\* Every way a reply takes rows from the queue unhides what they hid, or has
\* the server's word that it is not in this mailbox any more.
LEMMA FinishJustifies ==
    ASSUME HideInv, EveryGestureRecorded, NEW r \in wire, Finish(r)
    PROVE  Justified(journal', hidden')
<1>1. /\ TypeOK /\ Justified(journal, hidden) /\ MissedAreGone
      /\ journal \in SUBSET Op /\ IsFiniteSet(journal)
      /\ \A o \in journal : o.id = r.op.id => Same(o, r.op)
  BY DEF HideInv, CopiesInv, HiddenIsJustified, Justified, QueueInv, Matched, TypeOK
<1>2. CASE FinishStale(r)
  BY <1>1, <1>2 DEF FinishStale, cache, table
<1>3. CASE FinishConfirmed(r)
  <2> DEFINE lost == IF r.op.kind = "move" THEN Unnameable(journal, r.op) ELSE {}
             gone == IF r.op.kind \in RemovalKinds THEN r.op.names ELSE {}
             k == Retired(journal, lost)
             j == Dropped(k, r.op.id)
             h == (hidden \ gone) \ Removed(lost)
  <2>1. \E f : CountAndDrain(j, h, f, Settled(r), 0, connected)
    BY <1>3 DEF FinishConfirmed
  <2>2. ASSUME NEW x \in h, where[x] = "home"
        PROVE  \E o \in Live(j) : o.kind \in RemovalKinds /\ x \in o.names
    <3>1. PICK o \in Live(journal) : o.kind \in RemovalKinds /\ x \in o.names
      BY <1>1, <2>2, RemovedBy DEF Justified
    <3>2. o \notin lost
      BY <2>2, <3>1, RemovedBy
    <3>3. o.id # r.op.id
      BY <1>1, <2>2, <3>1 DEF Live, Same
    <3>4. o \in k
      BY <1>1, <3>1, <3>2, RetiredSame DEF Live
    <3> QED BY <3>1, <3>3, <3>4 DEF Live, Dropped
  <2>3. Justified(j, h)
    BY <2>2, RemovedBy DEF Justified
  <2> HIDE DEF j, h
  <2> QED BY <2>1, <2>3, TailJustifies
<1>4. CASE FinishNotFound(r)
  <2> DEFINE j == Dropped(journal, r.op.id)
  <2>1. CountAndDrain(j, hidden, flags, Settled(r), 0, connected) /\ r.answer = "NotFound"
    BY <1>4 DEF FinishNotFound, Reply
  <2>2. ASSUME NEW x \in hidden, where[x] = "home"
        PROVE  \E o \in Live(j) : o.kind \in RemovalKinds /\ x \in o.names
    <3>1. PICK o \in Live(journal) : o.kind \in RemovalKinds /\ x \in o.names
      BY <1>1, <2>2, RemovedBy DEF Justified
    <3>2. o.id # r.op.id
      BY <1>1, <2>1, <2>2, <3>1 DEF Live, Same, MissedAreGone
    <3> QED BY <3>1, <3>2 DEF Live, Dropped
  <2>3. Justified(j, hidden)
    BY <2>2, RemovedBy DEF Justified
  <2> HIDE DEF j
  <2> QED BY <2>1, <2>3, TailJustifies
<1>5. CASE FinishDeferred(r) \/ FinishThrottled(r)
  BY <1>1, <1>5 DEF FinishDeferred, FinishThrottled, Rest
<1>6. ASSUME NEW T, NEW h, h = hidden \ Removed(T)
      PROVE  Justified(Retired(Failed(journal, r.op.id), T), h)
  <2> DEFINE k == Failed(journal, r.op.id)
             j == Retired(k, T)
  <2>1. k \in SUBSET Op
    BY <1>1, FailedRows
  <2>2. \A q \in journal : \E o \in k : Same(o, q) /\ o.retired = q.retired
    BY <1>1, FailedSame
  <2> HIDE DEF k
  <2>3. \A o \in k : ~o.retired /\ o \notin T => o \in j
    BY <2>1, RetiredSame
  <2> HIDE DEF j
  <2>4. ASSUME NEW x \in h, where[x] = "home"
        PROVE  \E o \in Live(j) : o.kind \in RemovalKinds /\ x \in o.names
    <3>1. PICK q \in Live(journal) : q.kind \in RemovalKinds /\ x \in q.names
      BY <1>1, <1>6, <2>4, RemovedBy DEF Justified
    <3>2. PICK o \in k : Same(o, q) /\ ~o.retired
      BY <2>2, <3>1 DEF Live
    <3>3. o \notin T
      BY <1>6, <2>4, <3>1, <3>2, RemovedBy DEF Same
    <3> QED BY <2>3, <3>1, <3>2, <3>3 DEF Live, Same
  <2>5. Justified(j, h)
    BY <2>4, RemovedBy DEF Justified
  <2> QED BY <2>5 DEF j, k
<1>7. CASE FinishRefused(r)
  <2>1. PICK s : Rest(Failed(journal, r.op.id), hidden, flags, s, Settled(r), 0)
    BY <1>7 DEF FinishRefused
  <2>2. \A q \in journal : \E o \in Failed(journal, r.op.id) : Same(o, q) /\ o.retired = q.retired
    BY <1>1, FailedSame
  <2>3. \A x : x \in Removed(Live(journal)) => x \in Removed(Live(Failed(journal, r.op.id)))
    BY <2>2, RemovedBy DEF Live, Same
  <2>4. Justified(Failed(journal, r.op.id), hidden)
    BY <1>1, <2>3 DEF Justified
  <2> QED BY <2>1, <2>4, TailJustifies
<1>8. CASE FinishGivenUp(r)
  <2> DEFINE k == Failed(journal, r.op.id)
             T == Chain(k, r.op)
             h == hidden \ Removed(T)
  <2>1. \E f : CountAndDrain(Retired(k, T), h, f, Settled(r), 0, connected)
    BY <1>8 DEF FinishGivenUp
  <2>2. Justified(Retired(k, T), h)
    BY <1>6
  <2> HIDE DEF k, T, h
  <2> QED BY <2>1, <2>2, TailJustifies
<1> QED BY <1>2, <1>3, <1>4, <1>5, <1>7, <1>8 DEF Finish

LEMMA OthersJustify ==
    ASSUME HideInv, EveryGestureRecorded,
           \/ Environment \/ Connect \/ SwitchBack \/ TimerFires
           \/ \E r \in wire : ServerAnswers(r) \/ CrashInConfirm(r) \/ CrashInRetire(r)
    PROVE  Justified(journal', hidden')
<1>1. TypeOK /\ Justified(journal, hidden)
  BY DEF HideInv, CopiesInv, HiddenIsJustified, Justified
<1>2. CASE \/ \E x \in Msgs : ChangedElsewhere(x)
           \/ SwitchBack \/ ConnectionLost \/ SwitchAway
           \/ \E r \in wire : ServerAnswers(r)
  <2>1. UNCHANGED <<journal, hidden>>
    BY <1>2 DEF ChangedElsewhere, SwitchBack, ConnectionLost, SwitchAway, ServerAnswers,
                cache, table
  <2> QED BY <1>1, <2>1 DEF Justified
<1>3. CASE WeekPasses
  <2> DEFINE aged(o) == [o EXCEPT !.old = TRUE]
  <2>1. \A o \in journal : Same(aged(o), o) /\ aged(o).retired = o.retired
    BY <1>1 DEF TypeOK, Op, Same
  <2>2. journal' = {aged(o) : o \in journal} /\ hidden' = hidden
    BY <1>3 DEF WeekPasses, cache
  <2> HIDE DEF aged
  <2>3. \A x : x \in Removed(Live(journal)) => x \in Removed(Live(journal'))
    BY <2>1, <2>2, RemovedBy DEF Live, Same
  <2> QED BY <1>1, <2>2, <2>3 DEF Justified
<1>4. CASE \/ Restart \/ \E r \in wire : CrashInConfirm(r) \/ CrashInRetire(r)
  BY <1>4, RestartJustifies DEF Restart, CrashInConfirm, CrashInRetire
<1>5. CASE Connect \/ TimerFires
  <2>1. \/ Drain(journal, hidden, flags, pending, wire)
        \/ Rest(journal, hidden, flags, pending, wire, inFlight)
    BY <1>5 DEF Connect, TimerFires
  <2>2. CASE Drain(journal, hidden, flags, pending, wire)
    BY <1>1, <2>2, DrainJustifies
  <2>3. CASE Rest(journal, hidden, flags, pending, wire, inFlight)
    BY <1>1, <2>3 DEF Rest
  <2> QED BY <2>1, <2>2, <2>3
<1> QED BY <1>2, <1>3, <1>4, <1>5 DEF Environment
\* Nobody gives a fault back.
LEMMA BudgetOnlyFalls ==
    ASSUME [Next]_vars
    PROVE  budget' = budget \/ \E fault \in Faults : Spend(fault)
<1>1. CASE Gestures \/ FailedList
  <2>1. \A kind, F, target, S, h, f :
          Record(kind, F, target, S, h, f) => budget' = budget \/ Spend("nospace")
    BY DEF Record
  <2> QED BY <1>1, <2>1
        DEF Gestures, FailedList, Mark, Remove, CrashInMark, CrashInRemove,
            RetryFailedChange, DiscardFailedChange, DiscardAllFailedChanges, Faults
<1>2. \A r \in wire : Finish(r) => budget' = budget
  BY DEF Finish, FinishStale, FinishConfirmed, FinishNotFound, FinishDeferred,
         FinishThrottled, FinishRefused, FinishGivenUp
<1>3. \A r \in wire : ServerAnswers(r) => budget' = budget \/ \E fault \in Faults : Spend(fault)
  BY DEF ServerAnswers, ServerAccepts, ServerMisses, ServerForbids, ServerRefuses,
         ServerThrottles, RequestLost, Faults
<1>4. CASE Replies
  BY <1>2, <1>3, <1>4 DEF Replies, CrashInConfirm, CrashInRetire, Faults
<1>5. CASE Environment \/ Connect \/ SwitchBack \/ TimerFires
  BY <1>5 DEF Environment, ChangedElsewhere, ConnectionLost, SwitchAway, WeekPasses,
              Restart, Connect, SwitchBack, TimerFires, Faults
<1>6. CASE UNCHANGED vars
  BY <1>6 DEF vars
<1> QED BY <1>1, <1>4, <1>5, <1>6 DEF Next

LEMMA WhereStays ==
    ASSUME CopiesInv, [Next]_vars
    PROVE  \A x \in Msgs : where[x] # "home" => where'[x] # "home"
<1>1. ASSUME NEW x \in Msgs, ChangedElsewhere(x)
      PROVE  \A y \in Msgs : where[y] # "home" => where'[y] # "home"
  BY <1>1 DEF ChangedElsewhere, CopiesInv, TypeOK
<1> QED BY <1>1, WhereMoves, ServerKeepsAgreed DEF CopiesInv

\* What the server did before it answered that a message is gone.
LEMMA MissMeansGone ==
    ASSUME HideInv, RejectionIsOfAll, NEW r \in wire, ServerMisses(r),
           r.op.kind \in RemovalKinds
    PROVE  \A x \in r.op.names : where'[x] # "home"
<1>1. TypeOK /\ r.op \in Op /\ r.op.names \subseteq Msgs /\ Proto = "jmap"
  BY DEF HideInv, CopiesInv, TypeOK, Request, Op, ServerMisses
<1>2. PICK done \in UpToRejection(r.op) : ApplyAtServer(r.op, done)
  BY DEF ServerMisses
<1>3. CASE MaxNamed <= 1
  <2>1. PICK y \in r.op.names : where[y] = "gone"
    BY DEF ServerMisses, Gone
  <2>2. \A x \in r.op.names : x = y
    BY <1>3, <2>1 DEF HideInv, QueueInv, OneNamed, OfOne
  <2>3. where'[y] # "home"
    BY <1>1, <1>2, <2>1, ServerMoves
  <2> QED BY <2>2, <2>3
<1>4. CASE ~Chunked /\ Forbidden = {}
  <2>1. done = Reachable(r.op)
    BY <1>2, <1>4 DEF UpToRejection
  <2> QED BY <1>1, <1>2, <2>1, YesMeansRemoved
<1> QED BY <1>1, <1>3, <1>4 DEF RejectionIsOfAll

LEMMA NextMissed ==
    ASSUME HideInv, RejectionIsOfAll, [Next]_vars
    PROVE  MissedAreGone'
<1>1. /\ TypeOK /\ MissedAreGone /\ wire \subseteq Request
      /\ \A r \in wire : r.op.names \subseteq Msgs
      /\ \A x \in Msgs : where[x] # "home" => where'[x] # "home"
  BY WhereStays DEF HideInv, CopiesInv, TypeOK, Request, Op
<1>2. CASE OldAnswers
  BY <1>1, <1>2 DEF MissedAreGone, OldAnswers, Verdicts
<1>3. ASSUME NEW r \in wire, ServerAnswers(r)
      PROVE  MissedAreGone'
  <2> DEFINE new(e) == [r EXCEPT !.answer = e]
  <2>1. PICK e : Answer(r, e) /\ (ServerMisses(r) \/ e # "NotFound")
    BY <1>3 DEF ServerAnswers, ServerAccepts, ServerForbids, ServerRefuses,
                ServerThrottles, RequestLost, ServerMisses
  <2>2. wire' = (wire \ {r}) \cup {new(e)}
    BY <2>1 DEF Answer
  <2>3. new(e).op = r.op /\ new(e).answer = e
    BY <1>1 DEF Request
  <2> HIDE DEF new
  <2>4. ServerMisses(r) /\ r.op.kind \in RemovalKinds => \A x \in r.op.names : where'[x] # "home"
    BY MissMeansGone
  <2> QED BY <1>1, <2>1, <2>2, <2>3, <2>4 DEF MissedAreGone
<1>4. ASSUME NEW x \in Msgs, ChangedElsewhere(x)
      PROVE  OldAnswers
  BY <1>4 DEF ChangedElsewhere, OldAnswers
<1>5. CASE UNCHANGED vars
  BY <1>1, <1>5 DEF vars, server, MissedAreGone
<1> QED BY <1>1, <1>2, <1>3, <1>5, GesturesOld, FinishesOld, OthersOld DEF Next, Replies

LEMMA NextHides == HideInv /\ RejectionIsOfAll /\ [Next]_vars => HideInv'
<1> SUFFICES ASSUME HideInv, RejectionIsOfAll, [Next]_vars PROVE HideInv'
  OBVIOUS
<1>1. CopiesInv' /\ QueueInv' /\ MissedAreGone'
  BY NextCopies, NextQueue, NextMissed DEF HideInv
<1>2. budget'["nospace"] <= budget["nospace"]
  <2>1. "nospace" \in Faults /\ budget \in [Faults \cup {"any"} -> Nat]
    BY DEF Faults, HideInv, CopiesInv, TypeOK
  <2> QED BY <2>1, BudgetOnlyFalls DEF Spend
<1>3. /\ budget["nospace"] \in Nat /\ Budget["nospace"] \in Nat /\ budget'["nospace"] \in Nat
      /\ budget["nospace"] <= Budget["nospace"]
  BY <1>1, JournalAssumption DEF HideInv, CopiesInv, BudgetFalls, TypeOK, Faults
<1>4. BudgetFalls' /\ (EveryGestureRecorded' => EveryGestureRecorded)
  BY <1>2, <1>3 DEF BudgetFalls, EveryGestureRecorded
<1>5. ASSUME EveryGestureRecorded'
      PROVE  Justified(journal', hidden')
  <2>1. CASE UNCHANGED vars
    BY <1>4, <1>5, <2>1 DEF vars, cache, table, HideInv, HiddenIsJustified, Justified
  <2>2. CASE Next
    BY <1>4, <1>5, <2>2, GesturesJustify, FinishJustifies, OthersJustify DEF Next, Replies
  <2> QED BY <2>1, <2>2
<1>6. HiddenIsJustified'
  <2>1. \A x \in Msgs : where'[x] = "home" => where[x] = "home"
    BY WhereStays DEF HideInv
  <2>2. hidden' \subseteq Msgs
    BY <1>1 DEF CopiesInv, TypeOK
  <2> QED BY <1>5, <2>1, <2>2 DEF HiddenIsJustified, Justified
<1> QED BY <1>1, <1>4, <1>6 DEF HideInv

\* Mail is hidden from the user only while an op that will remove it is still
\* queued, through confirmations, cascades, expiry, retries, switches and
\* crashes: nothing becomes invisible that nothing will delete.  Where a JMAP
\* server may reject a part of a set the client does not keep this.
THEOREM HiddenHasAReason ==
    ASSUME RejectionIsOfAll
    PROVE  Spec => []HiddenIsJustified
<1>1. Init => HideInv
  <2> SUFFICES ASSUME Init PROVE HideInv
    OBVIOUS
  <2>1. MissedAreGone /\ BudgetFalls /\ HiddenIsJustified
    BY JournalAssumption DEF Init, MissedAreGone, BudgetFalls, HiddenIsJustified, Faults
  <2> QED BY <2>1, InitCopies, InitQueue DEF HideInv
<1>2. HideInv /\ [Next]_vars => HideInv'
  BY NextHides
<1>3. HideInv => HiddenIsJustified
  BY DEF HideInv
<1> QED BY <1>1, <1>2, <1>3, PTL DEF Spec

-----------------------------------------------------------------------------
(***************************************************************************)
(* The cache shows what the drained queue will leave.                      *)
(***************************************************************************)

\* Where the code keeps it (section 3 of the README tells what each of the others
\* breaks): a gesture names one message and files none elsewhere, a set is not
\* cut in chunks, no process ends inside a handler, no op is a week old or
\* retried after it was given up on, and no other account is opened over JMAP.
Steady ==
    /\ MaxNamed <= 1 /\ "move" \notin Kinds /\ ~Chunked
    /\ \A fault \in {"crash", "week", "retry"} : Budget[fault] = 0
    /\ Proto = "jmap" => Budget["switch"] = 0

\* What the queue L says of one flag of one message, which the server shows as S
\* has it and the cache as F has it.
Line(L, x, g, S, F) ==
    LET Q == Naming(L, x, g)
    IN  /\ Q = {} => (g \in F <=> g \in S)
        /\ \A p \in Q : (\A q \in Q : q.id <= p.id) => (g \in F <=> Sets(p.kind))
        /\ \A p \in Q : (\A q \in Q : p.id <= q.id) /\ (\E o \in L : o.id < p.id)
                           => ~(g \in S <=> Sets(p.kind))
        /\ \A o, p \in Q : o.id < p.id /\ (\A q \in Q : ~(o.id < q.id /\ q.id < p.id))
                              => ~(Sets(o.kind) <=> Sets(p.kind))

\* What it takes to be a flag op about x.
LEMMA NamingIs ==
    ASSUME NEW T, NEW x, NEW g, NEW o
    PROVE  o \in Naming(T, x, g) <=>
             o \in T /\ o.kind \in FlagKinds /\ x \in o.names /\ FlagOf(o.kind) = g
BY DEF Naming

\* The same changes, whatever was counted against them.
LEMMA LineSame ==
    ASSUME NEW L, NEW K, NEW x, NEW g, NEW S, NEW F,
           \A o \in L : \E q \in K : Same(o, q),
           \A q \in K : \E o \in L : Same(o, q),
           Line(L, x, g, S, F)
    PROVE  Line(K, x, g, S, F)
<1> DEFINE Q == Naming(L, x, g)
           R == Naming(K, x, g)
<1>1. \A o \in Q : \E q \in R : o.id = q.id /\ o.kind = q.kind
  BY NamingIs DEF Same
<1>2. \A q \in R : \E o \in Q : o.id = q.id /\ o.kind = q.kind
  BY NamingIs DEF Same
<1>3. \A q \in K : \E o \in L : o.id = q.id
  BY DEF Same
<1>4. \A o \in L : \E q \in K : o.id = q.id
  BY DEF Same
<1>5. /\ Q = {} => (g \in F <=> g \in S)
      /\ \A p \in Q : (\A q \in Q : q.id <= p.id) => (g \in F <=> Sets(p.kind))
      /\ \A p \in Q : (\A q \in Q : p.id <= q.id) /\ (\E o \in L : o.id < p.id)
                         => ~(g \in S <=> Sets(p.kind))
      /\ \A o, p \in Q : o.id < p.id /\ (\A q \in Q : ~(o.id < q.id /\ q.id < p.id))
                            => ~(Sets(o.kind) <=> Sets(p.kind))
  BY DEF Line
<1> SUFFICES
      /\ R = {} => (g \in F <=> g \in S)
      /\ \A p \in R : (\A q \in R : q.id <= p.id) => (g \in F <=> Sets(p.kind))
      /\ \A p \in R : (\A q \in R : p.id <= q.id) /\ (\E o \in K : o.id < p.id)
                         => ~(g \in S <=> Sets(p.kind))
      /\ \A o, p \in R : o.id < p.id /\ (\A q \in R : ~(o.id < q.id /\ q.id < p.id))
                            => ~(Sets(o.kind) <=> Sets(p.kind))
  BY DEF Line
<1> HIDE DEF Q, R
<1>6. R = {} => (g \in F <=> g \in S)
  BY <1>1, <1>5
<1>7. ASSUME NEW p \in R, \A q \in R : q.id <= p.id
      PROVE  g \in F <=> Sets(p.kind)
  <2>1. PICK o \in Q : o.id = p.id /\ o.kind = p.kind
    BY <1>2
  <2>2. \A q \in Q : q.id <= o.id
    BY <1>1, <1>7, <2>1
  <2> QED BY <1>5, <2>1, <2>2
<1>8. ASSUME NEW p \in R, \A q \in R : p.id <= q.id, NEW k \in K, k.id < p.id
      PROVE  ~(g \in S <=> Sets(p.kind))
  <2>1. PICK o \in Q : o.id = p.id /\ o.kind = p.kind
    BY <1>2
  <2>2. \A q \in Q : o.id <= q.id
    BY <1>1, <1>8, <2>1
  <2>3. PICK l \in L : l.id = k.id
    BY <1>3
  <2>4. l.id < o.id
    BY <1>8, <2>1, <2>3
  <2> QED BY <1>5, <2>1, <2>2, <2>4
<1>9. ASSUME NEW o \in R, NEW p \in R, o.id < p.id,
             \A q \in R : ~(o.id < q.id /\ q.id < p.id)
      PROVE  ~(Sets(o.kind) <=> Sets(p.kind))
  <2>1. PICK a \in Q : a.id = o.id /\ a.kind = o.kind
    BY <1>2
  <2>2. PICK b \in Q : b.id = p.id /\ b.kind = p.kind
    BY <1>2
  <2>3. a.id < b.id /\ \A q \in Q : ~(a.id < q.id /\ q.id < b.id)
    BY <1>1, <1>9, <2>1, <2>2
  <2> QED BY <1>5, <2>1, <2>2, <2>3
<1> QED BY <1>6, <1>7, <1>8, <1>9

\* A new op that is about something else.
LEMMA LineBeside ==
    ASSUME NEW L \in SUBSET Op, NEW n \in Op, \A o \in L : o.id < n.id,
           NEW x, NEW g, n \notin Naming({n}, x, g),
           NEW S, NEW F, Line(L, x, g, S, F)
    PROVE  Line(L \cup {n}, x, g, S, F)
<1> DEFINE Q == Naming(L, x, g)
<1>1. Q = Naming(L \cup {n}, x, g)
  BY DEF Naming
<1>2. \A p \in Q : p \in L
  BY NamingIs
<1>3. n.id \in Nat /\ \A o \in L : o.id \in Nat
  BY DEF Op, Ids
<1>4. \A p \in Q : (\E o \in L \cup {n} : o.id < p.id) => \E o \in L : o.id < p.id
  BY <1>2, <1>3
<1> QED BY <1>1, <1>4 DEF Line

\* A new mark: what it was made on was not yet as it asks.
LEMMA LineMarked ==
    ASSUME NEW L \in SUBSET Op, NEW n \in Op, \A o \in L : o.id < n.id,
           NEW x, NEW g, n \in Naming({n}, x, g),
           NEW S, NEW F, Line(L, x, g, S, F), ~(g \in F <=> Sets(n.kind)),
           NEW G, g \in G <=> Sets(n.kind)
    PROVE  Line(L \cup {n}, x, g, S, G)
<1> DEFINE Q == Naming(L, x, g)
           R == Naming(L \cup {n}, x, g)
           K == L \cup {n}
<1>1. R = Q \cup {n} /\ \A p \in Q : p \in L
  BY NamingIs
<1>2. n.id \in Nat /\ \A o \in L : o.id \in Nat
  BY DEF Op, Ids
<1>3. \A p \in Q : p.id \in Nat /\ p.id < n.id
  BY <1>1, <1>2
<1>4. /\ Q = {} => (g \in F <=> g \in S)
      /\ \A p \in Q : (\A q \in Q : q.id <= p.id) => (g \in F <=> Sets(p.kind))
      /\ \A p \in Q : (\A q \in Q : p.id <= q.id) /\ (\E o \in L : o.id < p.id)
                         => ~(g \in S <=> Sets(p.kind))
      /\ \A o, p \in Q : o.id < p.id /\ (\A q \in Q : ~(o.id < q.id /\ q.id < p.id))
                            => ~(Sets(o.kind) <=> Sets(p.kind))
  BY DEF Line
<1> HIDE DEF Q, R
<1>5. ASSUME NEW p \in R, \A q \in R : q.id <= p.id
      PROVE  g \in G <=> Sets(p.kind)
  <2>1. p = n
    BY <1>1, <1>2, <1>3, <1>5
  <2> QED BY <2>1
<1>6. ASSUME NEW p \in R, \A q \in R : p.id <= q.id, NEW o \in K, o.id < p.id
      PROVE  ~(g \in S <=> Sets(p.kind))
  <2>1. CASE p \in Q
    <3>1. \A q \in Q : p.id <= q.id
      BY <1>1, <1>6
    <3>2. o \in L
      BY <1>2, <1>3, <1>6, <2>1
    <3> QED BY <1>4, <1>6, <2>1, <3>1, <3>2
  <2>2. CASE p = n
    <3>1. Q = {}
      BY <1>1, <1>2, <1>3, <1>6, <2>2
    <3> QED BY <1>4, <2>2, <3>1
  <2> QED BY <1>1, <2>1, <2>2
<1>7. ASSUME NEW o \in R, NEW p \in R, o.id < p.id,
             \A q \in R : ~(o.id < q.id /\ q.id < p.id)
      PROVE  ~(Sets(o.kind) <=> Sets(p.kind))
  <2>1. o \in Q
    BY <1>1, <1>2, <1>3, <1>7
  <2>2. CASE p \in Q
    BY <1>1, <1>4, <1>7, <2>1, <2>2
  <2>3. CASE p = n
    <3>1. \A q \in Q : q.id <= o.id
      BY <1>1, <1>3, <1>7, <2>1, <2>3
    <3> QED BY <1>4, <2>1, <2>3, <3>1
  <2> QED BY <1>1, <2>2, <2>3
<1>8. R # {}
  BY <1>1
<1> HIDE DEF K
<1>9. /\ R = {} => (g \in G <=> g \in S)
      /\ \A p \in R : (\A q \in R : q.id <= p.id) => (g \in G <=> Sets(p.kind))
      /\ \A p \in R : (\A q \in R : p.id <= q.id) /\ (\E o \in K : o.id < p.id)
                         => ~(g \in S <=> Sets(p.kind))
      /\ \A o, p \in R : o.id < p.id /\ (\A q \in R : ~(o.id < q.id /\ q.id < p.id))
                            => ~(Sets(o.kind) <=> Sets(p.kind))
  BY <1>5, <1>6, <1>7, <1>8
<1> QED BY <1>9 DEF Line, Q, R, K

\* The head of the queue is taken off: the server has done it, or it was about
\* something else.
LEMMA LineServed ==
    ASSUME NEW L \in SUBSET Op, NEW d \in L, \A o \in L : o = d \/ d.id < o.id,
           NEW x, NEW g, NEW S, NEW F, Line(L, x, g, S, F),
           d \in Naming(L, x, g) => (g \in S <=> Sets(d.kind))
    PROVE  Line(L \ {d}, x, g, S, F)
<1> DEFINE Q == Naming(L, x, g)
           R == Naming(L \ {d}, x, g)
           K == L \ {d}
<1>1. R = Q \ {d} /\ \A p \in Q : p \in L
  BY NamingIs
<1>2. \A o \in L : o.id \in Nat
  BY DEF Op, Ids
<1>3. \A p \in Q : p.id \in Nat /\ (p = d \/ d.id < p.id)
  BY <1>1, <1>2
<1>4. d.id \in Nat
  BY <1>2
<1>5. /\ Q = {} => (g \in F <=> g \in S)
      /\ \A p \in Q : (\A q \in Q : q.id <= p.id) => (g \in F <=> Sets(p.kind))
      /\ \A p \in Q : (\A q \in Q : p.id <= q.id) /\ (\E o \in L : o.id < p.id)
                         => ~(g \in S <=> Sets(p.kind))
      /\ \A o, p \in Q : o.id < p.id /\ (\A q \in Q : ~(o.id < q.id /\ q.id < p.id))
                            => ~(Sets(o.kind) <=> Sets(p.kind))
  BY DEF Line
<1>6. d \in Q => (g \in S <=> Sets(d.kind))
  OBVIOUS
<1> HIDE DEF Q, R
<1>7. R = {} => (g \in F <=> g \in S)
  <2> SUFFICES ASSUME R = {} PROVE g \in F <=> g \in S
    OBVIOUS
  <2>1. CASE d \in Q
    <3>1. Q = {d}
      BY <1>1, <2>1
    <3> QED BY <1>4, <1>5, <1>6, <2>1, <3>1
  <2>2. CASE d \notin Q
    BY <1>1, <1>5, <2>2
  <2> QED BY <2>1, <2>2
<1>8. ASSUME NEW p \in R, \A q \in R : q.id <= p.id
      PROVE  g \in F <=> Sets(p.kind)
  <2>1. \A q \in Q : q.id <= p.id
    BY <1>1, <1>3, <1>4, <1>8
  <2> QED BY <1>1, <1>5, <1>8, <2>1
<1>9. ASSUME NEW p \in R, \A q \in R : p.id <= q.id, NEW o \in K, o.id < p.id
      PROVE  ~(g \in S <=> Sets(p.kind))
  <2>1. CASE d \in Q
    <3>1. d.id < p.id /\ \A q \in Q : ~(d.id < q.id /\ q.id < p.id)
      BY <1>1, <1>3, <1>4, <1>9, <2>1
    <3>2. ~(Sets(d.kind) <=> Sets(p.kind))
      BY <1>1, <1>5, <1>9, <2>1, <3>1
    <3> QED BY <1>6, <2>1, <3>2
  <2>2. CASE d \notin Q
    BY <1>1, <1>5, <1>9, <2>2
  <2> QED BY <2>1, <2>2
<1>10. ASSUME NEW o \in R, NEW p \in R, o.id < p.id,
              \A q \in R : ~(o.id < q.id /\ q.id < p.id)
       PROVE  ~(Sets(o.kind) <=> Sets(p.kind))
  <2>1. \A q \in Q : ~(o.id < q.id /\ q.id < p.id)
    BY <1>1, <1>3, <1>4, <1>10
  <2> QED BY <1>1, <1>5, <1>10, <2>1
<1> HIDE DEF K
<1>11. /\ R = {} => (g \in F <=> g \in S)
       /\ \A p \in R : (\A q \in R : q.id <= p.id) => (g \in F <=> Sets(p.kind))
       /\ \A p \in R : (\A q \in R : p.id <= q.id) /\ (\E o \in K : o.id < p.id)
                          => ~(g \in S <=> Sets(p.kind))
       /\ \A o, p \in R : o.id < p.id /\ (\A q \in R : ~(o.id < q.id /\ q.id < p.id))
                             => ~(Sets(o.kind) <=> Sets(p.kind))
  BY <1>7, <1>8, <1>9, <1>10
<1> QED BY <1>11 DEF Line, Q, R, K

\* Ops about something else leave the queue.
LEMMA LineWithout ==
    ASSUME NEW L, NEW K, K \subseteq L, NEW x, NEW g,
           Naming(L, x, g) = Naming(K, x, g),
           NEW S, NEW F, Line(L, x, g, S, F)
    PROVE  Line(K, x, g, S, F)
<1> DEFINE Q == Naming(L, x, g)
<1>1. Q = Naming(K, x, g)
  OBVIOUS
<1> QED BY <1>1 DEF Line

\* Every op about the flag leaves the queue, undone newest first: the oldest
\* decides, and the server has not done it.
LEMMA LineUndone ==
    ASSUME NEW L \in SUBSET Op, NEW K, NEW x, NEW g, Naming(K, x, g) = {},
           NEW S, NEW F, Line(L, x, g, S, F),
           \A d \in Naming(L, x, g) : (\A o \in L : d.id <= o.id)
                                         => ~(g \in S <=> Sets(d.kind)),
           NEW G,
           g \in G <=> IF Naming(L, x, g) = {} THEN g \in F
                       ELSE ~Sets(Oldest(Naming(L, x, g)).kind)
    PROVE  Line(K, x, g, S, G)
<1> DEFINE Q == Naming(L, x, g)
           p == Oldest(Q)
<1>1. Q \in SUBSET Op /\ \A q \in Q : q \in L
  BY NamingIs
<1>2. g \in G <=> g \in S
  <2>1. CASE Q = {}
    BY <2>1 DEF Line
  <2>2. CASE Q # {}
    <3>1. p \in Q /\ \A q \in Q : p.id <= q.id
      BY <1>1, <2>2, OldestIsFirst
    <3>2. ~(g \in S <=> Sets(p.kind))
      <4>1. CASE \E o \in L : o.id < p.id
        BY <3>1, <4>1 DEF Line
      <4>2. CASE \A o \in L : p.id <= o.id
        BY <3>1, <4>2
      <4>3. p.id \in Nat /\ \A o \in L : o.id \in Nat
        BY <1>1, <3>1 DEF Op, Ids
      <4> QED BY <4>1, <4>2, <4>3
    <3> QED BY <2>2, <3>2
  <2> QED BY <2>1, <2>2
<1> QED BY <1>2 DEF Line

\* The server acts on the head of the queue.
LEMMA LineApplied ==
    ASSUME NEW L \in SUBSET Op, NEW x, NEW g, NEW d \in Naming(L, x, g),
           \A o \in L : d.id <= o.id,
           NEW S, NEW F, Line(L, x, g, S, F), NEW U
    PROVE  Line(L, x, g, U, F)
<1> DEFINE Q == Naming(L, x, g)
<1>1. \A q \in Q : q \in L
  BY NamingIs
<1>2. \A o \in L : o.id \in Nat
  BY DEF Op, Ids
<1>3. \A p \in Q : (\A q \in Q : p.id <= q.id) => ~\E o \in L : o.id < p.id
  BY <1>1, <1>2
<1> QED BY <1>3 DEF Line

\* The rows the queue j would leave, h hiding and f flagging the cached rows:
\* the cache shows each message that is still at home as the server will, up to the
\* flags of those of D.
Shown(j, h, f, D) ==
    \A x \in Msgs : where[x] = "home" =>
        /\ x \in h <=> x \in Removed(Live(j))
        /\ x \notin D => \A g \in Flags : Line(Live(j), x, g, srvFlags[x], f[x])

\* Rows of gestures made here, on messages filed where the op says, none old.
Made(j) == \A o \in j : ~o.old /\ o.kind # "move" /\ \A x \in o.names : HomeOf[x] = o.folder

\* The view depends on the live rows only.
LEMMA ShownSame ==
    ASSUME NEW j, NEW k, NEW h, NEW f, NEW D, Shown(j, h, f, D),
           \A o \in Live(j) : \E q \in Live(k) : Same(o, q),
           \A q \in Live(k) : \E o \in Live(j) : Same(o, q)
    PROVE  Shown(k, h, f, D)
<1>1. \A x : x \in Removed(Live(j)) <=> x \in Removed(Live(k))
  BY RemovedBy DEF Same
<1>2. ASSUME NEW x \in Msgs, where[x] = "home", NEW g \in Flags, x \notin D
      PROVE  Line(Live(k), x, g, srvFlags[x], f[x])
  <2>1. Line(Live(j), x, g, srvFlags[x], f[x])
    BY <1>2 DEF Shown
  <2> DEFINE L == Live(j) K == Live(k) S == srvFlags[x] F == f[x]
  <2>2. /\ \A o \in L : \E q \in K : Same(o, q)
        /\ \A q \in K : \E o \in L : Same(o, q)
    OBVIOUS
  <2> HIDE DEF L, K, S, F
  <2>3. Line(L, x, g, S, F) => Line(K, x, g, S, F)
    BY <2>2, LineSame
  <2> QED BY <2>1, <2>3 DEF L, K, S, F
<1> QED BY <1>1, <1>2 DEF Shown

\* A gesture's new row, after all others.
LEMMA ShownMarked ==
    ASSUME NEW j \in SUBSET Op, NEW h, NEW f \in [Msgs -> SUBSET Flags], NEW D, Shown(j, h, f, D),
           NEW n \in Op, ~n.retired, n.kind \in FlagKinds, \A o \in j : o.id < n.id,
           \A x \in n.names : x \notin h /\ ~(FlagOf(n.kind) \in f[x] <=> Sets(n.kind))
    PROVE  Shown(j \cup {n}, h, Marked(f, n.kind, n.names), D)
<1> DEFINE L == Live(j)
           F == Marked(f, n.kind, n.names)
<1>1. Live(j \cup {n}) = L \cup {n}
  BY DEF Live
<1>2. n.kind \notin RemovalKinds
  BY DEF FlagKinds, RemovalKinds
<1>3. \A x : x \in Removed(L \cup {n}) <=> x \in Removed(L)
  BY <1>2, RemovedBy
<1>4. L \in SUBSET Op /\ \A o \in L : o.id < n.id
  BY DEF Live
<1>5. ASSUME NEW x \in Msgs, where[x] = "home", NEW g \in Flags, x \notin D
      PROVE  Line(L \cup {n}, x, g, srvFlags[x], F[x])
  <2> DEFINE S == srvFlags[x] A == f[x] B == F[x]
  <2>1. Line(L, x, g, S, A)
    BY <1>5 DEF Shown
  <2>2. CASE x \in n.names /\ FlagOf(n.kind) = g
    <3>1. n \in Naming({n}, x, g)
      BY <2>2, NamingIs
    <3>2. ~(g \in A <=> Sets(n.kind))
      BY <2>2
    <3>3. g \in B <=> Sets(n.kind)
      BY <2>2 DEF Marked
    <3> HIDE DEF L, S, A, B
    <3>4. Line(L \cup {n}, x, g, S, B)
      BY <1>4, <2>1, <3>1, <3>2, <3>3, LineMarked
    <3> QED BY <3>4 DEF S, B
  <2>3. CASE ~(x \in n.names /\ FlagOf(n.kind) = g)
    <3>1. n \notin Naming({n}, x, g)
      BY <2>3, NamingIs
    <3>2. g \in B <=> g \in A
      BY <2>3 DEF Marked
    <3> HIDE DEF L, S, A, B
    <3>3. Line(L \cup {n}, x, g, S, A)
      BY <1>4, <2>1, <3>1, LineBeside
    <3>4. Line(L \cup {n}, x, g, S, B)
      BY <3>2, <3>3 DEF Line
    <3> QED BY <3>4 DEF S, B
  <2> QED BY <2>2, <2>3
<1> HIDE DEF L, F
<1>6. \A x \in Msgs : where[x] = "home" => (x \in h <=> x \in Removed(L))
  BY DEF Shown, L
<1> QED BY <1>1, <1>3, <1>5, <1>6 DEF Shown, F

\* A removal that is queued hides what it removes.
LEMMA ShownRemoved ==
    ASSUME NEW j \in SUBSET Op, NEW h, NEW f, NEW D, Shown(j, h, f, D),
           NEW n \in Op, ~n.retired, n.kind \in RemovalKinds, \A o \in j : o.id < n.id
    PROVE  Shown(j \cup {n}, h \cup n.names, f, D)
<1> DEFINE L == Live(j)
<1>1. Live(j \cup {n}) = L \cup {n}
  BY DEF Live
<1>2. n.kind \notin FlagKinds
  BY DEF FlagKinds, RemovalKinds
<1>3. \A x : x \in Removed(L \cup {n}) <=> x \in Removed(L) \/ x \in n.names
  BY RemovedBy
<1>4. L \in SUBSET Op /\ \A o \in L : o.id < n.id
  BY DEF Live
<1>5. ASSUME NEW x \in Msgs, where[x] = "home", NEW g \in Flags, x \notin D
      PROVE  Line(L \cup {n}, x, g, srvFlags[x], f[x])
  <2> DEFINE S == srvFlags[x] A == f[x]
  <2>1. Line(L, x, g, S, A)
    BY <1>5 DEF Shown
  <2>2. n \notin Naming({n}, x, g)
    BY <1>2, NamingIs
  <2> HIDE DEF L, S, A
  <2>3. Line(L \cup {n}, x, g, S, A)
    BY <1>4, <2>1, <2>2, LineBeside
  <2> QED BY <2>3 DEF S, A
<1> HIDE DEF L
<1>6. \A x \in Msgs : where[x] = "home" => (x \in h <=> x \in Removed(L))
  BY DEF Shown, L
<1> QED BY <1>1, <1>3, <1>5, <1>6 DEF Shown

\* The head of the queue is confirmed, or found done.
LEMMA ShownServed ==
    ASSUME NEW j \in SUBSET Op, Keyed(j), NEW h, NEW f, NEW D, Shown(j, h, f, D),
           NEW d \in Live(j), \A o \in Live(j) : d.id <= o.id,
           NEW gone, \A x \in gone : where[x] # "home",
           \A x \in d.names : where[x] = "home" =>
               d.kind \in FlagKinds /\ (FlagOf(d.kind) \in srvFlags[x] <=> Sets(d.kind))
    PROVE  Shown(Dropped(j, d.id), h \ gone, f, D)
<1> DEFINE L == Live(j)
<1>1. Live(Dropped(j, d.id)) = L \ {d}
  BY DEF Live, Dropped, Keyed
<1>2. d \in L /\ L \in SUBSET Op
  BY DEF Live
<1>3. \A o \in L : o = d \/ d.id < o.id
  <2>1. \A o \in L : o.id \in Nat /\ (o.id = d.id => o = d)
    BY DEF Live, Keyed, Op, Ids
  <2> QED BY <1>2, <2>1
<1>4. ASSUME NEW x \in Msgs, where[x] = "home"
      PROVE  x \in Removed(L \ {d}) <=> x \in Removed(L)
  <2>1. ~(d.kind \in RemovalKinds /\ x \in d.names)
    BY <1>4 DEF FlagKinds, RemovalKinds
  <2> QED BY <2>1, RemovedBy
<1>5. ASSUME NEW x \in Msgs, where[x] = "home", NEW g \in Flags, x \notin D
      PROVE  Line(L \ {d}, x, g, srvFlags[x], f[x])
  <2> DEFINE S == srvFlags[x] A == f[x]
  <2>1. Line(L, x, g, S, A)
    BY <1>5 DEF Shown
  <2>2. d \in Naming(L, x, g) => (g \in S <=> Sets(d.kind))
    BY <1>5, NamingIs
  <2> HIDE DEF L, S, A
  <2>3. Line(L \ {d}, x, g, S, A)
    BY <1>2, <1>3, <2>1, <2>2, LineServed
  <2> QED BY <2>3 DEF S, A
<1> HIDE DEF L
<1>6. \A x \in Msgs : where[x] = "home" => (x \in h <=> x \in Removed(L)) /\ x \notin gone
  BY DEF Shown, L
<1> QED BY <1>1, <1>4, <1>5, <1>6 DEF Shown

\* The head of the queue is given up on, and taken back together with all that
\* depends on it.
LEMMA ShownUndone ==
    ASSUME NEW j \in SUBSET Op, Keyed(j), Made(j), NEW h, NEW f, NEW D, Shown(j, h, f, D),
           \A o \in j : OfOne(o.names),
           NEW d \in Live(j), \A o \in Live(j) : d.id <= o.id, NEW op, Same(d, op),
           NEW E, D \subseteq E,
           \A x \in d.names : where[x] = "home" /\ d.kind \in FlagKinds /\ x \notin E =>
               ~(FlagOf(d.kind) \in srvFlags[x] <=> Sets(d.kind))
    PROVE  Shown(Retired(j, Chain(j, op)), h \ Removed(Chain(j, op)),
                 Undone(f, Chain(j, op), "newest"), E)
<1> DEFINE T == Chain(j, op)
           L == Live(j)
           K == Live(Retired(j, T))
           F == Undone(f, T, "newest")
<1>1. d \in L /\ L \in SUBSET Op /\ \A o \in L : o \in j
  BY DEF Live
<1>2. \A o \in T : o \in L
  BY DEF Chain, Live, Keyed, Same
<1>3. \A o : o \in K <=> o \in L /\ o \notin T
  <2>1. \A o \in Retired(j, T) : ~o.retired => o \in j /\ o \notin T
    BY RetiredSame
  <2>2. \A q \in j : ~q.retired /\ q \notin T => q \in Retired(j, T)
    BY RetiredSame
  <2> HIDE DEF T
  <2> QED BY <2>1, <2>2 DEF Live
<1>4. ASSUME NEW o \in L, NEW x \in o.names, x \in d.names
      PROVE  o \in T
  <2>1. o.folder = d.folder
    BY <1>1, <1>4 DEF Made
  <2>2. o.id = d.id \/ o.id > d.id
    <3>1. o.id \in Nat /\ d.id \in Nat /\ d.id <= o.id
      BY <1>1 DEF Op, Ids
    <3> QED BY <3>1
  <2> QED BY <1>1, <1>4, <2>1, <2>2 DEF Chain, Same
<1>5. ASSUME NEW o \in T, NEW x \in o.names, x \notin d.names
      PROVE  FALSE
  <2>1. o \in j
    BY <1>1, <1>2
  <2>2. CASE o.id = d.id
    BY <1>1, <1>5, <2>1, <2>2 DEF Keyed
  <2>3. CASE o.id # d.id
    <3>1. PICK y \in o.names : y \in d.names
      BY <2>3 DEF Chain, Same
    <3> QED BY <1>5, <2>1, <3>1 DEF OfOne
  <2> QED BY <2>2, <2>3
<1> HIDE DEF T, K
<1>6. \A x : x \in d.names => x \notin Removed(K)
  BY <1>3, <1>4, RemovedBy
<1>7. \A x : x \notin d.names => (x \in Removed(K) <=> x \in Removed(L)) /\ x \notin Removed(T)
  BY <1>3, <1>5, RemovedBy
<1>8. \A x : x \in d.names => (x \in Removed(T) <=> x \in Removed(L))
  BY <1>2, <1>4, RemovedBy
<1>9. ASSUME NEW x \in Msgs, where[x] = "home", NEW g \in Flags, x \notin E
      PROVE  Line(K, x, g, srvFlags[x], F[x])
  <2> DEFINE S == srvFlags[x] A == f[x] B == F[x]
             Q == Naming(L, x, g)
  <2>1. Line(L, x, g, S, A)
    BY <1>9 DEF Shown
  <2>2. g \in B <=> IF Naming(T, x, g) = {} THEN g \in A
                    ELSE ~Sets(Oldest(Naming(T, x, g)).kind)
    BY <1>9 DEF Undone
  <2>3. CASE x \in d.names
    <3>1. Naming(K, x, g) = {}
      BY <1>3, <1>4, <2>3 DEF Naming
    <3>2. Naming(T, x, g) = Q
      BY <1>2, <1>4, <2>3 DEF Naming
    <3>3. ASSUME NEW e \in Q, \A o \in L : e.id <= o.id
          PROVE  ~(g \in S <=> Sets(e.kind))
      <4>1. e \in L /\ x \in e.names /\ e.kind \in FlagKinds /\ FlagOf(e.kind) = g
        BY <3>3, NamingIs
      <4>2. e.id = d.id
        <5>1. e.id <= d.id /\ d.id <= e.id /\ e.id \in Nat /\ d.id \in Nat
          BY <1>1, <3>3, <4>1 DEF Op, Ids
        <5> QED BY <5>1
      <4>3. e = d
        BY <1>1, <4>1, <4>2 DEF Keyed
      <4> QED BY <1>9, <2>3, <4>1, <4>3
    <3>4. g \in B <=> IF Q = {} THEN g \in A ELSE ~Sets(Oldest(Q).kind)
      BY <2>2, <3>2
    <3> HIDE DEF S, A, B, L
    <3>5. Line(K, x, g, S, B)
      BY <1>1, <2>1, <3>1, <3>3, <3>4, LineUndone DEF Q
    <3> QED BY <3>5 DEF S, B
  <2>4. CASE x \notin d.names
    <3>1. Naming(T, x, g) = {}
      BY <1>5, <2>4 DEF Naming
    <3>2. Naming(L, x, g) = Naming(K, x, g)
      BY <1>3, <1>5, <2>4 DEF Naming
    <3>3. g \in B <=> g \in A
      BY <2>2, <3>1
    <3>4. K \subseteq L
      BY <1>3
    <3> HIDE DEF S, A, B, L
    <3>5. Line(K, x, g, S, A)
      BY <2>1, <3>2, <3>4, LineWithout
    <3>6. Line(K, x, g, S, B)
      BY <3>3, <3>5 DEF Line
    <3> QED BY <3>6 DEF S, B
  <2> QED BY <2>3, <2>4
<1> HIDE DEF L, F
<1>10. \A x \in Msgs : where[x] = "home" => (x \in h <=> x \in Removed(L))
  BY DEF Shown, L
<1>11. \A x \in Msgs : where[x] = "home" => (x \in h \ Removed(T) <=> x \in Removed(K))
  BY <1>6, <1>7, <1>8, <1>10
<1> QED BY <1>9, <1>11 DEF Shown, K, F, T

-----------------------------------------------------------------------------
(* One request, for the head of the queue.                                  *)

\* Every request in w is waited for, or is a failed one of a closed IMAP session.
Solo(w, busy, up) ==
    \A r \in w : \/ r.leg = "current"
                 \/ Proto = "imap" /\ ~up /\ busy = 0 /\ r.answer # "awaited"

\* What is in flight is the oldest live row.
Ahead(j, busy) == busy # 0 => \A o \in Live(j) : busy <= o.id

\* What an answer says of the messages that are still at home.
Answered(r) ==
    /\ r.answer = "NotFound" => \A x \in r.op.names : where[x] # "home"
    /\ r.op.kind \in FlagKinds /\ r.answer = "None" => \A x \in r.op.names :
          where[x] = "home" => (FlagOf(r.op.kind) \in srvFlags[x] <=> Sets(r.op.kind))
Told(w, busy) == \A r \in w : r.op.id = busy => Answered(r)

Capped == \A fault \in Faults : budget[fault] <= Budget[fault]

\* The strengthening: each flag of each message at home follows its line of the
\* queue, whose head alone can be at the server.
InLine ==
    /\ Made(journal)
    /\ Solo(wire, inFlight, connected)
    /\ Ahead(journal, inFlight)
    /\ Told(wire, inFlight)
    /\ EveryGestureRecorded => Shown(journal, hidden, flags, defied)

ViewInv == HideInv /\ Capped /\ InLine

\* With one connection there is at most one request, and none while nothing is in
\* flight.
LEMMA OneRequest ==
    ASSUME TypeOK, GuardHasReply, Solo(wire, inFlight, connected)
    PROVE  /\ inFlight # 0 => \A r, q \in wire : r = q /\ r.op.id = inFlight /\ r.leg = "current"
           /\ inFlight = 0 /\ (connected \/ Proto = "jmap") => wire = {}
           /\ \A r \in wire : r.answer = "awaited" => r.op.id = inFlight
           /\ \A r \in wire : r.op.id # 0
<1>1. \A r \in wire : r.op.id \in 1..MaxOps
  BY DEF TypeOK, Request, Op, Ids
<1>2. \A r \in wire : r.op.id # 0
  BY <1>1, JournalAssumption
<1>3. Proto \in {"imap", "jmap"}
  BY JournalAssumption
<1> QED BY <1>2, <1>3 DEF Solo, GuardHasReply

\* A drain that expires nothing.
LEMMA DrainQuiet ==
    ASSUME NEW j \in SUBSET Op, Made(j), NEW h, NEW f \in [Msgs -> SUBSET Flags],
           NEW shown, NEW w, Drain(j, h, f, shown, w)
    PROVE  /\ journal' = j /\ hidden' = h /\ flags' = f
           /\ \/ wire' = w /\ inFlight' = 0
              \/ \E n \in Live(j) : \E sent :
                    /\ inFlight' = n.id /\ wire' = w \cup {sent}
                    /\ \A o \in Live(j) : n.id <= o.id
                    /\ sent.op = n /\ sent.answer = "awaited" /\ sent.leg = "current"
<1> DEFINE stale == Stale(j)
           left  == j \ stale
<1>1. stale = {}
  BY DEF Stale, Live, Made
<1>2. left = j
  BY <1>1
<1>3. h \ Removed(stale) = h
  BY <1>1 DEF Removed
<1>4. Undone(f, stale, "newest") = f
  <2>1. \A x, g : Naming(stale, x, g) = {}
    BY <1>1 DEF Naming
  <2>2. \A x \in Msgs : Undone(f, stale, "newest")[x] = f[x]
    <3> SUFFICES ASSUME NEW x \in Msgs
                 PROVE  Undone(f, stale, "newest")[x] = f[x]
      OBVIOUS
    <3> HIDE DEF stale
    <3>1. Undone(f, stale, "newest")[x] = {g \in Flags : g \in f[x]}
      BY <2>1 DEF Undone
    <3>2. f[x] \subseteq Flags
      OBVIOUS
    <3> QED BY <3>1, <3>2
  <2>3. Undone(f, stale, "newest") \in [Msgs -> SUBSET Flags]
    BY UndoneFlags
  <2> HIDE DEF stale
  <2> QED BY <2>2, <2>3
<1>5. journal' = left /\ hidden' = h \ Removed(stale) /\ flags' = Undone(f, stale, "newest")
  BY DEF Drain
<1>6. CASE Live(left) = {}
  <2>1. wire' = w /\ inFlight' = 0
    BY <1>6 DEF Drain
  <2> HIDE DEF stale, left
  <2> QED BY <1>2, <1>3, <1>4, <1>5, <2>1
<1>7. CASE Live(left) # {}
  <2> DEFINE n == Oldest(Live(left))
             sent == [op |-> n, answer |-> "awaited", leg |-> "current"]
  <2>1. inFlight' = n.id /\ wire' = w \cup {sent}
    BY <1>7 DEF Drain
  <2>2. sent.op = n /\ sent.answer = "awaited" /\ sent.leg = "current"
    OBVIOUS
  <2>3. Live(left) \in SUBSET Op
    BY <1>2 DEF Live
  <2> HIDE DEF stale, left, sent
  <2>4. n \in Live(left) /\ \A o \in Live(left) : n.id <= o.id
    BY <1>7, <2>3, OldestIsFirst
  <2> HIDE DEF n
  <2> QED BY <1>2, <1>3, <1>4, <1>5, <2>1, <2>2, <2>4
<1> QED BY <1>6, <1>7

\* The end of a handler.  up is what it leaves of the session.
LEMMA TailQuiet ==
    ASSUME NEW j \in SUBSET Op, Made(j), NEW h, NEW f \in [Msgs -> SUBSET Flags],
           NEW shown, NEW w, NEW busy, NEW up,
           \/ CountAndDrain(j, h, f, w, busy, up)
           \/ Rest(j, h, f, shown, w, busy)
           \/ up /\ busy = 0 /\ Drain(j, h, f, shown, w),
           busy = 0 /\ up => w = {},
           Solo(w, busy, up), Ahead(j, busy), Told(w, busy),
           connected' = up, UNCHANGED <<where, srvFlags>>
    PROVE  /\ journal' = j /\ hidden' = h /\ flags' = f
           /\ Solo(wire, inFlight, connected)'
           /\ Ahead(journal, inFlight)'
           /\ Told(wire, inFlight)'
<1> DEFINE n == Cardinality(Live(j))
<1>1. \/ Rest(j, h, f, n, w, busy) \/ Rest(j, h, f, shown, w, busy)
      \/ up /\ busy = 0 /\ (Drain(j, h, f, n, w) \/ Drain(j, h, f, shown, w))
  BY DEF CountAndDrain
<1> HIDE DEF n
<1>2. where' = where /\ srvFlags' = srvFlags
  OBVIOUS
<1>3. \A r : Answered(r) => Answered(r)'
  BY <1>2 DEF Answered
<1>4. ASSUME journal' = j, hidden' = h, flags' = f, wire' = w, inFlight' = busy
      PROVE  /\ Solo(wire, inFlight, connected)'
             /\ Ahead(journal, inFlight)'
             /\ Told(wire, inFlight)'
  BY <1>3, <1>4 DEF Solo, Ahead, Told
<1>5. CASE Rest(j, h, f, n, w, busy) \/ Rest(j, h, f, shown, w, busy)
  <2>1. journal' = j /\ hidden' = h /\ flags' = f /\ wire' = w /\ inFlight' = busy
    BY <1>5 DEF Rest
  <2> QED BY <1>4, <2>1
<1>6. ASSUME NEW s, up, busy = 0, Drain(j, h, f, s, w)
      PROVE  /\ journal' = j /\ hidden' = h /\ flags' = f
             /\ Solo(wire, inFlight, connected)'
             /\ Ahead(journal, inFlight)'
             /\ Told(wire, inFlight)'
  <2>1. journal' = j /\ hidden' = h /\ flags' = f
    BY <1>6, DrainQuiet
  <2>2. CASE wire' = w /\ inFlight' = 0
    BY <1>4, <1>6, <2>1, <2>2
  <2>3. ASSUME NEW o \in Live(j), NEW sent,
               inFlight' = o.id, wire' = w \cup {sent}, \A p \in Live(j) : o.id <= p.id,
               sent.op = o, sent.answer = "awaited", sent.leg = "current"
        PROVE  /\ Solo(wire, inFlight, connected)'
               /\ Ahead(journal, inFlight)'
               /\ Told(wire, inFlight)'
    <3>1. wire' = {sent}
      BY <1>6, <2>3
    <3>2. Solo(wire, inFlight, connected)'
      BY <1>6, <2>3, <3>1 DEF Solo
    <3>3. Ahead(journal, inFlight)'
      BY <2>1, <2>3 DEF Ahead
    <3>4. Told(wire, inFlight)'
      BY <2>3, <3>1 DEF Told, Answered
    <3> QED BY <3>2, <3>3, <3>4
  <2>4. \/ wire' = w /\ inFlight' = 0
        \/ \E o \in Live(j) : \E sent :
              /\ inFlight' = o.id /\ wire' = w \cup {sent}
              /\ \A p \in Live(j) : o.id <= p.id
              /\ sent.op = o /\ sent.answer = "awaited" /\ sent.leg = "current"
    BY <1>6, DrainQuiet
  <2> QED BY <2>1, <2>2, <2>3, <2>4
<1> QED BY <1>1, <1>4, <1>5, <1>6 DEF Rest

\* Copies of rows that were made as gestures make them.
LEMMA MadeRows ==
    ASSUME NEW j \in SUBSET Op, Made(j)
    PROVE  /\ \A T : Made(Retired(j, T))
           /\ \A id : Made(Failed(j, id))
           /\ \A k \in SUBSET j : Made(k)
<1>1. ASSUME NEW T
      PROVE  Made(Retired(j, T))
  <2> DEFINE g(o) == IF o \in T THEN [o EXCEPT !.retired = TRUE] ELSE o
  <2>1. \A o \in j : /\ g(o).old = o.old /\ g(o).kind = o.kind
                     /\ g(o).names = o.names /\ g(o).folder = o.folder
    BY DEF Op
  <2>2. Retired(j, T) = {g(o) : o \in j}
    BY DEF Retired
  <2> HIDE DEF g
  <2> QED BY <2>1, <2>2 DEF Made
<1>2. ASSUME NEW id
      PROVE  Made(Failed(j, id))
  <2> DEFINE g(o) == IF o.id = id THEN [o EXCEPT !.tries = @ + 1] ELSE o
  <2>1. \A o \in j : /\ g(o).old = o.old /\ g(o).kind = o.kind
                     /\ g(o).names = o.names /\ g(o).folder = o.folder
    BY DEF Op
  <2>2. Failed(j, id) = {g(o) : o \in j}
    BY DEF Failed
  <2> HIDE DEF g
  <2> QED BY <2>1, <2>2 DEF Made
<1>3. \A k \in SUBSET j : Made(k)
  BY DEF Made
<1> QED BY <1>1, <1>2, <1>3

\* What Steady excludes does not happen.
LEMMA NoneOfThese ==
    ASSUME ViewInv, Steady, NEW fault \in Faults, Budget[fault] = 0
    PROVE  ~Spend(fault)
BY JournalAssumption DEF ViewInv, Capped, HideInv, CopiesInv, TypeOK, Spend

-----------------------------------------------------------------------------
(* The actions.                                                             *)

\* The three ways a handler ends keep the requests and the view in line.
LEMMA TailInLine ==
    ASSUME NEW j \in SUBSET Op, Made(j), NEW h, NEW f \in [Msgs -> SUBSET Flags],
           NEW shown, NEW w, NEW busy, NEW up,
           \/ CountAndDrain(j, h, f, w, busy, up)
           \/ Rest(j, h, f, shown, w, busy)
           \/ up /\ busy = 0 /\ Drain(j, h, f, shown, w),
           busy = 0 /\ up => w = {},
           Solo(w, busy, up), Ahead(j, busy), Told(w, busy),
           connected' = up, UNCHANGED <<where, srvFlags>>,
           EveryGestureRecorded' => Shown(j, h, f, defied')
    PROVE  InLine'
<1>1. /\ journal' = j /\ hidden' = h /\ flags' = f
      /\ Solo(wire, inFlight, connected)'
      /\ Ahead(journal, inFlight)'
      /\ Told(wire, inFlight)'
  BY TailQuiet
<1>2. where' = where /\ srvFlags' = srvFlags
  OBVIOUS
<1>3. (EveryGestureRecorded => Shown(journal, hidden, flags, defied))'
  BY <1>1, <1>2 DEF Shown
<1> QED BY <1>1, <1>3 DEF InLine, Made

\* What the invariant says of the requests, unfolded.
LEMMA InLineNow ==
    ASSUME ViewInv
    PROVE  /\ TypeOK /\ RowsKeyed /\ GuardHasReply /\ Matched /\ Keyed(journal) /\ Agreed
           /\ journal \in SUBSET Op /\ IsFiniteSet(journal)
           /\ flags \in [Msgs -> SUBSET Flags]
           /\ Made(journal)
           /\ Solo(wire, inFlight, connected)
           /\ Ahead(journal, inFlight)
           /\ Told(wire, inFlight)
           /\ EveryGestureRecorded => Shown(journal, hidden, flags, defied)
           /\ inFlight = 0 /\ (connected \/ Proto = "jmap") => wire = {}
BY OneRequest DEF ViewInv, InLine, HideInv, CopiesInv, QueueInv, GuardInv, RowsKeyed, TypeOK

\* A gesture goes to the end of the queue, with the cache as it leaves it.
LEMMA RecordInLine ==
    ASSUME ViewInv, NEW kind \in FlagKinds \cup RemovalKinds, kind # "move",
           NEW F \in Folders, NEW target \in Folders \cup {NoFolder},
           NEW S \in SUBSET Msgs, \A x \in S : HomeOf[x] = F,
           NEW h, NEW f \in [Msgs -> SUBSET Flags],
           Record(kind, F, target, S, h, f), UNCHANGED <<server, connected>>,
           ASSUME NEW n \in Op, ~n.retired, n.kind = kind, n.names = S,
                  \A o \in journal : o.id < n.id, EveryGestureRecorded
           PROVE  Shown(journal \cup {n}, h, f, defied)
    PROVE  InLine'
<1> DEFINE new == NewOp(kind, F, target, S)
           j   == journal \cup {new}
<1>1. PICK shown :
        \/ CountAndDrain(j, h, f, wire, inFlight, connected) /\ budget' = budget
        \/ Rest(journal, h, f, shown, wire, inFlight) /\ Spend("nospace")
  BY DEF Record
<1>2. nextId \in Ids
  BY JournalAssumption, InLineNow DEF Record, TypeOK, Ids
<1>3. /\ new \in Op /\ ~new.retired /\ new.kind = kind /\ new.names = S /\ new.id = nextId
      /\ ~new.old /\ new.folder = F
  BY <1>2 DEF NewOp, Op
<1> HIDE DEF new
<1>4. \A o \in journal : o.id < new.id
  BY <1>3, InLineNow DEF RowsKeyed
<1>5. connected' = connected /\ UNCHANGED <<where, srvFlags>> /\ defied' = defied
  BY DEF server
<1>6. CASE CountAndDrain(j, h, f, wire, inFlight, connected) /\ budget' = budget
  <2>1. j \in SUBSET Op
    BY <1>3, InLineNow
  <2>2. Made(j)
    BY <1>3, InLineNow DEF Made
  <2>3. Ahead(j, inFlight)
    <3> SUFFICES ASSUME inFlight # 0, NEW o \in Live(j)
                 PROVE  inFlight <= o.id
      BY DEF Ahead
    <3>1. CASE o \in Live(journal)
      BY <3>1, InLineNow DEF Ahead
    <3>2. CASE o = new
      <4>1. PICK p \in Live(journal) : p.id = inFlight
        BY InLineNow DEF GuardHasReply
      <4>2. p.id < new.id
        BY <1>4, <4>1 DEF Live
      <4>3. p.id \in Nat /\ new.id \in Nat
        BY <1>3, <4>1, InLineNow DEF Live, Op, Ids
      <4> QED BY <3>2, <4>1, <4>2, <4>3
    <3> QED BY <3>1, <3>2 DEF Live
  <2>4. EveryGestureRecorded' => Shown(j, h, f, defied)
    <3>1. EveryGestureRecorded' => EveryGestureRecorded
      BY <1>6 DEF EveryGestureRecorded
    <3> QED BY <1>3, <1>4, <3>1
  <2>5. /\ Solo(wire, inFlight, connected) /\ Told(wire, inFlight)
        /\ inFlight = 0 /\ connected => wire = {}
    BY InLineNow
  <2>6. CountAndDrain(j, h, f, wire, inFlight, connected)
    BY <1>6
  <2> HIDE DEF j
  <2> QED BY <1>5, <2>1, <2>2, <2>3, <2>4, <2>5, <2>6, TailInLine
<1>7. CASE Rest(journal, h, f, shown, wire, inFlight) /\ Spend("nospace")
  <2>1. ~EveryGestureRecorded'
    <3>1. /\ budget["nospace"] \in Nat /\ Budget["nospace"] \in Nat
          /\ budget["nospace"] <= Budget["nospace"]
      BY JournalAssumption, InLineNow DEF ViewInv, Capped, TypeOK, Faults
    <3>2. budget'["nospace"] = budget["nospace"] - 1
      BY <1>7, InLineNow DEF Spend, TypeOK, Faults
    <3> QED BY <3>1, <3>2 DEF EveryGestureRecorded
  <2>2. /\ journal \in SUBSET Op /\ Made(journal) /\ Ahead(journal, inFlight)
        /\ Solo(wire, inFlight, connected) /\ Told(wire, inFlight)
        /\ inFlight = 0 /\ connected => wire = {}
    BY InLineNow
  <2> QED BY <1>5, <1>7, <2>1, <2>2, TailInLine
<1> QED BY <1>1, <1>6, <1>7

\* Gestures and the failed list.
LEMMA GesturesInLine ==
    ASSUME ViewInv, Steady, Gestures
    PROVE  InLine'
<1>1. PICK F \in Folders, S \in SUBSET Msgs :
        \/ CrashInRemove(F, S)
        \/ \E kind \in FlagKinds : Mark(kind, F, S) \/ CrashInMark(kind, F, S)
        \/ \E kind \in RemovalKinds, target \in Folders \cup {NoFolder} :
              Remove(kind, F, target, S)
  BY DEF Gestures
<1>2. ~Spend("crash")
  BY NoneOfThese DEF Steady, Faults
<1>3. CASE CrashInRemove(F, S) \/ \E kind \in FlagKinds : CrashInMark(kind, F, S)
  BY <1>2, <1>3 DEF CrashInRemove, CrashInMark
<1>4. ASSUME NEW kind \in FlagKinds, Mark(kind, F, S)
      PROVE  InLine'
  <2> DEFINE f == Marked(flags, kind, S)
  <2>1. /\ Record(kind, F, NoFolder, S, hidden, f) /\ UNCHANGED <<server, connected>>
        /\ S \subseteq Changing(kind, F)
    BY <1>4 DEF Mark
  <2>2. kind \in FlagKinds \cup RemovalKinds /\ kind # "move"
    BY DEF FlagKinds
  <2>3. f \in [Msgs -> SUBSET Flags]
    BY InLineNow, MarkedFlags
  <2>4. \A x \in S : HomeOf[x] = F /\ x \notin hidden
    BY <2>1 DEF Changing, Visible
  <2>5. \A x \in S : ~(FlagOf(kind) \in flags[x] <=> Sets(kind))
    BY <2>1 DEF Changing, Sets
  <2>6. ASSUME NEW n \in Op, ~n.retired, n.kind = kind, n.names = S,
               \A o \in journal : o.id < n.id, EveryGestureRecorded
        PROVE  Shown(journal \cup {n}, hidden, f, defied)
    <3>1. Shown(journal, hidden, flags, defied) /\ flags \in [Msgs -> SUBSET Flags] /\ journal \in SUBSET Op
      BY <2>6, InLineNow
    <3>2. \A x \in n.names : x \notin hidden /\ ~(FlagOf(n.kind) \in flags[x] <=> Sets(n.kind))
      BY <2>4, <2>5, <2>6
    <3>3. n.kind \in FlagKinds
      BY <2>6
    <3>4. Shown(journal \cup {n}, hidden, Marked(flags, n.kind, n.names), defied)
      BY <2>6, <3>1, <3>2, <3>3, ShownMarked
    <3> QED BY <2>6, <3>4
  <2> HIDE DEF f
  <2>7. NoFolder \in Folders \cup {NoFolder} /\ \A x \in S : HomeOf[x] = F
    BY <2>4
  <2> QED BY <2>1, <2>2, <2>3, <2>6, <2>7, RecordInLine
<1>5. ASSUME NEW kind \in RemovalKinds, NEW target \in Folders \cup {NoFolder},
             Remove(kind, F, target, S)
      PROVE  InLine'
  <2> DEFINE h == hidden \cup S
  <2>1. /\ Record(kind, F, target, S, h, flags) /\ UNCHANGED <<server, connected>>
        /\ S \subseteq Visible(F) /\ kind \in Kinds
    BY <1>5 DEF Remove
  <2>2. kind \in FlagKinds \cup RemovalKinds /\ kind # "move"
    BY <2>1 DEF Steady
  <2>3. \A x \in S : HomeOf[x] = F
    BY <2>1 DEF Visible
  <2>4. ASSUME NEW n \in Op, ~n.retired, n.kind = kind, n.names = S,
               \A o \in journal : o.id < n.id, EveryGestureRecorded
        PROVE  Shown(journal \cup {n}, h, flags, defied)
    <3>1. Shown(journal, hidden, flags, defied) /\ journal \in SUBSET Op
      BY <2>4, InLineNow
    <3>2. Shown(journal \cup {n}, hidden \cup n.names, flags, defied)
      BY <2>4, <3>1, ShownRemoved
    <3> QED BY <2>4, <3>2
  <2>5. flags \in [Msgs -> SUBSET Flags]
    BY InLineNow
  <2> HIDE DEF h
  <2> QED BY <2>1, <2>2, <2>3, <2>4, <2>5, RecordInLine
<1> QED BY <1>1, <1>3, <1>4, <1>5

\* The failed list: nothing is retried, and a row that is discarded was not queued.
LEMMA FailedListInLine ==
    ASSUME ViewInv, Steady, FailedList
    PROVE  InLine'
<1>1. ~Spend("retry")
  BY NoneOfThese DEF Steady, Faults
<1>2. ASSUME NEW op \in journal, RetryFailedChange(op)
      PROVE  FALSE
  BY <1>1, <1>2 DEF RetryFailedChange
<1>3. ASSUME NEW k \in SUBSET journal, Live(k) = Live(journal), NEW shown,
             Rest(k, hidden, flags, shown, wire, inFlight),
             UNCHANGED <<server, connected, budget>>
      PROVE  InLine'
  <2>1. Made(k) /\ k \in SUBSET Op /\ flags \in [Msgs -> SUBSET Flags]
    BY InLineNow, MadeRows
  <2>2. /\ Ahead(k, inFlight) /\ Solo(wire, inFlight, connected) /\ Told(wire, inFlight)
        /\ inFlight = 0 /\ connected => wire = {}
    BY <1>3, InLineNow DEF Ahead
  <2>3. EveryGestureRecorded' => Shown(k, hidden, flags, defied)
    BY <1>3, InLineNow DEF EveryGestureRecorded, Shown
  <2>4. connected' = connected /\ UNCHANGED <<where, srvFlags>> /\ defied' = defied
    BY <1>3 DEF server
  <2> QED BY <1>3, <2>1, <2>2, <2>3, <2>4, TailInLine
<1>4. ASSUME NEW op \in journal, DiscardFailedChange(op)
      PROVE  InLine'
  <2>1. Live(Dropped(journal, op.id)) = Live(journal)
    BY <1>4, InLineNow DEF DiscardFailedChange, Live, Dropped, Keyed
  <2>2. /\ UNCHANGED <<server, connected, budget>>
        /\ \E s : Rest(Dropped(journal, op.id), hidden, flags, s, wire, inFlight)
    BY <1>4 DEF DiscardFailedChange
  <2>3. Dropped(journal, op.id) \in SUBSET journal
    BY DEF Dropped
  <2> QED BY <1>3, <2>1, <2>2, <2>3
<1>5. CASE DiscardAllFailedChanges
  <2>1. Live(Live(journal)) = Live(journal) /\ Live(journal) \in SUBSET journal
    BY DEF Live
  <2>2. /\ UNCHANGED <<server, connected, budget>>
        /\ \E s : Rest(Live(journal), hidden, flags, s, wire, inFlight)
    BY <1>5 DEF DiscardAllFailedChanges
  <2> QED BY <1>3, <2>1, <2>2
<1> QED BY <1>2, <1>4, <1>5 DEF FailedList

\* The reply that is waited for: to the head of the queue, and the only request.
LEMMA HeadRow ==
    ASSUME ViewInv, Steady, NEW r \in wire, inFlight = r.op.id
    PROVE  /\ Settled(r) = {}
           /\ Answered(r)
           /\ \E d \in Live(journal) :
                /\ d \in Op /\ Same(d, r.op) /\ d.kind # "move"
                /\ \A o \in Live(journal) : d.id <= o.id
           /\ \A o \in journal : OfOne(o.names)
<1>1. r.op.id # 0 /\ \A q \in wire : q = r
  BY OneRequest, InLineNow
<1>2. Settled(r) = {}
  BY <1>1 DEF Settled
<1>3. Answered(r)
  BY InLineNow DEF Told
<1>4. PICK d \in Live(journal) : d.id = inFlight
  BY <1>1, InLineNow DEF GuardHasReply
<1>5. d \in journal /\ d \in Op
  BY <1>4, InLineNow DEF Live
<1>6. Same(d, r.op)
  BY <1>4, <1>5, InLineNow DEF Matched
<1>7. d.kind # "move" /\ \A o \in Live(journal) : d.id <= o.id
  BY <1>1, <1>4, <1>5, InLineNow DEF Made, Ahead
<1>8. \A o \in journal : OfOne(o.names)
  BY DEF ViewInv, HideInv, QueueInv, OneNamed, Steady
<1> QED BY <1>2, <1>3, <1>5, <1>6, <1>7, <1>8

\* The end of a handler that has taken the guard down.
LEMMA SettledInLine ==
    ASSUME ViewInv, NEW j \in SUBSET Op, Made(j), NEW h, NEW f \in [Msgs -> SUBSET Flags],
           NEW shown, NEW w, w = {}, NEW busy, busy = 0,
           \/ CountAndDrain(j, h, f, w, busy, connected) /\ connected' = connected
           \/ Rest(j, h, f, shown, w, busy),
           UNCHANGED <<where, srvFlags>>,
           EveryGestureRecorded' => Shown(j, h, f, defied')
    PROVE  InLine'
<1> DEFINE up == connected'
<1>1. Solo(w, busy, up) /\ Ahead(j, busy) /\ Told(w, busy)
  BY DEF Solo, Ahead, Told
<1>2. \/ CountAndDrain(j, h, f, w, busy, up)
      \/ Rest(j, h, f, shown, w, busy)
  OBVIOUS
<1>3. connected' = up
  OBVIOUS
<1> HIDE DEF up
<1> QED BY <1>1, <1>2, <1>3, TailInLine

\* A reply: a confirmation settles the head, a refusal takes it and what follows back.
LEMMA FinishInLine ==
    ASSUME ViewInv, Steady, NEW r \in wire, Finish(r)
    PROVE  InLine'
<1>1. /\ budget' = budget /\ UNCHANGED <<where, srvFlags>>
      /\ FinishStale(r) \/ FinishConfirmed(r) \/ FinishNotFound(r) \/ FinishDeferred(r)
         \/ FinishThrottled(r) \/ FinishRefused(r) => defied' = defied
  BY DEF Finish, FinishStale, FinishConfirmed, FinishNotFound, FinishDeferred,
         FinishThrottled, FinishRefused, FinishGivenUp, server
<1>2. EveryGestureRecorded' => EveryGestureRecorded
  BY <1>1 DEF EveryGestureRecorded
<1>3. CASE FinishStale(r)
  <2>1. /\ journal' = journal /\ hidden' = hidden /\ flags' = flags
        /\ inFlight' = inFlight /\ wire' = wire \ {r}
        /\ connected' => connected
    BY <1>3 DEF FinishStale, cache, table
  <2>2. connected => connected'
    <3>1. CASE r.leg = "current"
      BY <1>3, <3>1, InLineNow DEF FinishStale, GuardHasReply
    <3>2. CASE r.leg # "current"
      BY <3>2, InLineNow DEF Solo
    <3> QED BY <3>1, <3>2
  <2>3. Solo(wire, inFlight, connected)'
    BY <2>1, <2>2, InLineNow DEF Solo
  <2>4. Ahead(journal, inFlight)' /\ Made(journal)'
    BY <2>1, InLineNow DEF Ahead, Made
  <2>5. Told(wire, inFlight)'
    BY <1>1, <2>1, InLineNow DEF Told, Answered
  <2>6. (EveryGestureRecorded => Shown(journal, hidden, flags, defied))'
    BY <1>1, <1>2, <1>3, <2>1, InLineNow DEF Shown
  <2> QED BY <2>3, <2>4, <2>5, <2>6 DEF InLine
<1>4. CASE ~FinishStale(r)
  <2>1. r.answer # "awaited" /\ inFlight = r.op.id
    BY <1>4 DEF Finish, FinishConfirmed, FinishNotFound, FinishDeferred,
                FinishThrottled, FinishRefused, FinishGivenUp, Reply
  <2> DEFINE w == Settled(r) busy == 0
  <2>2. w = {} /\ busy = 0 /\ Answered(r) /\ \A o \in journal : OfOne(o.names)
    BY <2>1, HeadRow
  <2>3. PICK d \in Live(journal) : /\ d \in Op /\ Same(d, r.op) /\ d.kind # "move"
                                   /\ \A o \in Live(journal) : d.id <= o.id
    BY <2>1, HeadRow
  <2>4. /\ journal \in SUBSET Op /\ IsFiniteSet(journal) /\ Keyed(journal) /\ Made(journal)
        /\ flags \in [Msgs -> SUBSET Flags]
        /\ EveryGestureRecorded => Shown(journal, hidden, flags, defied)
    BY InLineNow
  <2>5. r.op.id = d.id /\ r.op.kind = d.kind /\ r.op.names = d.names
    BY <2>3 DEF Same
  <2>6. CASE FinishConfirmed(r)
    <3> DEFINE lost == IF r.op.kind = "move" THEN Unnameable(journal, r.op) ELSE {}
               gone == IF r.op.kind \in RemovalKinds THEN r.op.names ELSE {}
               j == Dropped(Retired(journal, lost), r.op.id)
               h == (hidden \ gone) \ Removed(lost)
               f == Undone(flags, lost, "oldest")
    <3>1. /\ CountAndDrain(j, h, f, w, busy, connected) /\ connected' = connected
          /\ r.answer = "None"
      BY <2>6 DEF FinishConfirmed, Reply
    <3>2. lost = {}
      BY <2>3, <2>5
    <3>3. Retired(journal, lost) = journal
      BY <3>2 DEF Retired
    <3>4. f = flags
      <4>1. \A x, g : Naming(lost, x, g) = {}
        BY <3>2 DEF Naming
      <4> HIDE DEF lost
      <4>2. ASSUME NEW x \in Msgs
            PROVE  f[x] = flags[x]
        <5>1. f[x] = {g \in Flags : g \in flags[x]}
          BY <4>1 DEF Undone
        <5> QED BY <2>4, <5>1
      <4>3. f \in [Msgs -> SUBSET Flags]
        BY UndoneFlags
      <4> QED BY <2>4, <4>2, <4>3
    <3>5. h = hidden \ gone
      BY <3>2 DEF Removed
    <3>6. \A x \in gone : where[x] # "home"
      BY <3>1, InLineNow DEF Agreed
    <3>7. \A x \in d.names : where[x] = "home" =>
             d.kind \in FlagKinds /\ (FlagOf(d.kind) \in srvFlags[x] <=> Sets(d.kind))
      <4> SUFFICES ASSUME NEW x \in d.names, where[x] = "home"
                   PROVE  d.kind \in FlagKinds /\ (FlagOf(d.kind) \in srvFlags[x] <=> Sets(d.kind))
        OBVIOUS
      <4>1. d.kind \notin RemovalKinds
        BY <2>5, <3>6
      <4>2. d.kind \in FlagKinds
        BY <2>3, <4>1 DEF Op
      <4> QED BY <2>2, <2>5, <3>1, <4>2 DEF Answered
    <3>8. j = Dropped(journal, d.id)
      BY <2>5, <3>3
    <3>9. EveryGestureRecorded' => Shown(j, h, f, defied')
      <4> HIDE DEF lost, gone, j, h, f
      <4>1. EveryGestureRecorded' => Shown(journal, hidden, flags, defied)
        BY <1>2, <2>4
      <4>2. Shown(journal, hidden, flags, defied) => Shown(Dropped(journal, d.id), hidden \ gone, flags, defied)
        BY <2>3, <2>4, <3>6, <3>7, ShownServed
      <4> QED BY <1>1, <2>6, <3>4, <3>5, <3>8, <4>1, <4>2
    <3>10. j \in SUBSET Op /\ Made(j) /\ f \in [Msgs -> SUBSET Flags]
      <4> HIDE DEF j, f
      <4>1. Dropped(journal, d.id) \in SUBSET journal
        BY DEF Dropped
      <4> QED BY <2>4, <3>4, <3>8, <4>1, MadeRows
    <3> HIDE DEF lost, gone, j, h, f, w, busy
    <3> QED BY <1>1, <2>2, <3>1, <3>9, <3>10, SettledInLine
  <2>7. CASE FinishNotFound(r)
    <3> DEFINE j == Dropped(journal, r.op.id)
               none == {}
               h == hidden \ none
    <3>1. /\ CountAndDrain(j, hidden, flags, w, busy, connected) /\ connected' = connected
          /\ r.answer = "NotFound"
      BY <2>7 DEF FinishNotFound, Reply
    <3>2. \A x \in d.names : where[x] # "home"
      BY <2>2, <2>5, <3>1 DEF Answered
    <3>3. j = Dropped(journal, d.id) /\ h = hidden /\ \A x \in none : where[x] # "home"
      BY <2>5
    <3>4. EveryGestureRecorded' => Shown(j, hidden, flags, defied')
      <4> HIDE DEF j, h, none
      <4>1. EveryGestureRecorded' => Shown(journal, hidden, flags, defied)
        BY <1>2, <2>4
      <4>2. Shown(journal, hidden, flags, defied) => Shown(Dropped(journal, d.id), h, flags, defied)
        BY <2>3, <2>4, <3>2, <3>3, ShownServed DEF h
      <4> QED BY <1>1, <2>7, <3>3, <4>1, <4>2
    <3>5. j \in SUBSET Op /\ Made(j)
      <4> HIDE DEF j
      <4>1. Dropped(journal, d.id) \in SUBSET journal
        BY DEF Dropped
      <4> QED BY <2>4, <3>3, <4>1, MadeRows
    <3> HIDE DEF none, j, h, w, busy
    <3> QED BY <1>1, <2>2, <2>4, <3>1, <3>4, <3>5, SettledInLine
  <2>8. CASE FinishDeferred(r) \/ FinishThrottled(r)
    <3>1. PICK s : Rest(journal, hidden, flags, s, w, busy)
      BY <2>8 DEF FinishDeferred, FinishThrottled
    <3>2. EveryGestureRecorded' => Shown(journal, hidden, flags, defied')
      BY <1>1, <1>2, <2>4, <2>8
    <3> HIDE DEF w, busy
    <3> QED BY <1>1, <2>2, <2>4, <3>1, <3>2, SettledInLine
  <2> DEFINE k == Failed(journal, r.op.id)
  <2>9. k \in SUBSET Op /\ Keyed(k) /\ Made(k) /\ \A o \in k : OfOne(o.names)
    <3>1. k \in SUBSET Op /\ Made(k)
      BY <2>4, FailedRows, MadeRows
    <3>2. Keyed(k)
      <4>1. nextId \in Nat /\ \A o \in journal : o.id < nextId
        BY JournalAssumption, InLineNow DEF RowsKeyed, TypeOK
      <4> QED BY <2>4, <4>1, KeyedRows
    <3>3. \A o \in k : \E q \in journal : Same(o, q)
      BY <2>4, FailedSame
    <3> HIDE DEF k
    <3> QED BY <2>2, <3>1, <3>2, <3>3 DEF Same
  <2>10. /\ \A o \in Live(k) : \E q \in Live(journal) : Same(o, q)
         /\ \A q \in Live(journal) : \E o \in Live(k) : Same(o, q)
    <3>1. /\ \A o \in k : \E q \in journal : Same(o, q) /\ o.retired = q.retired
          /\ \A q \in journal : \E o \in k : Same(o, q) /\ o.retired = q.retired
      BY <2>4, FailedSame
    <3> HIDE DEF k
    <3> QED BY <3>1 DEF Live
  <2> HIDE DEF k
  <2>11. EveryGestureRecorded' => Shown(k, hidden, flags, defied)
    <3>1. \A q \in Live(k) : \E o \in Live(journal) : Same(o, q)
      BY <2>10 DEF Same
    <3>2. \A o \in Live(journal) : \E q \in Live(k) : Same(o, q)
      BY <2>10 DEF Same
    <3>3. Shown(journal, hidden, flags, defied) => Shown(k, hidden, flags, defied)
      BY <3>1, <3>2, ShownSame
    <3> QED BY <1>2, <2>4, <3>3
  <2>12. CASE FinishRefused(r)
    <3>1. PICK s : Rest(k, hidden, flags, s, w, busy)
      BY <2>12 DEF FinishRefused, k
    <3>2. EveryGestureRecorded' => Shown(k, hidden, flags, defied')
      BY <1>1, <2>11, <2>12
    <3> HIDE DEF w, busy
    <3> QED BY <1>1, <2>2, <2>4, <2>9, <3>1, <3>2, SettledInLine
  <2>13. CASE FinishGivenUp(r)
    <3> DEFINE T == Chain(k, r.op)
               j == Retired(k, T)
               h == hidden \ Removed(T)
               f == Undone(flags, T, "newest")
    <3>1. /\ CountAndDrain(j, h, f, w, busy, connected) /\ connected' = connected
          /\ r.answer = "Protocol"
      BY <2>13 DEF FinishGivenUp, Reply, k
    <3>2. PICK e \in Live(k) : Same(e, d)
      BY <2>3, <2>10
    <3>3. Same(e, r.op) /\ \A o \in Live(k) : e.id <= o.id
      BY <2>3, <2>10, <3>2 DEF Same
    <3>4. /\ defied \subseteq defied'
          /\ \A x \in e.names : where[x] = "home" /\ e.kind \in FlagKinds /\ x \notin defied' =>
                ~(FlagOf(e.kind) \in srvFlags[x] <=> Sets(e.kind))
      <4>1. defied' = defied \cup Done(r.op)
        BY <2>13 DEF FinishGivenUp
      <4> QED BY <3>3, <4>1 DEF Done, Same, Sets
    <3>5. EveryGestureRecorded' => Shown(j, h, f, defied')
      <4>1. Shown(k, hidden, flags, defied) => Shown(j, h, f, defied')
        BY <2>9, <3>3, <3>4, ShownUndone
      <4> QED BY <2>11, <4>1
    <3>6. j \in SUBSET Op /\ Made(j)
      <4>1. \A o \in j : \E q \in k : Same(o, q)
        BY <2>9, RetiredSame
      <4>2. IsFiniteSet(k)
        BY <2>4, FailedRows DEF k
      <4> QED BY <2>9, <4>2, RetiredRows, MadeRows
    <3>7. f \in [Msgs -> SUBSET Flags]
      BY UndoneFlags
    <3> HIDE DEF T, j, h, f, w, busy
    <3> QED BY <1>1, <2>2, <3>1, <3>5, <3>6, <3>7, SettledInLine
  <2> QED BY <1>4, <2>6, <2>7, <2>8, <2>12, <2>13 DEF Finish
<1> QED BY <1>3, <1>4

\* What the server does to one message of the head of the queue.
LEMMA AppliedOne ==
    ASSUME TypeOK, NEW op \in Op, NEW S, ApplyAtServer(op, S), NEW x \in Msgs
    PROVE  /\ where'[x] = "home" => where[x] = "home"
           /\ op.kind \in FlagKinds => where' = where
           /\ op.kind \in FlagKinds /\ x \in S =>
                 (FlagOf(op.kind) \in srvFlags'[x] <=> Sets(op.kind))
           /\ \A g : ~(op.kind \in FlagKinds /\ x \in S /\ FlagOf(op.kind) = g) =>
                 (g \in srvFlags'[x] <=> g \in srvFlags[x])
<1>1. where'[x] = "home" => where[x] = "home"
  BY ServerMoves
<1>2. CASE op.kind \in FlagKinds
  <2>1. where' = where /\ srvFlags' = Marked(srvFlags, op.kind, S)
    BY <1>2 DEF ApplyAtServer
  <2>2. CASE x \in S
    <3>1. srvFlags'[x] = IF Sets(op.kind) THEN srvFlags[x] \cup {FlagOf(op.kind)}
                                         ELSE srvFlags[x] \ {FlagOf(op.kind)}
      BY <2>1, <2>2 DEF Marked
    <3>2. FlagOf(op.kind) \in srvFlags'[x] <=> Sets(op.kind)
      BY <3>1 DEF Sets
    <3>3. \A g : FlagOf(op.kind) # g => (g \in srvFlags'[x] <=> g \in srvFlags[x])
      BY <3>1 DEF Sets
    <3> QED BY <1>1, <1>2, <2>1, <2>2, <3>2, <3>3
  <2>3. CASE x \notin S
    <3>1. srvFlags'[x] = srvFlags[x]
      BY <2>1, <2>3 DEF Marked
    <3> QED BY <1>1, <2>1, <2>3, <3>1
  <2> QED BY <2>2, <2>3
<1>3. CASE op.kind \notin FlagKinds
  <2>1. srvFlags' = srvFlags
    BY <1>3 DEF ApplyAtServer
  <2> QED BY <1>1, <1>3, <2>1
<1> QED BY <1>2, <1>3

\* Each answer, with what the server has done by it.
LEMMA AnswersAre ==
    ASSUME ViewInv, Steady, NEW r \in wire, ServerAnswers(r)
    PROVE  \E S \in SUBSET r.op.names : \E error :
             /\ ApplyAtServer(r.op, S) /\ Answer(r, error)
             /\ error = "None" => S = Reachable(r.op)
             /\ error = "NotFound" => Gone(r.op) # {}
<1>1. Reachable(r.op) \in SUBSET r.op.names /\ {} \in SUBSET r.op.names
  BY DEF Reachable
<1>2. Partly(Reachable(r.op)) = {{}}
  BY DEF Partly, Steady
<1>3. \A S \in UpToRejection(r.op) : S \in SUBSET r.op.names
  BY <1>1 DEF UpToRejection, Steady
<1>4. CASE ServerAccepts(r)
  BY <1>1, <1>4 DEF ServerAccepts
<1>5. CASE ServerMisses(r)
  BY <1>3, <1>5 DEF ServerMisses
<1>6. CASE ServerForbids(r)
  BY <1>3, <1>6 DEF ServerForbids
<1>7. CASE ServerRefuses(r)
  BY <1>1, <1>2, <1>7 DEF ServerRefuses
<1>8. CASE ServerThrottles(r)
  BY <1>1, <1>2, <1>8 DEF ServerThrottles
<1>9. CASE RequestLost(r)
  BY <1>1, <1>9 DEF RequestLost
<1> QED BY <1>4, <1>5, <1>6, <1>7, <1>8, <1>9 DEF ServerAnswers

\* The server makes only the head of the queue true.
LEMMA ServerInLine ==
    ASSUME ViewInv, Steady, NEW r \in wire, ServerAnswers(r),
           EveryGestureRecorded' => EveryGestureRecorded
    PROVE  InLine'
<1>1. /\ UNCHANGED <<cached, hidden, flags, journal, connected, inFlight, defied>>
      /\ r.answer = "awaited"
  BY DEF ServerAnswers, cache, table, memory
<1>2. r.op.id = inFlight /\ r.leg = "current" /\ \A q \in wire : q = r
  BY <1>1, OneRequest, InLineNow
<1>3. TypeOK /\ r \in Request /\ r.op \in Op /\ r.op.names \subseteq Msgs
  BY InLineNow DEF TypeOK, Request, Op
<1>4. OfOne(r.op.names)
  BY DEF ViewInv, HideInv, QueueInv, OneNamed, Steady
<1>5. PICK S, error :
        /\ S \in SUBSET r.op.names /\ ApplyAtServer(r.op, S) /\ Answer(r, error)
        /\ error = "None" => S = Reachable(r.op)
        /\ error = "NotFound" => Gone(r.op) # {}
  BY AnswersAre
<1> DEFINE new == [r EXCEPT !.answer = error]
<1>6. new.op = r.op /\ new.answer = error /\ new.leg = "current"
  BY <1>2, <1>3 DEF Request
<1>7. \A q \in wire' : q = new
  BY <1>2, <1>5 DEF Answer
<1> HIDE DEF new
<1>8. PICK d \in Live(journal) : Same(d, r.op) /\ \A o \in Live(journal) : d.id <= o.id
  BY <1>2, HeadRow
<1>9. Answered(new)'
  <2>1. ASSUME error = "NotFound", NEW x \in r.op.names
        PROVE  where'[x] # "home"
    <3>1. PICK y \in r.op.names : where[y] = "gone"
      BY <1>5, <2>1 DEF Gone
    <3>2. x = y
      BY <1>4, <2>1, <3>1 DEF OfOne
    <3>3. where'[y] = "home" => where[y] = "home"
      BY <1>3, <1>5, <3>1, AppliedOne
    <3> QED BY <3>1, <3>2, <3>3
  <2>2. ASSUME r.op.kind \in FlagKinds, error = "None", NEW x \in r.op.names, where'[x] = "home"
        PROVE  FlagOf(r.op.kind) \in srvFlags'[x] <=> Sets(r.op.kind)
    <3>1. x \in Msgs /\ where[x] = "home"
      BY <1>3, <1>5, <2>2, AppliedOne
    <3>2. x \in Reachable(r.op)
      BY <2>2, <3>1 DEF Reachable
    <3> QED BY <1>3, <1>5, <2>2, <3>1, <3>2, AppliedOne
  <2> QED BY <1>6, <2>1, <2>2 DEF Answered
<1>10. Told(wire, inFlight)'
  BY <1>7, <1>9 DEF Told
<1>11. Solo(wire, inFlight, connected)'
  BY <1>1, <1>6, <1>7, InLineNow DEF Solo
<1>12. Ahead(journal, inFlight)' /\ Made(journal)'
  BY <1>1, InLineNow DEF Ahead, Made
<1>13. ASSUME EveryGestureRecorded'
       PROVE  Shown(journal, hidden, flags, defied)'
  <2>1. Shown(journal, hidden, flags, defied)
    BY <1>13, InLineNow
  <2> DEFINE L == Live(journal)
  <2>2. L \in SUBSET Op /\ d \in L
    BY InLineNow DEF Live
  <2>3. ASSUME NEW x \in Msgs, where'[x] = "home"
        PROVE  /\ x \in hidden <=> x \in Removed(L)
               /\ x \notin defied => \A g \in Flags : Line(L, x, g, srvFlags'[x], flags[x])
    <3>1. where[x] = "home"
      BY <1>3, <1>5, <2>3, AppliedOne
    <3>2. ASSUME NEW g \in Flags, x \notin defied
          PROVE  Line(L, x, g, srvFlags'[x], flags[x])
      <4> DEFINE A == srvFlags[x] B == srvFlags'[x] F == flags[x]
      <4>1. Line(L, x, g, A, F)
        BY <2>1, <3>1, <3>2 DEF Shown
      <4>2. CASE d \in Naming(L, x, g)
        <5> HIDE DEF L, A, B, F
        <5>1. Line(L, x, g, B, F)
          BY <1>8, <2>2, <4>1, <4>2, LineApplied DEF L
        <5> QED BY <5>1 DEF B, F
      <4>3. CASE d \notin Naming(L, x, g)
        <5>1. ~(r.op.kind \in FlagKinds /\ x \in S /\ FlagOf(r.op.kind) = g)
          BY <1>5, <1>8, <2>2, <4>3, NamingIs DEF Same
        <5>2. g \in B <=> g \in A
          BY <1>3, <1>5, <5>1, AppliedOne
        <5> HIDE DEF L, A, B, F
        <5>3. Line(L, x, g, B, F)
          BY <4>1, <5>2 DEF Line
        <5> QED BY <5>3 DEF B, F
      <4> QED BY <4>2, <4>3
    <3> QED BY <2>1, <3>1, <3>2 DEF Shown
  <2> QED BY <1>1, <2>3 DEF Shown
<1> QED BY <1>10, <1>11, <1>12, <1>13 DEF InLine

\* The session, the clock, the process and other clients.
LEMMA OthersInLine ==
    ASSUME ViewInv, Steady, EveryGestureRecorded' => EveryGestureRecorded,
           Environment \/ Connect \/ SwitchBack \/ TimerFires
    PROVE  InLine'
<1>1. Proto \in {"imap", "jmap"}
  BY JournalAssumption
<1>2. ASSUME NEW y \in Msgs, ChangedElsewhere(y)
      PROVE  InLine'
  <2>1. /\ UNCHANGED <<srvFlags, defied, journal, hidden, flags, wire, inFlight, connected>>
        /\ \A x \in Msgs : where'[x] = "home" => where[x] = "home"
    BY <1>2, InLineNow DEF ChangedElsewhere, cache, table, memory, TypeOK
  <2>2. \A r \in wire : r.op.names \subseteq Msgs
    BY InLineNow DEF TypeOK, Request, Op
  <2>3. \A r \in wire : Answered(r) => Answered(r)'
    BY <2>1, <2>2 DEF Answered
  <2>4. Told(wire, inFlight)'
    BY <2>1, <2>3, InLineNow DEF Told
  <2>5. (EveryGestureRecorded => Shown(journal, hidden, flags, defied))'
    BY <2>1, InLineNow DEF Shown
  <2>6. Made(journal)' /\ Solo(wire, inFlight, connected)' /\ Ahead(journal, inFlight)'
    BY <2>1, InLineNow DEF Made, Solo, Ahead
  <2> QED BY <2>4, <2>5, <2>6 DEF InLine
<1>3. ASSUME UNCHANGED <<server, journal, hidden, flags>>,
             Solo(wire, inFlight, connected)', Ahead(journal, inFlight)',
             Told(wire, inFlight)'
      PROVE  InLine'
  <2>1. (EveryGestureRecorded => Shown(journal, hidden, flags, defied))'
    BY <1>3, InLineNow DEF Shown, server
  <2>2. Made(journal)'
    BY <1>3, InLineNow DEF Made
  <2> QED BY <1>3, <2>1, <2>2 DEF InLine
<1>4. CASE ConnectionLost
  <2>1. /\ UNCHANGED <<server, journal, hidden, flags, inFlight>>
        /\ wire' = Closed(wire)
    BY <1>4 DEF ConnectionLost, cache, table
  <2> DEFINE g(r) == IF Proto = "imap" THEN [r EXCEPT !.answer = "Protocol"] ELSE r
  <2>2. \A q \in wire' : \E r \in wire : q = g(r)
    BY <2>1 DEF Closed
  <2>3. \A r \in wire : /\ g(r).op = r.op /\ g(r).leg = r.leg
                        /\ g(r) = r \/ g(r).answer = "Protocol"
    BY InLineNow DEF TypeOK, Request
  <2> HIDE DEF g
  <2>4. connected /\ ~connected'
    BY <1>4 DEF ConnectionLost
  <2>5. \A r \in wire : r.leg = "current"
    BY <2>4, InLineNow DEF Solo
  <2>6. Solo(wire, inFlight, connected)'
    BY <2>2, <2>3, <2>5 DEF Solo
  <2>7. Ahead(journal, inFlight)'
    BY <2>1, InLineNow DEF Ahead
  <2>8. Told(wire, inFlight)'
    <3> SUFFICES ASSUME NEW q \in wire', q.op.id = inFlight
                 PROVE  Answered(q)'
      BY <2>1 DEF Told
    <3>1. PICK r \in wire : q = g(r)
      BY <2>2
    <3>2. Answered(r)
      BY <2>3, <3>1, InLineNow DEF Told
    <3>3. Answered(q)
      BY <2>3, <3>1, <3>2 DEF Answered
    <3> QED BY <2>1, <3>3 DEF Answered, server
  <2> QED BY <1>3, <2>1, <2>6, <2>7, <2>8
<1>5. CASE SwitchAway
  <2>1. Proto = "imap"
    BY <1>1, <1>5, NoneOfThese DEF SwitchAway, Steady, Faults
  <2> DEFINE g(r) == [[r EXCEPT !.answer = "Protocol"] EXCEPT !.leg = "previous"]
  <2>2. \A r \in wire : g(r).answer = "Protocol" /\ g(r).op = r.op
    BY InLineNow DEF TypeOK, Request
  <2>3. /\ UNCHANGED <<server, journal, hidden, flags>>
        /\ connected' = FALSE /\ inFlight' = 0
        /\ \A q \in wire' : \E r \in wire : q = g(r)
    BY <1>5, <2>1 DEF SwitchAway, cache, table, Closed
  <2> HIDE DEF g
  <2>4. \A q \in wire' : q.answer = "Protocol" /\ q.op.id # 0
    BY <2>2, <2>3, OneRequest, InLineNow
  <2>5. Solo(wire, inFlight, connected)' /\ Ahead(journal, inFlight)' /\ Told(wire, inFlight)'
    BY <2>1, <2>3, <2>4 DEF Solo, Ahead, Told
  <2> QED BY <1>3, <2>3, <2>5
<1>6. CASE WeekPasses
  BY <1>6, NoneOfThese DEF WeekPasses, Steady, Faults
<1>7. CASE Restart
  <2>1. /\ journal' = journal /\ flags' = flags /\ hidden' = hidden \cap Removed(Live(journal))
        /\ connected' = FALSE /\ inFlight' = 0 /\ wire' = {} /\ UNCHANGED server
    BY <1>7 DEF Restart, RestartFrom, ReconcileSoftDeletes
  <2>2. Solo(wire, inFlight, connected)' /\ Ahead(journal, inFlight)' /\ Told(wire, inFlight)'
    BY <2>1 DEF Solo, Ahead, Told
  <2>3. (EveryGestureRecorded => Shown(journal, hidden, flags, defied))'
    BY <2>1, InLineNow DEF Shown, server
  <2>4. Made(journal)'
    BY <2>1, InLineNow DEF Made
  <2> QED BY <2>2, <2>3, <2>4 DEF InLine
<1>8. CASE SwitchBack
  <2>1. UNCHANGED <<server, journal, hidden, flags, wire, inFlight, connected>>
    BY <1>8 DEF SwitchBack, cache, table
  <2>2. Solo(wire, inFlight, connected)' /\ Ahead(journal, inFlight)' /\ Told(wire, inFlight)'
    BY <2>1, InLineNow DEF Solo, Ahead, Told, Answered, server
  <2> QED BY <1>3, <2>1, <2>2
<1> DEFINE up == connected'
<1>9. ASSUME \/ up /\ inFlight = 0 /\ Drain(journal, hidden, flags, pending, wire)
             \/ Rest(journal, hidden, flags, pending, wire, inFlight),
             inFlight = 0 /\ up => wire = {}, Solo(wire, inFlight, up), UNCHANGED server
      PROVE  InLine'
  <2>1. /\ journal \in SUBSET Op /\ Made(journal) /\ flags \in [Msgs -> SUBSET Flags]
        /\ Ahead(journal, inFlight) /\ Told(wire, inFlight)
        /\ EveryGestureRecorded' => Shown(journal, hidden, flags, defied)
    BY InLineNow
  <2>2. connected' = up /\ UNCHANGED <<where, srvFlags>> /\ defied' = defied
    BY <1>9 DEF server
  <2> HIDE DEF up
  <2> QED BY <1>9, <2>1, <2>2, TailInLine
<1>10. CASE Connect
  <2>1. ~connected /\ up /\ UNCHANGED server /\ (Proto = "imap" => \A r \in wire : r.answer = "awaited")
    BY <1>10 DEF Connect
  <2>2. \A r \in wire : r.leg = "current"
    BY <2>1, InLineNow DEF Solo
  <2>3. Solo(wire, inFlight, up)
    BY <2>1, <2>2 DEF Solo
  <2>4. inFlight = 0 => wire = {}
    BY <2>2, OneRequest, InLineNow DEF GuardHasReply
  <2>5. \/ up /\ inFlight = 0 /\ Drain(journal, hidden, flags, pending, wire)
        \/ Rest(journal, hidden, flags, pending, wire, inFlight)
    BY <1>10, <2>1 DEF Connect
  <2> QED BY <1>9, <2>1, <2>3, <2>4, <2>5
<1>11. CASE TimerFires
  <2>1. connected' = connected /\ UNCHANGED server
    BY <1>11 DEF TimerFires
  <2>2. \/ up /\ inFlight = 0 /\ Drain(journal, hidden, flags, pending, wire)
        \/ Rest(journal, hidden, flags, pending, wire, inFlight)
    BY <1>11, <2>1 DEF TimerFires
  <2>3. Solo(wire, inFlight, up) /\ (inFlight = 0 /\ up => wire = {})
    BY <2>1, InLineNow
  <2> QED BY <1>9, <2>1, <2>2, <2>3
<1> QED BY <1>2, <1>4, <1>5, <1>6, <1>7, <1>8, <1>10, <1>11 DEF Environment

\* Every step keeps the view in line.
LEMMA NextView == ViewInv /\ Steady /\ [Next]_vars => ViewInv'
<1> SUFFICES ASSUME ViewInv, Steady, [Next]_vars PROVE ViewInv'
  OBVIOUS
<1>1. HideInv'
  BY NextHides DEF ViewInv, Steady, RejectionIsOfAll
<1>2. budget' = budget \/ \E fault \in Faults : Spend(fault)
  BY BudgetOnlyFalls
<1>3. Capped' /\ (EveryGestureRecorded' => EveryGestureRecorded)
  <2>1. /\ budget \in [Faults \cup {"any"} -> Nat] /\ Budget \in [Faults \cup {"any"} -> Nat]
        /\ "any" \notin Faults /\ "nospace" \in Faults
    BY JournalAssumption, InLineNow DEF TypeOK, Faults
  <2>2. \A fault \in Faults : budget'[fault] <= budget[fault] /\ budget'[fault] \in Int
    BY <1>2, <2>1 DEF Spend
  <2>3. \A fault \in Faults : budget[fault] <= Budget[fault]
    BY DEF ViewInv, Capped
  <2>4. \A fault \in Faults : budget[fault] \in Int /\ Budget[fault] \in Int
    BY <2>1
  <2> QED BY <2>1, <2>2, <2>3, <2>4 DEF Capped, EveryGestureRecorded
<1>4. CASE UNCHANGED vars
  <2>1. UNCHANGED <<where, srvFlags, defied, journal, hidden, flags, wire, inFlight, connected, budget>>
    BY <1>4 DEF vars, server, cache, table, memory
  <2>2. InLine'
    BY <2>1, InLineNow
       DEF InLine, Made, Solo, Ahead, Told, Answered, Shown, EveryGestureRecorded
  <2> QED BY <1>1, <1>3, <2>2 DEF ViewInv
<1>5. CASE Replies
  <2>1. ~Spend("crash")
    BY NoneOfThese DEF Steady, Faults
  <2>2. \A r \in wire : CrashInConfirm(r) \/ CrashInRetire(r) => FALSE
    BY <2>1 DEF CrashInConfirm, CrashInRetire
  <2> QED BY <1>1, <1>3, <1>5, <2>2, ServerInLine, FinishInLine DEF Replies, ViewInv
<1>6. CASE Next /\ ~Replies
  BY <1>1, <1>3, <1>6, GesturesInLine, FailedListInLine, OthersInLine DEF Next, ViewInv
<1> QED BY <1>4, <1>5, <1>6

\* In line, the cache is what the drained queue will leave.
LEMMA ViewIsExpected ==
    ASSUME ViewInv
    PROVE  OptimisticView
<1> SUFFICES ASSUME EveryGestureRecorded, NEW x \in cached, where[x] = "home"
             PROVE  /\ x \in hidden <=> x \in Removed(Live(journal))
                    /\ x \notin defied => \A g \in Flags : g \in flags[x] <=> Expected(x, g)
  BY DEF OptimisticView
<1>1. x \in Msgs /\ Shown(journal, hidden, flags, defied)
  BY InLineNow DEF TypeOK
<1>2. ASSUME NEW g \in Flags, x \notin defied
      PROVE  g \in flags[x] <=> Expected(x, g)
  <2> DEFINE Q == Naming(Live(journal), x, g)
             W == {o \in Q : o.id # inFlight}
             n == Newest(IF W = {} THEN Q ELSE W)
  <2>1. /\ Q = {} => (g \in flags[x] <=> g \in srvFlags[x])
        /\ \A p \in Q : (\A q \in Q : q.id <= p.id) => (g \in flags[x] <=> Sets(p.kind))
    BY <1>1, <1>2 DEF Shown, Line
  <2>2. Expected(x, g) <=> IF Q = {} THEN g \in srvFlags[x] ELSE Sets(n.kind)
    BY DEF Expected
  <2>3. Q \in SUBSET Op /\ \A q \in Q : q \in Live(journal)
    BY InLineNow, NamingIs DEF Live
  <2>4. inFlight \in Nat /\ \A q \in Q : q.id \in Nat /\ q.id # 0
    BY <2>3, JournalAssumption, InLineNow DEF TypeOK, Op, Ids
  <2>5. ASSUME Q # {}
        PROVE  n \in Q /\ \A q \in Q : q.id <= n.id
    <3>1. CASE W = {}
      BY <2>3, <2>5, <3>1, NewestIsLast
    <3>2. CASE W # {}
      <4>1. n \in W /\ \A q \in W : q.id <= n.id
        BY <2>3, <3>2, NewestIsLast
      <4>2. ASSUME NEW q \in Q, q.id = inFlight
            PROVE  q.id <= n.id
        BY <2>3, <2>4, <4>1, <4>2, InLineNow DEF Ahead
      <4> QED BY <4>1, <4>2
    <3> QED BY <3>1, <3>2
  <2> HIDE DEF Q, n
  <2> QED BY <2>1, <2>2, <2>5
<1> QED BY <1>1, <1>2 DEF Shown

\* The cache shows what the server will show once the queue has drained: a
\* message is hidden exactly while a removal of it is queued, and each flag is as
\* the last of the queued ops about it leaves it, through replies, refusals that
\* take a change back, restarts and dropped JMAP requests; the flags of a message
\* are let off once a change of it was given up on that the server had made.
THEOREM ViewIsOptimistic ==
    ASSUME Steady
    PROVE  Spec => []OptimisticView
<1>1. Init => ViewInv
  <2> SUFFICES ASSUME Init PROVE ViewInv
    OBVIOUS
  <2>1. HideInv
    <3>1. MissedAreGone /\ BudgetFalls /\ HiddenIsJustified
      BY JournalAssumption DEF Init, MissedAreGone, BudgetFalls, HiddenIsJustified, Faults
    <3> QED BY <3>1, InitCopies, InitQueue DEF HideInv
  <2>2. Capped
    BY JournalAssumption DEF Init, Capped, Faults
  <2>3. Made(journal) /\ Solo(wire, inFlight, connected) /\ Ahead(journal, inFlight)
        /\ Told(wire, inFlight)
    BY DEF Init, Made, Solo, Ahead, Told
  <2>4. Live(journal) = {} /\ hidden = {} /\ flags = srvFlags
    BY DEF Init, Live
  <2>5. Shown(journal, hidden, flags, defied)
    <3>1. \A x : x \notin Removed(Live(journal))
      BY <2>4, RemovedBy
    <3>2. \A x, g : Naming(Live(journal), x, g) = {}
      BY <2>4 DEF Naming
    <3> QED BY <2>4, <3>1, <3>2 DEF Shown, Line
  <2> QED BY <2>1, <2>2, <2>3, <2>5 DEF ViewInv, InLine
<1>2. ViewInv /\ [Next]_vars => ViewInv'
  BY NextView
<1>3. ViewInv => OptimisticView
  BY ViewIsExpected
<1> QED BY <1>1, <1>2, <1>3, PTL DEF Spec

=============================================================================
