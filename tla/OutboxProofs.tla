----------------------------- MODULE OutboxProofs -----------------------------
(***************************************************************************)
(* Theorems about Outbox, for any messages, accounts, settings and budget: *)
(* type correctness, and that over SMTP nothing is sent more often than    *)
(* the user asked for.                                                     *)
(*                                                                         *)
(* The argument is one of conservation.  A message's claims are what may   *)
(* still send it: its queued rows, its calls of sendMessage() that have    *)
(* not failed it for good, its waiters for a token, and its window while   *)
(* gpg works.  Every step trades a claim for a claim or for a delivery;    *)
(* only Send and Retry now make one, and what takes one back is counted.   *)
(***************************************************************************)
EXTENDS Outbox, FiniteSetTheorems, WellFoundedInduction, TLAPS

-----------------------------------------------------------------------------
(* Lemmas about finite sets and the order of ids.                           *)

LEMMA LeastIn ==
    ASSUME NEW R, IsWellFoundedOn(R, Nat), NEW S, S \subseteq Nat, S # {}
    PROVE  \E n \in S : \A k \in S : ~(<<k, n>> \in R)
BY WFMin

LEMMA LeastNatural ==
    ASSUME NEW S, S \subseteq Nat, S # {}
    PROVE  \E n \in S : \A k \in S : n <= k
<1>1. PICK n \in S : \A k \in S : ~(<<k, n>> \in OpToRel(<, Nat))
  BY LeastIn, NatLessThanWellFounded
<1>2. ASSUME NEW k \in S
      PROVE  n <= k
  <2>1. ~(k < n)
    BY <1>1 DEF OpToRel
  <2> QED BY <2>1
<1> QED BY <1>2

\* The row the drain picks by ORDER BY id is one of those due.
LEMMA FirstIsOne ==
    ASSUME NEW R, R \subseteq Row, R # {}
    PROVE  First(R) \in R
<1> DEFINE ids == {r.id : r \in R}
<1>1. ids \subseteq Nat /\ ids # {}
  BY DEF Row
<1>2. PICK n \in ids : \A k \in ids : n <= k
  BY <1>1, LeastNatural
<1>3. PICK r \in R : r.id = n
  BY <1>2
<1>4. \A q \in R : r.id <= q.id
  BY <1>2, <1>3
<1> QED BY <1>4 DEF First

\* T has no more elements than S: at most one of them was traded for another.
NoMore(T, S) == T \subseteq S \/ \E a \in S : \E b : T \subseteq (S \ {a}) \cup {b}

LEMMA NoMoreIsNoMore ==
    ASSUME NEW S, NEW T, IsFiniteSet(S), NoMore(T, S)
    PROVE  /\ IsFiniteSet(T) /\ Cardinality(T) \in Nat /\ Cardinality(S) \in Nat
           /\ Cardinality(T) <= Cardinality(S)
<1>1. CASE T \subseteq S
  BY <1>1, FS_Subset, FS_CardinalityType
<1>2. ASSUME NEW a \in S, NEW b, T \subseteq (S \ {a}) \cup {b}
      PROVE  /\ IsFiniteSet(T) /\ Cardinality(T) \in Nat /\ Cardinality(S) \in Nat
             /\ Cardinality(T) <= Cardinality(S)
  <2> DEFINE U == S \ {a}
  <2>1. IsFiniteSet(U) /\ Cardinality(U) = Cardinality(S) - 1
    BY FS_RemoveElement
  <2>2. IsFiniteSet(U \cup {b}) /\ Cardinality(U \cup {b}) \in {Cardinality(U), Cardinality(U) + 1}
    BY <2>1, FS_AddElement
  <2>3. IsFiniteSet(T) /\ Cardinality(T) <= Cardinality(U \cup {b})
    BY <1>2, <2>2, FS_Subset
  <2>4. Cardinality(S) \in Nat /\ Cardinality(T) \in Nat /\ Cardinality(U) \in Nat
    BY <2>1, <2>3, FS_CardinalityType
  <2> HIDE DEF U
  <2> QED BY <2>1, <2>2, <2>3, <2>4
<1> QED BY <1>1, <1>2 DEF NoMore

LEMMA OneMore ==
    ASSUME NEW S, NEW T, IsFiniteSet(S), NEW b, T \subseteq S \cup {b}
    PROVE  IsFiniteSet(T) /\ Cardinality(T) <= Cardinality(S) + 1
<1>1. IsFiniteSet(S \cup {b}) /\ Cardinality(S \cup {b}) \in {Cardinality(S), Cardinality(S) + 1}
  BY FS_AddElement
<1>2. IsFiniteSet(T) /\ Cardinality(T) <= Cardinality(S \cup {b})
  BY <1>1, FS_Subset
<1>3. Cardinality(S) \in Nat /\ Cardinality(T) \in Nat
  BY <1>2, FS_CardinalityType
<1> QED BY <1>1, <1>2, <1>3

LEMMA OneLess ==
    ASSUME NEW S, NEW T, IsFiniteSet(S), NEW a \in S, T \subseteq S \ {a}
    PROVE  IsFiniteSet(T) /\ Cardinality(T) + 1 <= Cardinality(S)
<1>1. IsFiniteSet(S \ {a}) /\ Cardinality(S \ {a}) = Cardinality(S) - 1
  BY FS_RemoveElement
<1>2. IsFiniteSet(T) /\ Cardinality(T) <= Cardinality(S \ {a})
  BY <1>1, FS_Subset
<1>3. Cardinality(S) \in Nat /\ Cardinality(T) \in Nat
  BY <1>2, FS_CardinalityType
<1> QED BY <1>1, <1>2, <1>3

LEMMA NoMoreTwice ==
    ASSUME NEW S, NEW T, NEW U, IsFiniteSet(S), NoMore(T, S), NoMore(U, T)
    PROVE  IsFiniteSet(U) /\ Cardinality(U) <= Cardinality(S)
<1>1. IsFiniteSet(T) /\ Cardinality(T) \in Nat /\ Cardinality(S) \in Nat
      /\ Cardinality(T) <= Cardinality(S)
  BY NoMoreIsNoMore
<1>2. IsFiniteSet(U) /\ Cardinality(U) \in Nat /\ Cardinality(U) <= Cardinality(T)
  BY <1>1, NoMoreIsNoMore
<1> QED BY <1>1, <1>2

-----------------------------------------------------------------------------
(* Claims: what may still send a message.                                   *)

RowClaim(id)  == <<"row", id>>
CallClaim(n)  == <<"call", n>>
WaitClaim(id) == <<"wait", id>>
GpgClaim      == <<"gpg", 0>>

\* The answers of a call that has not sent its message and may yet lead to it
\* being sent: those the client defers on.
Open == {"awaited", "Auth", "Connection", "Throttled"}

QueuedOf(R, m)  == {r \in R : r.mail = m /\ r.state = "queued"}
CallsOf(W, m)   == {r \in W : r.mail = m /\ r.answer \in Open}
WaitersOf(P, m) == {p \in P : p.mail = m}

\* The claims of m when the table is R, the calls W, the waiters P and the
\* messages' fates f.
Claims(R, W, P, f, m) ==
    {RowClaim(r.id) : r \in QueuedOf(R, m)}
    \cup {CallClaim(r.n) : r \in CallsOf(W, m)}
    \cup {WaitClaim(p.row) : p \in WaitersOf(P, m)}
    \cup (IF f[m] = "signing" THEN {GpgClaim} ELSE {})

LEMMA ClaimsDiffer ==
    /\ \A i, j : RowClaim(i) = RowClaim(j) => i = j
    /\ \A i, j : CallClaim(i) = CallClaim(j) => i = j
    /\ \A i, j : WaitClaim(i) = WaitClaim(j) => i = j
    /\ \A i, j : RowClaim(i) # CallClaim(j) /\ RowClaim(i) # WaitClaim(j)
                 /\ CallClaim(i) # WaitClaim(j)
    /\ \A i : RowClaim(i) # GpgClaim /\ CallClaim(i) # GpgClaim /\ WaitClaim(i) # GpgClaim
BY DEF RowClaim, CallClaim, WaitClaim, GpgClaim

LEMMA ClaimsAreFinite ==
    ASSUME NEW R, NEW W, NEW P, NEW f, NEW m,
           IsFiniteSet(R), IsFiniteSet(W), IsFiniteSet(P)
    PROVE  IsFiniteSet(Claims(R, W, P, f, m))
<1> DEFINE A == {RowClaim(r.id) : r \in QueuedOf(R, m)}
           B == {CallClaim(r.n) : r \in CallsOf(W, m)}
           C == {WaitClaim(p.row) : p \in WaitersOf(P, m)}
           D == IF f[m] = "signing" THEN {GpgClaim} ELSE {}
           a == [r \in QueuedOf(R, m) |-> RowClaim(r.id)]
           b == [r \in CallsOf(W, m) |-> CallClaim(r.n)]
           c == [p \in WaitersOf(P, m) |-> WaitClaim(p.row)]
<1>1. IsFiniteSet(QueuedOf(R, m)) /\ IsFiniteSet(CallsOf(W, m)) /\ IsFiniteSet(WaitersOf(P, m))
  <2>1. QueuedOf(R, m) \subseteq R /\ CallsOf(W, m) \subseteq W /\ WaitersOf(P, m) \subseteq P
    BY DEF QueuedOf, CallsOf, WaitersOf
  <2> QED BY <2>1, FS_Subset
<1>2. a \in Surjection(QueuedOf(R, m), A)
  BY DEF Surjection
<1>3. b \in Surjection(CallsOf(W, m), B)
  BY DEF Surjection
<1>4. c \in Surjection(WaitersOf(P, m), C)
  BY DEF Surjection
<1>5. IsFiniteSet(A)
  BY <1>1, <1>2, FS_Surjection
<1>6. IsFiniteSet(B)
  BY <1>1, <1>3, FS_Surjection
<1>7. IsFiniteSet(C)
  BY <1>1, <1>4, FS_Surjection
<1>8. IsFiniteSet(D)
  BY FS_EmptySet, FS_Singleton
<1>9. Claims(R, W, P, f, m) = ((A \cup B) \cup C) \cup D
  BY DEF Claims
<1> HIDE DEF A, B, C, D
<1> QED BY <1>5, <1>6, <1>7, <1>8, <1>9, FS_Union

-----------------------------------------------------------------------------
(* The parts of the inductive invariant, for whatever a handler leaves.     *)

Table(R, n) ==
    /\ R \subseteq Row /\ IsFiniteSet(R)
    /\ \A r, q \in R : r.id = q.id => r = q
    /\ \A r \in R : r.id < n

Calls(W, s, n) ==
    /\ W \subseteq Request /\ IsFiniteSet(W)
    /\ \A r, q \in W : r.n = q.n /\ r.mail = q.mail => r = q
    /\ \A r \in W : r.n < s /\ r.row < n

Waits(P, n) ==
    /\ P \subseteq Waiter /\ IsFiniteSet(P)
    /\ \A p \in P : p.row < n

\* A call and a waiter are for the message of their row.
Linked(R, W, P) ==
    /\ \A r \in W, q \in R : r.row = q.id => r.mail = q.mail
    /\ \A p \in P, q \in R : p.row = q.id => p.mail = q.mail

Shape(R, n, W, s, P) == Table(R, n) /\ Calls(W, s, n) /\ Waits(P, n) /\ Linked(R, W, P)

\* No message can be, or over SMTP has been, sent more often than asked for.
Gone(m)  == IF Proto = "imap" THEN delivered[m] ELSE 0
Bound(m) == Cardinality(Claims(rows, wire, parked, fate, m)) + Gone(m) <= asked[m]
Conserved == \A m \in Mails : Bound(m)

SendInv == TypeOK /\ Shape(rows, nextId, wire, sends, parked) /\ Conserved

\* What is left when rows are only taken out or one of them is rewritten.
LEMMA FewerRows ==
    ASSUME NEW R, NEW n, NEW T, Table(R, n), T \subseteq R
    PROVE  Table(T, n)
BY FS_Subset DEF Table

LEMMA FewerCalls ==
    ASSUME NEW W, NEW s, NEW n, NEW T, Calls(W, s, n), T \subseteq W
    PROVE  Calls(T, s, n)
BY FS_Subset DEF Calls

\* T has the ids and the messages of rows of R.
SameRows(T, R) == \A q \in T : \E r \in R : r.id = q.id /\ r.mail = q.mail

States == {"queued", "sending", "failed"}
Nexts  == {"zero", "later", "passed"}

LEMMA UpdatedRows ==
    ASSUME NEW R, NEW n, Table(R, n), NEW id, NEW state \in States, NEW next \in Nexts
    PROVE  /\ Table(Updated(R, id, state, next), n)
           /\ SameRows(Updated(R, id, state, next), R)
<1> DEFINE New(r) == IF r.id = id THEN [r EXCEPT !.state = state, !.next = next] ELSE r
           T == Updated(R, id, state, next)
           g == [r \in R |-> New(r)]
<1>1. T = {New(r) : r \in R}
  BY DEF Updated
<1>2. \A r \in R : New(r) \in Row /\ New(r).id = r.id /\ New(r).mail = r.mail
  BY DEF Table, Row, States, Nexts
<1>3. g \in Surjection(R, T)
  BY <1>1 DEF Surjection
<1>4. IsFiniteSet(T)
  BY <1>3, FS_Surjection DEF Table
<1> HIDE DEF New, T, g
<1> QED BY <1>1, <1>2, <1>4 DEF Table, SameRows, T

LEMMA SendingRows ==
    ASSUME NEW R, NEW n, Table(R, n), NEW id
    PROVE  Table(Sending(R, id), n) /\ SameRows(Sending(R, id), R)
<1> DEFINE New(r) == IF r.id = id THEN [r EXCEPT !.state = "sending"] ELSE r
           T == Sending(R, id)
           g == [r \in R |-> New(r)]
<1>1. T = {New(r) : r \in R}
  BY DEF Sending
<1>2. \A r \in R : New(r) \in Row /\ New(r).id = r.id /\ New(r).mail = r.mail
  BY DEF Table, Row
<1>3. g \in Surjection(R, T)
  BY <1>1 DEF Surjection
<1>4. IsFiniteSet(T)
  BY <1>3, FS_Surjection DEF Table
<1> HIDE DEF New, T, g
<1> QED BY <1>1, <1>2, <1>4 DEF Table, SameRows, T

LEMMA DeferredRows ==
    ASSUME NEW R, NEW n, Table(R, n), NEW id
    PROVE  Table(Deferred(R, id), n) /\ SameRows(Deferred(R, id), R)
<1> DEFINE New(r) == IF r.id = id THEN [r EXCEPT !.state = "queued"] ELSE r
           T == Deferred(R, id)
           g == [r \in R |-> New(r)]
<1>1. T = {New(r) : r \in R}
  BY DEF Deferred
<1>2. \A r \in R : New(r) \in Row /\ New(r).id = r.id /\ New(r).mail = r.mail
  BY DEF Table, Row
<1>3. g \in Surjection(R, T)
  BY <1>1 DEF Surjection
<1>4. IsFiniteSet(T)
  BY <1>3, FS_Surjection DEF Table
<1> HIDE DEF New, T, g
<1> QED BY <1>1, <1>2, <1>4 DEF Table, SameRows, T

LEMMA RecoveredRows ==
    ASSUME NEW R, NEW n, Table(R, n)
    PROVE  Table(Recovered(R), n)
<1> DEFINE New(r) == IF r.account = account /\ r.state = "sending"
                     THEN [r EXCEPT !.state = "failed"] ELSE r
           T == Recovered(R)
           g == [r \in R |-> New(r)]
<1>1. T = {New(r) : r \in R}
  BY DEF Recovered
<1>2. \A r \in R : New(r) \in Row /\ New(r).id = r.id
  BY DEF Table, Row
<1>3. g \in Surjection(R, T)
  BY <1>1 DEF Surjection
<1>4. IsFiniteSet(T)
  BY <1>3, FS_Surjection DEF Table
<1> HIDE DEF New, T, g
<1> QED BY <1>1, <1>2, <1>4 DEF Table, T

LEMMA LinkedToSameRows ==
    ASSUME NEW R, NEW T, NEW W, NEW P, Linked(R, W, P), SameRows(T, R)
    PROVE  Linked(T, W, P)
BY DEF Linked, SameRows

-----------------------------------------------------------------------------
(* The end of a handler.                                                    *)

\* A message is handed over: one call or one waiter more, for a message whose
\* row, if it has one, is the one named.
LEMMA HandOverKeeps ==
    ASSUME TypeOK, NEW R, NEW W, Shape(R, nextId, W, sends, parked),
           NEW row \in 0..(nextId - 1), NEW x \in Mails,
           \A q \in R : row = q.id => x = q.mail,
           HandOver(row, x, W)
    PROVE  /\ Shape(R, nextId, wire', sends', parked')
           /\ sends' \in Nat
           /\ \E b : \A f, m :
                 Claims(R, wire', parked', f, m)
                   \subseteq Claims(R, W, parked, f, m) \cup (IF m = x THEN {b} ELSE {})
<1>1. CASE /\ wire' = W \cup {[n |-> sends, row |-> row, mail |-> x, answer |-> "awaited"]}
           /\ sends' = sends + 1
           /\ parked' = parked
  <2> DEFINE call == [n |-> sends, row |-> row, mail |-> x, answer |-> "awaited"]
  <2>1. call \in Request /\ call.n = sends /\ call.row = row /\ call.mail = x
    BY DEF TypeOK, Request
  <2>2. wire' = W \cup {call}
    BY <1>1
  <2> HIDE DEF call
  <2>3. IsFiniteSet(wire')
    BY <2>2, FS_AddElement DEF Shape, Calls
  <2>4. wire' \subseteq Request
    BY <2>1, <2>2 DEF Shape, Calls
  <2>5. \A r, q \in wire' : r.n = q.n /\ r.mail = q.mail => r = q
    <3>1. \A r \in W : r.n < sends /\ r.n \in Nat
      BY DEF Shape, Calls, Request
    <3> QED BY <3>1, <2>1, <2>2 DEF Shape, Calls, TypeOK
  <2>6. \A r \in wire' : r.n < sends' /\ r.row < nextId
    <3>1. \A r \in W : r.n < sends /\ r.n \in Nat /\ r.row < nextId
      BY DEF Shape, Calls, Request
    <3> QED BY <3>1, <2>1, <2>2, <1>1 DEF TypeOK
  <2>7. Calls(wire', sends', nextId)
    BY <2>3, <2>4, <2>5, <2>6 DEF Calls
  <2>8. Linked(R, wire', parked')
    BY <2>1, <2>2, <1>1 DEF Shape, Linked
  <2>9. \A f, m : Claims(R, wire', parked', f, m)
           \subseteq Claims(R, W, parked, f, m) \cup (IF m = x THEN {CallClaim(sends)} ELSE {})
    <3> TAKE f, m
    <3>1. CallsOf(wire', m) \subseteq CallsOf(W, m) \cup (IF m = x THEN {call} ELSE {})
      BY <2>1, <2>2 DEF CallsOf
    <3> QED BY ZenonT(60), <3>1, <2>1, <1>1 DEF Claims
  <2>10. \E b : \A f, m : Claims(R, wire', parked', f, m)
           \subseteq Claims(R, W, parked, f, m) \cup (IF m = x THEN {b} ELSE {})
    <3> WITNESS CallClaim(sends)
    <3> QED BY <2>9
  <2>11. sends' \in Nat
    BY <1>1 DEF TypeOK
  <2> QED BY <1>1, <2>7, <2>8, <2>10, <2>11 DEF Shape
<1>2. CASE /\ parked' = parked \cup {[row |-> row, mail |-> x]}
           /\ wire' = W
           /\ sends' = sends
  <2> DEFINE wait == [row |-> row, mail |-> x]
  <2>1. wait \in Waiter /\ wait.row = row /\ wait.mail = x
    BY DEF TypeOK, Waiter
  <2>2. parked' = parked \cup {wait}
    BY <1>2
  <2> HIDE DEF wait
  <2>3. Waits(parked', nextId)
    <3>1. IsFiniteSet(parked')
      BY <2>2, FS_AddElement DEF Shape, Waits
    <3> QED BY <3>1, <2>1, <2>2 DEF Shape, Waits, TypeOK
  <2>4. Linked(R, wire', parked')
    BY <2>1, <2>2, <1>2 DEF Shape, Linked
  <2>5. \A f, m : Claims(R, wire', parked', f, m)
           \subseteq Claims(R, W, parked, f, m) \cup (IF m = x THEN {WaitClaim(row)} ELSE {})
    <3> TAKE f, m
    <3>1. WaitersOf(parked', m) \subseteq WaitersOf(parked, m) \cup (IF m = x THEN {wait} ELSE {})
      BY <2>1, <2>2 DEF WaitersOf
    <3> QED BY <3>1, <2>1, <1>2 DEF Claims
  <2>6. \E b : \A f, m : Claims(R, wire', parked', f, m)
           \subseteq Claims(R, W, parked, f, m) \cup (IF m = x THEN {b} ELSE {})
    <3> WITNESS WaitClaim(row)
    <3> QED BY <2>5
  <2>7. sends' \in Nat
    BY <1>2 DEF TypeOK
  <2> QED BY <1>2, <2>3, <2>4, <2>6, <2>7 DEF Shape
<1> QED BY <1>1, <1>2 DEF HandOver

\* What the end of a handler writes, for the type invariant.
TailTyped ==
    /\ inFlight' \in 0..(nextId - 1)
    /\ undoable' \in 0..(nextId - 1)
    /\ alarm' \in BOOLEAN
    /\ sends' \in Nat

\* A drain trades the claim of the row it picks for that of the call or the
\* waiter it makes.
LEMMA DrainKeeps ==
    ASSUME TypeOK, NEW R, NEW busy \in 0..(nextId - 1), NEW w, NEW a \in BOOLEAN,
           NEW up \in BOOLEAN, Shape(R, nextId, w, sends, parked), Drain(R, busy, w, a, up)
    PROVE  /\ Shape(rows', nextId, wire', sends', parked')
           /\ TailTyped
           /\ \A f, m : NoMore(Claims(rows', wire', parked', f, m), Claims(R, w, parked, f, m))
<1>1. undoable' \in 0..(nextId - 1)
  BY DEF Drain, TypeOK
<1>2. CASE busy # 0 \/ ~up \/ Due(R) = {}
  <2>1. /\ rows' = R /\ inFlight' = busy /\ wire' = w /\ parked' = parked /\ sends' = sends
        /\ alarm' = IF busy = 0 /\ up THEN Armed(R) ELSE a
    BY <1>2 DEF Drain
  <2>2. alarm' \in BOOLEAN
    <3>1. Armed(R) \in BOOLEAN
      BY DEF Armed
    <3> QED BY <2>1, <3>1
  <2>3. \A f, m : NoMore(Claims(rows', wire', parked', f, m), Claims(R, w, parked, f, m))
    BY <2>1 DEF NoMore
  <2>4. sends' \in Nat
    BY <2>1 DEF TypeOK
  <2> QED BY <1>1, <2>1, <2>2, <2>3, <2>4 DEF TailTyped
<1>3. CASE ~(busy # 0 \/ ~up \/ Due(R) = {})
  <2> DEFINE msg == First(Due(R))
             Q   == Sending(R, msg.id)
  <2>1. /\ rows' = Q /\ inFlight' = msg.id /\ alarm' = a
        /\ HandOver(msg.id, msg.mail, w)
    BY <1>3 DEF Drain
  <2>2. msg \in R /\ msg.state = "queued"
    <3>1. Due(R) \subseteq Row
      BY DEF Due, Queued, Shape, Table
    <3>2. msg \in Due(R)
      BY <1>3, <3>1, FirstIsOne
    <3> QED BY <3>2 DEF Due, Queued
  <2> HIDE DEF msg
  <2>3. msg.id \in 0..(nextId - 1) /\ msg.mail \in Mails /\ msg.id \in Nat
    BY <2>2 DEF Shape, Table, Row, TypeOK
  <2>4. Table(Q, nextId) /\ SameRows(Q, R)
    BY SendingRows DEF Shape
  <2>5. Shape(Q, nextId, w, sends, parked)
    BY <2>4, LinkedToSameRows DEF Shape
  <2>6. \A q \in Q : msg.id = q.id => msg.mail = q.mail
    BY <2>2, <2>4 DEF SameRows, Shape, Table
  <2>7. \A f, m : /\ Claims(Q, w, parked, f, m) \subseteq Claims(R, w, parked, f, m)
                  /\ RowClaim(msg.id) \notin Claims(Q, w, parked, f, m)
    <3> TAKE f, m
    <3>1. \A q \in Q : q.state = "queued" => q \in R /\ q.id # msg.id
      <4> TAKE q \in Q
      <4>1. PICK r \in R : q = IF r.id = msg.id THEN [r EXCEPT !.state = "sending"] ELSE r
        BY DEF Sending
      <4>2. r \in Row
        BY DEF Shape, Table
      <4>3. CASE r.id = msg.id
        BY <4>1, <4>2, <4>3 DEF Row
      <4>4. CASE r.id # msg.id
        BY <4>1, <4>4
      <4> QED BY <4>3, <4>4
    <3>2. QueuedOf(Q, m) \subseteq QueuedOf(R, m) /\ \A q \in QueuedOf(Q, m) : q.id # msg.id
      BY <3>1 DEF QueuedOf
    <3> QED BY <3>2, ClaimsDiffer DEF Claims
  <2>8. \A f : RowClaim(msg.id) \in Claims(R, w, parked, f, msg.mail)
    BY <2>2 DEF Claims, QueuedOf
  <2>9. PICK b : \A f, m :
            Claims(Q, wire', parked', f, m)
              \subseteq Claims(Q, w, parked, f, m) \cup (IF m = msg.mail THEN {b} ELSE {})
    BY <2>1, <2>3, <2>5, <2>6, HandOverKeeps
  <2>10. Shape(Q, nextId, wire', sends', parked') /\ sends' \in Nat
    BY <2>1, <2>3, <2>5, <2>6, HandOverKeeps
  <2>11. \A f, m : NoMore(Claims(Q, wire', parked', f, m), Claims(R, w, parked, f, m))
    <3> TAKE f, m
    <3>1. CASE m = msg.mail
      <4>1. Claims(Q, wire', parked', f, m)
              \subseteq (Claims(R, w, parked, f, m) \ {RowClaim(msg.id)}) \cup {b}
        BY <2>7, <2>9, <3>1
      <4>2. RowClaim(msg.id) \in Claims(R, w, parked, f, m)
        BY <2>8, <3>1
      <4> QED BY <4>1, <4>2 DEF NoMore
    <3>2. CASE m # msg.mail
      BY <2>7, <2>9, <3>2 DEF NoMore
    <3> QED BY <3>1, <3>2
  <2> QED BY <1>1, <2>1, <2>3, <2>10, <2>11 DEF TailTyped
<1> QED BY <1>2, <1>3

-----------------------------------------------------------------------------
(* What the other changes of the table and the wire do to the claims.       *)

\* Only putting a row back in the queue makes a claim: that row's.
LEMMA UpdatedClaims ==
    ASSUME NEW R, NEW n, Table(R, n), NEW id, NEW state \in States, NEW next \in Nexts,
           NEW W, NEW P, NEW f, NEW m
    PROVE  Claims(Updated(R, id, state, next), W, P, f, m)
             \subseteq Claims(R, W, P, f, m)
                \cup {RowClaim(i) : i \in {j \in {id} : state = "queued"
                                             /\ \E r \in R : r.id = j /\ r.mail = m}}
<1> DEFINE T == Updated(R, id, state, next)
<1>1. ASSUME NEW q \in T, q.mail = m, q.state = "queued"
      PROVE  \/ \E r \in QueuedOf(R, m) : r.id = q.id
             \/ q.id = id /\ state = "queued" /\ \E r \in R : r.id = id /\ r.mail = m
  <2>1. PICK r \in R : q = IF r.id = id THEN [r EXCEPT !.state = state, !.next = next] ELSE r
    BY DEF Updated
  <2>2. r \in Row
    BY DEF Table
  <2>3. CASE r.id = id
    BY <1>1, <2>1, <2>2, <2>3 DEF Row
  <2>4. CASE r.id # id
    BY <1>1, <2>1, <2>4 DEF QueuedOf
  <2> QED BY <2>3, <2>4
<1> HIDE DEF T
<1> QED BY <1>1 DEF Claims, QueuedOf, T

LEMMA DeferredClaims ==
    ASSUME NEW R, NEW n, Table(R, n), NEW id, NEW W, NEW P, NEW f, NEW m
    PROVE  Claims(Deferred(R, id), W, P, f, m)
             \subseteq Claims(R, W, P, f, m)
                \cup {RowClaim(i) : i \in {j \in {id} : \E r \in R : r.id = j /\ r.mail = m}}
<1> DEFINE T == Deferred(R, id)
<1>1. ASSUME NEW q \in T, q.mail = m, q.state = "queued"
      PROVE  \/ \E r \in QueuedOf(R, m) : r.id = q.id
             \/ q.id = id /\ \E r \in R : r.id = id /\ r.mail = m
  <2>1. PICK r \in R : q = IF r.id = id THEN [r EXCEPT !.state = "queued"] ELSE r
    BY DEF Deferred
  <2>2. r \in Row
    BY DEF Table
  <2>3. CASE r.id = id
    BY <1>1, <2>1, <2>2, <2>3 DEF Row
  <2>4. CASE r.id # id
    BY <1>1, <2>1, <2>4 DEF QueuedOf
  <2> QED BY <2>3, <2>4
<1> HIDE DEF T
<1> QED BY <1>1 DEF Claims, QueuedOf, T

LEMMA RecoveredClaims ==
    ASSUME NEW R, NEW n, Table(R, n), NEW m
    PROVE  QueuedOf(Recovered(R), m) \subseteq QueuedOf(R, m)
<1>1. ASSUME NEW q \in Recovered(R), q.state = "queued"
      PROVE  q \in R
  <2>1. PICK r \in R : q = IF r.account = account /\ r.state = "sending"
                           THEN [r EXCEPT !.state = "failed"] ELSE r
    BY DEF Recovered
  <2>2. r \in Row
    BY DEF Table
  <2> QED BY <1>1, <2>1, <2>2 DEF Row
<1> QED BY <1>1 DEF QueuedOf

LEMMA DroppedClaims ==
    ASSUME NEW R, NEW id, NEW W, NEW P, NEW f, NEW m
    PROVE  /\ Claims(Dropped(R, id), W, P, f, m) \subseteq Claims(R, W, P, f, m)
           /\ RowClaim(id) \notin Claims(Dropped(R, id), W, P, f, m)
<1>1. QueuedOf(Dropped(R, id), m) \subseteq QueuedOf(R, m)
      /\ \A q \in QueuedOf(Dropped(R, id), m) : q.id # id
  BY DEF QueuedOf, Dropped
<1> QED BY <1>1, ClaimsDiffer DEF Claims

\* A call that has ended.
LEMMA EndedClaims ==
    ASSUME NEW R, NEW W, NEW s, NEW n, Calls(W, s, n), NEW r \in W, NEW P, NEW f, NEW m
    PROVE  /\ Claims(R, W \ {r}, P, f, m) \subseteq Claims(R, W, P, f, m)
           /\ r.mail = m => CallClaim(r.n) \notin Claims(R, W \ {r}, P, f, m)
           /\ r.answer \in Open /\ r.mail = m => CallClaim(r.n) \in Claims(R, W, P, f, m)
<1>1. /\ CallsOf(W \ {r}, m) \subseteq CallsOf(W, m)
      /\ r.mail = m => \A q \in CallsOf(W \ {r}, m) : q.n # r.n
  BY DEF CallsOf, Calls
<1>2. r.answer \in Open /\ r.mail = m => r \in CallsOf(W, m)
  BY DEF CallsOf
<1> QED BY <1>1, <1>2, ClaimsDiffer DEF Claims

\* A deferred or throttled row gets back the claim its call had.
LEMMA BackInTheQueue ==
    ASSUME TypeOK, Shape(rows, nextId, wire, sends, parked), NEW r \in wire, r.answer \in Open,
           NEW T,
           \A f, m : Claims(T, wire \ {r}, parked, f, m)
              \subseteq Claims(rows, wire \ {r}, parked, f, m)
                 \cup {RowClaim(i) : i \in {j \in {r.row} : \E q \in rows : q.id = j /\ q.mail = m}}
    PROVE  \A f, m : NoMore(Claims(T, wire \ {r}, parked, f, m), Claims(rows, wire, parked, f, m))
<1> TAKE f, m
<1>1. /\ Claims(rows, wire \ {r}, parked, f, m) \subseteq Claims(rows, wire, parked, f, m)
      /\ r.mail = m => CallClaim(r.n) \notin Claims(rows, wire \ {r}, parked, f, m)
      /\ r.mail = m => CallClaim(r.n) \in Claims(rows, wire, parked, f, m)
  BY EndedClaims DEF Shape
<1>2. CASE r.mail = m
  <2>1. Claims(T, wire \ {r}, parked, f, m)
          \subseteq (Claims(rows, wire, parked, f, m) \ {CallClaim(r.n)}) \cup {RowClaim(r.row)}
    <3>1. Claims(T, wire \ {r}, parked, f, m)
            \subseteq Claims(rows, wire \ {r}, parked, f, m) \cup {RowClaim(r.row)}
      OBVIOUS
    <3> QED BY <3>1, <1>1, <1>2
  <2> QED BY <1>1, <1>2, <2>1 DEF NoMore
<1>3. CASE r.mail # m
  <2>1. \A q \in rows : ~(q.id = r.row /\ q.mail = m)
    BY <1>3 DEF Shape, Linked
  <2>2. Claims(T, wire \ {r}, parked, f, m) \subseteq Claims(rows, wire \ {r}, parked, f, m)
    BY <2>1
  <2> QED BY <1>1, <2>2 DEF NoMore
<1> QED BY <1>2, <1>3

-----------------------------------------------------------------------------
(* Keeping the account.                                                     *)

\* The types of what is neither in Shape nor written by a drain.
Rest ==
    /\ nextId \in Nat \ {0}
    /\ account \in Accounts
    /\ connected \in BOOLEAN
    /\ filing \subseteq 1..(nextId - 1)
    /\ fate \in [Mails -> {"composing", "signing", "sending", "accepted", "cancelled"}]
    /\ from \in [Mails -> Accounts \cup {NoAccount}]
    /\ asked \in [Mails -> Nat]
    /\ delivered \in [Mails -> Nat]
    /\ budget \in [Events -> Nat]

Ends ==
    /\ inFlight \in 0..(nextId - 1)
    /\ undoable \in 0..(nextId - 1)
    /\ alarm \in BOOLEAN
    /\ sends \in Nat

LEMMA WiderInterval ==
    ASSUME NEW a \in Nat, NEW b \in Nat, a <= b
    PROVE  1..(a - 1) \subseteq 1..(b - 1) /\ 0..(a - 1) \subseteq 0..(b - 1)
<1>1. ASSUME NEW i \in 1..(a - 1)
      PROVE  i \in 1..(b - 1)
  BY <1>1
<1>2. ASSUME NEW i \in 0..(a - 1)
      PROVE  i \in 0..(b - 1)
  BY <1>2
<1> QED BY <1>1, <1>2

\* An id that may be in the table still may when one has been handed out.
LEMMA IdsStay ==
    ASSUME TypeOK, nextId' \in {nextId, nextId + 1}
    PROVE  /\ nextId' \in Nat \ {0} /\ 1..(nextId - 1) \subseteq 1..(nextId' - 1)
           /\ 0..(nextId - 1) \subseteq 0..(nextId' - 1)
<1>1. nextId \in Nat \ {0}
  BY DEF TypeOK
<1>2. nextId' \in Nat \ {0} /\ nextId <= nextId'
  BY <1>1
<1> QED BY <1>1, <1>2, WiderInterval

LEMMA TypeOfParts ==
    ASSUME Rest', Ends', Shape(rows', nextId', wire', sends', parked')
    PROVE  TypeOK'
BY DEF Rest, Ends, Shape, Table, Calls, Waits, TypeOK

LEMMA Before ==
    ASSUME SendInv, NEW m \in Mails
    PROVE  /\ IsFiniteSet(Claims(rows, wire, parked, fate, m))
           /\ Cardinality(Claims(rows, wire, parked, fate, m)) \in Nat
           /\ Gone(m) \in Nat /\ asked[m] \in Nat
           /\ Cardinality(Claims(rows, wire, parked, fate, m)) + Gone(m) <= asked[m]
<1>1. IsFiniteSet(Claims(rows, wire, parked, fate, m))
  BY ClaimsAreFinite DEF SendInv, Shape, Table, Calls, Waits
<1>2. Cardinality(Claims(rows, wire, parked, fate, m)) \in Nat
  BY <1>1, FS_CardinalityType
<1> QED BY <1>1, <1>2 DEF SendInv, Conserved, Bound, Gone, TypeOK

\* A step that trades claims for claims.
LEMMA Traded ==
    ASSUME SendInv, NEW m \in Mails, delivered' = delivered, asked' = asked, NEW T,
           NoMore(T, Claims(rows, wire, parked, fate, m)),
           NoMore(Claims(rows', wire', parked', fate', m), T)
    PROVE  Bound(m)'
<1> DEFINE S == Claims(rows, wire, parked, fate, m)
           U == Claims(rows', wire', parked', fate', m)
<1>1. /\ IsFiniteSet(S) /\ Cardinality(S) \in Nat /\ Gone(m) \in Nat /\ asked[m] \in Nat
      /\ Cardinality(S) + Gone(m) <= asked[m]
  BY Before
<1>2. NoMore(T, S) /\ NoMore(U, T)
  OBVIOUS
<1> HIDE DEF S, U
<1>3. IsFiniteSet(U) /\ Cardinality(U) <= Cardinality(S)
  BY <1>1, <1>2, NoMoreTwice
<1>4. Cardinality(U) \in Nat
  BY <1>3, FS_CardinalityType
<1>5. Gone(m)' = Gone(m) /\ asked'[m] = asked[m]
  BY DEF Gone
<1>6. Cardinality(U) + Gone(m)' <= asked'[m]
  BY <1>1, <1>3, <1>4, <1>5
<1> QED BY <1>6 DEF Bound, U

\* Send and Retry now: one more claim, asked for.
LEMMA Granted ==
    ASSUME SendInv, NEW m \in Mails, NEW x \in Mails, delivered' = delivered,
           asked' = [asked EXCEPT ![x] = @ + 1], NEW T, NEW b,
           T \subseteq Claims(rows, wire, parked, fate, m) \cup (IF m = x THEN {b} ELSE {}),
           NoMore(Claims(rows', wire', parked', fate', m), T)
    PROVE  Bound(m)'
<1> DEFINE S == Claims(rows, wire, parked, fate, m)
           U == Claims(rows', wire', parked', fate', m)
<1>1. /\ IsFiniteSet(S) /\ Cardinality(S) \in Nat /\ Gone(m) \in Nat /\ asked[m] \in Nat
      /\ Cardinality(S) + Gone(m) <= asked[m]
  BY Before
<1>2. NoMore(U, T) /\ T \subseteq S \cup (IF m = x THEN {b} ELSE {})
  OBVIOUS
<1>3. Gone(m)' = Gone(m)
  BY DEF Gone
<1>4. asked'[m] = IF m = x THEN asked[m] + 1 ELSE asked[m]
  BY DEF SendInv, TypeOK
<1> HIDE DEF S, U
<1>5. IsFiniteSet(T) /\ Cardinality(T) <= Cardinality(S) + (IF m = x THEN 1 ELSE 0)
  <2>1. CASE m = x
    BY <1>1, <1>2, <2>1, OneMore
  <2>2. CASE m # x
    <3>1. IsFiniteSet(T) /\ Cardinality(T) \in Nat /\ Cardinality(T) <= Cardinality(S)
      BY <1>1, <1>2, <2>2, NoMoreIsNoMore DEF NoMore
    <3> QED BY <1>1, <2>2, <3>1
  <2> QED BY <2>1, <2>2
<1>6. /\ Cardinality(U) \in Nat /\ Cardinality(T) \in Nat /\ Cardinality(U) <= Cardinality(T)
  BY <1>2, <1>5, NoMoreIsNoMore
<1>7. Cardinality(U) + Gone(m)' <= asked'[m]
  BY <1>1, <1>3, <1>4, <1>5, <1>6
<1> QED BY <1>7 DEF Bound, U

\* Cancel, Edit and the undo key: one claim less, taken back.
LEMMA Returned ==
    ASSUME SendInv, NEW m \in Mails, NEW x \in Mails, delivered' = delivered,
           asked' = [asked EXCEPT ![x] = @ - 1], NEW a,
           m = x => a \in Claims(rows, wire, parked, fate, m),
           Claims(rows', wire', parked', fate', m)
             \subseteq Claims(rows, wire, parked, fate, m) \ (IF m = x THEN {a} ELSE {})
    PROVE  Bound(m)' /\ asked'[m] \in Nat
<1> DEFINE S == Claims(rows, wire, parked, fate, m)
           U == Claims(rows', wire', parked', fate', m)
<1>1. /\ IsFiniteSet(S) /\ Cardinality(S) \in Nat /\ Gone(m) \in Nat /\ asked[m] \in Nat
      /\ Cardinality(S) + Gone(m) <= asked[m]
  BY Before
<1>2. U \subseteq S \ (IF m = x THEN {a} ELSE {}) /\ (m = x => a \in S)
  OBVIOUS
<1>3. Gone(m)' = Gone(m)
  BY DEF Gone
<1>4. asked'[m] = IF m = x THEN asked[m] - 1 ELSE asked[m]
  BY DEF SendInv, TypeOK
<1> HIDE DEF S, U
<1>5. IsFiniteSet(U) /\ Cardinality(U) + (IF m = x THEN 1 ELSE 0) <= Cardinality(S)
  <2>1. CASE m = x
    BY <1>1, <1>2, <2>1, OneLess
  <2>2. CASE m # x
    <3>1. IsFiniteSet(U) /\ Cardinality(U) \in Nat /\ Cardinality(U) <= Cardinality(S)
      BY <1>1, <1>2, <2>2, NoMoreIsNoMore DEF NoMore
    <3> QED BY <1>1, <2>2, <3>1
  <2> QED BY <2>1, <2>2
<1>6. Cardinality(U) \in Nat
  BY <1>5, FS_CardinalityType
<1>7. Cardinality(U) + Gone(m)' <= asked'[m] /\ asked'[m] \in Nat
  BY <1>1, <1>3, <1>4, <1>5, <1>6
<1> QED BY <1>7 DEF Bound, U

\* A delivery, which uses up a claim.
LEMMA Used ==
    ASSUME SendInv, NEW m \in Mails, NEW x \in Mails, asked' = asked,
           delivered' = [delivered EXCEPT ![x] = @ + 1], NEW a,
           m = x => a \in Claims(rows, wire, parked, fate, m),
           Claims(rows', wire', parked', fate', m)
             \subseteq Claims(rows, wire, parked, fate, m) \ (IF m = x THEN {a} ELSE {})
    PROVE  Bound(m)'
<1> DEFINE S == Claims(rows, wire, parked, fate, m)
           U == Claims(rows', wire', parked', fate', m)
<1>1. /\ IsFiniteSet(S) /\ Cardinality(S) \in Nat /\ Gone(m) \in Nat /\ asked[m] \in Nat
      /\ Cardinality(S) + Gone(m) <= asked[m]
  BY Before
<1>2. U \subseteq S \ (IF m = x THEN {a} ELSE {}) /\ (m = x => a \in S)
  OBVIOUS
<1>3. Gone(m)' \in Nat /\ Gone(m)' <= Gone(m) + (IF m = x THEN 1 ELSE 0)
  BY DEF Gone, SendInv, TypeOK
<1> HIDE DEF S, U
<1>4. IsFiniteSet(U) /\ Cardinality(U) + (IF m = x THEN 1 ELSE 0) <= Cardinality(S)
  <2>1. CASE m = x
    BY <1>1, <1>2, <2>1, OneLess
  <2>2. CASE m # x
    <3>1. IsFiniteSet(U) /\ Cardinality(U) \in Nat /\ Cardinality(U) <= Cardinality(S)
      BY <1>1, <1>2, <2>2, NoMoreIsNoMore DEF NoMore
    <3> QED BY <1>1, <2>2, <3>1
  <2> QED BY <2>1, <2>2
<1>5. Cardinality(U) \in Nat
  BY <1>4, FS_CardinalityType
<1>6. Cardinality(U) + Gone(m)' <= asked'[m]
  BY <1>1, <1>3, <1>4, <1>5
<1> QED BY <1>6 DEF Bound, U

\* The end of a step that asks for nothing and sends nothing.
LEMMA TradedAll ==
    ASSUME SendInv, Rest', Ends', Shape(rows', nextId', wire', sends', parked'),
           delivered' = delivered, asked' = asked,
           \A m \in Mails : NoMore(Claims(rows', wire', parked', fate', m),
                                   Claims(rows, wire, parked, fate, m))
    PROVE  SendInv'
<1>1. TypeOK'
  BY TypeOfParts
<1>2. ASSUME NEW m \in Mails
      PROVE  Bound(m)'
  <2>1. NoMore(Claims(rows, wire, parked, fate, m), Claims(rows, wire, parked, fate, m))
    BY DEF NoMore
  <2> QED BY <2>1, Traded
<1> QED BY <1>1, <1>2 DEF SendInv, Conserved

\* A handler that ends in a drain.
LEMMA Drained ==
    ASSUME SendInv, Rest', NEW R, NEW busy \in 0..(nextId - 1), NEW w, NEW a \in BOOLEAN,
           NEW up \in BOOLEAN, Shape(R, nextId, w, sends, parked), Drain(R, busy, w, a, up),
           nextId' = nextId, fate' = fate, delivered' = delivered, asked' = asked,
           \A m \in Mails : NoMore(Claims(R, w, parked, fate, m),
                                   Claims(rows, wire, parked, fate, m))
    PROVE  SendInv'
<1>1. TypeOK
  BY DEF SendInv
<1>2. /\ Shape(rows', nextId, wire', sends', parked') /\ TailTyped
      /\ \A f, m : NoMore(Claims(rows', wire', parked', f, m), Claims(R, w, parked, f, m))
  BY <1>1, DrainKeeps
<1>3. TypeOK'
  <2>1. Ends'
    BY <1>2 DEF Ends, TailTyped
  <2> QED BY <1>2, <2>1, TypeOfParts
<1>4. ASSUME NEW m \in Mails
      PROVE  Bound(m)'
  <2>1. NoMore(Claims(rows', wire', parked', fate', m), Claims(R, w, parked, fate, m))
    BY <1>2
  <2> QED BY <2>1, Traded
<1> QED BY <1>2, <1>3, <1>4 DEF SendInv, Conserved

\* Only gpg's part of the claims depends on the fate of the message.
LEMMA SameClaims ==
    ASSUME NEW R, NEW W, NEW P, NEW f, NEW g, NEW m, f[m] = "signing" <=> g[m] = "signing"
    PROVE  Claims(R, W, P, f, m) = Claims(R, W, P, g, m)
BY DEF Claims

LEMMA OnlySame ==
    ASSUME NEW S, NEW T, T \subseteq S
    PROVE  NoMore(T, S)
BY DEF NoMore

\* A row is inserted.
LEMMA EnqueueKeeps ==
    ASSUME TypeOK, NEW R, NEW W, NEW s \in Nat, NEW s2 \in Nat, s <= s2, NEW P,
           Shape(R, nextId, W, s, P), NEW x \in Mails, NEW next \in Nexts, Enqueue(R, x, next)
    PROVE  /\ Shape(rows', nextId', W, s2, P)
           /\ nextId' \in {nextId, nextId + 1}
           /\ \E y \in {"accepted", "composing"} : fate' = [fate EXCEPT ![x] = y]
           /\ \A f, m : Claims(rows', W, P, f, m)
                 \subseteq Claims(R, W, P, f, m) \cup (IF m = x THEN {RowClaim(nextId)} ELSE {})
<1>1. CASE /\ rows' = R \cup {[id |-> nextId, mail |-> x, account |-> account,
                               state |-> "queued", next |-> next]}
           /\ nextId' = nextId + 1
           /\ fate' = [fate EXCEPT ![x] = "accepted"]
  <2> DEFINE new == [id |-> nextId, mail |-> x, account |-> account,
                     state |-> "queued", next |-> next]
  <2>1. new \in Row /\ new.id = nextId /\ new.mail = x
    BY DEF TypeOK, Row, Nexts
  <2>2. rows' = R \cup {new}
    BY <1>1
  <2> HIDE DEF new
  <2>3. nextId \in Nat /\ nextId' \in Nat /\ nextId' = nextId + 1
    BY <1>1 DEF TypeOK
  <2>4. \A r \in R : r.id \in Nat /\ r.id < nextId
    BY DEF Shape, Table, Row
  <2>5. Table(rows', nextId')
    <3>1. IsFiniteSet(rows')
      BY <2>2, FS_AddElement DEF Shape, Table
    <3>2. \A r, q \in rows' : r.id = q.id => r = q
      BY <2>1, <2>2, <2>3, <2>4 DEF Shape, Table
    <3> QED BY <3>1, <3>2, <2>1, <2>2, <2>3, <2>4 DEF Shape, Table
  <2>6. Calls(W, s2, nextId') /\ Waits(P, nextId')
    <3>1. \A r \in W : r.n \in Nat /\ r.row \in Nat /\ r.n < s /\ r.row < nextId
      BY DEF Shape, Calls, Request
    <3>2. \A p \in P : p.row \in Nat /\ p.row < nextId
      BY DEF Shape, Waits, Waiter
    <3>3. \A r \in W : r.n < s2 /\ r.row < nextId'
      BY <3>1, <2>3
    <3>4. \A p \in P : p.row < nextId'
      BY <3>2, <2>3
    <3> QED BY <3>3, <3>4 DEF Shape, Calls, Waits
  <2>7. Linked(rows', W, P)
    <3>1. (\A r \in W : r.row < nextId) /\ (\A p \in P : p.row < nextId)
      BY DEF Shape, Calls, Waits
    <3>2. (\A r \in W : r.row # nextId) /\ (\A p \in P : p.row # nextId)
      BY <3>1, <2>3
    <3> QED BY <3>2, <2>1, <2>2 DEF Shape, Linked
  <2>8. \A f, m : Claims(rows', W, P, f, m)
           \subseteq Claims(R, W, P, f, m) \cup (IF m = x THEN {RowClaim(nextId)} ELSE {})
    BY <2>1, <2>2 DEF Claims, QueuedOf
  <2> QED BY <1>1, <2>5, <2>6, <2>7, <2>8 DEF Shape
<1>2. CASE /\ rows' = R /\ nextId' = nextId
           /\ fate' = [fate EXCEPT ![x] = "composing"]
  <2>1. \A r \in W : r.n \in Nat /\ r.n < s
    BY DEF Shape, Calls, Request
  <2>2. \A r \in W : r.n < s2
    BY <2>1
  <2> QED BY <1>2, <2>2 DEF Shape, Calls
<1> QED BY <1>1, <1>2 DEF Enqueue

\* What a message that is not with gpg claims, it claims in any such fate.
LEMMA NotSigning ==
    ASSUME NEW R, NEW W, NEW P, NEW f, NEW g, NEW m, f[m] # "signing"
    PROVE  Claims(R, W, P, f, m) \subseteq Claims(R, W, P, g, m) \ {GpgClaim}
BY ClaimsDiffer DEF Claims

\* The message takes the claim of its window along.
LEMMA SendNowKeeps ==
    ASSUME TypeOK, Shape(rows, nextId, wire, sends, parked), NEW x \in Mails,
           NEW hold \in BOOLEAN, SendNow(x, hold)
    PROVE  /\ Shape(rows', nextId', wire', sends', parked')
           /\ nextId' \in {nextId, nextId + 1} /\ sends' \in Nat /\ alarm' \in BOOLEAN
           /\ undoable' \in 0..(nextId' - 1)
           /\ \E y \in {"sending", "accepted", "composing"} : fate' = [fate EXCEPT ![x] = y]
           /\ \E b : \A m \in Mails :
                 Claims(rows', wire', parked', fate', m)
                   \subseteq (Claims(rows, wire, parked, fate, m)
                                \ (IF m = x THEN {GpgClaim} ELSE {}))
                             \cup (IF m = x THEN {b} ELSE {})
<1>0. fate \in [Mails -> {"composing", "signing", "sending", "accepted", "cancelled"}]
      /\ nextId \in Nat \ {0}
  BY DEF TypeOK
<1>1. ASSUME NEW y \in {"sending", "accepted", "composing"}, fate' = [fate EXCEPT ![x] = y],
             NEW R, NEW W, NEW P, NEW m \in Mails
      PROVE  Claims(R, W, P, fate', m) \subseteq Claims(R, W, P, fate, m)
                                                   \ (IF m = x THEN {GpgClaim} ELSE {})
  <2>1. CASE m = x
    <3>1. fate'[m] # "signing"
      BY <1>0, <1>1, <2>1
    <3> QED BY <2>1, <3>1, NotSigning
  <2>2. CASE m # x
    <3>1. fate'[m] = fate[m]
      BY <1>0, <1>1, <2>2
    <3> QED BY <2>2, <3>1, SameClaims
  <2> QED BY <2>1, <2>2
<1>2. CASE connected /\ ~hold
  <2>1. /\ fate' = [fate EXCEPT ![x] = "sending"] /\ HandOver(0, x, wire)
        /\ rows' = rows /\ nextId' = nextId /\ undoable' = undoable /\ alarm' = alarm
    BY <1>2 DEF SendNow
  <2>2. 0 \in 0..(nextId - 1) /\ \A q \in rows : 0 = q.id => x = q.mail
    BY <1>0 DEF Shape, Table, Row
  <2>3. PICK b : \A f, m : Claims(rows, wire', parked', f, m)
                   \subseteq Claims(rows, wire, parked, f, m) \cup (IF m = x THEN {b} ELSE {})
    BY <2>1, <2>2, HandOverKeeps
  <2>4. Shape(rows, nextId, wire', sends', parked') /\ sends' \in Nat
    BY <2>1, <2>2, HandOverKeeps
  <2>5. \E c : \A m \in Mails :
           Claims(rows', wire', parked', fate', m)
             \subseteq (Claims(rows, wire, parked, fate, m)
                          \ (IF m = x THEN {GpgClaim} ELSE {})) \cup (IF m = x THEN {c} ELSE {})
    <3>1. WITNESS b
    <3>2. TAKE m \in Mails
    <3>3. Claims(rows', wire', parked', fate', m)
            \subseteq Claims(rows, wire, parked, fate', m) \cup (IF m = x THEN {b} ELSE {})
      BY <2>1, <2>3
    <3>4. Claims(rows, wire, parked, fate', m)
            \subseteq Claims(rows, wire, parked, fate, m) \ (IF m = x THEN {GpgClaim} ELSE {})
      BY <2>1, <1>1
    <3> QED BY <3>3, <3>4
  <2> QED BY <2>1, <2>4, <2>5 DEF TypeOK
<1>3. CASE ~(connected /\ ~hold)
  <2> DEFINE next == IF hold THEN "later" ELSE "zero"
  <2>1. /\ Enqueue(rows, x, next)
        /\ IF nextId' = nextId
           THEN undoable' = undoable /\ alarm' = alarm
           ELSE /\ undoable' = IF hold THEN nextId ELSE 0
                /\ alarm' = IF hold THEN Armed(rows') ELSE alarm
        /\ wire' = wire /\ sends' = sends /\ parked' = parked
    BY <1>3 DEF SendNow
  <2>2. next \in Nexts
    BY DEF Nexts
  <2> HIDE DEF next
  <2>3. sends \in Nat /\ sends <= sends
    BY DEF TypeOK
  <2>4. /\ Shape(rows', nextId', wire, sends, parked)
        /\ nextId' \in {nextId, nextId + 1}
        /\ \E y \in {"accepted", "composing"} : fate' = [fate EXCEPT ![x] = y]
        /\ \A f, m : Claims(rows', wire, parked, f, m)
             \subseteq Claims(rows, wire, parked, f, m)
                         \cup (IF m = x THEN {RowClaim(nextId)} ELSE {})
    BY <2>1, <2>2, <2>3, EnqueueKeeps
  <2>5. \E c : \A m \in Mails :
           Claims(rows', wire', parked', fate', m)
             \subseteq (Claims(rows, wire, parked, fate, m)
                          \ (IF m = x THEN {GpgClaim} ELSE {})) \cup (IF m = x THEN {c} ELSE {})
    <3>1. WITNESS RowClaim(nextId)
    <3>2. TAKE m \in Mails
    <3>3. Claims(rows', wire', parked', fate', m)
            \subseteq Claims(rows, wire, parked, fate', m)
                        \cup (IF m = x THEN {RowClaim(nextId)} ELSE {})
      BY <2>1, <2>4
    <3>4. Claims(rows, wire, parked, fate', m)
            \subseteq Claims(rows, wire, parked, fate, m) \ (IF m = x THEN {GpgClaim} ELSE {})
      BY <2>4, <1>1
    <3> QED BY <3>3, <3>4
  <2>6. undoable' \in 0..(nextId' - 1)
    BY <1>0, <2>1, <2>4 DEF TypeOK
  <2>7. alarm' \in BOOLEAN
    <3>1. Armed(rows') \in BOOLEAN
      BY DEF Armed
    <3> QED BY <2>1, <3>1 DEF TypeOK
  <2> QED BY <2>1, <2>3, <2>4, <2>5, <2>6, <2>7
<1> QED BY <1>2, <1>3

-----------------------------------------------------------------------------
(* The steps.                                                               *)

LEMMA SendKeeps ==
    ASSUME SendInv, NEW x \in Mails, Send(x)
    PROVE  SendInv'
<1>1. TypeOK /\ Shape(rows, nextId, wire, sends, parked)
  BY DEF SendInv
<1>2. /\ asked' = [asked EXCEPT ![x] = @ + 1] /\ delivered' = delivered
      /\ account' = account /\ connected' = connected /\ inFlight' = inFlight /\ filing' = filing
      /\ from' = [from EXCEPT ![x] = account] /\ budget' = [budget EXCEPT !["send"] = @ - 1]
      /\ budget["send"] > 0
  BY DEF Send
<1>3. /\ from' \in [Mails -> Accounts \cup {NoAccount}] /\ asked' \in [Mails -> Nat]
      /\ delivered' \in [Mails -> Nat] /\ account' \in Accounts /\ connected' \in BOOLEAN
  BY <1>1, <1>2 DEF TypeOK
<1>4. budget' \in [Events -> Nat]
  BY <1>1, <1>2 DEF TypeOK, Events
<1>5. ASSUME NEW b,
             \A m \in Mails : Claims(rows', wire', parked', fate', m)
                \subseteq Claims(rows, wire, parked, fate, m) \cup (IF m = x THEN {b} ELSE {})
      PROVE  Conserved'
  <2>1. ASSUME NEW m \in Mails
        PROVE  Bound(m)'
    <3>1. NoMore(Claims(rows', wire', parked', fate', m), Claims(rows', wire', parked', fate', m))
      BY OnlySame
    <3>2. Claims(rows', wire', parked', fate', m)
            \subseteq Claims(rows, wire, parked, fate, m) \cup (IF m = x THEN {b} ELSE {})
      BY <1>5
    <3> HIDE DEF Claims
    <3> QED BY <1>2, <3>1, <3>2, Granted
  <2> QED BY <2>1 DEF Conserved
<1>6. CASE x \in Signed
  <2>1. /\ fate' = [fate EXCEPT ![x] = "signing"]
        /\ rows' = rows /\ nextId' = nextId /\ undoable' = undoable /\ alarm' = alarm
        /\ parked' = parked /\ wire' = wire /\ sends' = sends
    BY <1>6 DEF Send
  <2>2. Rest' /\ Ends'
    BY <1>1, <1>2, <1>3, <1>4, <2>1 DEF Rest, Ends, TypeOK
  <2>3. \A m \in Mails : Claims(rows', wire', parked', fate', m)
           \subseteq Claims(rows, wire, parked, fate, m) \cup (IF m = x THEN {GpgClaim} ELSE {})
    BY <1>1, <2>1 DEF Claims, TypeOK
  <2>4. Shape(rows', nextId', wire', sends', parked')
    BY <1>1, <2>1
  <2> QED BY <1>5, <2>2, <2>3, <2>4, TypeOfParts DEF SendInv
<1>7. CASE x \notin Signed
  <2>1. PICK hold \in BOOLEAN : SendNow(x, hold)
    BY <1>7, OutboxAssumption DEF Send
  <2>2. /\ Shape(rows', nextId', wire', sends', parked')
        /\ nextId' \in {nextId, nextId + 1} /\ sends' \in Nat /\ alarm' \in BOOLEAN
        /\ undoable' \in 0..(nextId' - 1)
        /\ \E y \in {"sending", "accepted", "composing"} : fate' = [fate EXCEPT ![x] = y]
    BY <1>1, <2>1, SendNowKeeps
  <2>3. PICK b : \A m \in Mails :
                   Claims(rows', wire', parked', fate', m)
                     \subseteq (Claims(rows, wire, parked, fate, m)
                                  \ (IF m = x THEN {GpgClaim} ELSE {}))
                               \cup (IF m = x THEN {b} ELSE {})
    BY <1>1, <2>1, SendNowKeeps
  <2>4. Rest' /\ Ends'
    <3>1. /\ nextId' \in Nat \ {0} /\ 1..(nextId - 1) \subseteq 1..(nextId' - 1)
          /\ 0..(nextId - 1) \subseteq 0..(nextId' - 1)
      BY <1>1, <2>2, IdsStay
    <3>2. fate' \in [Mails -> {"composing", "signing", "sending", "accepted", "cancelled"}]
      BY <1>1, <2>2 DEF TypeOK
    <3>3. inFlight' \in 0..(nextId' - 1) /\ filing' \subseteq 1..(nextId' - 1)
      BY <1>1, <1>2, <3>1 DEF TypeOK
    <3>4. account' \in Accounts /\ connected' \in BOOLEAN /\ budget' \in [Events -> Nat]
          /\ from' \in [Mails -> Accounts \cup {NoAccount}]
          /\ asked' \in [Mails -> Nat] /\ delivered' \in [Mails -> Nat]
      BY <1>1, <1>2, <1>3, <1>4
    <3> QED BY <2>2, <3>1, <3>2, <3>3, <3>4 DEF Rest, Ends
  <2>5. Conserved'
    BY <1>5, <2>3
  <2> QED BY <2>2, <2>4, <2>5, TypeOfParts DEF SendInv
<1> QED BY <1>6, <1>7

LEMMA CryptoDoneKeeps ==
    ASSUME SendInv, NEW x \in Mails, CryptoDone(x)
    PROVE  SendInv'
<1>1. TypeOK /\ Shape(rows, nextId, wire, sends, parked)
  BY DEF SendInv
<1>2. /\ account' = account /\ connected' = connected /\ inFlight' = inFlight /\ filing' = filing
      /\ from' = from /\ asked' = asked /\ delivered' = delivered /\ budget' = budget
      /\ fate[x] = "signing"
  BY DEF CryptoDone
<1>3. CASE \E hold \in Holds : SendNow(x, hold)
  <2>1. PICK hold \in BOOLEAN : SendNow(x, hold)
    BY <1>3, OutboxAssumption
  <2>2. /\ Shape(rows', nextId', wire', sends', parked')
        /\ nextId' \in {nextId, nextId + 1} /\ sends' \in Nat /\ alarm' \in BOOLEAN
        /\ undoable' \in 0..(nextId' - 1)
        /\ \E y \in {"sending", "accepted", "composing"} : fate' = [fate EXCEPT ![x] = y]
    BY <1>1, <2>1, SendNowKeeps
  <2>3. PICK b : \A m \in Mails :
                   Claims(rows', wire', parked', fate', m)
                     \subseteq (Claims(rows, wire, parked, fate, m)
                                  \ (IF m = x THEN {GpgClaim} ELSE {}))
                               \cup (IF m = x THEN {b} ELSE {})
    BY <1>1, <2>1, SendNowKeeps
  <2>4. Rest' /\ Ends'
    <3>1. /\ nextId' \in Nat \ {0} /\ 1..(nextId - 1) \subseteq 1..(nextId' - 1)
          /\ 0..(nextId - 1) \subseteq 0..(nextId' - 1)
      BY <1>1, <2>2, IdsStay
    <3>2. fate' \in [Mails -> {"composing", "signing", "sending", "accepted", "cancelled"}]
      BY <1>1, <2>2 DEF TypeOK
    <3>3. inFlight' \in 0..(nextId' - 1) /\ filing' \subseteq 1..(nextId' - 1)
      BY <1>1, <1>2, <3>1 DEF TypeOK
    <3>4. account' \in Accounts /\ connected' \in BOOLEAN /\ budget' \in [Events -> Nat]
          /\ from' \in [Mails -> Accounts \cup {NoAccount}]
          /\ asked' \in [Mails -> Nat] /\ delivered' \in [Mails -> Nat]
      BY <1>1, <1>2 DEF TypeOK
    <3> QED BY <2>2, <3>1, <3>2, <3>3, <3>4 DEF Rest, Ends
  <2>5. ASSUME NEW m \in Mails
        PROVE  NoMore(Claims(rows', wire', parked', fate', m), Claims(rows, wire, parked, fate, m))
    <3>1. m = x => GpgClaim \in Claims(rows, wire, parked, fate, m)
      BY <1>2 DEF Claims
    <3>2. Claims(rows', wire', parked', fate', m)
            \subseteq (Claims(rows, wire, parked, fate, m) \ (IF m = x THEN {GpgClaim} ELSE {}))
                        \cup (IF m = x THEN {b} ELSE {})
      BY <2>3
    <3> QED BY <3>1, <3>2 DEF NoMore
  <2> QED BY <1>2, <2>2, <2>4, <2>5, TradedAll
<1>4. CASE /\ fate' = [fate EXCEPT ![x] = "composing"]
           /\ rows' = rows /\ nextId' = nextId /\ undoable' = undoable /\ alarm' = alarm
           /\ parked' = parked /\ wire' = wire /\ sends' = sends
  <2>1. Rest' /\ Ends'
    BY <1>1, <1>2, <1>4 DEF Rest, Ends, TypeOK
  <2>2. \A m \in Mails : Claims(rows', wire', parked', fate', m)
           \subseteq Claims(rows, wire, parked, fate, m)
    BY <1>1, <1>4 DEF Claims, TypeOK
  <2>3. Shape(rows', nextId', wire', sends', parked')
    BY <1>1, <1>4
  <2> QED BY <1>2, <2>1, <2>2, <2>3, TradedAll, OnlySame
<1> QED BY <1>3, <1>4 DEF CryptoDone

\* Rows may go or change, calls may go.
LEMMA ShapeStays ==
    ASSUME NEW R, NEW T, NEW W, NEW V, NEW n, NEW s, NEW P, Shape(R, n, W, s, P),
           Table(T, n), SameRows(T, R), V \subseteq W
    PROVE  Shape(T, n, V, s, P)
<1>1. Calls(V, s, n)
  BY FewerCalls DEF Shape
<1>2. Linked(T, V, P)
  BY DEF Shape, Linked, SameRows
<1> QED BY <1>1, <1>2 DEF Shape

LEMMA SubsetIsSame ==
    ASSUME NEW R, NEW n, NEW T, Table(R, n), T \subseteq R
    PROVE  Table(T, n) /\ SameRows(T, R)
BY FewerRows DEF SameRows

\* A step that leaves what Rest is about to itself, but for a session, an
\* event spent and a copy filed.
LEMMA RestStays ==
    ASSUME TypeOK, nextId' = nextId, account' \in Accounts, connected' \in BOOLEAN,
           filing' \subseteq 1..(nextId - 1), fate' = fate, from' = from, asked' = asked,
           delivered' = delivered, budget' \in [Events -> Nat]
    PROVE  Rest'
BY DEF TypeOK, Rest

LEMMA SpendTyped ==
    ASSUME TypeOK, NEW e \in Events, Spend(e)
    PROVE  budget' \in [Events -> Nat]
BY DEF TypeOK, Spend, Events

LEMMA RowSentKeeps ==
    ASSUME SendInv, NEW r \in wire, RowSent(r)
    PROVE  SendInv'
<1>1. TypeOK /\ Shape(rows, nextId, wire, sends, parked)
  BY DEF SendInv
<1>2. /\ account' = account /\ connected' = Up(r) /\ filing' = filing /\ from' = from
      /\ asked' = asked /\ delivered' = delivered /\ budget' = budget
      /\ nextId' = nextId /\ fate' = fate
      /\ Drain(Dropped(rows, r.row), 0, wire \ {r}, alarm, connected)
  BY DEF RowSent, Reply, Reported
<1>3. Rest'
  BY <1>1, <1>2, RestStays DEF Up, TypeOK
<1>4. Shape(Dropped(rows, r.row), nextId, wire \ {r}, sends, parked)
  <2>1. Dropped(rows, r.row) \subseteq rows
    BY DEF Dropped
  <2> QED BY <1>1, <2>1, SubsetIsSame, ShapeStays DEF Shape
<1>5. ASSUME NEW m \in Mails
      PROVE  NoMore(Claims(Dropped(rows, r.row), wire \ {r}, parked, fate, m),
                    Claims(rows, wire, parked, fate, m))
  <2>1. Claims(Dropped(rows, r.row), wire \ {r}, parked, fate, m)
          \subseteq Claims(rows, wire \ {r}, parked, fate, m)
    BY DroppedClaims
  <2>2. Claims(rows, wire \ {r}, parked, fate, m) \subseteq Claims(rows, wire, parked, fate, m)
    BY <1>1, EndedClaims DEF Shape
  <2> QED BY <2>1, <2>2, OnlySame
<1>6. 0 \in 0..(nextId - 1) /\ alarm \in BOOLEAN /\ connected \in BOOLEAN
  BY <1>1 DEF TypeOK
<1> QED BY <1>2, <1>3, <1>4, <1>5, <1>6, Drained

LEMMA RowThrottledKeeps ==
    ASSUME SendInv, NEW r \in wire, RowThrottled(r)
    PROVE  SendInv'
<1> DEFINE T == Updated(rows, r.row, "queued", "later")
<1>1. TypeOK /\ Shape(rows, nextId, wire, sends, parked)
  BY DEF SendInv
<1>2. /\ account' = account /\ connected' = Up(r) /\ filing' = filing /\ from' = from
      /\ asked' = asked /\ delivered' = delivered /\ budget' = budget
      /\ nextId' = nextId /\ fate' = fate
      /\ Drain(T, 0, wire \ {r}, alarm, connected)
      /\ r.answer \in Open
  BY DEF RowThrottled, Reply, Reported, Open
<1>3. Rest'
  BY <1>1, <1>2, RestStays DEF Up, TypeOK
<1>4. Table(T, nextId) /\ SameRows(T, rows)
  BY <1>1, UpdatedRows DEF Shape, States, Nexts
<1>5. Shape(T, nextId, wire \ {r}, sends, parked)
  BY <1>1, <1>4, ShapeStays
<1>6. \A f, m : Claims(T, wire \ {r}, parked, f, m)
         \subseteq Claims(rows, wire \ {r}, parked, f, m)
            \cup {RowClaim(i) : i \in {j \in {r.row} : \E q \in rows : q.id = j /\ q.mail = m}}
  <2> TAKE f, m
  <2>1. Table(rows, nextId) /\ "queued" \in States /\ "later" \in Nexts
    BY <1>1 DEF Shape, States, Nexts
  <2>2. Claims(T, wire \ {r}, parked, f, m)
          \subseteq Claims(rows, wire \ {r}, parked, f, m)
             \cup {RowClaim(i) : i \in {j \in {r.row} : "queued" = "queued"
                                          /\ \E q \in rows : q.id = j /\ q.mail = m}}
    BY <2>1, UpdatedClaims
  <2> QED BY <2>2
<1> HIDE DEF T
<1>7. \A f, m : NoMore(Claims(T, wire \ {r}, parked, f, m), Claims(rows, wire, parked, f, m))
  BY <1>1, <1>2, <1>6, BackInTheQueue
<1>8. 0 \in 0..(nextId - 1) /\ alarm \in BOOLEAN /\ connected \in BOOLEAN
  BY <1>1 DEF TypeOK
<1> QED BY <1>2, <1>3, <1>5, <1>7, <1>8, Drained

LEMMA RowRejectedKeeps ==
    ASSUME SendInv, NEW r \in wire, RowRejected(r)
    PROVE  SendInv'
<1> DEFINE T == Updated(rows, r.row, "failed", "zero")
<1>1. TypeOK /\ Shape(rows, nextId, wire, sends, parked)
  BY DEF SendInv
<1>2. /\ account' = account /\ connected' = Up(r) /\ filing' = filing /\ from' = from
      /\ asked' = asked /\ delivered' = delivered /\ budget' = budget
      /\ nextId' = nextId /\ fate' = fate
      /\ Drain(T, 0, wire \ {r}, alarm, connected)
  BY DEF RowRejected, Reply, Reported
<1>3. Rest'
  BY <1>1, <1>2, RestStays DEF Up, TypeOK
<1>4. Table(T, nextId) /\ SameRows(T, rows)
  BY <1>1, UpdatedRows DEF Shape, States, Nexts
<1>5. Shape(T, nextId, wire \ {r}, sends, parked)
  BY <1>1, <1>4, ShapeStays
<1>6. ASSUME NEW m \in Mails
      PROVE  NoMore(Claims(T, wire \ {r}, parked, fate, m), Claims(rows, wire, parked, fate, m))
  <2>1. Claims(T, wire \ {r}, parked, fate, m) \subseteq Claims(rows, wire \ {r}, parked, fate, m)
    BY <1>1, UpdatedClaims DEF Shape, States, Nexts
  <2>2. Claims(rows, wire \ {r}, parked, fate, m) \subseteq Claims(rows, wire, parked, fate, m)
    BY <1>1, EndedClaims DEF Shape
  <2> QED BY <2>1, <2>2, OnlySame
<1> HIDE DEF T
<1>7. 0 \in 0..(nextId - 1) /\ alarm \in BOOLEAN /\ connected \in BOOLEAN
  BY <1>1 DEF TypeOK
<1> QED BY <1>2, <1>3, <1>5, <1>6, <1>7, Drained

\* A call ends without a drain: what changed of the table is T.
LEMMA EndedKeeps ==
    ASSUME SendInv, NEW r \in wire, Rest', inFlight' \in 0..(nextId - 1), nextId' = nextId,
           undoable' = undoable, alarm' = alarm, parked' = parked, sends' = sends,
           wire' = wire \ {r}, rows' = rows, asked' = asked, delivered' = delivered,
           \A m \in Mails : fate'[m] = "signing" => fate[m] = "signing"
    PROVE  SendInv'
<1>1. TypeOK /\ Shape(rows, nextId, wire, sends, parked)
  BY DEF SendInv
<1>2. Ends'
  BY <1>1 DEF TypeOK, Ends
<1>3. Shape(rows', nextId', wire', sends', parked')
  BY <1>1, FewerCalls DEF Shape, Linked
<1>4. ASSUME NEW m \in Mails
      PROVE  NoMore(Claims(rows', wire', parked', fate', m), Claims(rows, wire, parked, fate, m))
  <2>1. Claims(rows, wire \ {r}, parked, fate, m) \subseteq Claims(rows, wire, parked, fate, m)
    BY <1>1, EndedClaims DEF Shape
  <2>2. Claims(rows, wire \ {r}, parked, fate', m) \subseteq Claims(rows, wire \ {r}, parked, fate, m)
    BY DEF Claims
  <2> QED BY <2>1, <2>2, OnlySame
<1> QED BY <1>2, <1>3, <1>4, TradedAll

LEMMA ReplyStaleKeeps ==
    ASSUME SendInv, NEW r \in wire, ReplyStale(r)
    PROVE  SendInv'
<1>1. TypeOK
  BY DEF SendInv
<1>2. /\ account' = account /\ connected' = Up(r) /\ filing' = filing /\ from' = from
      /\ asked' = asked /\ delivered' = delivered /\ budget' = budget /\ wire' = wire \ {r}
      /\ rows' = rows /\ nextId' = nextId /\ inFlight' = inFlight /\ undoable' = undoable
      /\ alarm' = alarm /\ parked' = parked /\ sends' = sends /\ fate' = fate
  BY DEF ReplyStale, Reported
<1>3. Rest'
  BY <1>1, <1>2, RestStays DEF Up, TypeOK
<1>4. inFlight' \in 0..(nextId - 1)
  BY <1>1, <1>2 DEF TypeOK
<1> QED BY <1>2, <1>3, <1>4, EndedKeeps

LEMMA RowFiledKeeps ==
    ASSUME SendInv, NEW r \in wire, RowFiled(r)
    PROVE  SendInv'
<1>1. TypeOK /\ Shape(rows, nextId, wire, sends, parked)
  BY DEF SendInv
<1>2. /\ account' = account /\ connected' = connected /\ filing' = filing \cup {r.row}
      /\ from' = from /\ asked' = asked /\ delivered' = delivered /\ budget' = budget
      /\ wire' = wire \ {r} /\ rows' = rows /\ nextId' = nextId /\ inFlight' = 0
      /\ undoable' = undoable /\ alarm' = alarm /\ parked' = parked /\ sends' = sends
      /\ fate' = fate /\ r.row # 0
  BY DEF RowFiled, user
<1>3. filing' \subseteq 1..(nextId - 1) /\ inFlight' \in 0..(nextId - 1)
  <2>1. r.row \in Nat /\ r.row < nextId /\ nextId \in Nat \ {0}
    BY <1>1 DEF Shape, Calls, Request, TypeOK
  <2>2. r.row \in 1..(nextId - 1) /\ 0 \in 0..(nextId - 1)
    BY <2>1, <1>2
  <2> QED BY <1>1, <1>2, <2>2 DEF TypeOK
<1>4. Rest'
  BY <1>1, <1>2, <1>3, RestStays DEF TypeOK
<1> QED BY <1>2, <1>3, <1>4, EndedKeeps

LEMMA WindowSentKeeps ==
    ASSUME SendInv, NEW r \in wire, WindowSent(r) \/ WindowRefused(r)
    PROVE  SendInv'
<1>1. TypeOK
  BY DEF SendInv
<1>2. PICK y \in {"accepted", "composing"} : fate' = [fate EXCEPT ![r.mail] = y]
  BY DEF WindowSent, WindowRefused
<1>3. /\ account' = account /\ connected' = Up(r) /\ filing' = filing /\ from' = from
      /\ asked' = asked /\ delivered' = delivered /\ budget' = budget /\ wire' = wire \ {r}
      /\ rows' = rows /\ nextId' = nextId /\ inFlight' = inFlight /\ undoable' = undoable
      /\ alarm' = alarm /\ parked' = parked /\ sends' = sends
  BY DEF WindowSent, WindowRefused, Reported
<1>4. Rest'
  BY <1>1, <1>2, <1>3 DEF Up, TypeOK, Rest
<1>5. \A m \in Mails : fate'[m] = "signing" => fate[m] = "signing"
  BY <1>1, <1>2 DEF TypeOK
<1>6. inFlight' \in 0..(nextId - 1)
  BY <1>1, <1>3 DEF TypeOK
<1> QED BY <1>3, <1>4, <1>5, <1>6, EndedKeeps

LEMMA RowDeferredKeeps ==
    ASSUME SendInv, NEW r \in wire, RowDeferred(r)
    PROVE  SendInv'
<1> DEFINE T == Deferred(rows, r.row)
<1>1. TypeOK /\ Shape(rows, nextId, wire, sends, parked)
  BY DEF SendInv
<1>2. /\ account' = account /\ connected' = Up(r) /\ filing' = filing /\ from' = from
      /\ asked' = asked /\ delivered' = delivered /\ budget' = budget /\ wire' = wire \ {r}
      /\ rows' = T /\ nextId' = nextId /\ inFlight' = 0 /\ undoable' = undoable
      /\ alarm' = alarm /\ parked' = parked /\ sends' = sends /\ fate' = fate
      /\ r.answer \in Open
  BY DEF RowDeferred, Reply, Reported, Open
<1>3. Rest'
  BY <1>1, <1>2, RestStays DEF Up, TypeOK
<1>4. Ends'
  BY <1>1, <1>2 DEF TypeOK, Ends
<1>5. Table(T, nextId) /\ SameRows(T, rows)
  BY <1>1, DeferredRows DEF Shape
<1>6. \A f, m : Claims(T, wire \ {r}, parked, f, m)
         \subseteq Claims(rows, wire \ {r}, parked, f, m)
            \cup {RowClaim(i) : i \in {j \in {r.row} : \E q \in rows : q.id = j /\ q.mail = m}}
  BY <1>1, DeferredClaims DEF Shape
<1> HIDE DEF T
<1>7. Shape(rows', nextId', wire', sends', parked')
  BY <1>1, <1>2, <1>5, ShapeStays
<1>8. \A f, m : NoMore(Claims(T, wire \ {r}, parked, f, m), Claims(rows, wire, parked, f, m))
  BY <1>1, <1>2, <1>6, BackInTheQueue
<1> QED BY <1>2, <1>3, <1>4, <1>7, <1>8, TradedAll

LEMMA WindowQueuedKeeps ==
    ASSUME SendInv, NEW r \in wire, WindowQueued(r)
    PROVE  SendInv'
<1> DEFINE next == IF r.answer = "Throttled" THEN "later" ELSE "zero"
<1>1. TypeOK /\ Shape(rows, nextId, wire, sends, parked)
  BY DEF SendInv
<1>2. /\ account' = account /\ connected' = Up(r) /\ filing' = filing /\ from' = from
      /\ asked' = asked /\ delivered' = delivered /\ budget' = budget /\ wire' = wire \ {r}
      /\ inFlight' = inFlight /\ undoable' = undoable /\ parked' = parked /\ sends' = sends
      /\ Enqueue(rows, r.mail, next) /\ r.answer \in Open
      /\ alarm' = IF nextId' = nextId THEN alarm ELSE Armed(rows')
  BY DEF WindowQueued, Reported, Open
<1>3. next \in Nexts /\ r.mail \in Mails /\ sends \in Nat /\ sends <= sends
  BY <1>1 DEF Nexts, TypeOK, Request
<1> HIDE DEF next
<1>4. Shape(rows, nextId, wire \ {r}, sends, parked)
  BY <1>1, FewerCalls DEF Shape, Linked
<1>5. /\ Shape(rows', nextId', wire \ {r}, sends, parked)
      /\ nextId' \in {nextId, nextId + 1}
      /\ \E y \in {"accepted", "composing"} : fate' = [fate EXCEPT ![r.mail] = y]
      /\ \A f, m : Claims(rows', wire \ {r}, parked, f, m)
            \subseteq Claims(rows, wire \ {r}, parked, f, m)
               \cup (IF m = r.mail THEN {RowClaim(nextId)} ELSE {})
  BY <1>1, <1>2, <1>3, <1>4, EnqueueKeeps
<1>6. Rest' /\ Ends'
  <2>1. /\ nextId' \in Nat \ {0} /\ 1..(nextId - 1) \subseteq 1..(nextId' - 1)
        /\ 0..(nextId - 1) \subseteq 0..(nextId' - 1)
    BY <1>1, <1>5, IdsStay
  <2>2. fate' \in [Mails -> {"composing", "signing", "sending", "accepted", "cancelled"}]
    BY <1>1, <1>5 DEF TypeOK
  <2>3. /\ inFlight' \in 0..(nextId' - 1) /\ undoable' \in 0..(nextId' - 1)
        /\ filing' \subseteq 1..(nextId' - 1)
    BY <1>1, <1>2, <2>1 DEF TypeOK
  <2>4. account' \in Accounts /\ connected' \in BOOLEAN /\ budget' \in [Events -> Nat]
        /\ from' \in [Mails -> Accounts \cup {NoAccount}]
        /\ asked' \in [Mails -> Nat] /\ delivered' \in [Mails -> Nat]
    BY <1>1, <1>2 DEF TypeOK, Up
  <2>5. alarm' \in BOOLEAN
    <3>1. Armed(rows') \in BOOLEAN
      BY DEF Armed
    <3> QED BY <1>1, <1>2, <3>1 DEF TypeOK
  <2> QED BY <1>2, <1>3, <2>1, <2>2, <2>3, <2>4, <2>5 DEF Rest, Ends
<1>7. ASSUME NEW m \in Mails
      PROVE  NoMore(Claims(rows', wire', parked', fate', m), Claims(rows, wire, parked, fate, m))
  <2>1. fate'[m] = "signing" => fate[m] = "signing"
    BY <1>1, <1>5 DEF TypeOK
  <2>2. Claims(rows', wire', parked', fate', m) \subseteq Claims(rows', wire \ {r}, parked, fate, m)
    BY <1>2, <2>1 DEF Claims
  <2>3. Claims(rows', wire \ {r}, parked, fate, m)
          \subseteq Claims(rows, wire \ {r}, parked, fate, m)
             \cup (IF m = r.mail THEN {RowClaim(nextId)} ELSE {})
    BY <1>5
  <2>4. /\ Claims(rows, wire \ {r}, parked, fate, m) \subseteq Claims(rows, wire, parked, fate, m)
        /\ r.mail = m => /\ CallClaim(r.n) \notin Claims(rows, wire \ {r}, parked, fate, m)
                         /\ CallClaim(r.n) \in Claims(rows, wire, parked, fate, m)
    BY <1>1, <1>2, EndedClaims DEF Shape
  <2>5. CASE m = r.mail
    <3>1. Claims(rows', wire', parked', fate', m)
            \subseteq (Claims(rows, wire, parked, fate, m) \ {CallClaim(r.n)})
                        \cup {RowClaim(nextId)}
      BY <2>2, <2>3, <2>4, <2>5
    <3> QED BY <2>4, <2>5, <3>1 DEF NoMore
  <2>6. CASE m # r.mail
    BY <2>2, <2>3, <2>4, <2>6, OnlySame
  <2> QED BY <2>5, <2>6
<1>8. Shape(rows', nextId', wire', sends', parked')
  BY <1>2, <1>5
<1> QED BY <1>2, <1>6, <1>7, <1>8, TradedAll

LEMMA FinishKeeps ==
    ASSUME SendInv, NEW r \in wire, Finish(r)
    PROVE  SendInv'
BY ReplyStaleKeeps, RowSentKeeps, RowFiledKeeps, RowDeferredKeeps, RowThrottledKeeps,
   RowRejectedKeeps, WindowSentKeeps, WindowQueuedKeeps DEF Finish

\* The server's answer to r: e.
LEMMA AnswerShape ==
    ASSUME Shape(rows, nextId, wire, sends, parked), NEW r \in wire, r.answer = "awaited",
           NEW e \in {"None", "Auth", "Connection", "Throttled", "Protocol"}, Answer(r, e)
    PROVE  /\ Shape(rows, nextId, wire', sends, parked)
           /\ \A f, m : /\ Claims(rows, wire', parked, f, m)
                             \subseteq Claims(rows, wire, parked, f, m)
                        /\ m = r.mail => CallClaim(r.n) \in Claims(rows, wire, parked, f, m)
                        /\ m = r.mail /\ e \notin Open =>
                              CallClaim(r.n) \notin Claims(rows, wire', parked, f, m)
<1> DEFINE new == [r EXCEPT !.answer = e]
<1>1. /\ new \in Request /\ new.n = r.n /\ new.row = r.row /\ new.mail = r.mail
      /\ new.answer = e
  BY DEF Shape, Calls, Request
<1>2. wire' = (wire \ {r}) \cup {new}
  BY DEF Answer
<1> HIDE DEF new
<1>3. IsFiniteSet(wire')
  <2>1. IsFiniteSet(wire \ {r})
    BY FS_Subset DEF Shape, Calls
  <2> QED BY <1>2, <2>1, FS_AddElement
<1>4. Calls(wire', sends, nextId) /\ Linked(rows, wire', parked)
  BY <1>1, <1>2, <1>3 DEF Shape, Calls, Linked
<1>5. ASSUME NEW f, NEW m
      PROVE  /\ Claims(rows, wire', parked, f, m) \subseteq Claims(rows, wire, parked, f, m)
             /\ m = r.mail => CallClaim(r.n) \in Claims(rows, wire, parked, f, m)
             /\ m = r.mail /\ e \notin Open =>
                   CallClaim(r.n) \notin Claims(rows, wire', parked, f, m)
  <2>1. m = r.mail => r \in CallsOf(wire, m)
    BY DEF CallsOf, Open
  <2>2. \A q \in CallsOf(wire', m) : \E p \in CallsOf(wire, m) : p.n = q.n
    BY <1>1, <1>2, <2>1 DEF CallsOf
  <2>3. m = r.mail /\ e \notin Open => \A q \in CallsOf(wire', m) : q.n # r.n
    BY <1>1, <1>2 DEF CallsOf, Shape, Calls
  <2>4. Claims(rows, wire', parked, f, m) \subseteq Claims(rows, wire, parked, f, m)
    BY <2>2 DEF Claims
  <2>5. m = r.mail => CallClaim(r.n) \in Claims(rows, wire, parked, f, m)
    BY <2>1 DEF Claims
  <2>6. m = r.mail /\ e \notin Open => CallClaim(r.n) \notin Claims(rows, wire', parked, f, m)
    BY <2>3, ClaimsDiffer DEF Claims
  <2> QED BY <2>4, <2>5, <2>6
<1> QED BY <1>4, <1>5 DEF Shape

LEMMA ServerAnswersKeeps ==
    ASSUME SendInv, NEW r \in wire, ServerAnswers(r)
    PROVE  SendInv'
<1>1. TypeOK /\ Shape(rows, nextId, wire, sends, parked)
  BY DEF SendInv
<1>2. /\ rows' = rows /\ nextId' = nextId /\ sends' = sends /\ filing' = filing
      /\ account' = account /\ connected' = connected /\ inFlight' = inFlight
      /\ undoable' = undoable /\ alarm' = alarm /\ parked' = parked
      /\ fate' = fate /\ from' = from /\ asked' = asked
      /\ r.answer = "awaited"
  BY DEF ServerAnswers, memory, user
<1>3. budget' \in [Events -> Nat]
  <2>1. CASE budget' = budget
    BY <1>1, <2>1 DEF TypeOK
  <2>2. CASE \E e \in Events : Spend(e)
    BY <1>1, <2>2, SpendTyped
  <2> QED BY <2>1, <2>2 DEF ServerAnswers, ServerAccepts, ServerRefuses, LoginRefused,
                             SessionGone, ServerThrottles, SendBroken, DialFails, Events, Faults
<1>4. r.mail \in Mails
  BY <1>1 DEF TypeOK, Request
<1>5. Ends'
  BY <1>1, <1>2 DEF TypeOK, Ends
<1>6. \/ delivered' = delivered /\ \E e \in Open \cup {"Protocol"} : Answer(r, e)
      \/ delivered' = delivered /\ wire' = wire \ {r}
      \/ Deliver(r.mail) /\ \E e \in {"None", "Protocol"} : Answer(r, e)
      \/ Deliver(r.mail) /\ Proto = "jmap" /\ Answer(r, "Connection")
  BY OutboxAssumption DEF ServerAnswers, ServerAccepts, ServerRefuses, LoginRefused, SessionGone,
                           ServerThrottles, SendBroken, DialFails, Open
<1>7. Rest'
  BY <1>1, <1>2, <1>3, <1>6 DEF TypeOK, Rest, Deliver
<1>8. CASE delivered' = delivered /\ wire' = wire \ {r}
  BY <1>1, <1>2, <1>7, <1>8, EndedKeeps DEF TypeOK
<1>9. CASE delivered' = delivered /\ \E e \in Open \cup {"Protocol"} : Answer(r, e)
  <2>1. PICK e \in {"None", "Auth", "Connection", "Throttled", "Protocol", "awaited"} : Answer(r, e)
    BY <1>9 DEF Open
  <2>2. CASE e = "awaited"
    <3>1. wire' = wire
      <4>1. [r EXCEPT !.answer = "awaited"] = r
        BY <1>1, <1>2 DEF Shape, Calls, Request
      <4> QED BY <2>1, <2>2, <4>1 DEF Answer
    <3> QED BY <1>1, <1>2, <1>5, <1>7, <1>9, <3>1, TradedAll, OnlySame
  <2>3. CASE e # "awaited"
    BY <1>1, <1>2, <1>5, <1>7, <1>9, <2>1, <2>3, AnswerShape, TradedAll, OnlySame
  <2> QED BY <2>2, <2>3
<1>10. CASE Deliver(r.mail) /\ \E e \in {"None", "Protocol"} : Answer(r, e)
  <2>1. PICK e \in {"None", "Protocol"} : Answer(r, e)
    BY <1>10
  <2>2. e \in {"None", "Auth", "Connection", "Throttled", "Protocol"} /\ e \notin Open
    BY DEF Open
  <2>3. /\ Shape(rows, nextId, wire', sends, parked)
        /\ \A f, m : /\ Claims(rows, wire', parked, f, m)
                          \subseteq Claims(rows, wire, parked, f, m)
                     /\ m = r.mail => CallClaim(r.n) \in Claims(rows, wire, parked, f, m)
                     /\ m = r.mail => CallClaim(r.n) \notin Claims(rows, wire', parked, f, m)
    BY <1>1, <1>2, <2>1, <2>2, AnswerShape
  <2>4. Shape(rows', nextId', wire', sends', parked')
    BY <1>2, <2>3
  <2>5. ASSUME NEW m \in Mails
        PROVE  Bound(m)'
    <3>1. Claims(rows', wire', parked', fate', m)
            \subseteq Claims(rows, wire, parked, fate, m)
                        \ (IF m = r.mail THEN {CallClaim(r.n)} ELSE {})
      BY <1>2, <2>3
    <3>2. m = r.mail => CallClaim(r.n) \in Claims(rows, wire, parked, fate, m)
      BY <2>3
    <3>3. asked' = asked /\ delivered' = [delivered EXCEPT ![r.mail] = @ + 1]
      BY <1>2, <1>10 DEF Deliver
    <3> QED BY <1>4, <3>1, <3>2, <3>3, Used
  <2> QED BY <1>5, <1>7, <2>4, <2>5, TypeOfParts DEF SendInv, Conserved
<1>11. CASE Deliver(r.mail) /\ Proto = "jmap" /\ Answer(r, "Connection")
  <2>1. /\ Shape(rows, nextId, wire', sends, parked)
        /\ \A f, m : Claims(rows, wire', parked, f, m) \subseteq Claims(rows, wire, parked, f, m)
    BY <1>1, <1>2, <1>11, AnswerShape
  <2>2. Shape(rows', nextId', wire', sends', parked')
    BY <1>2, <2>1
  <2>3. ASSUME NEW m \in Mails
        PROVE  Bound(m)'
    <3> DEFINE S == Claims(rows, wire, parked, fate, m)
               U == Claims(rows', wire', parked', fate', m)
    <3>1. NoMore(U, S)
      BY <1>2, <2>1, OnlySame
    <3>2. /\ IsFiniteSet(S) /\ Cardinality(S) \in Nat /\ asked[m] \in Nat
          /\ Gone(m) \in Nat /\ Cardinality(S) + Gone(m) <= asked[m]
      BY Before
    <3>3. Gone(m)' = 0 /\ asked'[m] = asked[m]
      BY <1>2, <1>11 DEF Gone
    <3> HIDE DEF S, U
    <3>4. Cardinality(U) \in Nat /\ Cardinality(U) <= Cardinality(S)
      BY <3>1, <3>2, NoMoreIsNoMore
    <3>5. Cardinality(U) + Gone(m)' <= asked'[m]
      BY <3>2, <3>3, <3>4
    <3> QED BY <3>5 DEF Bound, U
  <2> QED BY <1>5, <1>7, <2>2, <2>3, TypeOfParts DEF SendInv, Conserved
<1> QED BY <1>6, <1>8, <1>9, <1>10, <1>11

LEMMA CopyFiledKeeps ==
    ASSUME SendInv, NEW id \in filing, CopyFiled(id)
    PROVE  SendInv'
<1> DEFINE T == Dropped(rows, id)
<1>1. TypeOK /\ Shape(rows, nextId, wire, sends, parked)
  BY DEF SendInv
<1>2. /\ account' = account /\ connected' = connected /\ filing' = filing \ {id}
      /\ from' = from /\ asked' = asked /\ delivered' = delivered /\ budget' = budget
      /\ nextId' = nextId /\ fate' = fate
      /\ Drain(T, inFlight, wire, alarm, connected)
  BY DEF CopyFiled, user
<1>3. Rest'
  BY <1>1, <1>2, RestStays DEF TypeOK
<1>4. Shape(T, nextId, wire, sends, parked)
  <2>1. T \subseteq rows
    BY DEF Dropped
  <2> QED BY <1>1, <2>1, SubsetIsSame, ShapeStays DEF Shape
<1>5. ASSUME NEW m \in Mails
      PROVE  NoMore(Claims(T, wire, parked, fate, m), Claims(rows, wire, parked, fate, m))
  BY DroppedClaims, OnlySame
<1> HIDE DEF T
<1>6. inFlight \in 0..(nextId - 1) /\ alarm \in BOOLEAN /\ connected \in BOOLEAN
  BY <1>1 DEF TypeOK
<1> QED BY <1>2, <1>3, <1>4, <1>5, <1>6, Drained

LEMMA ConnectKeeps ==
    ASSUME SendInv, Connect
    PROVE  SendInv'
<1>1. TypeOK /\ Shape(rows, nextId, wire, sends, parked)
  BY DEF SendInv
<1>2. /\ account' = account /\ connected' = TRUE /\ filing' = filing
      /\ from' = from /\ asked' = asked /\ delivered' = delivered /\ budget' = budget
      /\ nextId' = nextId /\ fate' = fate /\ Drain(rows, inFlight, wire, alarm, TRUE)
  BY DEF Connect, user
<1>3. Rest'
  BY <1>1, <1>2, RestStays DEF TypeOK
<1>4. ASSUME NEW m \in Mails
      PROVE  NoMore(Claims(rows, wire, parked, fate, m), Claims(rows, wire, parked, fate, m))
  BY OnlySame
<1>5. inFlight \in 0..(nextId - 1) /\ alarm \in BOOLEAN /\ TRUE \in BOOLEAN
  BY <1>1 DEF TypeOK
<1> QED BY <1>1, <1>2, <1>3, <1>4, <1>5, Drained

LEMMA TimerFiresKeeps ==
    ASSUME SendInv, TimerFires
    PROVE  SendInv'
<1>1. TypeOK /\ Shape(rows, nextId, wire, sends, parked)
  BY DEF SendInv
<1>2. /\ account' = account /\ connected' = connected /\ filing' = filing
      /\ from' = from /\ asked' = asked /\ delivered' = delivered /\ budget' = budget
      /\ nextId' = nextId /\ fate' = fate /\ Drain(rows, inFlight, wire, FALSE, connected)
  BY DEF TimerFires, user
<1>3. Rest'
  BY <1>1, <1>2, RestStays DEF TypeOK
<1>4. ASSUME NEW m \in Mails
      PROVE  NoMore(Claims(rows, wire, parked, fate, m), Claims(rows, wire, parked, fate, m))
  BY OnlySame
<1>5. inFlight \in 0..(nextId - 1) /\ FALSE \in BOOLEAN /\ connected \in BOOLEAN
  BY <1>1 DEF TypeOK
<1> QED BY <1>1, <1>2, <1>3, <1>4, <1>5, Drained

LEMMA ConnectionLostKeeps ==
    ASSUME SendInv, ConnectionLost
    PROVE  SendInv'
<1>1. TypeOK /\ Shape(rows, nextId, wire, sends, parked)
  BY DEF SendInv
<1>2. /\ account' = account /\ connected' = FALSE /\ filing' = filing /\ fate' = fate
      /\ from' = from /\ asked' = asked /\ delivered' = delivered /\ nextId' = nextId
      /\ rows' = rows /\ inFlight' = inFlight /\ undoable' = undoable /\ alarm' = alarm
      /\ parked' = parked /\ wire' = wire /\ sends' = sends /\ Spend("drop")
  BY DEF ConnectionLost, user
<1>3. Rest'
  BY <1>1, <1>2, RestStays, SpendTyped DEF TypeOK, Events, Faults
<1>4. Ends'
  BY <1>1, <1>2 DEF TypeOK, Ends
<1> QED BY <1>1, <1>2, <1>3, <1>4, TradedAll, OnlySame

LEMMA SwitchKeeps ==
    ASSUME SendInv, NEW to \in Accounts, Switch(to)
    PROVE  SendInv'
<1> DEFINE T == Updated(rows, inFlight, "failed", "zero")
<1>1. TypeOK /\ Shape(rows, nextId, wire, sends, parked)
  BY DEF SendInv
<1>2. /\ account' = to /\ connected' = FALSE /\ filing' = filing /\ fate' = fate
      /\ from' = from /\ asked' = asked /\ delivered' = delivered /\ nextId' = nextId
      /\ rows' = T /\ inFlight' = 0 /\ undoable' = 0 /\ alarm' = FALSE
      /\ parked' = parked /\ wire' = wire /\ sends' = sends /\ Spend("switch")
  BY DEF Switch, user
<1>3. Rest'
  BY <1>1, <1>2, RestStays, SpendTyped DEF TypeOK, Events, Faults
<1>4. Ends'
  <2>1. 0 \in 0..(nextId' - 1)
    BY <1>1, <1>2 DEF TypeOK
  <2>2. sends' \in Nat
    BY <1>1, <1>2 DEF TypeOK
  <2> QED BY <1>2, <2>1, <2>2 DEF Ends
<1>5. Table(T, nextId) /\ SameRows(T, rows)
  BY <1>1, UpdatedRows DEF Shape, States, Nexts
<1>6. \A m : Claims(T, wire, parked, fate, m) \subseteq Claims(rows, wire, parked, fate, m)
  BY <1>1, UpdatedClaims DEF Shape, States, Nexts
<1> HIDE DEF T
<1>7. Shape(rows', nextId', wire', sends', parked')
  BY <1>1, <1>2, <1>5, ShapeStays
<1> QED BY <1>2, <1>3, <1>4, <1>6, <1>7, TradedAll, OnlySame

LEMMA RestartKeeps ==
    ASSUME SendInv, Restart
    PROVE  SendInv'
<1>1. TypeOK /\ Shape(rows, nextId, wire, sends, parked)
  BY DEF SendInv
<1>2. /\ account' = account /\ connected' = FALSE /\ filing' = {} /\ nextId' = nextId
      /\ fate' = [m \in Mails |-> IF fate[m] \in {"signing", "sending"} THEN "composing"
                                  ELSE fate[m]]
      /\ from' = from /\ asked' = asked /\ delivered' = delivered
      /\ rows' = Recovered(rows) /\ inFlight' = 0 /\ undoable' = 0 /\ alarm' = FALSE
      /\ parked' = {} /\ wire' = {} /\ sends' = sends /\ Spend("restart")
  BY DEF Restart
<1>3. budget' \in [Events -> Nat]
  BY <1>1, <1>2, SpendTyped DEF Events, Faults
<1>4. fate' \in [Mails -> {"composing", "signing", "sending", "accepted", "cancelled"}]
      /\ \A m \in Mails : fate'[m] # "signing"
  BY <1>1, <1>2 DEF TypeOK
<1>5. Rest' /\ Ends'
  <2>1. /\ 0 \in 0..(nextId' - 1) /\ sends' \in Nat /\ nextId' \in Nat \ {0}
        /\ filing' \subseteq 1..(nextId' - 1)
    BY <1>1, <1>2 DEF TypeOK
  <2>2. /\ account' \in Accounts /\ from' \in [Mails -> Accounts \cup {NoAccount}]
        /\ asked' \in [Mails -> Nat] /\ delivered' \in [Mails -> Nat]
    BY <1>1, <1>2 DEF TypeOK
  <2> QED BY <1>2, <1>3, <1>4, <2>1, <2>2 DEF Rest, Ends
<1>6. Shape(rows', nextId', wire', sends', parked')
  <2>1. Table(rows', nextId')
    BY <1>1, <1>2, RecoveredRows DEF Shape
  <2>2. Calls(wire', sends', nextId') /\ Waits(parked', nextId') /\ Linked(rows', wire', parked')
    BY <1>2, FS_EmptySet DEF Calls, Waits, Linked
  <2> QED BY <2>1, <2>2 DEF Shape
<1>7. ASSUME NEW m \in Mails
      PROVE  NoMore(Claims(rows', wire', parked', fate', m), Claims(rows, wire, parked, fate, m))
  <2>1. QueuedOf(rows', m) \subseteq QueuedOf(rows, m)
    BY <1>1, <1>2, RecoveredClaims DEF Shape
  <2>2. CallsOf(wire', m) = {} /\ WaitersOf(parked', m) = {}
    BY <1>2 DEF CallsOf, WaitersOf
  <2>3. Claims(rows', wire', parked', fate', m) \subseteq Claims(rows, wire, parked, fate, m)
    BY <1>4, <2>1, <2>2 DEF Claims
  <2> QED BY <2>3, OnlySame
<1> QED BY <1>2, <1>5, <1>6, <1>7, TradedAll

LEMMA HoldPassesKeeps ==
    ASSUME SendInv, NEW r \in rows, HoldPasses(r)
    PROVE  SendInv'
<1> DEFINE T == Updated(rows, r.id, r.state, "passed")
<1>1. TypeOK /\ Shape(rows, nextId, wire, sends, parked)
  BY DEF SendInv
<1>2. /\ account' = account /\ connected' = connected /\ filing' = filing /\ fate' = fate
      /\ from' = from /\ asked' = asked /\ delivered' = delivered /\ nextId' = nextId
      /\ rows' = T /\ inFlight' = inFlight /\ undoable' = undoable /\ alarm' = alarm
      /\ parked' = parked /\ wire' = wire /\ sends' = sends /\ budget' = budget
  BY DEF HoldPasses, memory, user
<1>3. Rest'
  BY <1>1, <1>2, RestStays DEF TypeOK
<1>4. Ends'
  BY <1>1, <1>2 DEF TypeOK, Ends
<1>5. Table(rows, nextId) /\ r.state \in States /\ "passed" \in Nexts
  BY <1>1 DEF Shape, Table, Row, States, Nexts
<1>6. Table(T, nextId) /\ SameRows(T, rows)
  BY <1>5, UpdatedRows
<1>7. ASSUME NEW m
      PROVE  Claims(T, wire, parked, fate, m) \subseteq Claims(rows, wire, parked, fate, m)
  <2>1. Claims(T, wire, parked, fate, m)
          \subseteq Claims(rows, wire, parked, fate, m)
             \cup {RowClaim(i) : i \in {j \in {r.id} : r.state = "queued"
                                          /\ \E q \in rows : q.id = j /\ q.mail = m}}
    BY <1>5, UpdatedClaims
  <2>2. ASSUME r.state = "queued", NEW q \in rows, q.id = r.id, q.mail = m
        PROVE  RowClaim(r.id) \in Claims(rows, wire, parked, fate, m)
    <3>1. q = r
      BY <1>5, <2>2 DEF Table
    <3> QED BY <2>2, <3>1 DEF Claims, QueuedOf
  <2> QED BY <2>1, <2>2
<1> HIDE DEF T
<1>8. Shape(rows', nextId', wire', sends', parked')
  BY <1>1, <1>2, <1>6, ShapeStays
<1> QED BY <1>2, <1>3, <1>4, <1>7, <1>8, TradedAll, OnlySame

\* A row of the list loses its claim: it is dropped or failed.
LEMMA TakenBackKeeps ==
    ASSUME SendInv, NEW r \in rows, TakenBack(r), NEW T, Table(T, nextId), SameRows(T, rows),
           \A f, m : Claims(T, wire, parked, f, m) \subseteq Claims(rows, wire, parked, f, m),
           \A f, m : RowClaim(r.id) \notin Claims(T, wire, parked, f, m),
           rows' = T, wire' = wire, parked' = parked, sends' = sends, nextId' = nextId,
           delivered' = delivered, from' = from, budget' = budget, filing' = filing,
           account' = account, connected' = connected, inFlight' = inFlight, alarm' = alarm,
           undoable' \in {0, undoable},
           \/ fate' = fate
           \/ \E y \in {"composing", "cancelled"} : fate' = [fate EXCEPT ![r.mail] = y]
    PROVE  SendInv'
<1>1. TypeOK /\ Shape(rows, nextId, wire, sends, parked)
  BY DEF SendInv
<1>2. r.mail \in Mails
  BY <1>1 DEF TypeOK, Row
<1>3. fate' \in [Mails -> {"composing", "signing", "sending", "accepted", "cancelled"}]
  BY <1>1 DEF TypeOK
<1>4. \A m \in Mails : fate'[m] = "signing" => fate[m] = "signing"
  BY <1>1 DEF TypeOK
<1>5. Shape(rows', nextId', wire', sends', parked')
  BY <1>1, ShapeStays
<1>6. \A m \in Mails : Claims(rows', wire', parked', fate', m)
                         \subseteq Claims(rows, wire, parked, fate, m) \ {RowClaim(r.id)}
  <2> TAKE m \in Mails
  <2>1. Claims(T, wire, parked, fate', m) \subseteq Claims(T, wire, parked, fate, m)
    BY <1>4 DEF Claims
  <2>2. /\ Claims(T, wire, parked, fate, m) \subseteq Claims(rows, wire, parked, fate, m)
        /\ RowClaim(r.id) \notin Claims(T, wire, parked, fate, m)
    OBVIOUS
  <2> QED BY <2>1, <2>2
<1>7. Ends'
  <2>1. 0 \in 0..(nextId - 1)
    BY <1>1 DEF TypeOK
  <2>2. undoable' \in 0..(nextId' - 1)
    BY <1>1, <2>1 DEF TypeOK
  <2> QED BY <1>1, <2>2 DEF TypeOK, Ends
<1>8. ASSUME asked' \in [Mails -> Nat]
      PROVE  Rest'
  BY <1>1, <1>3, <1>8 DEF TypeOK, Rest
<1>9. CASE r.state # "queued"
  <2>1. asked' = asked
    BY <1>9 DEF TakenBack
  <2>2. asked' \in [Mails -> Nat]
    BY <1>1, <2>1 DEF TypeOK
  <2>3. \A m \in Mails : NoMore(Claims(rows', wire', parked', fate', m),
                                Claims(rows, wire, parked, fate, m))
    BY <1>6, OnlySame
  <2> QED BY <1>5, <1>7, <1>8, <2>1, <2>2, <2>3, TradedAll
<1>10. CASE r.state = "queued"
  <2>1. asked' = [asked EXCEPT ![r.mail] = @ - 1]
    BY <1>10 DEF TakenBack
  <2>2. ASSUME NEW m \in Mails
        PROVE  Bound(m)' /\ asked'[m] \in Nat
    <3>1. m = r.mail => RowClaim(r.id) \in Claims(rows, wire, parked, fate, m)
      BY <1>10 DEF Claims, QueuedOf
    <3>2. Claims(rows', wire', parked', fate', m)
            \subseteq Claims(rows, wire, parked, fate, m)
                        \ (IF m = r.mail THEN {RowClaim(r.id)} ELSE {})
      BY <1>6
    <3> QED BY <1>2, <2>1, <3>1, <3>2, Returned
  <2>3. asked' \in [Mails -> Nat]
    <3>1. asked \in [Mails -> Nat]
      BY <1>1 DEF TypeOK
    <3> QED BY <2>1, <2>2, <3>1
  <2> QED BY <1>5, <1>7, <1>8, <2>2, <2>3, TypeOfParts DEF SendInv, Conserved
<1> QED BY <1>9, <1>10

\* A row that is failed has no claim any more.
LEMMA FailedRow ==
    ASSUME NEW R, NEW n, Table(R, n), NEW id
    PROVE  /\ Table(Updated(R, id, "failed", "zero"), n)
           /\ SameRows(Updated(R, id, "failed", "zero"), R)
           /\ \A W, P, f, m :
                 /\ Claims(Updated(R, id, "failed", "zero"), W, P, f, m) \subseteq Claims(R, W, P, f, m)
                 /\ RowClaim(id) \notin Claims(Updated(R, id, "failed", "zero"), W, P, f, m)
<1> DEFINE T == Updated(R, id, "failed", "zero")
<1>1. Table(T, n) /\ SameRows(T, R)
  BY UpdatedRows DEF States, Nexts
<1>2. \A q \in T : q.state = "queued" => q.id # id
  <2> TAKE q \in T
  <2>1. PICK r \in R : q = IF r.id = id THEN [r EXCEPT !.state = "failed", !.next = "zero"] ELSE r
    BY DEF Updated
  <2>2. r \in Row
    BY DEF Table
  <2> QED BY <2>1, <2>2 DEF Row
<1>3. ASSUME NEW W, NEW P, NEW f, NEW m
      PROVE  /\ Claims(T, W, P, f, m) \subseteq Claims(R, W, P, f, m)
             /\ RowClaim(id) \notin Claims(T, W, P, f, m)
  <2>1. Claims(T, W, P, f, m) \subseteq Claims(R, W, P, f, m)
    BY UpdatedClaims DEF States, Nexts
  <2>2. \A q \in QueuedOf(T, m) : q.id # id
    BY <1>2 DEF QueuedOf
  <2>3. RowClaim(id) \notin Claims(T, W, P, f, m)
    BY <2>2, ClaimsDiffer DEF Claims
  <2> QED BY <2>1, <2>3
<1> QED BY <1>1, <1>3

LEMMA DroppedRow ==
    ASSUME NEW R, NEW n, Table(R, n), NEW id
    PROVE  /\ Table(Dropped(R, id), n) /\ SameRows(Dropped(R, id), R)
           /\ \A W, P, f, m :
                 /\ Claims(Dropped(R, id), W, P, f, m) \subseteq Claims(R, W, P, f, m)
                 /\ RowClaim(id) \notin Claims(Dropped(R, id), W, P, f, m)
<1>1. Dropped(R, id) \subseteq R
  BY DEF Dropped
<1> QED BY <1>1, SubsetIsSame, DroppedClaims

LEMMA CancelOrEditKeeps ==
    ASSUME SendInv, NEW r \in rows, CancelOrEdit(r)
    PROVE  SendInv'
<1>1. TypeOK /\ Table(rows, nextId)
  BY DEF SendInv, Shape
<1> DEFINE T == Dropped(rows, r.id)
<1>2. /\ rows' = T /\ wire' = wire /\ parked' = parked /\ sends' = sends /\ nextId' = nextId
      /\ delivered' = delivered /\ from' = from /\ budget' = budget /\ filing' = filing
      /\ account' = account /\ connected' = connected /\ inFlight' = inFlight
      /\ alarm' = alarm /\ undoable' = undoable /\ TakenBack(r)
      /\ \E y \in {"composing", "cancelled"} : fate' = [fate EXCEPT ![r.mail] = y]
  BY DEF CancelOrEdit, memory
<1>3. /\ Table(T, nextId) /\ SameRows(T, rows)
      /\ \A f, m : Claims(T, wire, parked, f, m) \subseteq Claims(rows, wire, parked, f, m)
      /\ \A f, m : RowClaim(r.id) \notin Claims(T, wire, parked, f, m)
  BY <1>1, DroppedRow
<1> HIDE DEF T
<1> QED BY <1>2, <1>3, TakenBackKeeps

LEMMA UndoKeeps ==
    ASSUME SendInv, Undo
    PROVE  SendInv'
<1>1. TypeOK /\ Shape(rows, nextId, wire, sends, parked)
  BY DEF SendInv
<1> DEFINE held == {r \in rows : r.id = undoable /\ r.state = "queued" /\ r.next = "later"}
<1>2. /\ wire' = wire /\ parked' = parked /\ sends' = sends /\ nextId' = nextId
      /\ delivered' = delivered /\ from' = from /\ budget' = budget /\ filing' = filing
      /\ account' = account /\ connected' = connected /\ inFlight' = inFlight
      /\ alarm' = alarm /\ undoable' = 0
  BY DEF Undo
<1>3. CASE rows' = rows /\ fate' = fate /\ asked' = asked
  <2>1. Rest' /\ Ends'
    <3>1. 0 \in 0..(nextId' - 1)
      BY <1>1, <1>2 DEF TypeOK
    <3> QED BY <1>1, <1>2, <1>3, <3>1 DEF TypeOK, Rest, Ends
  <2> QED BY <1>1, <1>2, <1>3, <2>1, TradedAll, OnlySame
<1>4. ASSUME NEW r \in rows, TakenBack(r), rows' = Dropped(rows, r.id),
             fate' = [fate EXCEPT ![r.mail] = "composing"]
      PROVE  SendInv'
  <2> DEFINE T == Dropped(rows, r.id)
  <2>1. /\ Table(T, nextId) /\ SameRows(T, rows)
        /\ \A f, m : Claims(T, wire, parked, f, m) \subseteq Claims(rows, wire, parked, f, m)
        /\ \A f, m : RowClaim(r.id) \notin Claims(T, wire, parked, f, m)
    BY <1>1, DroppedRow DEF Shape
  <2>2. rows' = T
    BY <1>4
  <2> HIDE DEF T
  <2> QED BY <1>2, <1>4, <2>1, <2>2, TakenBackKeeps
<1>5. ASSUME NEW r \in rows, TakenBack(r), rows' = Updated(rows, r.id, "failed", "zero"),
             fate' = fate
      PROVE  SendInv'
  <2> DEFINE T == Updated(rows, r.id, "failed", "zero")
  <2>1. /\ Table(T, nextId) /\ SameRows(T, rows)
        /\ \A f, m : Claims(T, wire, parked, f, m) \subseteq Claims(rows, wire, parked, f, m)
        /\ \A f, m : RowClaim(r.id) \notin Claims(T, wire, parked, f, m)
    BY <1>1, FailedRow DEF Shape
  <2>2. rows' = T
    BY <1>5
  <2> HIDE DEF T
  <2> QED BY <1>2, <1>5, <2>1, <2>2, TakenBackKeeps
<1>6. \/ rows' = rows /\ fate' = fate /\ asked' = asked
      \/ \E r \in rows : /\ TakenBack(r)
                         /\ \/ /\ rows' = Dropped(rows, r.id)
                               /\ fate' = [fate EXCEPT ![r.mail] = "composing"]
                            \/ rows' = Updated(rows, r.id, "failed", "zero") /\ fate' = fate
  BY DEF Undo
<1> QED BY <1>3, <1>4, <1>5, <1>6

LEMMA RetryKeeps ==
    ASSUME SendInv, NEW r \in rows, Retry(r)
    PROVE  SendInv'
<1> DEFINE T == Updated(rows, r.id, "queued", "zero")
<1>1. TypeOK /\ Shape(rows, nextId, wire, sends, parked)
  BY DEF SendInv
<1>2. /\ account' = account /\ connected' = connected /\ filing' = filing /\ fate' = fate
      /\ from' = from /\ delivered' = delivered /\ nextId' = nextId
      /\ asked' = [asked EXCEPT ![r.mail] = @ + 1] /\ Spend("retry")
      /\ Drain(T, inFlight, wire, alarm, connected)
  BY DEF Retry
<1>3. r.mail \in Mails /\ asked' \in [Mails -> Nat]
  BY <1>1, <1>2 DEF TypeOK, Row
<1>4. Rest'
  <2>1. budget' \in [Events -> Nat]
    BY <1>1, <1>2, SpendTyped DEF Events
  <2> QED BY <1>1, <1>2, <1>3, <2>1 DEF TypeOK, Rest
<1>5. Table(rows, nextId) /\ "queued" \in States /\ "zero" \in Nexts
  BY <1>1 DEF Shape, States, Nexts
<1>6. Table(T, nextId) /\ SameRows(T, rows)
  BY <1>5, UpdatedRows
<1>7. ASSUME NEW m \in Mails
      PROVE  Claims(T, wire, parked, fate, m)
               \subseteq Claims(rows, wire, parked, fate, m)
                           \cup (IF m = r.mail THEN {RowClaim(r.id)} ELSE {})
  <2>1. Claims(T, wire, parked, fate, m)
          \subseteq Claims(rows, wire, parked, fate, m)
             \cup {RowClaim(i) : i \in {j \in {r.id} : "queued" = "queued"
                                          /\ \E q \in rows : q.id = j /\ q.mail = m}}
    BY <1>5, UpdatedClaims
  <2>2. \A q \in rows : q.id = r.id /\ q.mail = m => m = r.mail
    BY <1>5 DEF Table
  <2> QED BY <2>1, <2>2
<1> HIDE DEF T
<1>8. Shape(T, nextId, wire, sends, parked)
  BY <1>1, <1>6, ShapeStays
<1>9. inFlight \in 0..(nextId - 1) /\ alarm \in BOOLEAN /\ connected \in BOOLEAN
  BY <1>1 DEF TypeOK
<1>10. /\ Shape(rows', nextId, wire', sends', parked') /\ TailTyped
       /\ \A f, m : NoMore(Claims(rows', wire', parked', f, m), Claims(T, wire, parked, f, m))
  BY <1>1, <1>2, <1>8, <1>9, DrainKeeps
<1>11. Shape(rows', nextId', wire', sends', parked') /\ Ends'
  BY <1>2, <1>10 DEF TailTyped, Ends
<1>12. ASSUME NEW m \in Mails
       PROVE  Bound(m)'
  <2>1. NoMore(Claims(rows', wire', parked', fate', m), Claims(T, wire, parked, fate, m))
    BY <1>2, <1>10
  <2>2. Claims(T, wire, parked, fate, m)
          \subseteq Claims(rows, wire, parked, fate, m)
                      \cup (IF m = r.mail THEN {RowClaim(r.id)} ELSE {})
    BY <1>7
  <2> QED BY <1>2, <1>3, <2>1, <2>2, Granted
<1> QED BY <1>4, <1>11, <1>12, TypeOfParts DEF SendInv, Conserved

\* The calls that take the place of waiters, which all end.
LEMMA WaitersCall ==
    ASSUME TypeOK, Shape(rows, nextId, wire, sends, parked), NEW S, S \subseteq parked,
           wire' = wire \cup {[n |-> sends + p.row, row |-> p.row, mail |-> p.mail,
                               answer |-> "awaited"] : p \in S},
           sends' = sends + nextId
    PROVE  Shape(rows, nextId, wire', sends', {}) /\ sends' \in Nat
<1> DEFINE Call(p) == [n |-> sends + p.row, row |-> p.row, mail |-> p.mail, answer |-> "awaited"]
           N == {Call(p) : p \in S}
           g == [p \in S |-> Call(p)]
<1>1. wire' = wire \cup N /\ sends \in Nat /\ nextId \in Nat /\ nextId # 0
  BY DEF TypeOK
<1>2. \A p \in S : p \in Waiter /\ p.row \in Nat /\ p.row < nextId
  BY DEF Shape, Waits, Waiter
<1>3. \A p \in S : /\ Call(p) \in Request /\ Call(p).n = sends + p.row /\ Call(p).row = p.row
                   /\ Call(p).mail = p.mail
  BY <1>1, <1>2 DEF Waiter, Request
<1>4. IsFiniteSet(wire')
  <2>1. g \in Surjection(S, N)
    BY DEF Surjection
  <2>2. IsFiniteSet(S)
    BY FS_Subset DEF Shape, Waits
  <2>3. IsFiniteSet(N)
    BY <2>1, <2>2, FS_Surjection
  <2>4. IsFiniteSet(wire)
    BY DEF Shape, Calls
  <2> HIDE DEF N
  <2>5. IsFiniteSet(wire \cup N)
    BY <2>3, <2>4, FS_Union
  <2> QED BY <1>1, <2>5
<1> HIDE DEF Call, g
<1>5. \A r \in wire : r \in Request /\ r.n \in Nat /\ r.n < sends /\ r.row < nextId
  BY DEF Shape, Calls, Request
<1>6. \A r \in N : r \in Request /\ r.n \in Nat /\ r.n >= sends /\ r.n < sends' /\ r.row < nextId
  <2> TAKE r \in N
  <2>1. PICK p \in S : r = Call(p)
    OBVIOUS
  <2> QED BY <2>1, <1>1, <1>2, <1>3
<1>7. \A r, q \in N : r.n = q.n /\ r.mail = q.mail => r = q
  <2> TAKE r, q \in N
  <2> HAVE r.n = q.n /\ r.mail = q.mail
  <2>1. PICK p \in S : r = Call(p)
    OBVIOUS
  <2>2. PICK o \in S : q = Call(o)
    OBVIOUS
  <2>3. p.row = o.row /\ p.mail = o.mail
    BY <1>1, <1>2, <1>3, <2>1, <2>2
  <2>4. p = o
    BY <1>2, <2>3 DEF Waiter
  <2> QED BY <2>1, <2>2, <2>4
<1>8. \A r, q \in wire' : r.n = q.n /\ r.mail = q.mail => r = q
  <2>1. \A r \in wire, q \in N : r.n # q.n
    BY <1>1, <1>5, <1>6
  <2> HIDE DEF N
  <2> QED BY <1>1, <1>7, <2>1 DEF Shape, Calls
<1>9. \A r \in wire' : r \in Request /\ r.n < sends' /\ r.row < nextId
  <2>1. \A r \in wire : r.n < sends'
    BY <1>1, <1>5
  <2> HIDE DEF N
  <2> QED BY <1>1, <1>5, <1>6, <2>1
<1>10. Calls(wire', sends', nextId)
  BY <1>4, <1>8, <1>9 DEF Calls
<1>11. Linked(rows, wire', {})
  <2>1. ASSUME NEW r \in N, NEW q \in rows, r.row = q.id
        PROVE  r.mail = q.mail
    <3>1. PICK p \in S : r = Call(p)
      OBVIOUS
    <3> QED BY <1>3, <2>1, <3>1 DEF Shape, Linked
  <2> HIDE DEF N
  <2> QED BY <1>1, <2>1 DEF Shape, Linked
<1>12. Waits({}, nextId)
  BY FS_EmptySet DEF Waits
<1> QED BY <1>1, <1>10, <1>11, <1>12 DEF Shape

\* Waiters are traded for calls when their messages go out, and for rows when
\* they do not: the drain's puts its row back, the window's is enqueued.
LEMMA TokenAnsweredKeeps ==
    ASSUME SendInv, NEW ok \in BOOLEAN, TokenAnswered(ok)
    PROVE  SendInv'
<1> DEFINE row    == {p \in parked : p.row # 0 /\ p.row = inFlight}
           window == {p \in parked : p.row = 0}
           sent   == IF connected THEN window \cup (IF ok THEN row ELSE {}) ELSE {}
           left   == IF row \subseteq sent THEN rows ELSE Deferred(rows, inFlight)
           N      == {[n |-> sends + p.row, row |-> p.row, mail |-> p.mail,
                       answer |-> "awaited"] : p \in sent}
           OfRow(m)    == \E p \in row : p.mail = m
           OfWindow(m) == \E p \in window : p.mail = m
           b1 == IF row \subseteq sent THEN CallClaim(sends + inFlight) ELSE RowClaim(inFlight)
           b2 == IF window \subseteq sent THEN CallClaim(sends) ELSE RowClaim(nextId)
           C(m) == Claims(rows, wire, parked, fate, m)
           M(m) == IF OfRow(m) THEN (C(m) \ {WaitClaim(inFlight)}) \cup {b1} ELSE C(m)
           L(m) == IF OfWindow(m) THEN (M(m) \ {WaitClaim(0)}) \cup {b2} ELSE M(m)
<1>1. TypeOK /\ Shape(rows, nextId, wire, sends, parked)
  BY DEF SendInv
<1>2. /\ parked' = {} /\ wire' = wire \cup N /\ sends' = sends + nextId
      /\ inFlight' = IF row \subseteq sent THEN inFlight ELSE 0
      /\ account' = account /\ connected' = connected /\ undoable' = undoable
      /\ filing' = filing /\ from' = from /\ asked' = asked /\ delivered' = delivered
      /\ budget' = budget \/ Spend("auth")
  BY DEF TokenAnswered
<1>3. \/ window \subseteq sent /\ rows' = left /\ nextId' = nextId /\ fate' = fate
         /\ alarm' = alarm
      \/ \E p \in window : /\ ~(window \subseteq sent) /\ Enqueue(left, p.mail, "zero")
                           /\ alarm' = IF nextId' = nextId THEN alarm ELSE Armed(rows')
  BY DEF TokenAnswered
<1>4. sent \subseteq parked
  OBVIOUS
<1>5. Shape(rows, nextId, wire', sends', {}) /\ sends' \in Nat
  BY <1>1, <1>2, <1>4, WaitersCall
<1>6. Table(left, nextId) /\ SameRows(left, rows)
  <2>1. Table(rows, nextId)
    BY <1>1 DEF Shape
  <2>2. SameRows(rows, rows)
    BY DEF SameRows
  <2> QED BY <2>1, <2>2, DeferredRows
<1>7. Shape(left, nextId, wire', sends', {})
  BY <1>5, <1>6, ShapeStays
\* What the table's queued rows claim.
<1>8. ASSUME NEW m, NEW q \in QueuedOf(left, m)
      PROVE  RowClaim(q.id) \in C(m) \/ (OfRow(m) /\ RowClaim(q.id) = b1)
  <2>1. CASE row \subseteq sent
    BY <1>8, <2>1 DEF Claims
  <2>2. CASE ~(row \subseteq sent)
    <3>1. q \in Deferred(rows, inFlight)
      BY <1>8, <2>2 DEF QueuedOf
    <3>2. PICK r \in rows : q = IF r.id = inFlight THEN [r EXCEPT !.state = "queued"] ELSE r
      BY <3>1 DEF Deferred
    <3>3. r \in Row
      BY <1>1 DEF Shape, Table
    <3>4. CASE r.id # inFlight
      <4>1. r \in QueuedOf(rows, m)
        BY <1>8, <3>2, <3>4 DEF QueuedOf
      <4> QED BY <3>2, <3>4, <4>1 DEF Claims
    <3>5. CASE r.id = inFlight
      <4>1. q.id = inFlight /\ r.mail = m
        BY <1>8, <3>2, <3>3, <3>5 DEF Row, QueuedOf
      <4>2. PICK p \in row : p \notin sent
        BY <2>2
      <4>3. p.mail = m
        BY <1>1, <3>5, <4>1 DEF Shape, Linked
      <4> QED BY <2>2, <4>1, <4>3
    <3> QED BY <3>4, <3>5
  <2> QED BY <2>1, <2>2
\* What the calls claim.
<1>9. ASSUME NEW m, NEW c \in CallsOf(wire', m)
      PROVE  \/ CallClaim(c.n) \in C(m)
             \/ OfRow(m) /\ CallClaim(c.n) = b1
             \/ OfWindow(m) /\ CallClaim(c.n) = b2
  <2>1. CASE c \in wire
    BY <1>9, <2>1 DEF Claims, CallsOf
  <2>2. CASE c \in N
    <3>1. PICK p \in sent : c = [n |-> sends + p.row, row |-> p.row, mail |-> p.mail,
                                 answer |-> "awaited"]
      BY <2>2
    <3>2. p.mail = m /\ c.n = sends + p.row
      BY <1>9, <3>1 DEF CallsOf
    <3>3. CASE p \in window
      <4>1. p.row = 0 /\ window \subseteq sent
        BY <3>1, <3>3
      <4>2. c.n = sends
        BY <1>1, <3>2, <4>1 DEF TypeOK
      <4> QED BY <3>2, <3>3, <4>1, <4>2
    <3>4. CASE p \in row
      <4>1. p.row = inFlight /\ p.row # 0
        BY <3>4
      <4>2. row \subseteq sent
        BY <3>1, <4>1
      <4> QED BY <3>2, <3>4, <4>1, <4>2
    <3> QED BY <3>1, <3>3, <3>4
  <2> QED BY <1>2, <1>9, <2>1, <2>2 DEF CallsOf
<1>10. ASSUME NEW m
       PROVE  /\ NoMore(M(m), C(m)) /\ NoMore(L(m), M(m))
              /\ \A k : /\ (\A i : k # WaitClaim(i))
                        /\ \/ k \in C(m)
                           \/ OfRow(m) /\ k = b1
                           \/ OfWindow(m) /\ k = b2
                        => k \in L(m)
  <2>1. OfRow(m) => WaitClaim(inFlight) \in C(m) /\ inFlight # 0
    BY DEF Claims, WaitersOf
  <2>2. OfWindow(m) => WaitClaim(0) \in C(m)
    BY DEF Claims, WaitersOf
  <2>3. OfWindow(m) => WaitClaim(0) \in M(m)
    BY <2>1, <2>2, ClaimsDiffer
  <2> DEFINE c == C(m)
             x == OfRow(m)
             y == OfWindow(m)
             mm == IF x THEN (c \ {WaitClaim(inFlight)}) \cup {b1} ELSE c
             ll == IF y THEN (mm \ {WaitClaim(0)}) \cup {b2} ELSE mm
  <2>4. (x => WaitClaim(inFlight) \in c) /\ (y => WaitClaim(0) \in mm)
    BY <2>1, <2>3
  <2>5. b1 \in {CallClaim(sends + inFlight), RowClaim(inFlight)}
    OBVIOUS
  <2>6. \A i : b1 # WaitClaim(i)
    BY <2>5, ClaimsDiffer
  <2>7. M(m) = mm /\ L(m) = ll /\ C(m) = c /\ OfRow(m) = x /\ OfWindow(m) = y
    OBVIOUS
  <2> HIDE DEF c, x, y, b1, b2, C, M, L, OfRow, OfWindow, row, window, sent, left, N
  <2>8. NoMore(mm, c) /\ NoMore(ll, mm)
    BY <2>4 DEF NoMore
  <2>9. \A k : /\ (\A i : k # WaitClaim(i))
               /\ (k \in c \/ (x /\ k = b1) \/ (y /\ k = b2))
               => k \in ll
    BY <2>6
  <2> QED BY <2>7, <2>8, <2>9
<1>11. ASSUME NEW m \in Mails,
              fate'[m] = "signing" => fate[m] = "signing",
              \A q \in QueuedOf(rows', m) :
                 \/ RowClaim(q.id) \in C(m)
                 \/ OfRow(m) /\ RowClaim(q.id) = b1
                 \/ OfWindow(m) /\ RowClaim(q.id) = b2
       PROVE  Bound(m)'
  <2>1. WaitersOf(parked', m) = {}
    BY <1>2 DEF WaitersOf
  <2>2. ASSUME NEW k \in Claims(rows', wire', parked', fate', m)
        PROVE  k \in L(m)
    <3>1. \/ \E q \in QueuedOf(rows', m) : k = RowClaim(q.id)
          \/ \E q \in CallsOf(wire', m) : k = CallClaim(q.n)
          \/ fate'[m] = "signing" /\ k = GpgClaim
      BY <2>1, <2>2 DEF Claims
    <3>2. \A i : k # WaitClaim(i)
      BY <3>1, ClaimsDiffer
    <3>3. \/ k \in C(m)
          \/ OfRow(m) /\ k = b1
          \/ OfWindow(m) /\ k = b2
      <4>1. CASE \E q \in QueuedOf(rows', m) : k = RowClaim(q.id)
        BY <1>11, <4>1
      <4>2. CASE \E q \in CallsOf(wire', m) : k = CallClaim(q.n)
        BY <1>9, <4>2
      <4>3. CASE fate'[m] = "signing" /\ k = GpgClaim
        BY <1>11, <4>3 DEF Claims
      <4> QED BY <3>1, <4>1, <4>2, <4>3
    <3> HIDE DEF C, M, L, b1, b2, OfRow, OfWindow
    <3> QED BY <1>10, <3>2, <3>3
  <2>3. NoMore(M(m), Claims(rows, wire, parked, fate, m)) /\ NoMore(L(m), M(m))
    BY <1>10
  <2> HIDE DEF M, L, C, b1, b2, OfRow, OfWindow
  <2>4. Claims(rows', wire', parked', fate', m) \subseteq L(m)
    BY <2>2
  <2>5. NoMore(Claims(rows', wire', parked', fate', m), M(m))
    BY <2>3, <2>4 DEF NoMore
  <2> QED BY <1>2, <2>3, <2>5, Traded
<1>12. CASE window \subseteq sent /\ rows' = left /\ nextId' = nextId /\ fate' = fate
            /\ alarm' = alarm
  <2>1. Conserved'
    BY <1>8, <1>11, <1>12 DEF Conserved
  <2>2. Shape(rows', nextId', wire', sends', parked')
    BY <1>2, <1>7, <1>12
  <2>3. budget' \in [Events -> Nat]
    BY <1>1, <1>2, SpendTyped DEF TypeOK, Events, Faults
  <2>4. Rest'
    BY <1>1, <1>2, <1>12, <2>3, RestStays DEF TypeOK
  <2>5. Ends'
    <3>1. 0 \in 0..(nextId' - 1) /\ inFlight \in 0..(nextId' - 1)
      BY <1>1, <1>12 DEF TypeOK
    <3>2. inFlight' \in {0, inFlight} /\ undoable' = undoable /\ alarm' = alarm
      BY <1>2, <1>12
    <3> HIDE DEF row, window, sent, left, N
    <3> QED BY <1>1, <1>5, <1>12, <3>1, <3>2 DEF TypeOK, Ends
  <2> QED BY <2>1, <2>2, <2>4, <2>5, TypeOfParts DEF SendInv
<1>13. ASSUME NEW p \in window, ~(window \subseteq sent), Enqueue(left, p.mail, "zero"),
              alarm' = IF nextId' = nextId THEN alarm ELSE Armed(rows')
       PROVE  SendInv'
  <2>1. p.mail \in Mails /\ "zero" \in Nexts
    BY <1>1 DEF TypeOK, Waiter, Nexts
  <2>2. sends' <= sends'
    BY <1>5
  <2> HIDE DEF left
  <2>3. /\ Shape(rows', nextId', wire', sends', {})
        /\ nextId' \in {nextId, nextId + 1}
        /\ \E y \in {"accepted", "composing"} : fate' = [fate EXCEPT ![p.mail] = y]
        /\ \A f, m : Claims(rows', wire', {}, f, m)
              \subseteq Claims(left, wire', {}, f, m)
                 \cup (IF m = p.mail THEN {RowClaim(nextId)} ELSE {})
    BY ZenonT(60), <1>1, <1>5, <1>7, <1>13, <2>1, <2>2, EnqueueKeeps
  <2>4. \A m \in Mails : fate'[m] = "signing" => fate[m] = "signing"
    BY <1>1, <2>3 DEF TypeOK
  <2>5. ASSUME NEW m \in Mails, NEW q \in QueuedOf(rows', m)
        PROVE  \/ RowClaim(q.id) \in C(m)
               \/ OfRow(m) /\ RowClaim(q.id) = b1
               \/ OfWindow(m) /\ RowClaim(q.id) = b2
    <3>1. RowClaim(q.id) \in Claims(rows', wire', {}, fate', m)
      BY <2>5 DEF Claims
    <3>2. CASE m = p.mail /\ RowClaim(q.id) = RowClaim(nextId)
      BY <1>13, <3>2
    <3>3. CASE RowClaim(q.id) \in Claims(left, wire', {}, fate', m)
      <4>1. PICK r \in QueuedOf(left, m) : RowClaim(q.id) = RowClaim(r.id)
        BY <3>3, ClaimsDiffer DEF Claims, WaitersOf
      <4> QED BY <1>8, <4>1
    <3> QED BY <2>3, <3>1, <3>2, <3>3
  <2>6. Conserved'
    BY <1>11, <2>4, <2>5 DEF Conserved
  <2>7. budget' \in [Events -> Nat]
    BY <1>1, <1>2, SpendTyped DEF TypeOK, Events, Faults
  <2>8. /\ nextId' \in Nat \ {0} /\ 1..(nextId - 1) \subseteq 1..(nextId' - 1)
        /\ 0..(nextId - 1) \subseteq 0..(nextId' - 1)
    BY <1>1, <2>3, IdsStay
  <2>9. 0 \in 0..(nextId - 1) /\ inFlight' \in {0, inFlight}
    BY <1>1, <1>2 DEF TypeOK
  <2>10. Armed(rows') \in BOOLEAN
    BY DEF Armed
  <2>11. alarm' \in BOOLEAN
    BY <1>1, <1>13, <2>10 DEF TypeOK
  <2>12. inFlight' \in 0..(nextId' - 1) /\ undoable' \in 0..(nextId' - 1)
         /\ filing' \subseteq 1..(nextId' - 1)
    BY <1>1, <1>2, <2>8, <2>9 DEF TypeOK
  <2>13. fate' \in [Mails -> {"composing", "signing", "sending", "accepted", "cancelled"}]
    BY <1>1, <2>3 DEF TypeOK
  <2>14. /\ account' \in Accounts /\ connected' \in BOOLEAN
         /\ from' \in [Mails -> Accounts \cup {NoAccount}]
         /\ asked' \in [Mails -> Nat] /\ delivered' \in [Mails -> Nat]
    BY <1>1, <1>2 DEF TypeOK
  <2>15. Rest' /\ Ends'
    BY <1>5, <2>7, <2>8, <2>11, <2>12, <2>13, <2>14 DEF Rest, Ends
  <2> QED BY <1>2, <2>3, <2>6, <2>15, TypeOfParts DEF SendInv
<1> QED BY <1>3, <1>12, <1>13

-----------------------------------------------------------------------------
(* The theorems.                                                            *)

LEMMA StartConserved == Init => SendInv
<1> SUFFICES ASSUME Init
             PROVE  SendInv
  OBVIOUS
<1>1. Rest /\ Ends
  <2>1. /\ nextId \in Nat \ {0} /\ inFlight \in 0..(nextId - 1) /\ undoable \in 0..(nextId - 1)
        /\ filing \subseteq 1..(nextId - 1) /\ sends \in Nat
    BY DEF Init
  <2>2. /\ fate \in [Mails -> {"composing", "signing", "sending", "accepted", "cancelled"}]
        /\ from \in [Mails -> Accounts \cup {NoAccount}]
        /\ asked \in [Mails -> Nat] /\ delivered \in [Mails -> Nat]
    BY DEF Init
  <2>3. /\ account \in Accounts /\ connected \in BOOLEAN /\ alarm \in BOOLEAN
        /\ budget \in [Events -> Nat]
    BY OutboxAssumption DEF Init
  <2> QED BY <2>1, <2>2, <2>3 DEF Rest, Ends
<1>2. Shape(rows, nextId, wire, sends, parked)
  BY FS_EmptySet DEF Init, Shape, Table, Calls, Waits, Linked
<1>3. TypeOK
  BY <1>1, <1>2 DEF Rest, Ends, Shape, Table, Calls, Waits, TypeOK
<1>4. ASSUME NEW m \in Mails
      PROVE  Bound(m)
  <2>1. Claims(rows, wire, parked, fate, m) = {}
    BY DEF Init, Claims, QueuedOf, CallsOf, WaitersOf
  <2>2. Cardinality(Claims(rows, wire, parked, fate, m)) = 0
    BY <2>1, FS_EmptySet
  <2> QED BY <2>2 DEF Init, Bound, Gone
<1> QED BY <1>2, <1>3, <1>4 DEF SendInv, Conserved

LEMMA StepConserves == SendInv /\ [Next]_vars => SendInv'
<1> SUFFICES ASSUME SendInv, [Next]_vars
             PROVE  SendInv'
  OBVIOUS
<1>1. CASE UNCHANGED vars
  <2>1. /\ rows' = rows /\ nextId' = nextId /\ account' = account /\ connected' = connected
        /\ inFlight' = inFlight /\ undoable' = undoable /\ alarm' = alarm /\ parked' = parked
        /\ wire' = wire /\ sends' = sends /\ filing' = filing /\ fate' = fate
        /\ from' = from /\ asked' = asked /\ delivered' = delivered /\ budget' = budget
    BY <1>1 DEF vars, memory, user
  <2>2. Rest' /\ Ends' /\ Shape(rows', nextId', wire', sends', parked')
    BY <2>1 DEF SendInv, TypeOK, Rest, Ends
  <2> QED BY <2>1, <2>2, TradedAll, OnlySame
<1>2. CASE Next
  BY <1>2, SendKeeps, CryptoDoneKeeps, TokenAnsweredKeeps, ServerAnswersKeeps, FinishKeeps,
     CopyFiledKeeps, HoldPassesKeeps, CancelOrEditKeeps, RetryKeeps, SwitchKeeps, ConnectKeeps,
     ConnectionLostKeeps, RestartKeeps, TimerFiresKeeps, UndoKeeps DEF Next
<1> QED BY <1>1, <1>2

LEMMA AlwaysConserved == Spec => []SendInv
BY StartConserved, StepConserves, PTL DEF Spec

\* The outbox's variables keep their types: ids stay below what is handed out
\* next and name one row each, and the row in flight and the one that can be
\* undone are ids that were handed out.
THEOREM TypeCorrect == Spec => []TypeOK
<1>1. SendInv => TypeOK
  BY DEF SendInv
<1> QED BY <1>1, AlwaysConserved, PTL

\* Over SMTP no message goes out more often than the user asked for it to be
\* sent, whatever is retried, undone, cut off, switched away from or restarted.
THEOREM SentAsAskedOverSmtp ==
    ASSUME Proto = "imap"
    PROVE  Spec => []SentAsAsked
<1>1. SendInv => SentAsAsked
  <2> SUFFICES ASSUME SendInv, NEW m \in Mails
               PROVE  delivered[m] <= asked[m]
    BY DEF SentAsAsked
  <2>1. /\ Cardinality(Claims(rows, wire, parked, fate, m)) \in Nat
        /\ Gone(m) \in Nat /\ asked[m] \in Nat
        /\ Cardinality(Claims(rows, wire, parked, fate, m)) + Gone(m) <= asked[m]
    BY Before
  <2>2. Gone(m) = delivered[m]
    BY DEF Gone
  <2> QED BY <2>1, <2>2
<1> QED BY <1>1, AlwaysConserved, PTL

\* Over JMAP, whose lost answers are sent again: what is still queued, under
\* way or waiting for a message never exceeds what the user asked for.
THEOREM ClaimsAsAsked ==
    Spec => [](\A m \in Mails : Cardinality(Claims(rows, wire, parked, fate, m)) <= asked[m])
<1>1. SendInv => \A m \in Mails : Cardinality(Claims(rows, wire, parked, fate, m)) <= asked[m]
  <2> SUFFICES ASSUME SendInv, NEW m \in Mails
               PROVE  Cardinality(Claims(rows, wire, parked, fate, m)) <= asked[m]
    OBVIOUS
  <2> QED BY Before
<1> QED BY <1>1, AlwaysConserved, PTL

-----------------------------------------------------------------------------
(***************************************************************************)
(* Where a message is: with its window, in its one row, or gone.  From this *)
(* no pressed Send is lost, over SMTP and over IMAP the outbox implements  *)
(* Delivery, and over JMAP what is being sent is watched and answered.     *)
(***************************************************************************)

-----------------------------------------------------------------------------
(* Where a message is.                                                      *)

\* One row per message, of a message whose window let go of it.
Kept(R, f) ==
    /\ \A r, q \in R : r.mail = q.mail => r = q
    /\ \A r \in R : f[r.mail] = "accepted"

\* A window's call or its waiter is the only one, and the window is still open.
Windows(W, P, f) ==
    /\ \A r \in W : r.row = 0 => f[r.mail] = "sending"
    /\ \A p \in P : p.row = 0 => f[p.mail] = "sending"
    /\ \A r, q \in W : r.row = 0 /\ q.row = 0 => r = q
    /\ \A p, q \in P : p.row = 0 /\ q.row = 0 => p = q
    /\ \A r \in W, p \in P : r.row # 0 \/ p.row # 0

\* One window is open at a time.
Busy(m, f)   == f[m] \in {"signing", "sending"}
OneWindow(f) == \A m, x \in Mails : Busy(m, f) /\ Busy(x, f) => m = x

\* What is reported sent, and what a copy is filed of, has been sent.
Honest(R, W, F, d) ==
    /\ \A r \in W : r.answer = "None" => d[r.mail] > 0
    /\ \A r \in R : r.id \in F => d[r.mail] > 0

KeptInv ==
    /\ Kept(rows, fate)
    /\ Windows(wire, parked, fate)
    /\ OneWindow(fate)
    /\ Honest(rows, wire, filing, delivered)
    /\ NothingForgotten

-----------------------------------------------------------------------------
(* Rows written over are the same rows.                                     *)

SameTable(T, R) == SameRows(T, R) /\ SameRows(R, T)

\* T is R, but that the row id, if there is one, was put into state.
Written(q, r, id, state) ==
    /\ q.id = r.id /\ q.mail = r.mail /\ q.account = r.account
    /\ r.id = id => q.state = state
    /\ r.id # id => q = r
Writes(T, R, id, state) ==
    /\ \A q \in T : \E r \in R : Written(q, r, id, state)
    /\ \A r \in R : \E q \in T : Written(q, r, id, state)

LEMMA UpdatedWrites ==
    ASSUME NEW R, R \subseteq Row, NEW id, NEW state, NEW next
    PROVE  Writes(Updated(R, id, state, next), R, id, state)
<1> DEFINE New(r) == IF r.id = id THEN [r EXCEPT !.state = state, !.next = next] ELSE r
<1>1. Updated(R, id, state, next) = {New(r) : r \in R}
  BY DEF Updated
<1>2. \A r \in R : Written(New(r), r, id, state)
  BY DEF Written, Row
<1> HIDE DEF New
<1> QED BY <1>1, <1>2 DEF Writes

LEMMA SendingWrites ==
    ASSUME NEW R, R \subseteq Row, NEW id
    PROVE  Writes(Sending(R, id), R, id, "sending")
<1> DEFINE New(r) == IF r.id = id THEN [r EXCEPT !.state = "sending"] ELSE r
<1>1. Sending(R, id) = {New(r) : r \in R}
  BY DEF Sending
<1>2. \A r \in R : Written(New(r), r, id, "sending")
  BY DEF Written, Row
<1> HIDE DEF New
<1> QED BY <1>1, <1>2 DEF Writes

LEMMA DeferredWrites ==
    ASSUME NEW R, R \subseteq Row, NEW id
    PROVE  Writes(Deferred(R, id), R, id, "queued")
<1> DEFINE New(r) == IF r.id = id THEN [r EXCEPT !.state = "queued"] ELSE r
<1>1. Deferred(R, id) = {New(r) : r \in R}
  BY DEF Deferred
<1>2. \A r \in R : Written(New(r), r, id, "queued")
  BY DEF Written, Row
<1> HIDE DEF New
<1> QED BY <1>1, <1>2 DEF Writes

LEMMA WritesSame ==
    ASSUME NEW R, NEW T, NEW id, NEW state, Writes(T, R, id, state)
    PROVE  SameTable(T, R)
<1>1. \A q, r : Written(q, r, id, state) => q.id = r.id /\ q.mail = r.mail
  BY DEF Written
<1> QED BY <1>1 DEF Writes, SameTable, SameRows

\* A restart only fails rows of the open account that were being sent.
LEMMA RecoveredSame ==
    ASSUME NEW R, R \subseteq Row
    PROVE  /\ SameTable(Recovered(R), R)
           /\ \A q \in Recovered(R) : q.state = "sending" => q \in R /\ q.account # account
           /\ \A q \in Recovered(R) : q.state # "failed" => q \in R
<1> DEFINE New(r) == IF r.account = account /\ r.state = "sending"
                     THEN [r EXCEPT !.state = "failed"] ELSE r
<1>1. Recovered(R) = {New(r) : r \in R}
  BY DEF Recovered
<1>2. \A r \in R : /\ New(r).id = r.id /\ New(r).mail = r.mail
                   /\ New(r) = r \/ New(r).state = "failed"
                   /\ New(r) = r => r.account # account \/ r.state # "sending"
  BY DEF Row
<1> HIDE DEF New
<1>3. SameTable(Recovered(R), R)
  BY <1>1, <1>2 DEF SameTable, SameRows
<1> QED BY <1>1, <1>2, <1>3

LEMMA SameIsTransitive ==
    ASSUME NEW R, NEW T, NEW U, SameTable(U, T), SameTable(T, R)
    PROVE  SameTable(U, R)
BY DEF SameTable, SameRows

LEMMA SameAsItself ==
    ASSUME NEW R
    PROVE  SameTable(R, R)
BY DEF SameTable, SameRows

\* A call or a waiter made for a row, or for a window when row is 0.
LEMMA HandedOver ==
    ASSUME NEW row, NEW x, NEW W, HandOver(row, x, W)
    PROVE  /\ W \subseteq wire' /\ parked \subseteq parked'
           /\ \/ /\ parked' = parked
                 /\ \E r \in wire' : /\ wire' = W \cup {r}
                                     /\ r.row = row /\ r.mail = x /\ r.answer = "awaited"
              \/ /\ wire' = W
                 /\ \E p \in parked' : /\ parked' = parked \cup {p}
                                       /\ p.row = row /\ p.mail = x
<1>1. CASE /\ wire' = W \cup {[n |-> sends, row |-> row, mail |-> x, answer |-> "awaited"]}
           /\ parked' = parked
  <2> DEFINE call == [n |-> sends, row |-> row, mail |-> x, answer |-> "awaited"]
  <2>1. call.row = row /\ call.mail = x /\ call.answer = "awaited" /\ wire' = W \cup {call}
    BY <1>1
  <2> HIDE DEF call
  <2> QED BY <1>1, <2>1
<1>2. CASE /\ parked' = parked \cup {[row |-> row, mail |-> x]}
           /\ wire' = W
  <2> DEFINE wait == [row |-> row, mail |-> x]
  <2>1. wait.row = row /\ wait.mail = x /\ parked' = parked \cup {wait}
    BY <1>2
  <2> HIDE DEF wait
  <2> QED BY <1>2, <2>1
<1> QED BY <1>1, <1>2 DEF HandOver

\* What a drain picks: a row that was queued, of the open account.
Picks(R) ==
    \E msg \in R :
        /\ msg.account = account /\ msg.state = "queued"
        /\ rows' = Sending(R, msg.id)
        /\ inFlight' = msg.id
        /\ (\E r \in wire' : r.row = msg.id) \/ (\E p \in parked' : p.row = msg.id)

\* A drain only makes calls and waiters for rows, and writes rows over.
LEMMA DrainEffect ==
    ASSUME NEW R, R \subseteq Row, NEW busy, NEW w, NEW a, NEW up, Drain(R, busy, w, a, up)
    PROVE  /\ SameTable(rows', R)
           /\ w \subseteq wire' /\ \A r \in wire' : r.row = 0 \/ r.answer # "awaited" => r \in w
           /\ parked \subseteq parked' /\ \A p \in parked' : p.row = 0 => p \in parked
           /\ \/ rows' = R /\ inFlight' = busy
              \/ busy = 0 /\ Picks(R)
<1>1. CASE busy # 0 \/ ~up \/ Due(R) = {}
  <2>1. /\ rows' = R /\ inFlight' = busy /\ wire' = w /\ parked' = parked
    BY <1>1 DEF Drain
  <2> QED BY <2>1, SameAsItself
<1>2. CASE ~(busy # 0 \/ ~up \/ Due(R) = {})
  <2> DEFINE msg == First(Due(R))
  <2>1. busy = 0 /\ rows' = Sending(R, msg.id) /\ inFlight' = msg.id /\ HandOver(msg.id, msg.mail, w)
    BY <1>2 DEF Drain
  <2>2. msg \in R /\ msg.state = "queued" /\ msg.account = account
    <3>1. Due(R) \subseteq Row
      BY DEF Due, Queued
    <3>2. msg \in Due(R)
      BY <1>2, <3>1, FirstIsOne
    <3> QED BY <3>2 DEF Due, Queued
  <2> HIDE DEF msg
  <2>3. msg.id # 0
    BY <2>2 DEF Row
  <2>4. SameTable(rows', R)
    BY <2>1, SendingWrites, WritesSame
  <2>5. /\ w \subseteq wire' /\ parked \subseteq parked'
        /\ \/ parked' = parked /\ \E r \in wire' : wire' = w \cup {r} /\ r.row = msg.id
                                                  /\ r.answer = "awaited"
           \/ wire' = w /\ \E p \in parked' : parked' = parked \cup {p} /\ p.row = msg.id
    BY <2>1, HandedOver
  <2>6. Picks(R)
    BY <2>1, <2>2, <2>5 DEF Picks
  <2> QED BY <2>1, <2>3, <2>4, <2>5, <2>6
<1> QED BY <1>1, <1>2

-----------------------------------------------------------------------------
(* Keeping messages where they are.                                         *)

\* A step that leaves the fate of every message as it is.
LEMMA Stayed ==
    ASSUME SendInv, SendInv', KeptInv, fate' = fate, SameRows(rows', rows),
           \A r \in rows : (\E q \in rows' : q.mail = r.mail) \/ delivered'[r.mail] > 0,
           \A m \in Mails : delivered[m] > 0 => delivered'[m] > 0,
           Windows(wire', parked', fate'),
           Honest(rows', wire', filing', delivered')
    PROVE  KeptInv'
<1>1. \A r, q \in rows' : r.id = q.id => r = q
  BY DEF SendInv, Shape, Table
<1>2. Kept(rows', fate')
  BY <1>1 DEF KeptInv, Kept, SameRows
<1>3. OneWindow(fate')
  BY DEF KeptInv
<1>4. NothingForgotten'
  BY DEF KeptInv, NothingForgotten
<1> QED BY <1>2, <1>3, <1>4 DEF KeptInv

\* A step that leaves every window as it is.
LEMMA Carried ==
    ASSUME SendInv, SendInv', KeptInv, fate' = fate, SameRows(rows', rows),
           \A r \in rows : (\E q \in rows' : q.mail = r.mail) \/ delivered'[r.mail] > 0,
           \A q \in wire' : q.row = 0 => \E r \in wire : r.row = 0 /\ r.n = q.n /\ r.mail = q.mail,
           \A p \in parked' : p.row = 0 => p \in parked,
           \A m \in Mails : delivered[m] > 0 => delivered'[m] > 0,
           Honest(rows', wire', filing', delivered')
    PROVE  KeptInv'
<1>1. Windows(wire', parked', fate')
  <2>1. \A r, q \in wire' : r.n = q.n /\ r.mail = q.mail => r = q
    BY DEF SendInv, Shape, Calls
  <2>2. \A r, q \in wire' : r.row = 0 /\ q.row = 0 => r = q
    BY <2>1 DEF KeptInv, Windows
  <2>3. \A r \in wire' : r.row = 0 => fate'[r.mail] = "sending"
    BY DEF KeptInv, Windows
  <2>4. \A r \in wire', p \in parked' : r.row # 0 \/ p.row # 0
    BY DEF KeptInv, Windows
  <2> QED BY <2>2, <2>3, <2>4 DEF KeptInv, Windows
<1> QED BY <1>1, Stayed

\* A step that moves one message: to its window, to a row, or out.
LEMMA Moved ==
    ASSUME SendInv, SendInv', KeptInv, NEW x \in Mails, NEW y, fate' = [fate EXCEPT ![x] = y],
           \A q \in rows' : q.mail # x => \E r \in rows : r.id = q.id /\ r.mail = q.mail,
           \A r, q \in rows' : r.mail = x /\ q.mail = x => r = q,
           \A q \in rows' : q.mail = x => y = "accepted",
           \A r \in rows : r.mail # x =>
              (\E q \in rows' : q.mail = r.mail) \/ delivered'[r.mail] > 0,
           y = "accepted" => delivered'[x] > 0 \/ \E q \in rows' : q.mail = x,
           y \in {"signing", "sending"} => \A m \in Mails : m # x => ~Busy(m, fate),
           \A m \in Mails : delivered[m] > 0 => delivered'[m] > 0,
           Windows(wire', parked', fate'),
           Honest(rows', wire', filing', delivered')
    PROVE  KeptInv'
<1>1. \A r, q \in rows' : r.id = q.id => r = q
  BY DEF SendInv, Shape, Table
<1>2. /\ fate'[x] = y
      /\ \A m \in Mails : m # x => fate'[m] = fate[m]
      /\ \A q \in rows' : q.mail \in Mails
  BY DEF SendInv, TypeOK, Row
<1>3. Kept(rows', fate')
  <2>1. \A r, q \in rows' : r.mail = q.mail => r = q
    BY <1>1 DEF KeptInv, Kept
  <2>2. \A q \in rows' : fate'[q.mail] = "accepted"
    BY <1>2 DEF KeptInv, Kept
  <2> QED BY <2>1, <2>2 DEF Kept
<1>4. OneWindow(fate')
  BY <1>2 DEF KeptInv, OneWindow, Busy
<1>5. NothingForgotten'
  BY <1>2 DEF KeptInv, NothingForgotten
<1> QED BY <1>3, <1>4, <1>5 DEF KeptInv

\* A handler that ends in a drain of the table R, from which only rows of
\* messages that were sent have gone.
LEMMA CarriedByDrain ==
    ASSUME SendInv, SendInv', KeptInv, NEW R, R \subseteq Row, SameRows(R, rows),
           NEW busy, NEW w, w \subseteq wire, NEW a, NEW up, Drain(R, busy, w, a, up),
           \A r \in rows : (\E q \in R : q.mail = r.mail) \/ delivered[r.mail] > 0,
           fate' = fate, delivered' = delivered, filing' \subseteq filing
    PROVE  KeptInv'
<1>1. /\ SameTable(rows', R)
      /\ \A r \in wire' : r.row = 0 \/ r.answer # "awaited" => r \in wire
      /\ \A p \in parked' : p.row = 0 => p \in parked
  BY DrainEffect
<1>2. SameRows(rows', rows)
  BY <1>1 DEF SameTable, SameRows
<1>3. \A r \in rows : (\E q \in rows' : q.mail = r.mail) \/ delivered'[r.mail] > 0
  BY <1>1 DEF SameTable, SameRows
<1>4. \A q \in wire' : q.row = 0 => \E r \in wire : r.row = 0 /\ r.n = q.n /\ r.mail = q.mail
  BY <1>1
<1>5. Honest(rows', wire', filing', delivered')
  <2>1. \A r \in wire' : r.answer = "None" => delivered'[r.mail] > 0
    BY <1>1 DEF KeptInv, Honest
  <2>2. \A r \in rows' : r.id \in filing' => delivered'[r.mail] > 0
    BY <1>2 DEF KeptInv, Honest, SameRows
  <2> QED BY <2>1, <2>2 DEF Honest
<1> QED BY <1>1, <1>2, <1>3, <1>4, <1>5, Carried

LEMMA RowsAreRows ==
    ASSUME SendInv
    PROVE  /\ rows \subseteq Row /\ \A r, q \in rows : r.id = q.id => r = q
           /\ \A r \in wire, q \in rows : r.row = q.id => r.mail = q.mail
           /\ \A p \in parked, q \in rows : p.row = q.id => p.mail = q.mail
           /\ \A q \in rows : q.id \in Nat \ {0} /\ q.id < nextId /\ q.mail \in Mails
           /\ \A r \in wire : r.mail \in Mails /\ r.row \in Nat
           /\ \A p \in parked : p.mail \in Mails /\ p.row \in Nat
BY DEF SendInv, Shape, Table, Linked, Row, Calls, Waits, Request, Waiter

\* The row of a message that was sent may go.
LEMMA DroppedWhenSent ==
    ASSUME SendInv, NEW id,
           \A r \in rows : r.id = id => delivered[r.mail] > 0
    PROVE  /\ Dropped(rows, id) \subseteq Row /\ SameRows(Dropped(rows, id), rows)
           /\ \A r \in rows : (\E q \in Dropped(rows, id) : q.mail = r.mail)
                              \/ delivered[r.mail] > 0
BY RowsAreRows DEF Dropped, SameRows

\* A row written over keeps its message.
LEMMA UpdatedKeepsMail ==
    ASSUME SendInv, NEW id, NEW state \in States, NEW next \in Nexts
    PROVE  /\ Updated(rows, id, state, next) \subseteq Row
           /\ SameRows(Updated(rows, id, state, next), rows)
           /\ SameTable(Updated(rows, id, state, next), rows)
           /\ \A r \in rows : (\E q \in Updated(rows, id, state, next) : q.mail = r.mail)
                              \/ delivered[r.mail] > 0
<1>1. Table(Updated(rows, id, state, next), nextId)
  BY UpdatedRows DEF SendInv, Shape
<1>2. SameTable(Updated(rows, id, state, next), rows)
  BY RowsAreRows, UpdatedWrites, WritesSame
<1> QED BY <1>1, <1>2 DEF Table, SameTable, SameRows

-----------------------------------------------------------------------------
(* The steps of KeptInv.                                                    *)

LEMMA RowSentKeepsMail ==
    ASSUME SendInv, SendInv', KeptInv, NEW r \in wire, RowSent(r)
    PROVE  KeptInv'
<1>1. /\ Drain(Dropped(rows, r.row), 0, wire \ {r}, alarm, connected)
      /\ fate' = fate /\ delivered' = delivered /\ filing' = filing /\ r.answer = "None"
  BY DEF RowSent, Reply, Reported
<1>2. delivered[r.mail] > 0
  BY <1>1 DEF KeptInv, Honest
<1>3. \A q \in rows : q.id = r.row => delivered[q.mail] > 0
  BY <1>2, RowsAreRows
<1> QED BY <1>1, <1>3, DroppedWhenSent, CarriedByDrain

LEMMA RowThrottledKeepsMail ==
    ASSUME SendInv, SendInv', KeptInv, NEW r \in wire, RowThrottled(r)
    PROVE  KeptInv'
<1>1. /\ Drain(Updated(rows, r.row, "queued", "later"), 0, wire \ {r}, alarm, connected)
      /\ fate' = fate /\ delivered' = delivered /\ filing' = filing
  BY DEF RowThrottled, Reply, Reported
<1>2. "queued" \in States /\ "later" \in Nexts
  BY DEF States, Nexts
<1> QED BY <1>1, <1>2, UpdatedKeepsMail, CarriedByDrain

LEMMA RowRejectedKeepsMail ==
    ASSUME SendInv, SendInv', KeptInv, NEW r \in wire, RowRejected(r)
    PROVE  KeptInv'
<1>1. /\ Drain(Updated(rows, r.row, "failed", "zero"), 0, wire \ {r}, alarm, connected)
      /\ fate' = fate /\ delivered' = delivered /\ filing' = filing
  BY DEF RowRejected, Reply, Reported
<1>2. "failed" \in States /\ "zero" \in Nexts
  BY DEF States, Nexts
<1> QED BY <1>1, <1>2, UpdatedKeepsMail, CarriedByDrain

LEMMA RetryKeepsMail ==
    ASSUME SendInv, SendInv', KeptInv, NEW r \in rows, Retry(r)
    PROVE  KeptInv'
<1>1. /\ Drain(Updated(rows, r.id, "queued", "zero"), inFlight, wire, alarm, connected)
      /\ fate' = fate /\ delivered' = delivered /\ filing' = filing
  BY DEF Retry
<1>2. "queued" \in States /\ "zero" \in Nexts
  BY DEF States, Nexts
<1> QED BY <1>1, <1>2, UpdatedKeepsMail, CarriedByDrain

\* The copy is of a row whose message was sent.
LEMMA CopyFiledKeepsMail ==
    ASSUME SendInv, SendInv', KeptInv, NEW id \in filing, CopyFiled(id)
    PROVE  KeptInv'
<1>1. /\ Drain(Dropped(rows, id), inFlight, wire, alarm, connected)
      /\ fate' = fate /\ delivered' = delivered /\ filing' \subseteq filing
  BY DEF CopyFiled, user
<1>2. \A q \in rows : q.id = id => delivered[q.mail] > 0
  BY DEF KeptInv, Honest
<1> QED BY <1>1, <1>2, DroppedWhenSent, CarriedByDrain

LEMMA SameRowsKeepMail ==
    SendInv => /\ rows \subseteq Row /\ SameRows(rows, rows)
               /\ \A r \in rows : (\E q \in rows : q.mail = r.mail) \/ delivered[r.mail] > 0
BY RowsAreRows DEF SameRows

LEMMA ConnectKeepsMail ==
    ASSUME SendInv, SendInv', KeptInv, Connect
    PROVE  KeptInv'
<1>1. /\ Drain(rows, inFlight, wire, alarm, TRUE)
      /\ fate' = fate /\ delivered' = delivered /\ filing' = filing
  BY DEF Connect, user
<1> QED BY <1>1, SameRowsKeepMail, CarriedByDrain

LEMMA TimerFiresKeepsMail ==
    ASSUME SendInv, SendInv', KeptInv, TimerFires
    PROVE  KeptInv'
<1>1. /\ Drain(rows, inFlight, wire, FALSE, connected)
      /\ fate' = fate /\ delivered' = delivered /\ filing' = filing
  BY DEF TimerFires, user
<1> QED BY <1>1, SameRowsKeepMail, CarriedByDrain

\* A handler that ends without a drain, and leaves every window as it is.
LEMMA CarriedQuietly ==
    ASSUME SendInv, SendInv', KeptInv, fate' = fate, delivered' = delivered,
           SameTable(rows', rows), wire' \subseteq wire, parked' \subseteq parked,
           filing' \subseteq filing
    PROVE  KeptInv'
<1>1. Honest(rows', wire', filing', delivered')
  BY DEF KeptInv, Honest, SameTable, SameRows
<1>2. \A r \in rows : (\E q \in rows' : q.mail = r.mail) \/ delivered'[r.mail] > 0
  BY DEF SameTable, SameRows
<1> QED BY <1>1, <1>2, Carried DEF SameTable

LEMMA ReplyStaleKeepsMail ==
    ASSUME SendInv, SendInv', KeptInv, NEW r \in wire, ReplyStale(r)
    PROVE  KeptInv'
<1>1. /\ fate' = fate /\ delivered' = delivered /\ filing' = filing /\ rows' = rows
      /\ parked' = parked /\ wire' = wire \ {r}
  BY DEF ReplyStale, Reported
<1> QED BY <1>1, SameAsItself, CarriedQuietly

LEMMA RowDeferredKeepsMail ==
    ASSUME SendInv, SendInv', KeptInv, NEW r \in wire, RowDeferred(r)
    PROVE  KeptInv'
<1>1. /\ fate' = fate /\ delivered' = delivered /\ filing' = filing
      /\ rows' = Deferred(rows, r.row) /\ parked' = parked /\ wire' = wire \ {r}
  BY DEF RowDeferred, Reply, Reported
<1>2. SameTable(rows', rows)
  BY <1>1, RowsAreRows, DeferredWrites, WritesSame
<1> QED BY <1>1, <1>2, CarriedQuietly

LEMMA ConnectionLostKeepsMail ==
    ASSUME SendInv, SendInv', KeptInv, ConnectionLost
    PROVE  KeptInv'
<1>1. /\ fate' = fate /\ delivered' = delivered /\ filing' = filing /\ rows' = rows
      /\ parked' = parked /\ wire' = wire
  BY DEF ConnectionLost, user
<1> QED BY <1>1, SameAsItself, CarriedQuietly

LEMMA SwitchKeepsMail ==
    ASSUME SendInv, SendInv', KeptInv, NEW to \in Accounts, Switch(to)
    PROVE  KeptInv'
<1>1. /\ fate' = fate /\ delivered' = delivered /\ filing' = filing
      /\ rows' = Updated(rows, inFlight, "failed", "zero") /\ parked' = parked /\ wire' = wire
  BY DEF Switch, user
<1>2. SameTable(rows', rows)
  BY <1>1, RowsAreRows, UpdatedWrites, WritesSame
<1> QED BY <1>1, <1>2, CarriedQuietly

LEMMA HoldPassesKeepsMail ==
    ASSUME SendInv, SendInv', KeptInv, NEW r \in rows, HoldPasses(r)
    PROVE  KeptInv'
<1>1. /\ fate' = fate /\ delivered' = delivered /\ filing' = filing
      /\ rows' = Updated(rows, r.id, r.state, "passed") /\ parked' = parked /\ wire' = wire
  BY DEF HoldPasses, user, memory
<1>2. SameTable(rows', rows)
  BY <1>1, RowsAreRows, UpdatedWrites, WritesSame
<1> QED BY <1>1, <1>2, CarriedQuietly

\* The row whose copy is filed was reported sent.
LEMMA RowFiledKeepsMail ==
    ASSUME SendInv, SendInv', KeptInv, NEW r \in wire, RowFiled(r)
    PROVE  KeptInv'
<1>1. /\ fate' = fate /\ delivered' = delivered /\ filing' = filing \cup {r.row} /\ rows' = rows
      /\ parked' = parked /\ wire' = wire \ {r} /\ r.answer = "None"
  BY DEF RowFiled, user
<1>2. \A q \in rows : q.id = r.row => delivered[q.mail] > 0
  BY <1>1, RowsAreRows DEF KeptInv, Honest
<1>3. Honest(rows', wire', filing', delivered')
  BY <1>1, <1>2 DEF KeptInv, Honest
<1> QED BY <1>1, <1>3, SameAsItself, Carried DEF SameTable

\* The server's answer: a call ends, or carries the answer, and only one that
\* was sent is reported sent.
LEMMA ServerAnswersKeepsMail ==
    ASSUME SendInv, SendInv', KeptInv, NEW r \in wire, ServerAnswers(r)
    PROVE  KeptInv'
<1>1. rows' = rows /\ fate' = fate /\ parked' = parked /\ filing' = filing
  BY DEF ServerAnswers, memory, user
<1>2. /\ delivered' = delivered \/ delivered' = [delivered EXCEPT ![r.mail] = @ + 1]
      /\ \/ wire' = wire \ {r}
         \/ \E e \in {"Auth", "Connection", "Throttled", "Protocol"} :
               wire' = (wire \ {r}) \cup {[r EXCEPT !.answer = e]}
         \/ /\ wire' = (wire \ {r}) \cup {[r EXCEPT !.answer = "None"]}
            /\ delivered' = [delivered EXCEPT ![r.mail] = @ + 1]
  BY DEF ServerAnswers, ServerAccepts, ServerRefuses, LoginRefused, SessionGone,
         ServerThrottles, SendBroken, DialFails, Answer, Deliver
<1>3. r \in Request /\ r.mail \in Mails /\ delivered \in [Mails -> Nat]
  BY DEF SendInv, TypeOK, Request
<1>4. /\ \A m \in Mails : delivered[m] > 0 => delivered'[m] > 0
      /\ delivered' = [delivered EXCEPT ![r.mail] = @ + 1] => delivered'[r.mail] > 0
  BY <1>2, <1>3
<1>5. \A e : LET q == [r EXCEPT !.answer = e]
             IN  q.row = r.row /\ q.n = r.n /\ q.mail = r.mail /\ q.answer = e
  BY <1>3 DEF Request
<1>6. /\ \A q \in wire' : q.row = 0 => \E s \in wire : s.row = 0 /\ s.n = q.n /\ s.mail = q.mail
      /\ \A q \in wire' : q.answer = "None" => delivered'[q.mail] > 0
  <2>1. CASE wire' = wire \ {r}
    BY <2>1, <1>4, RowsAreRows DEF KeptInv, Honest
  <2>2. ASSUME NEW e \in {"Auth", "Connection", "Throttled", "Protocol"},
               wire' = (wire \ {r}) \cup {[r EXCEPT !.answer = e]}
        PROVE  <1>6!1 /\ <1>6!2
    <3> DEFINE a == [r EXCEPT !.answer = e]
    <3>1. /\ a.row = r.row /\ a.n = r.n /\ a.mail = r.mail /\ a.answer # "None"
          /\ wire' = (wire \ {r}) \cup {a}
      BY <2>2, <1>5
    <3> HIDE DEF a
    <3> QED BY <3>1, <1>4, RowsAreRows DEF KeptInv, Honest
  <2>3. CASE /\ wire' = (wire \ {r}) \cup {[r EXCEPT !.answer = "None"]}
             /\ delivered' = [delivered EXCEPT ![r.mail] = @ + 1]
    <3> DEFINE a == [r EXCEPT !.answer = "None"]
    <3>1. /\ a.row = r.row /\ a.n = r.n /\ a.mail = r.mail
          /\ wire' = (wire \ {r}) \cup {a}
      BY <2>3, <1>5
    <3> HIDE DEF a
    <3> QED BY <2>3, <3>1, <1>4, RowsAreRows DEF KeptInv, Honest
  <2> QED BY <1>2, <2>1, <2>2, <2>3
<1>7. Honest(rows', wire', filing', delivered')
  BY <1>1, <1>4, <1>6, RowsAreRows DEF KeptInv, Honest
<1> QED BY <1>1, <1>4, <1>6, <1>7, SameRowsKeepMail, Carried

LEMMA RestartKeepsMail ==
    ASSUME SendInv, SendInv', KeptInv, Restart
    PROVE  KeptInv'
<1>1. /\ delivered' = delivered /\ filing' = {} /\ rows' = Recovered(rows)
      /\ parked' = {} /\ wire' = {}
      /\ fate' = [m \in Mails |-> IF fate[m] \in {"signing", "sending"} THEN "composing" ELSE fate[m]]
  BY DEF Restart
<1>2. SameTable(rows', rows)
  BY <1>1, RowsAreRows, RecoveredSame
<1>3. \A r, q \in rows' : r.id = q.id => r = q
  BY DEF SendInv, Shape, Table
<1>4. \A m \in Mails : /\ fate'[m] \notin {"signing", "sending"}
                       /\ fate[m] = "accepted" <=> fate'[m] = "accepted"
  BY <1>1
<1>5. Kept(rows', fate')
  BY <1>2, <1>3, <1>4, RowsAreRows DEF KeptInv, Kept, SameTable, SameRows
<1>6. Windows(wire', parked', fate') /\ Honest(rows', wire', filing', delivered')
  BY <1>1 DEF Windows, Honest
<1>7. OneWindow(fate')
  BY <1>4 DEF OneWindow, Busy
<1>8. NothingForgotten'
  BY <1>1, <1>2, <1>4 DEF KeptInv, NothingForgotten, SameTable, SameRows
<1> QED BY <1>5, <1>6, <1>7, <1>8 DEF KeptInv

-----------------------------------------------------------------------------
(* The steps that move a message.                                           *)

\* An open window's message has no row, and no other window is busy.
LEMMA OpenWindow ==
    ASSUME SendInv, KeptInv, NEW x \in Mails, fate[x] # "accepted"
    PROVE  /\ \A q \in rows : q.mail # x
           /\ Busy(x, fate) => \A m \in Mails : m # x => ~Busy(m, fate)
BY DEF KeptInv, Kept, OneWindow

\* Without a busy window no call and no waiter is a window's.
LEMMA NoWindowWaits ==
    ASSUME SendInv, KeptInv, \A m \in Mails : fate[m] # "sending"
    PROVE  /\ \A r \in wire : r.row # 0
           /\ \A p \in parked : p.row # 0
BY RowsAreRows DEF KeptInv, Windows

LEMMA EnqueueEffect ==
    ASSUME NEW R, NEW x, NEW next, Enqueue(R, x, next)
    PROVE  \/ /\ fate' = [fate EXCEPT ![x] = "accepted"] /\ nextId' = nextId + 1
              /\ \E new \in rows' : /\ rows' = R \cup {new} /\ new.id = nextId
                                    /\ new.mail = x /\ new.state = "queued"
                                    /\ new.account = account
           \/ rows' = R /\ fate' = [fate EXCEPT ![x] = "composing"] /\ nextId' = nextId
<1>1. CASE /\ rows' = R \cup {[id |-> nextId, mail |-> x, account |-> account,
                               state |-> "queued", next |-> next]}
           /\ nextId' = nextId + 1
           /\ fate' = [fate EXCEPT ![x] = "accepted"]
  <2> DEFINE new == [id |-> nextId, mail |-> x, account |-> account,
                     state |-> "queued", next |-> next]
  <2>1. /\ new.id = nextId /\ new.mail = x /\ new.state = "queued" /\ new.account = account
        /\ rows' = R \cup {new}
    BY <1>1
  <2> HIDE DEF new
  <2> QED BY <1>1, <2>1
<1>2. CASE rows' = R /\ fate' = [fate EXCEPT ![x] = "composing"] /\ nextId' = nextId
  BY <1>2
<1> QED BY <1>1, <1>2 DEF Enqueue

\* An open window's message is put in a row, or stays in its window.
LEMMA Enqueued ==
    ASSUME SendInv, SendInv', KeptInv, NEW R, SameTable(R, rows), NEW x \in Mails,
           fate[x] # "accepted", NEW next, Enqueue(R, x, next), delivered' = delivered,
           Windows(wire', parked', fate'), wire' \subseteq wire, filing' = filing
    PROVE  KeptInv'
<1>1. \A q \in R : q.mail # x
  BY OpenWindow DEF SameTable, SameRows
<1>2. Honest(R, wire', filing', delivered')
  BY DEF KeptInv, Honest, SameTable, SameRows
<1>3. CASE /\ fate' = [fate EXCEPT ![x] = "accepted"]
           /\ \E new \in rows' : rows' = R \cup {new} /\ new.id = nextId /\ new.mail = x
  <2>1. PICK new \in rows' : rows' = R \cup {new} /\ new.id = nextId /\ new.mail = x
    BY <1>3
  <2>2. nextId \notin filing
    <3>1. filing \subseteq 1..(nextId - 1) /\ nextId \in Nat \ {0}
      BY DEF SendInv, TypeOK
    <3> QED BY <3>1
  <2>3. Honest(rows', wire', filing', delivered')
    BY <1>2, <2>1, <2>2 DEF Honest
  <2>4. /\ \A q \in rows' : q.mail # x => \E r \in rows : r.id = q.id /\ r.mail = q.mail
        /\ \A r, q \in rows' : r.mail = x /\ q.mail = x => r = q
        /\ \A r \in rows : r.mail # x => \E q \in rows' : q.mail = r.mail
        /\ \E q \in rows' : q.mail = x
    BY <1>1, <2>1 DEF SameTable, SameRows
  <2> QED BY <1>3, <2>3, <2>4, Moved
<1>4. CASE rows' = R /\ fate' = [fate EXCEPT ![x] = "composing"]
  <2>1. Honest(rows', wire', filing', delivered')
    BY <1>2, <1>4
  <2>2. /\ \A q \in rows' : q.mail # x /\ \E r \in rows : r.id = q.id /\ r.mail = q.mail
        /\ \A r \in rows : r.mail # x => \E q \in rows' : q.mail = r.mail
    BY <1>1, <1>4 DEF SameTable, SameRows
  <2> QED BY <1>4, <2>1, <2>2, Moved
<1> QED BY <1>3, <1>4, EnqueueEffect

\* The reply to a window's call, which was the only one.
LEMMA WindowAnswered ==
    ASSUME SendInv, KeptInv, NEW r \in wire, r.row = 0, wire' = wire \ {r}, parked' = parked
    PROVE  /\ Windows(wire', parked', fate')
           /\ r.mail \in Mails /\ fate[r.mail] = "sending" /\ \A q \in rows : q.mail # r.mail
<1>1. r.mail \in Mails /\ fate[r.mail] = "sending"
  BY RowsAreRows DEF KeptInv, Windows
<1>2. (\A q \in wire' : q.row # 0) /\ (\A p \in parked' : p.row # 0)
  BY DEF KeptInv, Windows
<1> QED BY <1>1, <1>2, OpenWindow DEF Windows

LEMMA WindowSentKeepsMail ==
    ASSUME SendInv, SendInv', KeptInv, NEW r \in wire, WindowSent(r)
    PROVE  KeptInv'
<1>1. /\ fate' = [fate EXCEPT ![r.mail] = "accepted"] /\ wire' = wire \ {r} /\ parked' = parked
      /\ rows' = rows /\ delivered' = delivered /\ filing' = filing
      /\ r.row = 0 /\ r.answer = "None"
  BY DEF WindowSent, Reported
<1>2. delivered'[r.mail] > 0 /\ Honest(rows', wire', filing', delivered')
  BY <1>1 DEF KeptInv, Honest
<1>3. /\ Windows(wire', parked', fate') /\ r.mail \in Mails
      /\ \A q \in rows' : q.mail # r.mail
  BY <1>1, WindowAnswered
<1>4. /\ \A q \in rows' : \E s \in rows : s.id = q.id /\ s.mail = q.mail
      /\ \A s \in rows : \E q \in rows' : q.mail = s.mail
      /\ \A m \in Mails : delivered[m] > 0 => delivered'[m] > 0
  BY <1>1
<1> QED BY <1>1, <1>2, <1>3, <1>4, Moved

LEMMA WindowRefusedKeepsMail ==
    ASSUME SendInv, SendInv', KeptInv, NEW r \in wire, WindowRefused(r)
    PROVE  KeptInv'
<1>1. /\ fate' = [fate EXCEPT ![r.mail] = "composing"] /\ wire' = wire \ {r} /\ parked' = parked
      /\ rows' = rows /\ delivered' = delivered /\ filing' = filing /\ r.row = 0
  BY DEF WindowRefused, Reported
<1>2. Honest(rows', wire', filing', delivered')
  BY <1>1 DEF KeptInv, Honest
<1>3. /\ Windows(wire', parked', fate') /\ r.mail \in Mails
      /\ \A q \in rows' : q.mail # r.mail
  BY <1>1, WindowAnswered
<1> QED BY <1>1, <1>2, <1>3, Moved

LEMMA WindowQueuedKeepsMail ==
    ASSUME SendInv, SendInv', KeptInv, NEW r \in wire, WindowQueued(r)
    PROVE  KeptInv'
<1>1. /\ Enqueue(rows, r.mail, IF r.answer = "Throttled" THEN "later" ELSE "zero")
      /\ wire' = wire \ {r} /\ parked' = parked
      /\ delivered' = delivered /\ filing' = filing /\ r.row = 0
  BY DEF WindowQueued, Reported
<1>2. fate[r.mail] # "accepted" /\ r.mail \in Mails /\ Windows(wire', parked', fate')
  BY <1>1, WindowAnswered
<1> QED BY <1>1, <1>2, Enqueued, SameAsItself

LEMMA FinishKeepsMail ==
    ASSUME SendInv, SendInv', KeptInv, NEW r \in wire, Finish(r)
    PROVE  KeptInv'
BY ReplyStaleKeepsMail, RowSentKeepsMail, RowFiledKeepsMail, RowDeferredKeepsMail,
   RowThrottledKeepsMail, RowRejectedKeepsMail, WindowSentKeepsMail, WindowQueuedKeepsMail,
   WindowRefusedKeepsMail DEF Finish

\* The continuation of the crypto step: the window waits for its call, or its
\* message is queued.
LEMMA SendNowKeepsMail ==
    ASSUME SendInv, SendInv', KeptInv, NEW x \in Mails, fate[x] \in {"composing", "signing"},
           \A m \in Mails : m # x => ~Busy(m, fate), NEW hold, SendNow(x, hold),
           delivered' = delivered, filing' = filing
    PROVE  KeptInv'
<1>1. (\A r \in wire : r.row # 0) /\ (\A p \in parked : p.row # 0)
  <2>1. \A m \in Mails : fate[m] # "sending"
    BY DEF Busy
  <2> QED BY <2>1, NoWindowWaits
<1>2. CASE connected /\ ~hold
  <2>1. /\ fate' = [fate EXCEPT ![x] = "sending"] /\ HandOver(0, x, wire) /\ rows' = rows
    BY <1>2 DEF SendNow
  <2>2. fate'[x] = "sending"
    BY <2>1 DEF SendInv, TypeOK
  <2>3. /\ \/ /\ parked' = parked
              /\ \E r \in wire' : /\ wire' = wire \cup {r}
                                  /\ r.row = 0 /\ r.mail = x /\ r.answer = "awaited"
           \/ /\ wire' = wire
              /\ \E p \in parked' : parked' = parked \cup {p} /\ p.row = 0 /\ p.mail = x
    BY <2>1, HandedOver
  <2>4. Windows(wire', parked', fate')
    <3>1. CASE /\ parked' = parked
               /\ \E r \in wire' : wire' = wire \cup {r} /\ r.row = 0 /\ r.mail = x
      BY <1>1, <2>2, <3>1 DEF Windows
    <3>2. CASE /\ wire' = wire
               /\ \E p \in parked' : parked' = parked \cup {p} /\ p.row = 0 /\ p.mail = x
      BY <1>1, <2>2, <3>2 DEF Windows
    <3> QED BY <2>3, <3>1, <3>2
  <2>5. Honest(rows', wire', filing', delivered')
    BY <2>1, <2>3 DEF KeptInv, Honest
  <2>6. /\ \A q \in rows' : q.mail # x /\ \E r \in rows : r.id = q.id /\ r.mail = q.mail
        /\ \A r \in rows : \E q \in rows' : q.mail = r.mail
    BY <2>1, OpenWindow
  <2> QED BY <2>1, <2>4, <2>5, <2>6, Moved
<1>3. CASE ~(connected /\ ~hold)
  <2>1. Enqueue(rows, x, IF hold THEN "later" ELSE "zero") /\ wire' = wire /\ parked' = parked
    BY <1>3 DEF SendNow
  <2>2. Windows(wire', parked', fate')
    BY <1>1, <2>1 DEF Windows
  <2> QED BY <2>1, <2>2, SameAsItself, Enqueued
<1> QED BY <1>2, <1>3

\* A message is with gpg, or is back in its window: no row and no call of it.
LEMMA InItsWindow ==
    ASSUME SendInv, SendInv', KeptInv, NEW x \in Mails, fate[x] \in {"composing", "signing"},
           \A m \in Mails : m # x => ~Busy(m, fate),
           NEW y \in {"composing", "signing"}, fate' = [fate EXCEPT ![x] = y],
           rows' = rows, wire' = wire, parked' = parked, delivered' = delivered, filing' = filing
    PROVE  KeptInv'
<1>1. Windows(wire', parked', fate')
  <2>1. \A m \in Mails : fate[m] # "sending"
    BY DEF Busy
  <2> QED BY <2>1, NoWindowWaits DEF Windows
<1>2. Honest(rows', wire', filing', delivered')
  BY DEF KeptInv
<1>3. /\ \A q \in rows' : q.mail # x /\ \E r \in rows : r.id = q.id /\ r.mail = q.mail
      /\ \A r \in rows : \E q \in rows' : q.mail = r.mail
  BY OpenWindow
<1> QED BY <1>1, <1>2, <1>3, Moved

LEMMA SendKeepsMail ==
    ASSUME SendInv, SendInv', KeptInv, NEW x \in Mails, Send(x)
    PROVE  KeptInv'
<1>1. /\ fate[x] = "composing" /\ delivered' = delivered /\ filing' = filing
      /\ \A m \in Mails : ~Busy(m, fate)
  BY DEF Send, Busy
<1>2. CASE x \in Signed
  <2>1. /\ fate' = [fate EXCEPT ![x] = "signing"]
        /\ rows' = rows /\ wire' = wire /\ parked' = parked
    BY <1>2 DEF Send
  <2> QED BY <1>1, <2>1, InItsWindow
<1>3. CASE x \notin Signed
  <2>1. PICK hold \in Holds : SendNow(x, hold)
    BY <1>3 DEF Send
  <2> QED BY <1>1, <2>1, SendNowKeepsMail
<1> QED BY <1>2, <1>3

LEMMA CryptoDoneKeepsMail ==
    ASSUME SendInv, SendInv', KeptInv, NEW x \in Mails, CryptoDone(x)
    PROVE  KeptInv'
<1>1. /\ fate[x] = "signing" /\ delivered' = delivered /\ filing' = filing
      /\ \A m \in Mails : m # x => ~Busy(m, fate)
  BY OpenWindow DEF CryptoDone, Busy
<1>2. CASE \E hold \in Holds : SendNow(x, hold)
  BY <1>1, <1>2, SendNowKeepsMail
<1>3. CASE /\ fate' = [fate EXCEPT ![x] = "composing"]
           /\ rows' = rows /\ wire' = wire /\ parked' = parked
  BY <1>1, <1>3, InItsWindow
<1> QED BY <1>2, <1>3 DEF CryptoDone

\* The only row of a message goes, and the user is told.
LEMMA TakenOut ==
    ASSUME SendInv, SendInv', KeptInv, NEW r \in rows, rows' = Dropped(rows, r.id),
           NEW y \in {"cancelled", "composing"}, fate' = [fate EXCEPT ![r.mail] = y],
           wire' = wire, parked' = parked, delivered' = delivered, filing' = filing
    PROVE  KeptInv'
<1>1. r.mail \in Mails /\ fate[r.mail] = "accepted"
  BY RowsAreRows DEF KeptInv, Kept
<1>2. /\ \A q \in rows' : q.mail # r.mail /\ \E s \in rows : s.id = q.id /\ s.mail = q.mail
      /\ \A s \in rows : s.mail # r.mail => \E q \in rows' : q.mail = s.mail
  BY RowsAreRows DEF Dropped, KeptInv, Kept
<1>3. Windows(wire', parked', fate')
  <2>1. \A m \in Mails : fate[m] = "sending" => fate'[m] = "sending"
    BY <1>1
  <2> QED BY <2>1, RowsAreRows DEF KeptInv, Windows
<1>4. Honest(rows', wire', filing', delivered')
  BY <1>2 DEF KeptInv, Honest
<1> QED BY ZenonT(60), <1>1, <1>2, <1>3, <1>4, Moved

LEMMA CancelOrEditKeepsMail ==
    ASSUME SendInv, SendInv', KeptInv, NEW r \in rows, CancelOrEdit(r)
    PROVE  KeptInv'
<1>1. PICK y \in {"cancelled", "composing"} : fate' = [fate EXCEPT ![r.mail] = y]
  BY DEF CancelOrEdit
<1>2. /\ rows' = Dropped(rows, r.id) /\ wire' = wire /\ parked' = parked
      /\ delivered' = delivered /\ filing' = filing
  BY DEF CancelOrEdit, memory
<1> QED BY <1>1, <1>2, TakenOut

LEMMA UndoKeepsMail ==
    ASSUME SendInv, SendInv', KeptInv, Undo
    PROVE  KeptInv'
<1>1. /\ wire' = wire /\ parked' = parked /\ delivered' = delivered /\ filing' = filing
  BY DEF Undo
<1>2. ASSUME NEW r \in rows, rows' = Dropped(rows, r.id), fate' = [fate EXCEPT ![r.mail] = "composing"]
      PROVE  KeptInv'
  BY <1>1, <1>2, TakenOut
<1>3. ASSUME NEW r \in rows, rows' = Updated(rows, r.id, "failed", "zero"), fate' = fate
      PROVE  KeptInv'
  <2>1. SameTable(rows', rows)
    BY <1>3, RowsAreRows, UpdatedWrites, WritesSame
  <2> QED BY <1>1, <1>3, <2>1, CarriedQuietly
<1>4. CASE rows' = rows /\ fate' = fate
  BY <1>1, <1>4, SameAsItself, CarriedQuietly
<1> QED BY <1>2, <1>3, <1>4 DEF Undo

\* The waiters' calls are made, or their row goes back to the queue and their
\* window's message gets one.
LEMMA TokenAnsweredKeepsMail ==
    ASSUME SendInv, SendInv', KeptInv, NEW ok \in BOOLEAN, TokenAnswered(ok)
    PROVE  KeptInv'
<1> DEFINE Row0   == {p \in parked : p.row # 0 /\ p.row = inFlight}
           Window == {p \in parked : p.row = 0}
           Sent   == IF connected THEN Window \cup (IF ok THEN Row0 ELSE {}) ELSE {}
           Left   == IF Row0 \subseteq Sent THEN rows ELSE Deferred(rows, inFlight)
           Call(p) == [n |-> sends + p.row, row |-> p.row, mail |-> p.mail, answer |-> "awaited"]
<1>1. /\ parked' = {} /\ delivered' = delivered /\ filing' = filing
      /\ wire' = wire \cup {Call(p) : p \in Sent}
      /\ IF Window \subseteq Sent
         THEN rows' = Left /\ fate' = fate
         ELSE \E p \in Window : Enqueue(Left, p.mail, "zero")
  BY DEF TokenAnswered
<1>2. SameTable(Left, rows)
  BY RowsAreRows, SameAsItself, DeferredWrites, WritesSame
<1>3. /\ Window \subseteq parked /\ \A p \in Window : p.row = 0
      /\ Sent \subseteq parked
      /\ Window \subseteq Sent \/ Sent = {}
  OBVIOUS
<1>4. \A p : Call(p).row = p.row /\ Call(p).mail = p.mail /\ Call(p).answer = "awaited"
  OBVIOUS
<1> HIDE DEF Row0, Window, Sent, Left, Call
<1>5. /\ \A q \in wire' : q \in wire \/ \E p \in parked : q = Call(p)
      /\ \A q \in wire' : q.answer = "None" => q \in wire
  BY <1>1, <1>3, <1>4
<1>6. CASE Window \subseteq Sent
  <2>1. Windows(wire', parked', fate')
    <3>1. \A q \in wire' : q.row = 0 => fate'[q.mail] = "sending"
      BY <1>1, <1>4, <1>5, <1>6 DEF KeptInv, Windows
    <3>2. \A q, s \in wire' : q.row = 0 /\ s.row = 0 => q = s
      BY <1>4, <1>5 DEF KeptInv, Windows
    <3> QED BY <1>1, <3>1, <3>2 DEF Windows
  <2>2. SameTable(rows', rows)
    BY <1>1, <1>2, <1>6
  <2>3. Honest(rows', wire', filing', delivered')
    <3>1. \A q \in wire' : q.answer = "None" => delivered'[q.mail] > 0
      BY <1>1, <1>5 DEF KeptInv, Honest
    <3>2. \A q \in rows' : q.id \in filing' => delivered'[q.mail] > 0
      BY <1>1, <2>2 DEF KeptInv, Honest, SameTable, SameRows
    <3> QED BY <3>1, <3>2 DEF Honest
  <2>4. /\ SameRows(rows', rows)
        /\ \A r \in rows : (\E q \in rows' : q.mail = r.mail) \/ delivered'[r.mail] > 0
    BY <2>2 DEF SameTable, SameRows
  <2> QED BY <1>1, <1>6, <2>1, <2>3, <2>4, Stayed
<1>7. CASE ~(Window \subseteq Sent)
  <2>1. PICK p \in Window : Enqueue(Left, p.mail, "zero")
    BY <1>1, <1>7
  <2>2. p \in parked /\ p.row = 0 /\ wire' = wire
    BY <1>1, <1>3, <1>7
  <2>3. fate[p.mail] = "sending" /\ p.mail \in Mails
    BY <2>2, RowsAreRows DEF KeptInv, Windows
  <2>4. Windows(wire', parked', fate')
    BY <1>1, <2>2 DEF KeptInv, Windows
  <2> QED BY <1>1, <1>2, <2>1, <2>2, <2>3, <2>4, Enqueued
<1> QED BY <1>6, <1>7

-----------------------------------------------------------------------------
(* No message is forgotten.                                                 *)

LEMMA StepKeepsMail == SendInv /\ SendInv' /\ KeptInv /\ [Next]_vars => KeptInv'
<1> SUFFICES ASSUME SendInv, SendInv', KeptInv, [Next]_vars
             PROVE  KeptInv'
  OBVIOUS
<1>1. CASE UNCHANGED vars
  BY <1>1 DEF vars, memory, user, KeptInv, NothingForgotten
<1>2. CASE Next
  BY <1>2, SendKeepsMail, CryptoDoneKeepsMail, TokenAnsweredKeepsMail, ServerAnswersKeepsMail,
     FinishKeepsMail, CopyFiledKeepsMail, HoldPassesKeepsMail, CancelOrEditKeepsMail,
     RetryKeepsMail, SwitchKeepsMail, ConnectKeepsMail, ConnectionLostKeepsMail,
     RestartKeepsMail, TimerFiresKeepsMail, UndoKeepsMail DEF Next
<1> QED BY <1>1, <1>2

LEMMA StartKeepsMail == Init => KeptInv
BY DEF Init, KeptInv, Kept, Windows, OneWindow, Busy, Honest, NothingForgotten

LEMMA AlwaysKept == Spec => []KeptInv
BY StartKeepsMail, StepKeepsMail, AlwaysConserved, PTL DEF Spec

\* A pressed Send is never lost, over SMTP and over JMAP: a message whose
\* window closed has been sent or still has its row, through deferrals, undo,
\* switches, crashes and a cache that takes no more rows, until the user takes
\* it back.
THEOREM NothingIsForgotten == Spec => []NothingForgotten
<1>1. KeptInv => NothingForgotten
  BY DEF KeptInv
<1> QED BY <1>1, AlwaysKept, PTL

-----------------------------------------------------------------------------
(* The row being sent.                                                      *)

\* The row in flight is of the open account and marked as being sent.
Flying(R, i, here) == i # 0 => \E r \in R : r.id = i /\ r.state = "sending" /\ r.account = here

\* So is a row whose copy is being filed, which is not the one in flight.
Filing(R, i, F) == i \notin F /\ \A r \in R : r.id \in F => r.state = "sending"

\* A call or a waiter is there for the row in flight.
Answered(i, W, P) == i # 0 => (\E r \in W : r.row = i) \/ (\E p \in P : p.row = i)

\* Only the row in flight is marked.
Only(R, i) == \A r \in R : r.state = "sending" => r.id = i

WatchInv ==
    /\ Flying(rows, inFlight, account)
    /\ Filing(rows, inFlight, filing)
    /\ Proto = "jmap" =>
          filing = {} /\ Answered(inFlight, wire, parked) /\ Only(rows, inFlight)

LEMMA WatchedByDrain ==
    ASSUME SendInv, SendInv', WatchInv, NEW R, R \subseteq Row, \A r, q \in R : r.id = q.id => r = q,
           NEW busy \in {0, inFlight}, NEW w, NEW a, NEW up, Drain(R, busy, w, a, up),
           account' = account, filing' \subseteq filing,
           Flying(R, busy, account), \A r \in R : r.id \in filing' => r.state = "sending",
           Proto = "jmap" => Answered(busy, w, parked) /\ Only(R, busy)
    PROVE  WatchInv'
<1>1. /\ w \subseteq wire' /\ parked \subseteq parked'
      /\ \/ rows' = R /\ inFlight' = busy
         \/ busy = 0 /\ Picks(R)
  BY DrainEffect
<1>2. 0 \notin filing
  <2>1. filing \subseteq 1..(nextId - 1) /\ nextId \in Nat
    BY DEF SendInv, TypeOK
  <2> QED BY <2>1
<1>3. Proto = "jmap" => filing' = {}
  BY DEF WatchInv
<1>4. CASE rows' = R /\ inFlight' = busy
  BY <1>1, <1>2, <1>3, <1>4 DEF WatchInv, Filing, Answered
<1>5. CASE busy = 0 /\ Picks(R)
  <2>1. PICK msg \in R : /\ msg.account = account /\ msg.state = "queued"
                         /\ rows' = Sending(R, msg.id) /\ inFlight' = msg.id
                         /\ (\E r \in wire' : r.row = msg.id) \/ (\E p \in parked' : p.row = msg.id)
    BY <1>5 DEF Picks
  <2>2. Writes(rows', R, msg.id, "sending")
    BY <2>1, SendingWrites
  <2>3. Flying(rows', inFlight', account')
    <3>1. PICK q \in rows' : Written(q, msg, msg.id, "sending")
      BY <2>2 DEF Writes
    <3> QED BY <2>1, <3>1 DEF Flying, Written
  <2>4. Filing(rows', inFlight', filing')
    <3>1. msg.id \notin filing'
      BY <2>1
    <3>2. ASSUME NEW q \in rows', q.id \in filing'
          PROVE  q.state = "sending"
      <4>1. PICK r \in R : Written(q, r, msg.id, "sending")
        BY <2>2 DEF Writes
      <4> QED BY <3>2, <4>1 DEF Written
    <3> QED BY <2>1, <3>1, <3>2 DEF Filing
  <2>5. Answered(inFlight', wire', parked')
    BY <2>1 DEF Answered
  <2>6. ASSUME Proto = "jmap"
        PROVE  Only(rows', inFlight')
    <3>1. Only(R, 0)
      BY <1>5, <2>6
    <3>2. ASSUME NEW q \in rows', q.state = "sending"
          PROVE  q.id = inFlight'
      <4>1. PICK r \in R : Written(q, r, msg.id, "sending")
        BY <2>2 DEF Writes
      <4>2. r.id # 0
        BY DEF Row
      <4> QED BY <2>1, <3>1, <3>2, <4>1, <4>2 DEF Written, Only
    <3> QED BY <3>2 DEF Only
  <2> QED BY <1>3, <2>3, <2>4, <2>5, <2>6 DEF WatchInv
<1> QED BY <1>1, <1>4, <1>5

\* The row in flight, or none, leaves for another state or the table: no other
\* row is touched, and over JMAP none is marked any more.
LEMMA Landed ==
    ASSUME SendInv, WatchInv, NEW id, id = inFlight \/ \A r \in rows : r.id # id,
           NEW state, state # "sending", NEW T, Writes(T, rows, id, state)
    PROVE  /\ \A q \in T : q.id \in filing => q.state = "sending"
           /\ Proto = "jmap" /\ id = inFlight => Only(T, 0)
<1>1. \A q \in T : q.id \in filing => q.state = "sending"
  BY RowsAreRows DEF WatchInv, Filing, Writes, Written
<1>2. Proto = "jmap" /\ id = inFlight => Only(T, 0)
  BY DEF WatchInv, Only, Writes, Written
<1> QED BY <1>1, <1>2

LEMMA TableOf ==
    ASSUME SendInv, NEW id, NEW state \in States, NEW next \in Nexts
    PROVE  LET T == Updated(rows, id, state, next)
           IN  /\ T \subseteq Row /\ \A r, q \in T : r.id = q.id => r = q
               /\ Writes(T, rows, id, state)
<1>1. Table(Updated(rows, id, state, next), nextId)
  BY UpdatedRows DEF SendInv, Shape
<1> QED BY <1>1, RowsAreRows, UpdatedWrites DEF Table

LEMMA RowSentWatched ==
    ASSUME SendInv, SendInv', WatchInv, NEW r \in wire, RowSent(r)
    PROVE  WatchInv'
<1>1. /\ Drain(Dropped(rows, r.row), 0, wire \ {r}, alarm, connected)
      /\ account' = account /\ filing' = filing /\ r.row = inFlight
  BY DEF RowSent, Reply, Reported
<1>2. /\ Dropped(rows, r.row) \subseteq Row
      /\ \A s, q \in Dropped(rows, r.row) : s.id = q.id => s = q
      /\ \A s \in Dropped(rows, r.row) : s \in rows /\ s.id # inFlight
  BY <1>1, RowsAreRows DEF Dropped
<1>3. Flying(Dropped(rows, r.row), 0, account) /\ Answered(0, wire \ {r}, parked)
  BY DEF Flying, Answered
<1>4. /\ \A s \in Dropped(rows, r.row) : s.id \in filing' => s.state = "sending"
      /\ Proto = "jmap" => Only(Dropped(rows, r.row), 0)
  BY <1>1, <1>2 DEF WatchInv, Filing, Only
<1> QED BY <1>1, <1>2, <1>3, <1>4, WatchedByDrain

LEMMA RowThrottledWatched ==
    ASSUME SendInv, SendInv', WatchInv, NEW r \in wire, RowThrottled(r)
    PROVE  WatchInv'
<1> DEFINE T == Updated(rows, r.row, "queued", "later")
<1>1. /\ Drain(T, 0, wire \ {r}, alarm, connected)
      /\ account' = account /\ filing' = filing /\ r.row = inFlight
  BY DEF RowThrottled, Reply, Reported
<1>2. "queued" \in States /\ "later" \in Nexts
  BY DEF States, Nexts
<1>3. T \subseteq Row /\ (\A s, q \in T : s.id = q.id => s = q) /\ Writes(T, rows, r.row, "queued")
  BY <1>2, TableOf
<1>4. Flying(T, 0, account) /\ Answered(0, wire \ {r}, parked)
  BY DEF Flying, Answered
<1> HIDE DEF T
<1>5. (\A q \in T : q.id \in filing => q.state = "sending") /\ (Proto = "jmap" => Only(T, 0))
  BY <1>1, <1>3, Landed
<1> QED BY <1>1, <1>3, <1>4, <1>5, WatchedByDrain

LEMMA RowRejectedWatched ==
    ASSUME SendInv, SendInv', WatchInv, NEW r \in wire, RowRejected(r)
    PROVE  WatchInv'
<1> DEFINE T == Updated(rows, r.row, "failed", "zero")
<1>1. /\ Drain(T, 0, wire \ {r}, alarm, connected)
      /\ account' = account /\ filing' = filing /\ r.row = inFlight
  BY DEF RowRejected, Reply, Reported
<1>2. "failed" \in States /\ "zero" \in Nexts
  BY DEF States, Nexts
<1>3. T \subseteq Row /\ (\A s, q \in T : s.id = q.id => s = q) /\ Writes(T, rows, r.row, "failed")
  BY <1>2, TableOf
<1>4. Flying(T, 0, account) /\ Answered(0, wire \ {r}, parked)
  BY DEF Flying, Answered
<1> HIDE DEF T
<1>5. (\A q \in T : q.id \in filing => q.state = "sending") /\ (Proto = "jmap" => Only(T, 0))
  BY <1>1, <1>3, Landed
<1> QED BY <1>1, <1>3, <1>4, <1>5, WatchedByDrain

\* What WatchInv asks of a table while nothing takes off or lands.
Flight(T) ==
    /\ Flying(T, inFlight, account)
    /\ \A q \in T : q.id \in filing => q.state = "sending"
    /\ Proto = "jmap" => Only(T, inFlight)

LEMMA FlightOn == SendInv /\ WatchInv => Flight(rows)
BY DEF WatchInv, Flight, Filing

\* A row that is not being sent is written over, or goes.
LEMMA OtherRow ==
    ASSUME SendInv, WatchInv, NEW id, \A r \in rows : r.id = id => r.state # "sending",
           NEW T, T = Dropped(rows, id) \/ \E s : s # "sending" /\ Writes(T, rows, id, s)
    PROVE  Flight(T)
<1>1. Flight(rows)
  BY FlightOn
<1>2. CASE T = Dropped(rows, id)
  BY <1>1, <1>2 DEF Flight, Flying, Only, Dropped
<1>3. ASSUME NEW s, s # "sending", Writes(T, rows, id, s)
      PROVE  Flight(T)
  <2>1. Flying(T, inFlight, account)
    BY <1>1, <1>3 DEF Flight, Flying, Writes, Written
  <2>2. \A q \in T : q.id \in filing => q.state = "sending"
    BY <1>1, <1>3 DEF Flight, Writes, Written
  <2>3. Proto = "jmap" => Only(T, inFlight)
    BY <1>1, <1>3 DEF Flight, Only, Writes, Written
  <2> QED BY <2>1, <2>2, <2>3 DEF Flight
<1> QED BY <1>2, <1>3

\* A row is inserted, which is not being sent.
LEMMA NewRow ==
    ASSUME SendInv, NEW T, Flight(T), NEW x, NEW next, Enqueue(T, x, next)
    PROVE  Flight(rows')
<1>1. nextId \notin filing
  <2>1. filing \subseteq 1..(nextId - 1) /\ nextId \in Nat
    BY DEF SendInv, TypeOK
  <2> QED BY <2>1
<1>2. rows' = T \/ \E new \in rows' : rows' = T \cup {new} /\ new.id = nextId /\ new.state = "queued"
  BY EnqueueEffect
<1> QED BY <1>1, <1>2 DEF Flight, Flying, Only

\* Calls end, but not the one for the row in flight.
LEMMA StillFlying ==
    ASSUME SendInv, WatchInv, Flight(rows'),
           inFlight' = inFlight, account' = account, filing' = filing,
           Proto = "jmap" /\ inFlight # 0 => Answered(inFlight, wire', parked')
    PROVE  WatchInv'
BY DEF WatchInv, Flight, Filing, Answered

LEMMA RetryWatched ==
    ASSUME SendInv, SendInv', WatchInv, NEW r \in rows, Retry(r)
    PROVE  WatchInv'
<1> DEFINE T == Updated(rows, r.id, "queued", "zero")
<1>1. /\ Drain(T, inFlight, wire, alarm, connected)
      /\ account' = account /\ filing' = filing /\ r.state = "failed"
  BY DEF Retry
<1>2. "queued" \in States /\ "zero" \in Nexts
  BY DEF States, Nexts
<1>3. T \subseteq Row /\ (\A s, q \in T : s.id = q.id => s = q) /\ Writes(T, rows, r.id, "queued")
  BY <1>2, TableOf
<1> HIDE DEF T
<1>4. Flight(T)
  BY <1>1, <1>3, OtherRow, RowsAreRows
<1>5. Proto = "jmap" => Answered(inFlight, wire, parked)
  BY DEF WatchInv
<1> QED BY <1>1, <1>3, <1>4, <1>5, WatchedByDrain DEF Flight

LEMMA CopyFiledWatched ==
    ASSUME SendInv, SendInv', WatchInv, NEW id \in filing, CopyFiled(id)
    PROVE  WatchInv'
<1>1. /\ Drain(Dropped(rows, id), inFlight, wire, alarm, connected)
      /\ account' = account /\ filing' \subseteq filing
  BY DEF CopyFiled
<1>2. Proto # "jmap" /\ id # inFlight
  BY DEF WatchInv, Filing
<1>3. /\ Dropped(rows, id) \subseteq Row
      /\ \A s, q \in Dropped(rows, id) : s.id = q.id => s = q
  BY RowsAreRows DEF Dropped
<1>4. /\ Flying(Dropped(rows, id), inFlight, account)
      /\ \A s \in Dropped(rows, id) : s.id \in filing' => s.state = "sending"
  BY <1>1, <1>2 DEF WatchInv, Flying, Filing, Dropped
<1> QED BY <1>1, <1>2, <1>3, <1>4, WatchedByDrain

LEMMA DrainAloneWatched ==
    ASSUME SendInv, SendInv', WatchInv, NEW a, NEW up, Drain(rows, inFlight, wire, a, up),
           account' = account, filing' = filing
    PROVE  WatchInv'
<1>1. Flight(rows)
  BY FlightOn
<1>2. Proto = "jmap" => Answered(inFlight, wire, parked)
  BY DEF WatchInv
<1> QED BY <1>1, <1>2, RowsAreRows, WatchedByDrain DEF Flight

LEMMA ConnectWatched ==
    ASSUME SendInv, SendInv', WatchInv, Connect
    PROVE  WatchInv'
BY DrainAloneWatched DEF Connect

LEMMA TimerFiresWatched ==
    ASSUME SendInv, SendInv', WatchInv, TimerFires
    PROVE  WatchInv'
BY DrainAloneWatched DEF TimerFires

\* A reply to another call than that of the row in flight.
LEMMA OtherReply ==
    ASSUME SendInv, WatchInv, NEW r \in wire, r.row # inFlight \/ inFlight = 0,
           wire' = wire \ {r}, parked' = parked
    PROVE  Proto = "jmap" /\ inFlight # 0 => Answered(inFlight, wire', parked')
BY DEF WatchInv, Answered

LEMMA ReplyStaleWatched ==
    ASSUME SendInv, WatchInv, NEW r \in wire, ReplyStale(r)
    PROVE  WatchInv'
<1>1. /\ r.row # inFlight /\ wire' = wire \ {r} /\ parked' = parked /\ rows' = rows
      /\ inFlight' = inFlight /\ account' = account /\ filing' = filing
  BY DEF ReplyStale, Reported
<1> QED BY <1>1, OtherReply, FlightOn, StillFlying

LEMMA WindowRepliedWatched ==
    ASSUME SendInv, WatchInv, NEW r \in wire, WindowSent(r) \/ WindowRefused(r) \/ WindowQueued(r)
    PROVE  WatchInv'
<1>1. /\ r.row = 0 /\ wire' = wire \ {r} /\ parked' = parked
      /\ inFlight' = inFlight /\ account' = account /\ filing' = filing
  BY DEF WindowSent, WindowRefused, WindowQueued, Reported
<1>2. rows' = rows \/ \E next : Enqueue(rows, r.mail, next)
  BY DEF WindowSent, WindowRefused, WindowQueued
<1>3. Flight(rows')
  BY <1>2, FlightOn, NewRow
<1> QED BY <1>1, <1>3, OtherReply, StillFlying

LEMMA RowFiledWatched ==
    ASSUME SendInv, WatchInv, NEW r \in wire, RowFiled(r)
    PROVE  WatchInv'
<1>1. /\ Proto = "imap" /\ r.row # 0 /\ r.row = inFlight /\ rows' = rows /\ inFlight' = 0
      /\ filing' = filing \cup {inFlight} /\ account' = account
  BY DEF RowFiled
<1>2. 0 \notin filing
  <2>1. filing \subseteq 1..(nextId - 1) /\ nextId \in Nat
    BY DEF SendInv, TypeOK
  <2> QED BY <2>1
<1>3. \A q \in rows : q.id = inFlight => q.state = "sending"
  BY <1>1, RowsAreRows DEF WatchInv, Flying
<1> QED BY <1>1, <1>2, <1>3 DEF WatchInv, Flying, Filing

LEMMA RowDeferredWatched ==
    ASSUME SendInv, WatchInv, NEW r \in wire, RowDeferred(r)
    PROVE  WatchInv'
<1>1. /\ rows' = Deferred(rows, r.row) /\ r.row = inFlight /\ inFlight' = 0
      /\ filing' = filing /\ account' = account
  BY DEF RowDeferred, Reply, Reported
<1>2. Writes(rows', rows, r.row, "queued")
  BY <1>1, RowsAreRows, DeferredWrites
<1>3. (\A q \in rows' : q.id \in filing => q.state = "sending") /\ (Proto = "jmap" => Only(rows', 0))
  BY <1>1, <1>2, Landed
<1>4. 0 \notin filing
  <2>1. filing \subseteq 1..(nextId - 1) /\ nextId \in Nat
    BY DEF SendInv, TypeOK
  <2> QED BY <2>1
<1> QED BY <1>1, <1>3, <1>4 DEF WatchInv, Flying, Filing, Answered

LEMMA FinishWatched ==
    ASSUME SendInv, SendInv', WatchInv, NEW r \in wire, Finish(r)
    PROVE  WatchInv'
BY ReplyStaleWatched, RowSentWatched, RowFiledWatched, RowDeferredWatched, RowThrottledWatched,
   RowRejectedWatched, WindowRepliedWatched DEF Finish

\* An answer leaves the call where it is, but for a dial that fails over SMTP.
LEMMA ServerAnswersWatched ==
    ASSUME SendInv, WatchInv, NEW r \in wire, ServerAnswers(r)
    PROVE  WatchInv'
<1>1. /\ rows' = rows /\ parked' = parked /\ inFlight' = inFlight /\ account' = account
      /\ filing' = filing
  BY DEF ServerAnswers, memory
<1>2. r \in Request
  BY DEF SendInv, TypeOK
<1>3. ASSUME Proto = "jmap"
      PROVE  \E a : a.row = r.row /\ wire' = (wire \ {r}) \cup {a}
  <2>1. \E e : wire' = (wire \ {r}) \cup {[r EXCEPT !.answer = e]}
    BY <1>3 DEF ServerAnswers, ServerAccepts, ServerRefuses, LoginRefused, SessionGone,
                ServerThrottles, SendBroken, DialFails, Answer
  <2>2. PICK e : wire' = (wire \ {r}) \cup {[r EXCEPT !.answer = e]}
    BY <2>1
  <2>3. [r EXCEPT !.answer = e].row = r.row
    BY <1>2 DEF Request
  <2> QED BY <2>2, <2>3
<1>4. Proto = "jmap" => Answered(inFlight, wire', parked')
  BY <1>1, <1>3 DEF WatchInv, Answered
<1> QED BY <1>1, <1>4, FlightOn, StillFlying

LEMMA ConnectionLostWatched ==
    ASSUME SendInv, WatchInv, ConnectionLost
    PROVE  WatchInv'
BY DEF ConnectionLost, WatchInv

LEMMA NoIdIsZero == SendInv => 0 \notin filing
<1> SUFFICES ASSUME SendInv
             PROVE  0 \notin filing
  OBVIOUS
<1>1. filing \subseteq 1..(nextId - 1) /\ nextId \in Nat
  BY DEF SendInv, TypeOK
<1> QED BY <1>1

LEMMA SwitchWatched ==
    ASSUME SendInv, WatchInv, NEW to \in Accounts, Switch(to)
    PROVE  WatchInv'
<1>1. /\ rows' = Updated(rows, inFlight, "failed", "zero") /\ inFlight' = 0 /\ filing' = filing
  BY DEF Switch
<1>2. Writes(rows', rows, inFlight, "failed")
  BY <1>1, RowsAreRows, UpdatedWrites
<1>3. (\A q \in rows' : q.id \in filing => q.state = "sending") /\ (Proto = "jmap" => Only(rows', 0))
  BY <1>2, Landed
<1> QED BY <1>1, <1>3, NoIdIsZero DEF WatchInv, Flying, Filing, Answered

\* The row in flight was of the open account, so the restart finds it.
LEMMA RestartWatched ==
    ASSUME SendInv, WatchInv, Restart
    PROVE  WatchInv'
<1>1. rows' = Recovered(rows) /\ inFlight' = 0 /\ filing' = {}
  BY DEF Restart
<1>2. \A q \in rows' : q.state = "sending" => q \in rows /\ q.account # account
  BY <1>1, RowsAreRows, RecoveredSame
<1>3. Proto = "jmap" => Only(rows', 0)
  BY <1>2, RowsAreRows DEF WatchInv, Only, Flying
<1> QED BY <1>1, <1>3 DEF WatchInv, Flying, Filing, Answered

LEMMA AnsweredStill ==
    ASSUME WatchInv, wire' = wire, parked' = parked
    PROVE  Proto = "jmap" => Answered(inFlight, wire', parked')
BY DEF WatchInv

LEMMA HoldPassesWatched ==
    ASSUME SendInv, WatchInv, NEW r \in rows, HoldPasses(r)
    PROVE  WatchInv'
<1>1. /\ rows' = Updated(rows, r.id, r.state, "passed") /\ wire' = wire /\ parked' = parked
      /\ inFlight' = inFlight /\ account' = account /\ filing' = filing
  BY DEF HoldPasses, memory
<1>2. Writes(rows', rows, r.id, r.state)
  BY <1>1, RowsAreRows, UpdatedWrites
<1>3. /\ \A q \in rows' : \E s \in rows : q.id = s.id /\ q.state = s.state /\ q.account = s.account
      /\ \A s \in rows : \E q \in rows' : q.id = s.id /\ q.state = s.state /\ q.account = s.account
  BY <1>2, RowsAreRows DEF Writes, Written
<1>4. Flight(rows')
  BY <1>3, FlightOn DEF Flight, Flying, Only
<1> QED BY <1>1, <1>4, AnsweredStill, StillFlying

LEMMA CancelOrEditWatched ==
    ASSUME SendInv, WatchInv, NEW r \in rows, CancelOrEdit(r)
    PROVE  WatchInv'
<1>1. /\ rows' = Dropped(rows, r.id) /\ wire' = wire /\ parked' = parked /\ r.state # "sending"
      /\ inFlight' = inFlight /\ account' = account /\ filing' = filing
  BY DEF CancelOrEdit, memory, Listed
<1>2. Flight(rows')
  BY <1>1, RowsAreRows, OtherRow
<1> QED BY <1>1, <1>2, AnsweredStill, StillFlying

LEMMA UndoWatched ==
    ASSUME SendInv, WatchInv, Undo
    PROVE  WatchInv'
<1>1. /\ wire' = wire /\ parked' = parked
      /\ inFlight' = inFlight /\ account' = account /\ filing' = filing
  BY DEF Undo
<1>2. \/ rows' = rows
      \/ \E r \in rows : /\ r.state = "queued"
                         /\ \/ rows' = Dropped(rows, r.id)
                            \/ rows' = Updated(rows, r.id, "failed", "zero")
  BY DEF Undo
<1>3. Flight(rows')
  <2>1. ASSUME NEW r \in rows, r.state = "queued", rows' = Dropped(rows, r.id)
        PROVE  Flight(rows')
    BY <2>1, RowsAreRows, OtherRow
  <2>2. ASSUME NEW r \in rows, r.state = "queued", rows' = Updated(rows, r.id, "failed", "zero")
        PROVE  Flight(rows')
    <3>1. Writes(rows', rows, r.id, "failed")
      BY <2>2, RowsAreRows, UpdatedWrites
    <3> QED BY <2>2, <3>1, RowsAreRows, OtherRow
  <2> QED BY <1>2, <2>1, <2>2, FlightOn
<1> QED BY <1>1, <1>3, AnsweredStill, StillFlying

LEMMA SendNowWatched ==
    ASSUME SendInv, WatchInv, NEW x, NEW hold, SendNow(x, hold)
    PROVE  Flight(rows') /\ wire \subseteq wire' /\ parked \subseteq parked'
<1>1. CASE connected /\ ~hold
  <2>1. rows' = rows /\ HandOver(0, x, wire)
    BY <1>1 DEF SendNow
  <2> QED BY <2>1, HandedOver, FlightOn
<1>2. CASE ~(connected /\ ~hold)
  <2>1. Enqueue(rows, x, IF hold THEN "later" ELSE "zero") /\ wire' = wire /\ parked' = parked
    BY <1>2 DEF SendNow
  <2> QED BY <2>1, FlightOn, NewRow
<1> QED BY <1>1, <1>2

LEMMA SendWatched ==
    ASSUME SendInv, WatchInv, NEW x \in Mails, Send(x) \/ CryptoDone(x)
    PROVE  WatchInv'
<1>1. inFlight' = inFlight /\ account' = account /\ filing' = filing
  BY DEF Send, CryptoDone
<1>2. \/ \E hold : SendNow(x, hold)
      \/ rows' = rows /\ wire' = wire /\ parked' = parked
  BY DEF Send, CryptoDone
<1>3. Flight(rows') /\ wire \subseteq wire' /\ parked \subseteq parked'
  BY <1>2, SendNowWatched, FlightOn
<1>4. Proto = "jmap" => Answered(inFlight, wire', parked')
  BY <1>3 DEF WatchInv, Answered
<1> QED BY <1>1, <1>3, <1>4, StillFlying

\* The waiter of the row in flight makes its call, or the row goes back to the
\* queue.
LEMMA TokenAnsweredWatched ==
    ASSUME SendInv, WatchInv, NEW ok \in BOOLEAN, TokenAnswered(ok)
    PROVE  WatchInv'
<1> DEFINE Row0   == {p \in parked : p.row # 0 /\ p.row = inFlight}
           Window == {p \in parked : p.row = 0}
           Sent   == IF connected THEN Window \cup (IF ok THEN Row0 ELSE {}) ELSE {}
           Left   == IF Row0 \subseteq Sent THEN rows ELSE Deferred(rows, inFlight)
           Call(p) == [n |-> sends + p.row, row |-> p.row, mail |-> p.mail, answer |-> "awaited"]
<1>1. /\ wire' = wire \cup {Call(p) : p \in Sent}
      /\ inFlight' = IF Row0 \subseteq Sent THEN inFlight ELSE 0
      /\ account' = account /\ filing' = filing
      /\ rows' = Left \/ \E x : Enqueue(Left, x, "zero")
  BY DEF TokenAnswered
<1>2. \A p : Call(p).row = p.row
  OBVIOUS
<1>3. \A p \in parked : p.row = inFlight /\ inFlight # 0 => p \in Row0
  OBVIOUS
<1>4. /\ Row0 \subseteq Sent => Left = rows
      /\ ~(Row0 \subseteq Sent) => Left = Deferred(rows, inFlight)
  OBVIOUS
<1> HIDE DEF Row0, Window, Sent, Left, Call
<1>5. CASE Row0 \subseteq Sent
  <2>1. Flight(rows')
    BY <1>1, <1>4, <1>5, FlightOn, NewRow
  <2>2. ASSUME Proto = "jmap", inFlight # 0
        PROVE  Answered(inFlight, wire', parked')
    <3>1. CASE \E r \in wire : r.row = inFlight
      BY <1>1, <3>1 DEF Answered
    <3>2. CASE \E p \in parked : p.row = inFlight
      BY <1>1, <1>2, <1>3, <1>5, <2>2, <3>2 DEF Answered
    <3> QED BY <2>2, <3>1, <3>2 DEF WatchInv, Answered
  <2> QED BY <1>1, <1>5, <2>1, <2>2, StillFlying
<1>6. CASE ~(Row0 \subseteq Sent)
  <2>1. Writes(Left, rows, inFlight, "queued")
    BY <1>4, <1>6, RowsAreRows, DeferredWrites
  <2>2. (\A q \in Left : q.id \in filing => q.state = "sending") /\ (Proto = "jmap" => Only(Left, 0))
    BY <2>1, Landed
  <2>3. rows' = Left \/ \E new \in rows' : rows' = Left \cup {new} /\ new.id = nextId
                                            /\ new.state = "queued"
    BY <1>1, EnqueueEffect
  <2>4. nextId \notin filing
    <3>1. filing \subseteq 1..(nextId - 1) /\ nextId \in Nat
      BY DEF SendInv, TypeOK
    <3> QED BY <3>1
  <2>5. (\A q \in rows' : q.id \in filing => q.state = "sending") /\ (Proto = "jmap" => Only(rows', 0))
    BY <2>2, <2>3, <2>4 DEF Only
  <2> QED BY <1>1, <1>6, <2>5, NoIdIsZero DEF WatchInv, Flying, Filing, Answered
<1> QED BY <1>5, <1>6

LEMMA StepWatched == SendInv /\ SendInv' /\ WatchInv /\ [Next]_vars => WatchInv'
<1> SUFFICES ASSUME SendInv, SendInv', WatchInv, [Next]_vars
             PROVE  WatchInv'
  OBVIOUS
<1>1. CASE UNCHANGED vars
  BY <1>1 DEF vars, memory, WatchInv
<1>2. CASE Next
  BY <1>2, SendWatched, TokenAnsweredWatched, ServerAnswersWatched, FinishWatched,
     CopyFiledWatched, HoldPassesWatched, CancelOrEditWatched, RetryWatched, SwitchWatched,
     ConnectWatched, ConnectionLostWatched, RestartWatched, TimerFiresWatched, UndoWatched
     DEF Next
<1> QED BY <1>1, <1>2

LEMMA StartWatched == Init => WatchInv
BY DEF Init, WatchInv, Flying, Filing, Answered, Only

LEMMA AlwaysWatched == Spec => []WatchInv
BY StartWatched, StepWatched, AlwaysConserved, PTL DEF Spec

\* Over JMAP m_outboxBusy never latches: the row in flight is marked as being
\* sent, belongs to the open account, and a token or a callback is still to
\* come for it.
THEOREM InFlightIsAnswered ==
    ASSUME Proto = "jmap"
    PROVE  Spec => []InFlightAnswered
<1>1. WatchInv => InFlightAnswered
  BY DEF WatchInv, InFlightAnswered, Flying, Answered
<1> QED BY <1>1, AlwaysWatched, PTL

\* Over JMAP a row marked as being sent, which the list lets nobody touch, is
\* the one in flight: no reply, switch or restart leaves one behind.
THEOREM SendingRowsAreWatched ==
    ASSUME Proto = "jmap"
    PROVE  Spec => []SendingIsWatched
<1>1. WatchInv => SendingIsWatched
  BY DEF WatchInv, SendingIsWatched, Only
<1> QED BY <1>1, AlwaysWatched, PTL

\* What holds of the row in flight over either protocol.
InFlightHasRow == Flying(rows, inFlight, account) /\ inFlight \notin filing

\* Over either protocol the row in flight exists, is marked as being sent and
\* belongs to the open account, and it is not one whose copy is being filed:
\* a copy that ends never takes the row away from a send.
THEOREM InFlightIsARow == Spec => []InFlightHasRow
<1>1. WatchInv => InFlightHasRow
  BY DEF WatchInv, Filing, InFlightHasRow
<1> QED BY <1>1, AlwaysWatched, PTL

-----------------------------------------------------------------------------
(* Over SMTP the outbox implements Delivery.  What the user asks for and    *)
(* takes back, and what leaves, is written by few steps; of every other it  *)
(* is enough that nothing comes to wait that did not wait before.           *)

\* m waits to leave: with its window, or in a row that will be sent.
Pending(m, R, f) == Busy(m, f) \/ \E r \in R : r.mail = m /\ r.state # "failed"

LEMMA OwedIsPending ==
    Owed = {m \in Mails : delivered[m] < asked[m] /\ Pending(m, rows, fate)}
BY DEF Owed, Pending, Busy

LEMMA OwedIsPendingNext ==
    Owed' = {m \in Mails : delivered'[m] < asked'[m] /\ Pending(m, rows', fate')}
BY DEF Owed, Pending, Busy

\* A step that asks for nothing and sends nothing ends some waiting, or none.
LEMMA GaveUp ==
    ASSUME asked' = asked, delivered' = delivered,
           \A m \in Mails : Pending(m, rows', fate') => Pending(m, rows, fate)
    PROVE  [Promise!Next]_(Promise!vars)
<1>1. Owed' \subseteq Owed
  BY OwedIsPending, OwedIsPendingNext
<1> DEFINE S == Owed \ Owed'
<1>2. S \in SUBSET Mails
  BY DEF Owed
<1>3. Owed' = Owed \ S
  BY <1>1
<1> HIDE DEF S
<1>4. Promise!GiveUp(S)
  BY <1>3 DEF Promise!GiveUp
<1> QED BY <1>2, <1>4 DEF Promise!Next

\* What waits in a table of which one row was written over.
LEMMA WritesPend ==
    ASSUME NEW R, NEW T, NEW id, NEW state, Writes(T, R, id, state),
           state = "failed" \/ \A r \in R : r.id = id => r.state # "failed"
    PROVE  \A m, f : Pending(m, T, f) => Pending(m, R, f)
BY DEF Writes, Written, Pending

LEMMA FewerPend ==
    ASSUME NEW R, NEW T, T \subseteq R
    PROVE  \A m, f : Pending(m, T, f) => Pending(m, R, f)
BY DEF Pending

LEMMA DrainPends ==
    ASSUME NEW R, R \subseteq Row, \A r, q \in R : r.id = q.id => r = q,
           NEW busy, NEW w, NEW a, NEW up, Drain(R, busy, w, a, up)
    PROVE  \A m, f : Pending(m, rows', f) <=> Pending(m, R, f)
<1>1. CASE rows' = R
  BY <1>1
<1>2. CASE Picks(R)
  <2>1. PICK msg \in R : msg.state = "queued" /\ rows' = Sending(R, msg.id)
    BY <1>2 DEF Picks
  <2>2. Writes(rows', R, msg.id, "sending")
    BY <2>1, SendingWrites
  <2>3. \A m, f : Pending(m, rows', f) => Pending(m, R, f)
    BY <2>1, <2>2, WritesPend
  <2>4. \A m, f : Pending(m, R, f) => Pending(m, rows', f)
    BY <2>2 DEF Writes, Written, Pending
  <2> QED BY <2>3, <2>4
<1> QED BY <1>1, <1>2, DrainEffect

Fates == {"composing", "signing", "sending", "accepted", "cancelled"}

LEMMA EnqueuePends ==
    ASSUME NEW R, NEW x, NEW next, Enqueue(R, x, next), fate \in [Mails -> Fates]
    PROVE  \A m \in Mails : m # x => (Pending(m, rows', fate') <=> Pending(m, R, fate))
BY EnqueueEffect DEF Pending, Busy

\* The row in flight will be sent until something is said of it.
LEMMA InFlightPends ==
    ASSUME SendInv, WatchInv
    PROVE  \A r \in rows : r.id = inFlight => r.state # "failed"
BY RowsAreRows DEF WatchInv, Flying

\* The invariants a step of the refinement may use.
AllInv == SendInv /\ KeptInv /\ WatchInv

LEMMA RowSentGivesUp ==
    ASSUME AllInv, NEW r \in wire, RowSent(r)
    PROVE  [Promise!Next]_(Promise!vars)
<1>1. /\ Drain(Dropped(rows, r.row), 0, wire \ {r}, alarm, connected)
      /\ fate' = fate /\ delivered' = delivered /\ asked' = asked
  BY DEF RowSent, Reply, Reported
<1>2. Dropped(rows, r.row) \subseteq rows
  BY DEF Dropped
<1>3. \A m, f : Pending(m, rows', f) <=> Pending(m, Dropped(rows, r.row), f)
  BY <1>1, <1>2, RowsAreRows, DrainPends DEF AllInv
<1> QED BY <1>1, <1>2, <1>3, FewerPend, GaveUp

LEMMA CopyFiledGivesUp ==
    ASSUME AllInv, NEW id \in filing, CopyFiled(id)
    PROVE  [Promise!Next]_(Promise!vars)
<1>1. /\ Drain(Dropped(rows, id), inFlight, wire, alarm, connected)
      /\ fate' = fate /\ delivered' = delivered /\ asked' = asked
  BY DEF CopyFiled, user
<1>2. Dropped(rows, id) \subseteq rows
  BY DEF Dropped
<1>3. \A m, f : Pending(m, rows', f) <=> Pending(m, Dropped(rows, id), f)
  BY <1>1, <1>2, RowsAreRows, DrainPends DEF AllInv
<1> QED BY <1>1, <1>2, <1>3, FewerPend, GaveUp

LEMMA RowThrottledGivesUp ==
    ASSUME AllInv, NEW r \in wire, RowThrottled(r)
    PROVE  [Promise!Next]_(Promise!vars)
<1> DEFINE T == Updated(rows, r.row, "queued", "later")
<1>1. /\ Drain(T, 0, wire \ {r}, alarm, connected)
      /\ fate' = fate /\ delivered' = delivered /\ asked' = asked /\ r.row = inFlight
  BY DEF RowThrottled, Reply, Reported
<1>2. T \subseteq Row /\ (\A s, q \in T : s.id = q.id => s = q) /\ Writes(T, rows, r.row, "queued")
  BY TableOf DEF States, Nexts, AllInv
<1> HIDE DEF T
<1>3. \A m, f : Pending(m, rows', f) <=> Pending(m, T, f)
  BY <1>1, <1>2, DrainPends
<1>4. \A m, f : Pending(m, T, f) => Pending(m, rows, f)
  BY <1>1, <1>2, InFlightPends, WritesPend DEF AllInv
<1> QED BY <1>1, <1>3, <1>4, GaveUp

LEMMA RowRejectedGivesUp ==
    ASSUME AllInv, NEW r \in wire, RowRejected(r)
    PROVE  [Promise!Next]_(Promise!vars)
<1> DEFINE T == Updated(rows, r.row, "failed", "zero")
<1>1. /\ Drain(T, 0, wire \ {r}, alarm, connected)
      /\ fate' = fate /\ delivered' = delivered /\ asked' = asked
  BY DEF RowRejected, Reply, Reported
<1>2. T \subseteq Row /\ (\A s, q \in T : s.id = q.id => s = q) /\ Writes(T, rows, r.row, "failed")
  BY TableOf DEF States, Nexts, AllInv
<1> HIDE DEF T
<1>3. \A m, f : Pending(m, rows', f) <=> Pending(m, T, f)
  BY <1>1, <1>2, DrainPends
<1>4. \A m, f : Pending(m, T, f) => Pending(m, rows, f)
  BY <1>2, WritesPend
<1> QED BY <1>1, <1>3, <1>4, GaveUp

LEMMA RowDeferredGivesUp ==
    ASSUME AllInv, NEW r \in wire, RowDeferred(r)
    PROVE  [Promise!Next]_(Promise!vars)
<1>1. /\ rows' = Deferred(rows, r.row) /\ r.row = inFlight
      /\ fate' = fate /\ delivered' = delivered /\ asked' = asked
  BY DEF RowDeferred, Reply, Reported
<1>2. Writes(rows', rows, inFlight, "queued")
  BY <1>1, RowsAreRows, DeferredWrites DEF AllInv
<1>3. \A m, f : Pending(m, rows', f) => Pending(m, rows, f)
  BY <1>2, InFlightPends, WritesPend DEF AllInv
<1> QED BY <1>1, <1>3, GaveUp

\* The window's message is sent or refused, or it is queued after all.
LEMMA WindowRepliedGivesUp ==
    ASSUME AllInv, NEW r \in wire, WindowSent(r) \/ WindowRefused(r) \/ WindowQueued(r)
    PROVE  [Promise!Next]_(Promise!vars)
<1>1. /\ r.row = 0 /\ delivered' = delivered /\ asked' = asked
  BY DEF WindowSent, WindowRefused, WindowQueued, Reported
<1>2. Pending(r.mail, rows, fate) /\ r.mail \in Mails
  BY <1>1, RowsAreRows DEF AllInv, KeptInv, Windows, Pending, Busy
<1>3. \/ rows' = rows /\ \E y : fate' = [fate EXCEPT ![r.mail] = y]
      \/ \E next : Enqueue(rows, r.mail, next)
  BY DEF WindowSent, WindowRefused, WindowQueued
<1>4. fate \in [Mails -> Fates]
  BY DEF AllInv, SendInv, TypeOK, Fates
<1>5. \A m \in Mails : m # r.mail /\ Pending(m, rows', fate') => Pending(m, rows, fate)
  <2>1. CASE \E next : Enqueue(rows, r.mail, next)
    BY <1>4, <2>1, EnqueuePends
  <2>2. CASE rows' = rows /\ \E y : fate' = [fate EXCEPT ![r.mail] = y]
    BY <1>4, <2>2 DEF Pending, Busy
  <2> QED BY <1>3, <2>1, <2>2
<1> QED BY <1>1, <1>2, <1>5, GaveUp

LEMMA FinishGivesUp ==
    ASSUME AllInv, NEW r \in wire, Finish(r)
    PROVE  [Promise!Next]_(Promise!vars)
<1>1. CASE ReplyStale(r) \/ RowFiled(r)
  <2>1. rows' = rows /\ fate' = fate /\ delivered' = delivered /\ asked' = asked
    BY <1>1 DEF ReplyStale, RowFiled, Reported, user
  <2> QED BY <2>1, GaveUp
<1> QED BY <1>1, RowSentGivesUp, RowThrottledGivesUp, RowRejectedGivesUp, RowDeferredGivesUp,
           WindowRepliedGivesUp DEF Finish

LEMMA DrainAloneGivesUp ==
    ASSUME AllInv, NEW busy, NEW w, NEW a, NEW up, Drain(rows, busy, w, a, up),
           fate' = fate, delivered' = delivered, asked' = asked
    PROVE  [Promise!Next]_(Promise!vars)
<1>1. \A m, f : Pending(m, rows', f) <=> Pending(m, rows, f)
  BY RowsAreRows, DrainPends DEF AllInv
<1> QED BY <1>1, GaveUp

LEMMA SessionGivesUp ==
    ASSUME AllInv, Connect \/ ConnectionLost \/ TimerFires
    PROVE  [Promise!Next]_(Promise!vars)
<1>1. fate' = fate /\ delivered' = delivered /\ asked' = asked
  BY DEF Connect, ConnectionLost, TimerFires, user
<1>2. CASE Connect
  BY <1>1, <1>2, DrainAloneGivesUp DEF Connect
<1>3. CASE TimerFires
  BY <1>1, <1>3, DrainAloneGivesUp DEF TimerFires
<1>4. CASE ConnectionLost
  BY <1>1, <1>4, GaveUp DEF ConnectionLost
<1> QED BY <1>2, <1>3, <1>4

LEMMA HoldPassesGivesUp ==
    ASSUME AllInv, NEW r \in rows, HoldPasses(r)
    PROVE  [Promise!Next]_(Promise!vars)
<1>1. /\ rows' = Updated(rows, r.id, r.state, "passed")
      /\ fate' = fate /\ delivered' = delivered /\ asked' = asked
  BY DEF HoldPasses, user
<1>2. Writes(rows', rows, r.id, r.state)
  BY <1>1, RowsAreRows, UpdatedWrites DEF AllInv
<1>3. \A m, f : Pending(m, rows', f) => Pending(m, rows, f)
  BY <1>2, RowsAreRows, WritesPend DEF AllInv
<1> QED BY <1>1, <1>3, GaveUp

LEMMA SwitchGivesUp ==
    ASSUME AllInv, NEW to \in Accounts, Switch(to)
    PROVE  [Promise!Next]_(Promise!vars)
<1>1. /\ rows' = Updated(rows, inFlight, "failed", "zero")
      /\ fate' = fate /\ delivered' = delivered /\ asked' = asked
  BY DEF Switch, user
<1>2. Writes(rows', rows, inFlight, "failed")
  BY <1>1, RowsAreRows, UpdatedWrites DEF AllInv
<1>3. \A m, f : Pending(m, rows', f) => Pending(m, rows, f)
  BY <1>2, WritesPend
<1> QED BY <1>1, <1>3, GaveUp

LEMMA RestartGivesUp ==
    ASSUME AllInv, Restart
    PROVE  [Promise!Next]_(Promise!vars)
<1>1. /\ rows' = Recovered(rows) /\ delivered' = delivered /\ asked' = asked
      /\ \A m \in Mails : ~Busy(m, fate')
  BY DEF Restart, Busy
<1>2. \A q \in rows' : q.state # "failed" => q \in rows
  BY <1>1, RowsAreRows, RecoveredSame DEF AllInv
<1>3. \A m \in Mails : Pending(m, rows', fate') => Pending(m, rows, fate)
  BY <1>1, <1>2 DEF Pending
<1> QED BY <1>1, <1>3, GaveUp

\* A message that is with gpg waits already.
LEMMA CryptoDoneGivesUp ==
    ASSUME AllInv, NEW x \in Mails, CryptoDone(x)
    PROVE  [Promise!Next]_(Promise!vars)
<1>1. delivered' = delivered /\ asked' = asked /\ Pending(x, rows, fate)
  BY DEF CryptoDone, Pending, Busy
<1>2. fate \in [Mails -> Fates]
  BY DEF AllInv, SendInv, TypeOK, Fates
<1>3. \/ rows' = rows /\ \E y : fate' = [fate EXCEPT ![x] = y]
      \/ \E next : Enqueue(rows, x, next)
  BY DEF CryptoDone, SendNow
<1>4. \A m \in Mails : m # x /\ Pending(m, rows', fate') => Pending(m, rows, fate)
  <2>1. CASE \E next : Enqueue(rows, x, next)
    BY <1>2, <2>1, EnqueuePends
  <2>2. CASE rows' = rows /\ \E y : fate' = [fate EXCEPT ![x] = y]
    BY <1>2, <2>2 DEF Pending, Busy
  <2> QED BY <1>3, <2>1, <2>2
<1> QED BY <1>1, <1>4, GaveUp

\* So do the row in flight and a window's message, whose token has come or not.
LEMMA TokenAnsweredGivesUp ==
    ASSUME AllInv, NEW ok \in BOOLEAN, TokenAnswered(ok)
    PROVE  [Promise!Next]_(Promise!vars)
<1>1. delivered' = delivered /\ asked' = asked
  BY DEF TokenAnswered
<1>2. PICK Left : /\ Left = rows \/ Left = Deferred(rows, inFlight)
                  /\ \/ rows' = Left /\ fate' = fate
                     \/ \E p \in parked : p.row = 0 /\ Enqueue(Left, p.mail, "zero")
  BY DEF TokenAnswered
<1>3. \A m, f : Pending(m, Left, f) => Pending(m, rows, f)
  <2>1. CASE Left = Deferred(rows, inFlight)
    <3>1. Writes(Left, rows, inFlight, "queued")
      BY <2>1, RowsAreRows, DeferredWrites DEF AllInv
    <3> QED BY <3>1, InFlightPends, WritesPend DEF AllInv
  <2> QED BY <1>2, <2>1
<1>4. \A m \in Mails : Pending(m, rows', fate') => Pending(m, rows, fate)
  <2>1. ASSUME NEW p \in parked, p.row = 0, Enqueue(Left, p.mail, "zero")
        PROVE  \A m \in Mails : Pending(m, rows', fate') => Pending(m, rows, fate)
    <3>1. Pending(p.mail, rows, fate)
      BY <2>1, RowsAreRows DEF AllInv, KeptInv, Windows, Pending, Busy
    <3>2. fate \in [Mails -> Fates]
      BY DEF AllInv, SendInv, TypeOK, Fates
    <3>3. \A m \in Mails : m # p.mail => (Pending(m, rows', fate') <=> Pending(m, Left, fate))
      BY <2>1, <3>2, EnqueuePends
    <3> QED BY <1>3, <3>1, <3>3
  <2> QED BY <1>2, <1>3, <2>1
<1> QED BY <1>1, <1>4, GaveUp

\* Taking a queued message back: it was owed, for its claim was counted.
LEMMA ClaimIsOwed ==
    ASSUME SendInv, Proto = "imap", NEW m \in Mails, NEW c,
           c \in Claims(rows, wire, parked, fate, m)
    PROVE  delivered[m] < asked[m] /\ delivered[m] \in Nat /\ asked[m] \in Nat
<1> DEFINE C == Claims(rows, wire, parked, fate, m)
<1>1. /\ IsFiniteSet(C) /\ Cardinality(C) \in Nat /\ Gone(m) \in Nat /\ asked[m] \in Nat
      /\ Cardinality(C) + Gone(m) <= asked[m]
  BY Before
<1>2. Gone(m) = delivered[m]
  BY DEF Gone
<1> HIDE DEF C
<1>3. Cardinality(C) # 0
  BY <1>1, FS_EmptySet DEF C
<1> QED BY <1>1, <1>2, <1>3

LEMMA TookBack ==
    ASSUME AllInv, Proto = "imap", NEW r \in rows, r.state = "queued",
           asked' = [asked EXCEPT ![r.mail] = @ - 1], delivered' = delivered,
           ~Pending(r.mail, rows', fate'),
           \A m \in Mails : m # r.mail => (Pending(m, rows', fate') <=> Pending(m, rows, fate))
    PROVE  [Promise!Next]_(Promise!vars)
<1> DEFINE x == r.mail
<1>1. x \in Mails /\ asked \in [Mails -> Nat]
  BY RowsAreRows DEF AllInv, SendInv, TypeOK
<1>2. RowClaim(r.id) \in Claims(rows, wire, parked, fate, x)
  BY DEF Claims, QueuedOf
<1>3. delivered[x] < asked[x]
  BY <1>1, <1>2, ClaimIsOwed DEF AllInv
<1>4. Pending(x, rows, fate)
  BY DEF Pending
<1> HIDE DEF x
<1>5. {x} \subseteq Owed
  BY <1>1, <1>3, <1>4, OwedIsPending
<1>6. asked' = [i \in Mails |-> IF i \in {x} THEN asked[i] - 1 ELSE asked[i]]
  BY <1>1 DEF x
<1>7. Owed' = Owed \ {x}
  <2>1. \A m \in Mails : m # x => asked'[m] = asked[m]
    BY <1>1, <1>6
  <2> QED BY <2>1, OwedIsPending, OwedIsPendingNext DEF x
<1>8. Promise!TakeBack({x})
  BY <1>5, <1>6, <1>7 DEF Promise!TakeBack
<1> QED BY <1>1, <1>8 DEF Promise!Next

\* The queued row of a message goes, or is failed: nothing else of it waits.
LEMMA RowGone ==
    ASSUME AllInv, NEW r \in rows, NEW T,
           T = Dropped(rows, r.id) \/ Writes(T, rows, r.id, "failed"),
           NEW f, \A m \in Mails : m # r.mail => f[m] = fate[m], ~Busy(r.mail, f)
    PROVE  /\ ~Pending(r.mail, T, f)
           /\ \A m \in Mails : m # r.mail => (Pending(m, T, f) <=> Pending(m, rows, fate))
<1>1. \A q \in rows : q.mail = r.mail => q = r
  BY DEF AllInv, KeptInv, Kept
<1>2. \A q \in rows : q.id = r.id => q = r
  BY RowsAreRows DEF AllInv
<1>3. CASE T = Dropped(rows, r.id)
  BY <1>1, <1>2, <1>3 DEF Pending, Busy, Dropped
<1>4. CASE Writes(T, rows, r.id, "failed")
  <2>1. ~Pending(r.mail, T, f)
    BY <1>1, <1>4 DEF Pending, Writes, Written
  <2>2. ASSUME NEW m \in Mails, m # r.mail
        PROVE  Pending(m, T, f) <=> Pending(m, rows, fate)
    <3>1. Pending(m, T, f) => Pending(m, rows, fate)
      BY <1>4, <2>2 DEF Pending, Busy, Writes, Written
    <3>2. Pending(m, rows, fate) => Pending(m, T, f)
      BY <1>2, <1>4, <2>2 DEF Pending, Busy, Writes, Written
    <3> QED BY <3>1, <3>2
  <2> QED BY <2>1, <2>2
<1> QED BY <1>3, <1>4

LEMMA TakenBackRefines ==
    ASSUME AllInv, Proto = "imap", NEW r \in rows, TakenBack(r), delivered' = delivered,
           rows' = Dropped(rows, r.id) \/ rows' = Updated(rows, r.id, "failed", "zero"),
           r.state = "queued" \/ rows' = Dropped(rows, r.id),
           fate' = fate \/ \E y \in {"cancelled", "composing"} : fate' = [fate EXCEPT ![r.mail] = y]
    PROVE  [Promise!Next]_(Promise!vars)
<1>1. rows' = Dropped(rows, r.id) \/ Writes(rows', rows, r.id, "failed")
  BY RowsAreRows, UpdatedWrites DEF AllInv
<1>2. fate \in [Mails -> Fates] /\ r.mail \in Mails /\ fate[r.mail] = "accepted"
  BY RowsAreRows DEF AllInv, SendInv, TypeOK, Fates, KeptInv, Kept
<1>3. (\A m \in Mails : m # r.mail => fate'[m] = fate[m]) /\ ~Busy(r.mail, fate')
  BY <1>2 DEF Busy
<1>4. /\ ~Pending(r.mail, rows', fate')
      /\ \A m \in Mails : m # r.mail => (Pending(m, rows', fate') <=> Pending(m, rows, fate))
  BY <1>1, <1>3, RowGone
<1>5. CASE r.state = "queued"
  BY <1>4, <1>5, TookBack DEF TakenBack
<1>6. CASE r.state # "queued"
  BY <1>4, <1>6, GaveUp DEF TakenBack
<1> QED BY <1>5, <1>6

LEMMA CancelOrEditRefines ==
    ASSUME AllInv, Proto = "imap", NEW r \in rows, CancelOrEdit(r)
    PROVE  [Promise!Next]_(Promise!vars)
<1>1. /\ rows' = Dropped(rows, r.id) /\ TakenBack(r) /\ delivered' = delivered
      /\ \E y \in {"cancelled", "composing"} : fate' = [fate EXCEPT ![r.mail] = y]
  BY DEF CancelOrEdit
<1> QED BY <1>1, TakenBackRefines

LEMMA UndoRefines ==
    ASSUME AllInv, Proto = "imap", Undo
    PROVE  [Promise!Next]_(Promise!vars)
<1>1. delivered' = delivered
  BY DEF Undo
<1>2. CASE rows' = rows /\ fate' = fate /\ asked' = asked
  BY <1>1, <1>2, GaveUp
<1>3. ASSUME NEW r \in rows, r.state = "queued", TakenBack(r),
             \/ /\ rows' = Dropped(rows, r.id)
                /\ fate' = [fate EXCEPT ![r.mail] = "composing"]
             \/ rows' = Updated(rows, r.id, "failed", "zero") /\ fate' = fate
      PROVE  [Promise!Next]_(Promise!vars)
  BY <1>1, <1>3, TakenBackRefines
<1> QED BY <1>2, <1>3 DEF Undo

\* The user asks, and the message waits.
LEMMA AskedFor ==
    ASSUME AllInv, Proto = "imap", NEW x \in Mails,
           asked' = [asked EXCEPT ![x] = @ + 1], delivered' = delivered,
           Pending(x, rows', fate'),
           \A m \in Mails : m # x => (Pending(m, rows', fate') <=> Pending(m, rows, fate))
    PROVE  [Promise!Next]_(Promise!vars)
<1>1. asked \in [Mails -> Nat] /\ delivered \in [Mails -> Nat]
  BY DEF AllInv, SendInv, TypeOK
<1>2. delivered[x] <= asked[x]
  <2>1. /\ Cardinality(Claims(rows, wire, parked, fate, x)) \in Nat
        /\ Cardinality(Claims(rows, wire, parked, fate, x)) + Gone(x) <= asked[x]
        /\ Gone(x) = delivered[x]
    BY Before DEF AllInv, Gone
  <2> QED BY <1>1, <2>1
<1>3. asked' = [i \in Mails |-> IF i \in {x} THEN asked[i] + 1 ELSE asked[i]]
  BY <1>1
<1>4. Owed' = Owed \cup {x}
  <2>1. delivered'[x] < asked'[x] /\ \A m \in Mails : m # x => asked'[m] = asked[m]
    BY <1>1, <1>2, <1>3
  <2> QED BY <2>1, OwedIsPending, OwedIsPendingNext
<1>5. Promise!Ask({x})
  BY <1>3, <1>4 DEF Promise!Ask
<1> QED BY <1>5 DEF Promise!Next

\* The user asks, and the window is left with the message: the cache took no
\* row.
LEMMA TurnedAway ==
    ASSUME AllInv, NEW x \in Mails,
           asked' = [asked EXCEPT ![x] = @ + 1], delivered' = delivered,
           ~Pending(x, rows', fate'), ~Pending(x, rows, fate),
           \A m \in Mails : m # x => (Pending(m, rows', fate') <=> Pending(m, rows, fate))
    PROVE  [Promise!Next]_(Promise!vars)
<1>1. asked \in [Mails -> Nat]
  BY DEF AllInv, SendInv, TypeOK
<1>2. asked' = [i \in Mails |-> IF i \in {x} THEN asked[i] + 1 ELSE asked[i]]
  BY <1>1
<1>3. Owed' = Owed
  <2>1. \A m \in Mails : m # x => asked'[m] = asked[m]
    BY <1>1, <1>2
  <2> QED BY <2>1, OwedIsPending, OwedIsPendingNext
<1>4. Promise!TurnAway({x})
  BY <1>2, <1>3 DEF Promise!TurnAway
<1> QED BY <1>4 DEF Promise!Next

LEMMA RetryRefines ==
    ASSUME AllInv, Proto = "imap", NEW r \in rows, Retry(r)
    PROVE  [Promise!Next]_(Promise!vars)
<1> DEFINE T == Updated(rows, r.id, "queued", "zero")
<1>1. /\ Drain(T, inFlight, wire, alarm, connected)
      /\ fate' = fate /\ delivered' = delivered /\ asked' = [asked EXCEPT ![r.mail] = @ + 1]
  BY DEF Retry
<1>2. T \subseteq Row /\ (\A s, q \in T : s.id = q.id => s = q) /\ Writes(T, rows, r.id, "queued")
  BY TableOf DEF States, Nexts, AllInv
<1> HIDE DEF T
<1>3. \A m, f : Pending(m, rows', f) <=> Pending(m, T, f)
  BY <1>1, <1>2, DrainPends
<1>4. Pending(r.mail, T, fate)
  BY <1>2 DEF Pending, Writes, Written
<1>5. ASSUME NEW m \in Mails, m # r.mail
      PROVE  Pending(m, T, fate) <=> Pending(m, rows, fate)
  <2>1. \A q \in rows : q.id = r.id => q = r
    BY RowsAreRows DEF AllInv
  <2>2. Pending(m, T, fate) => Pending(m, rows, fate)
    BY <1>2, <1>5, <2>1 DEF Pending, Writes, Written
  <2>3. Pending(m, rows, fate) => Pending(m, T, fate)
    BY <1>2, <1>5, <2>1 DEF Pending, Writes, Written
  <2> QED BY <2>2, <2>3
<1>6. r.mail \in Mails
  BY RowsAreRows DEF AllInv
<1> QED BY <1>1, <1>3, <1>4, <1>5, <1>6, AskedFor

LEMMA SendRefines ==
    ASSUME AllInv, Proto = "imap", NEW x \in Mails, Send(x)
    PROVE  [Promise!Next]_(Promise!vars)
<1>1. /\ asked' = [asked EXCEPT ![x] = @ + 1] /\ delivered' = delivered /\ fate[x] = "composing"
  BY DEF Send
<1>2. ~Pending(x, rows, fate)
  BY <1>1, OpenWindow DEF AllInv, Pending, Busy
<1>3. fate \in [Mails -> Fates]
  BY DEF AllInv, SendInv, TypeOK, Fates
<1>4. \/ rows' = rows /\ \E y \in {"signing", "sending"} : fate' = [fate EXCEPT ![x] = y]
      \/ \E next : Enqueue(rows, x, next)
  BY DEF Send, SendNow
<1>5. \A m \in Mails : m # x => (Pending(m, rows', fate') <=> Pending(m, rows, fate))
  <2>1. CASE \E next : Enqueue(rows, x, next)
    BY <1>3, <2>1, EnqueuePends
  <2>2. CASE rows' = rows /\ \E y : fate' = [fate EXCEPT ![x] = y]
    BY <1>3, <2>2 DEF Pending, Busy
  <2> QED BY <1>4, <2>1, <2>2
<1>6. CASE Pending(x, rows', fate')
  BY <1>1, <1>5, <1>6, AskedFor
<1>7. CASE ~Pending(x, rows', fate')
  BY <1>1, <1>2, <1>5, <1>7, TurnedAway
<1> QED BY <1>6, <1>7

\* A message leaves because of a call that claims it.
LEMMA Left ==
    ASSUME AllInv, Proto = "imap", NEW r \in wire, r.answer = "awaited",
           delivered' = [delivered EXCEPT ![r.mail] = @ + 1],
           asked' = asked, rows' = rows, fate' = fate
    PROVE  [Promise!Next]_(Promise!vars)
<1> DEFINE x == r.mail
<1>1. x \in Mails /\ delivered \in [Mails -> Nat] /\ asked \in [Mails -> Nat]
  BY RowsAreRows DEF AllInv, SendInv, TypeOK
<1>2. CallClaim(r.n) \in Claims(rows, wire, parked, fate, x)
  BY DEF Claims, CallsOf, Open
<1>3. delivered[x] < asked[x]
  BY <1>1, <1>2, ClaimIsOwed DEF AllInv
<1> HIDE DEF x
<1>4. delivered' = [delivered EXCEPT ![x] = @ + 1]
  BY DEF x
<1>5. delivered'[x] = delivered[x] + 1 /\ \A m \in Mails : m # x => delivered'[m] = delivered[m]
  BY <1>1, <1>4
<1>6. Owed' = IF delivered[x] + 1 = asked[x] THEN Owed \ {x} ELSE Owed
  <2>1. CASE delivered[x] + 1 = asked[x]
    BY <1>1, <1>5, <2>1, OwedIsPending, OwedIsPendingNext
  <2>2. CASE delivered[x] + 1 # asked[x]
    <3>1. delivered'[x] < asked[x] /\ delivered[x] < asked[x]
      BY <1>1, <1>3, <1>5, <2>2
    <3> QED BY <1>1, <1>5, <2>2, <3>1, OwedIsPending, OwedIsPendingNext
  <2> QED BY <2>1, <2>2
<1>7. Promise!Leave(x)
  BY <1>3, <1>4, <1>6 DEF Promise!Leave
<1> QED BY <1>1, <1>7 DEF Promise!Next

LEMMA ServerAnswersRefines ==
    ASSUME AllInv, Proto = "imap", NEW r \in wire, ServerAnswers(r)
    PROVE  [Promise!Next]_(Promise!vars)
<1>1. rows' = rows /\ fate' = fate /\ asked' = asked /\ r.answer = "awaited"
  BY DEF ServerAnswers, user
<1>2. delivered' = delivered \/ delivered' = [delivered EXCEPT ![r.mail] = @ + 1]
  BY DEF ServerAnswers, ServerAccepts, ServerRefuses, LoginRefused, SessionGone,
         ServerThrottles, SendBroken, DialFails, Deliver
<1>3. CASE delivered' = delivered
  BY <1>1, <1>3, GaveUp
<1>4. CASE delivered' = [delivered EXCEPT ![r.mail] = @ + 1]
  BY <1>1, <1>4, Left
<1> QED BY <1>2, <1>3, <1>4

LEMMA StepRefines ==
    ASSUME Proto = "imap", AllInv, [Next]_vars
    PROVE  [Promise!Next]_(Promise!vars)
<1>1. CASE UNCHANGED vars
  <2>1. asked' = asked /\ delivered' = delivered /\ rows' = rows /\ fate' = fate
    BY <1>1 DEF vars, user
  <2> QED BY <2>1, GaveUp
<1>2. CASE Next
  BY <1>2, SendRefines, CryptoDoneGivesUp, TokenAnsweredGivesUp, ServerAnswersRefines,
     FinishGivesUp, CopyFiledGivesUp, HoldPassesGivesUp, CancelOrEditRefines, RetryRefines,
     SwitchGivesUp, SessionGivesUp, RestartGivesUp, UndoRefines DEF Next
<1> QED BY <1>1, <1>2

LEMMA StartRefines == Init => Promise!Init
BY DEF Init, Promise!Init, Owed

\* Over SMTP the outbox implements Delivery: whatever is queued, parked, timed,
\* cut off, switched away from, undone or restarted, what is seen from outside
\* is that a message is asked for, turned away, leaves, is given up or is taken
\* back, and that none leaves but for an asking that was not used up.
THEOREM OutboxDelivers ==
    ASSUME Proto = "imap"
    PROVE  Spec => Delivers
<1>1. AllInv /\ [Next]_vars => [Promise!Next]_(Promise!vars)
  BY StepRefines
<1>2. Spec => []AllInv
  BY AlwaysConserved, AlwaysKept, AlwaysWatched, PTL DEF AllInv
<1>3. Spec => Promise!Spec
  BY <1>1, <1>2, StartRefines, PTL DEF Spec, Promise!Spec
<1> QED BY <1>3 DEF Delivers

=============================================================================
