------------------------------- MODULE Delivery -------------------------------
(***************************************************************************)
(* What sending mail promises, whatever queue, connection or protocol      *)
(* carries it: a message leaves only because the user asked for it, no     *)
(* more often than the user asked, and an asking ends.                     *)
(*                                                                         *)
(* Outbox and BulkSend implement it.                                       *)
(***************************************************************************)
EXTENDS Naturals

CONSTANT Items   \* what may be sent: a message to its recipients

VARIABLES
    asked,   \* how often the user has asked for each, less what was taken back
    copies,  \* how often each has left
    owed     \* those asked for and not answered for yet

vars == <<asked, copies, owed>>

Init ==
    /\ asked = [i \in Items |-> 0] /\ copies = asked
    /\ owed = {}

\* The user asks for S, and all of it is taken on.
Ask(S) ==
    /\ asked' = [i \in Items |-> IF i \in S THEN asked[i] + 1 ELSE asked[i]]
    /\ owed' = owed \cup S
    /\ UNCHANGED copies

\* The user asks and is told at once that nothing of S was taken on.
TurnAway(S) ==
    /\ asked' = [i \in Items |-> IF i \in S THEN asked[i] + 1 ELSE asked[i]]
    /\ UNCHANGED <<copies, owed>>

\* The message leaves.  The client may have stopped waiting for it.
Leave(i) ==
    /\ copies[i] < asked[i]
    /\ copies' = [copies EXCEPT ![i] = @ + 1]
    /\ owed' = IF copies[i] + 1 = asked[i] THEN owed \ {i} ELSE owed
    /\ UNCHANGED asked

\* The user is told that some could not be sent, or may not have been.
GiveUp(S) ==
    /\ owed' = owed \ S
    /\ UNCHANGED <<asked, copies>>

\* The user takes back what is still owed.
TakeBack(S) ==
    /\ S \subseteq owed
    /\ asked' = [i \in Items |-> IF i \in S THEN asked[i] - 1 ELSE asked[i]]
    /\ owed' = owed \ S
    /\ UNCHANGED copies

Next ==
    \/ \E i \in Items : Leave(i)
    \/ \E S \in SUBSET Items : Ask(S) \/ TurnAway(S) \/ GiveUp(S) \/ TakeBack(S)

Spec == Init /\ [][Next]_vars
=============================================================================
