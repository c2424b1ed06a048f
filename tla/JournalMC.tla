------------------------------ MODULE JournalMC ------------------------------
(***************************************************************************)
(* Journal on small instances: two messages of one mailbox, a trash, and   *)
(* the faults each run allows.                                             *)
(***************************************************************************)
EXTENDS Journal, TLC

CONSTANTS m1, m2, Inbox, Trash

AllInInbox == [m \in Msgs |-> Inbox]

Swaps == Permutations(Msgs)

\* At most n of the faults of F, in any mix.
AtMost(n, F) == [fault \in Faults \cup {"any"} |-> IF fault \in F \cup {"any"} THEN n ELSE 0]

\* An op refused until it is given up on, with an account switch, a quit or a lost link.
RefusedImap == [AtMost(1, {"switch", "restart", "drop"}) EXCEPT !["refuse"] = 3, !["any"] = 5]

\* The same over JMAP, whose connection also drops and throttles.
RefusedJmap ==
    [AtMost(1, {"drop", "throttle", "restart"}) EXCEPT !["refuse"] = 2, !["any"] = 3]

\* Any two things that interrupt, delay, repeat or void an op.
Stormy == AtMost(2, Faults)

=============================================================================
