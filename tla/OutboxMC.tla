------------------------------- MODULE OutboxMC -------------------------------
(***************************************************************************)
(* Outbox on small instances: one or two messages, two accounts, and the   *)
(* events each run allows.                                                 *)
(***************************************************************************)
EXTENDS Outbox, TLC

CONSTANTS letter, postcard, Home, Work

Same == Permutations(Mails) \cup Permutations(Accounts)

\* The user sends s times and retries t times; n of the faults of F happen.
AtMost(s, t, n, F) ==
    [event \in Events |-> CASE event = "send"  -> s
                            [] event = "retry" -> IF "retry" \in F THEN t ELSE 0
                            [] event = "any"   -> n
                            [] OTHER           -> IF event \in F THEN n ELSE 0]

\* Any three of what SMTP, the sign-in, the user and the process can do.
StormyImap == AtMost(2, 1, 3, {"drop", "dial", "refuse", "auth", "switch", "restart", "retry"})

\* Any two of what a JMAP server, the user and the process can do.
StormyJmap == AtMost(2, 1, 2, {"drop", "refuse", "throttle", "switch", "restart", "retry"})

=============================================================================
