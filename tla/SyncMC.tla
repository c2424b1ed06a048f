-------------------------------- MODULE SyncMC --------------------------------
(***************************************************************************)
(* SyncEngine on small instances: two folders of one or two messages, and  *)
(* the disturbances each run allows.                                       *)
(***************************************************************************)
EXTENDS SyncEngine

CONSTANTS INBOX, Archive

Order == <<INBOX, Archive>>

\* What the engine is built to live through.
Handled == {"mail", "open", "search", "hover", "owe", "poll", "delta", "vacuum", "void", "drop", "shed",
            "slow", "bodies", "gone"}
=============================================================================
