-------------------------------- MODULE BulkMC --------------------------------
(***************************************************************************)
(* BulkSend on small instances: two batches of two addresses, two          *)
(* accounts, and the disturbances each run allows.                         *)
(***************************************************************************)
EXTENDS BulkSend

CONSTANTS Home, Work

\* What may befall a batch, but for the disturbances that leave a row marked as
\* being sent for good.
Handled == {"switch", "lost", "leg", "dial", "auth", "expire", "refuse", "throttle", "broken", "mute",
            "restart", "cancel", "pick", "retry"}
=============================================================================
