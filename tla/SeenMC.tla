------------------------------ MODULE SeenMC ------------------------------
(* The read marks of a folder of two messages. *)
EXTENDS SeenSync
ASSUME SeenSyncAssumption
===========================================================================
