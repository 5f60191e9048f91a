--------------------------- MODULE MCManagedSocket ---------------------------
(* Instances of ManagedSocket for TLC. *)
EXTENDS ManagedSocket
===============================================================================
