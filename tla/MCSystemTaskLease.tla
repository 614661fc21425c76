------------------------- MODULE MCSystemTaskLease -------------------------
(* A small instance of SystemTaskLease for TLC. *)
EXTENDS SystemTaskLease

CONSTANTS n1, n2, n3
=============================================================================
