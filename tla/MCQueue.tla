------------------------------ MODULE MCQueue ------------------------------
(* A small instance of ImportQueue for TLC. *)
EXTENDS ImportQueue

CONSTANTS r1, r2
=============================================================================
