------------------------------ MODULE MCAdmin ------------------------------
(* A small instance of AdminPanel for TLC. *)
EXTENDS AdminPanel, TLC

CONSTANTS a, b, c, far, notices, review, beaches, source, subKey

InBoundsSymmetry == Permutations({a, b, c})
=============================================================================
