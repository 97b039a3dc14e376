---------------------------- MODULE Subsequences ----------------------------
(***************************************************************************)
(* What Array.prototype.filter leaves of a sequence, by the positions that *)
(* are kept.  SelectSeq says the same of a predicate, but nothing can be   *)
(* proved about it for a sequence of any length.                           *)
(***************************************************************************)
EXTENDS Naturals, Sequences, FiniteSets

\* The members of a finite set of numbers, in increasing order.
Ascending(K) ==
  [n \in 1 .. Cardinality(K) |->
     CHOOSE i \in K : Cardinality({j \in K : j <= i}) = n]

\* The members of s at the positions K, in the order of s.
Subsequence(s, K) ==
  LET at == Ascending(K) IN [n \in 1 .. Cardinality(K) |-> s[at[n]]]
=============================================================================
