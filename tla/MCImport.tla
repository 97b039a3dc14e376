------------------------------ MODULE MCImport ------------------------------
(* Small instances of CommunityImport for TLC. *)
EXTENDS CommunityImport, TLC

CONSTANTS t1, t2, s1, s2, r1, r2, l1, l2, m1

OneZone == {1}
ZonePair == 1..2
ZoneTriple == 1..3
OneInc == {0}
TwoIncs == {0, 1}
TwoDates == {1, 2}
OneDate == {1}

OneLayer == [z \in Zones |-> l1]

ZoneOf(t, s, from, notice, prose) ==
  [terms |-> t, shape |-> s, from |-> from, notice |-> notice, prose |-> prose]

\* Terms that change, a description that goes missing, a seasonal window
\* that opens and closes.
ReviewSource ==
  {ZoneOf(t1, s1, NoDate, NoDate, TRUE), ZoneOf(t2, s1, NoDate, NoDate, TRUE),
   ZoneOf(t1, s1, NoDate, NoDate, FALSE), ZoneOf(t1, s1, 1, NoDate, TRUE)}
TwoTerms ==
  {ZoneOf(t1, s1, NoDate, NoDate, TRUE), ZoneOf(t2, s1, NoDate, NoDate, TRUE)}
OneState == {ZoneOf(t1, s1, NoDate, NoDate, TRUE)}

WorkerSymmetry == Permutations(Workers)

=============================================================================
