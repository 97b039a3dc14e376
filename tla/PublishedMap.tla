---------------------------- MODULE PublishedMap ----------------------------
(***************************************************************************)
(* What the community-map import promises a reader of the map.  While the  *)
(* map is being built for the first time, zones appear and none changes.   *)
(* From then on the map is only ever replaced as a whole, and only by a    *)
(* snapshot that has every layer, enough zones, and no implausible loss    *)
(* against what is shown.                                                  *)
(***************************************************************************)
EXTENDS Naturals, FiniteSets

CONSTANTS Zones, Facts, Absent, Layers, LayerOf, MinZones, RetainNum, RetainDen

VARIABLES
  live,     \* per zone, the facts shown for it, or Absent
  filling   \* the map is still being built for the first time

vars == <<live, filling>>

Shown(map) == {z \in Zones : map[z] # Absent}

TypeOK ==
  /\ live \in [Zones -> Facts \cup {Absent}]
  /\ filling \in BOOLEAN

Init ==
  /\ live = [z \in Zones |-> Absent]
  /\ filling = TRUE

Fill ==
  /\ filling
  /\ live' \in [Zones -> Facts \cup {Absent}]
  /\ \A z \in Shown(live) : live'[z] = live[z]
  /\ filling' \in BOOLEAN

Acceptable(map) ==
  LET n == Cardinality(Shown(map))
      shown == Cardinality(Shown(live))
  IN  /\ \A l \in Layers : \E z \in Shown(map) : LayerOf[z] = l
      /\ n >= MinZones
      /\ n * RetainDen >= shown * RetainNum

Replace ==
  /\ live' \in [Zones -> Facts \cup {Absent}]
  /\ Acceptable(live')
  /\ filling' = FALSE

Next == Fill \/ Replace

Spec == Init /\ [][Next]_vars

=============================================================================
