----------------------------- MODULE MCSnapshot -----------------------------
(* Small instances of MapSnapshot, DatasetBuild and ZoneFacts for TLC.  What *)
(* they read is unrelated, so one of them reads in each behaviour.           *)
EXTENDS MapSnapshot, DatasetBuild, ZoneFacts

CONSTANTS swimmers, wrecks, north, south, sunk, trees,
          reef, Reef, marker, other, early, late,
          pier, june, july

\* Two folders of one layer, one that opts in to points, one out of scope.
MCLayerOf ==
  [f \in Folders |-> CASE f \in {north, south} -> swimmers
                       [] f = sunk -> wrecks
                       [] OTHER -> Absent]

MCTitle == [f \in Folders |-> IF f = north THEN reef ELSE other]

\* `reef` and `Reef` differ in case only.
MCIdentity == [n \in Names |-> IF n = Reef THEN reef ELSE n]

MCAllowed == [l \in Layers |-> IF l = wrecks THEN Names ELSE Names \ {other}]

Polygon(points) == [type |-> "polygon", points |-> points]

\* One square from two corners and both ways round, with and without a seam,
\* the bow tie on its corners, a line and its reverse, and a point; positions
\* 4 and above are on land.
MCShapes ==
  {Polygon(<<1, 2, 3, 4>>), Polygon(<<3, 4, 1, 2, 3>>), Polygon(<<2, 1, 4, 3>>),
   Polygon(<<1, 3, 2, 4>>), Polygon(<<4, 5, 6>>),
   [type |-> "line", points |-> <<1, 5, 2>>],
   [type |-> "line", points |-> <<2, 5, 1>>],
   [type |-> "point", points |-> <<3>>]}

Square == Polygon(<<1, 2, 3, 4>>)
Point == [type |-> "point", points |-> <<3>>]

\* Placemarks of one shape, and of two that may be the same or one of them no
\* shape to draw; a folder out of scope offers one.
MCOffered ==
  {p \in Placemark :
     /\ Len(p.shapes) = 2 => p.shapes[1] = Square /\ p.note = Absent
     /\ p.folder = trees => p.name = reef /\ p.note = early /\ p.shapes = <<Square>>
     /\ p.folder = south => p.name \in {Absent, Reef}
     /\ p.folder = north => p.name \notin {marker, other}}

----------------------------------------------------------------------------

MCBounds == <<0, 0, 2, 2>>

Feature(type, points, slug, titled) ==
  [geometry |-> [type |-> type, points |-> points], slug |-> slug, titled |-> titled]

Triangle == <<<<0, 0>>, <<2, 0>>, <<1, 2>>, <<0, 0>>>>
SomeSlugs == {<<>>, <<pier>>, <<pier, 2>>, <<Unnamed, 2>>}

\* Features that can be shown, and one of every sort that cannot.
MCFeatures ==
  {Feature("Point", <<<<1, 2>>>>, slug, TRUE) : slug \in SomeSlugs}
    \cup {Feature("Polygon", Triangle, <<pier>>, titled) : titled \in BOOLEAN}
    \cup {Feature("LineString", <<<<2, 1>>, <<0, 1>>>>, <<pier>>, TRUE),
          Feature("Point", <<<<3, 0>>>>, <<pier>>, TRUE),
          Feature("LineString", <<<<1, 1>>>>, <<pier>>, TRUE),
          Feature("Polygon", Append(Front(Triangle), <<1, 1>>), <<pier>>, TRUE),
          Feature("GeometryCollection", <<>>, <<pier>>, TRUE),
          [geometry |-> NoGeometry, slug |-> <<pier>>, titled |-> TRUE]}

----------------------------------------------------------------------------

MCStatements ==
  [says: {"clearance"}, amount: {0, 1, 100}, unit: {"m", "nm"}, of: {"distance", "zone"}]
    \cup [says: {"from", "to"}, day: {june, july, NoSuchDay}]
    \cup [says: {"notice"}, year: {1998, 2023, 2026}, broken: BOOLEAN]

----------------------------------------------------------------------------

MCInit == Init /\ BuildInit /\ TextInit

MCNext ==
  \/ parsed = <<>> /\ textVars = <<<<>>, <<>>>> /\ Next /\ UNCHANGED <<buildVars, textVars>>
  \/ read = <<>> /\ textVars = <<<<>>, <<>>>> /\ BuildNext /\ UNCHANGED <<vars, textVars>>
  \/ read = <<>> /\ parsed = <<>> /\ TextNext /\ UNCHANGED <<vars, buildVars>>

MCSpec == MCInit /\ [][MCNext]_<<vars, buildVars, textVars>>
=============================================================================
