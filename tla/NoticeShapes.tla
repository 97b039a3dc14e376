---------------------------- MODULE NoticeShapes ----------------------------
(***************************************************************************)
(* The shapes of a notice: what the create form's DTO accepts as `areas`   *)
(* and what the serializer makes of it for a map client.  A part is a type *)
(* and a sequence of points.  Positions stand for coordinate pairs; those  *)
(* in World are within the bounds of a latitude and a longitude.           *)
(***************************************************************************)
EXTENDS Naturals, Sequences

CONSTANTS
  Positions,  \* coordinate pairs a form can produce
  World       \* those with |lat| <= 90 and |long| <= 180

ASSUME ShapesAssumption == World \subseteq Positions

GeometryTypes == {"point", "line", "polygon"}

Part == [type: GeometryTypes, points: Seq(Positions)]

MinPoints == [point |-> 1, line |-> 2, polygon |-> 3]

----------------------------------------------------------------------------
(* CreateNoticeDto *)

PointCountMatchesType(part) == Len(part.points) >= MinPoints[part.type]

InBounds(part) == \A i \in DOMAIN part.points : part.points[i] \in World

AreasAccepted(areas) ==
  \A i \in DOMAIN areas : InBounds(areas[i]) /\ PointCountMatchesType(areas[i])

----------------------------------------------------------------------------
(* The serializer *)

IsRingClosed(ring) == Len(ring) >= 2 /\ ring[1] = ring[Len(ring)]

CloseRing(ring) == IF IsRingClosed(ring) THEN ring ELSE Append(ring, ring[1])

\* partToGeometry: does the part yield a GeoJSON geometry, or null?
Drawable(part) ==
  CASE part.type = "point"   -> part.points # <<>>
    [] part.type = "line"    -> Len(part.points) >= 2
    [] part.type = "polygon" -> part.points # <<>> /\ Len(CloseRing(part.points)) >= 4

\* The parts that become features; `geometry` is null when there are none.
Features(areas) == {i \in DOMAIN areas : Drawable(areas[i])}

Anchored_FirstOnly(areas) == {i \in DOMAIN areas : i = 1}

\* The parts with a pin: a vertex, or a position found on the shape.
Anchored(areas) == {i \in DOMAIN areas : areas[i].points # <<>>}

\* The points the bounding circle encloses.
Enclosed(areas) ==
  UNION {{areas[i].points[j] : j \in DOMAIN areas[i].points} : i \in DOMAIN areas}
=============================================================================
