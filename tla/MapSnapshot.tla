---------------------------- MODULE MapSnapshot ----------------------------
(***************************************************************************)
(* Building a snapshot of the community map: the placemarks of the fetched *)
(* document, folder by folder, are filtered, grouped into zones by layer   *)
(* and name, and their shapes deduplicated by a canonical form.            *)
(*                                                                         *)
(* Positions are the coordinates rounded to seven decimals, in any total   *)
(* order.  Digests are injective: a zone's subKey is its layer and         *)
(* identity, a fingerprint is the canonical form itself.                   *)
(***************************************************************************)
EXTENDS Naturals, SequencesExt, Subsequences

CONSTANTS
  Layers,      \* MAP_LAYERS
  Folders,     \* KML folders
  LayerOf,     \* the layer a folder's title matches, or Absent
  Title,       \* a folder's own title
  Names,       \* names, white space normalised
  Identity,    \* a name in lower case
  VertexMark,  \* the names with a marker prefix such as "(1A)"
  Allowed,     \* the names a layer takes (placemarkMatch)
  Pointed,     \* the layers with includeNamedPoints
  Notes,       \* placemark descriptions
  Absent,
  Sea,         \* positions in Maltese waters and not on land
  Shapes,      \* the shapes a document may contain
  Offered,     \* the placemarks it may contain
  MaxRead      \* bound on the placemarks of a document

Types == {"point", "line", "polygon"}

Placemark ==
  [folder: Folders, name: Names \cup {Absent}, note: Notes \cup {Absent},
   shapes: {<<g>> : g \in Shapes} \cup {<<g, h>> : g, h \in Shapes}]

ASSUME SnapshotAssumption ==
  /\ LayerOf \in [Folders -> Layers \cup {Absent}]
  /\ Title \in [Folders -> Names]
  /\ DOMAIN Identity = Names
  /\ VertexMark \subseteq Names
  /\ Allowed \in [Layers -> SUBSET Names]
  /\ Pointed \subseteq Layers
  /\ Absent \notin Layers \cup Names \cup Notes
  /\ \A g \in Shapes : g.type \in Types /\ g.points \in Seq(Nat) \ {<<>>}
  /\ Offered \subseteq Placemark
  /\ MaxRead \in Nat

VARIABLES
  read,    \* the placemarks read so far
  groups,  \* subKey |-> zone
  matched  \* matchedLayerKeys

vars == <<read, groups, matched>>

----------------------------------------------------------------------------
(* The canonical form of a shape *)

Precedes(s, t) ==
  \/ s = t
  \/ \E i \in DOMAIN s :
       s[i] < t[i] /\ \A j \in 1..(i - 1) : s[j] = t[j]

Least(S) == CHOOSE s \in S : \A t \in S : Precedes(s, t)

Rotation(s, k) == SubSeq(s, k + 1, Len(s)) \o SubSeq(s, 1, k)

SmallestRotation_Once(s) == Least({s, Rotation(s, 1)})

SmallestRotation(s) == Least({Rotation(s, k) : k \in DOMAIN s})

\* A ring whose seam is spelled out is opened.
Ring_Closed(points) == points

Ring(points) ==
  IF Len(points) > 1 /\ points[1] = Last(points) THEN Front(points) ELSE points

CanonicalGeometry(g) ==
  CASE g.type = "point" -> <<g.points[1]>>
    [] g.type = "line" -> Least({g.points, Reverse(g.points)})
    [] g.type = "polygon" ->
         LET ring == Ring(g.points)
         IN  Least({SmallestRotation(ring), SmallestRotation(Reverse(ring))})

GeometryFingerprint(g) == <<g.type, CanonicalGeometry(g)>>

----------------------------------------------------------------------------
(* Which placemarks and shapes are taken *)

ZoneName(p) == IF p.name = Absent THEN Title[p.folder] ELSE p.name

Key(p) == <<LayerOf[p.folder], Identity[ZoneName(p)]>>

\* isMarineGeometry: some of it is in the sea.
IsMarine(g) == \E i \in DOMAIN g.points : g.points[i] \in Sea

\* Points are corner markers, except the named ones of layers that opt in.
Importable(p, g) ==
  /\ IsMarine(g)
  /\ g.type = "point" =>
       LayerOf[p.folder] \in Pointed /\ ZoneName(p) \notin VertexMark

Marine(p) ==
  Subsequence(p.shapes, {i \in DOMAIN p.shapes : Importable(p, p.shapes[i])})

Taken(p) ==
  /\ LayerOf[p.folder] # Absent
  /\ ZoneName(p) \in Allowed[LayerOf[p.folder]]
  /\ Marine(p) # <<>>

\* Map.set of every shape in turn: of those with one fingerprint the last stays.
Put(shapes, new) ==
  LET With(f) == {i \in DOMAIN new : GeometryFingerprint(new[i]) = f}
  IN [f \in DOMAIN shapes \cup {GeometryFingerprint(new[i]) : i \in DOMAIN new} |->
        IF With(f) = {} THEN shapes[f] ELSE new[Max(With(f))]]

Group(p) ==
  IF Key(p) \in DOMAIN groups THEN groups[Key(p)]
  ELSE [name |-> ZoneName(p), note |-> p.note, folder |-> p.folder,
        shapes |-> <<>>]

Joined_LastNote(p) ==
  [Group(p) EXCEPT
     !.note = IF p.note # Absent THEN p.note ELSE @,
     !.shapes = Put(@, Marine(p))]

Joined(p) ==
  [Group(p) EXCEPT
     !.note = IF @ = Absent THEN p.note ELSE @,
     !.shapes = Put(@, Marine(p))]

----------------------------------------------------------------------------

Init ==
  /\ read = <<>>
  /\ groups = <<>>
  /\ matched = {}

TakePlacemark(p) ==
  /\ Taken(p)
  /\ matched' = matched \cup {LayerOf[p.folder]}
  /\ groups' = [k \in DOMAIN groups \cup {Key(p)} |->
                  IF k = Key(p) THEN Joined(p) ELSE groups[k]]

SkipPlacemark_Matches(p) ==
  /\ ~Taken(p)
  /\ matched' = IF LayerOf[p.folder] = Absent THEN matched
                ELSE matched \cup {LayerOf[p.folder]}
  /\ UNCHANGED groups

SkipPlacemark(p) == ~Taken(p) /\ UNCHANGED <<groups, matched>>

Next ==
  /\ Len(read) < MaxRead
  /\ \E p \in Offered :
       /\ read' = Append(read, p)
       /\ TakePlacemark(p) \/ SkipPlacemark(p)

Spec == Init /\ [][Next]_vars

----------------------------------------------------------------------------
(* Properties *)

\* What is drawn: the segments between neighbours, a polygon's last point being
\* the first one's neighbour, and no segment where its seam is spelled out.
\* Two shapes that pass no position twice look the same exactly if their
\* segments are the same.
Segments(g) ==
  LET n == Len(g.points)
      After(i) == IF i < n THEN i + 1 ELSE IF g.type = "line" THEN n ELSE 1
  IN  {{g.points[i], g.points[After(i)]} : i \in 1..n}

Drawn(g) ==
  IF g.type = "point" THEN {{g.points[1]}}
  ELSE {s \in Segments(g) : Cardinality(s) = 2}

SameShape(g, h) == g.type = h.type /\ Drawn(g) = Drawn(h)

ShapesOf(k) == {groups[k].shapes[f] : f \in DOMAIN groups[k].shapes}

Reads == {read[i] : i \in DOMAIN read}

\* A zone draws every outline of its placemarks that may be drawn, each of them
\* once however often and from whichever point the document spells it, and
\* nothing else; the order of the document does not matter
\* (geometryFingerprint, importableGeometries).
EveryShapeOnce ==
  /\ \A k \in DOMAIN groups : \A f1, f2 \in DOMAIN groups[k].shapes :
       SameShape(groups[k].shapes[f1], groups[k].shapes[f2]) => f1 = f2
  /\ \A p \in Reads : Taken(p) =>
       /\ Key(p) \in DOMAIN groups
       /\ \A g \in Range(Marine(p)) : \E h \in ShapesOf(Key(p)) : SameShape(g, h)
  /\ \A k \in DOMAIN groups : \A h \in ShapesOf(k) :
       \E p \in Reads : Taken(p) /\ Key(p) = k /\ h \in Range(Marine(p))

\* A zone's rules are those of the first placemark that states any among the
\* ones drawn, wherever the ones without a text or without a shape at sea are
\* in the document.
FactsOfFirstNote ==
  \A k \in DOMAIN groups :
    LET drawn == {i \in DOMAIN read : Taken(read[i]) /\ Key(read[i]) = k}
        stating == {i \in drawn : read[i].note # Absent}
    IN  /\ groups[k].note = IF stating = {} THEN Absent ELSE read[Min(stating)].note
        /\ groups[k].folder = read[Min(drawn)].folder
        /\ groups[k].name = ZoneName(read[Min(drawn)])

\* The rail on missing layers is about zones: a layer counts as present only
\* if it has one (assertSafeSnapshot).
MatchedLayersHaveZones == matched = {k[1] : k \in DOMAIN groups}

=============================================================================
