---------------------------- MODULE DatasetBuild ----------------------------
(***************************************************************************)
(* Building the catalogue entry of one dataset from a parsed collection:   *)
(* its features are taken one after another; an interactive dataset drops  *)
(* those it cannot render and gives the others an id, a context dataset is *)
(* served verbatim or not at all.                                          *)
(*                                                                         *)
(* Any state is that of a collection read to its end.  A position is a     *)
(* pair; of the geometry types those made of one part are modelled, and    *)
(* one that is not renderable.  A slug is the sequence of its words, the   *)
(* numbers among them being numbers: a duplicate's suffix is one more word.*)
(***************************************************************************)
EXTENDS Integers, SequencesExt, Subsequences

CONSTANTS
  Bounds,       \* the dataset's bounds: west, south, east, north
  NoGeometry,   \* a row without a mapped location
  Words,        \* the words of a slug that are no numbers
  Unnamed,      \* the word of an id made up from the feature's place
  Features,     \* the features a collection may contain
  MaxFeatures   \* bound on the features of a collection

Kinds == {"interactive", "context"}
GeometryTypes == {"Point", "LineString", "Polygon", "GeometryCollection"}

ASSUME BuildAssumption ==
  /\ Bounds \in Seq(Int) /\ Len(Bounds) = 4
  /\ MaxFeatures \in Nat /\ Unnamed \in Words
  /\ \A f \in Features :
       /\ f.titled \in BOOLEAN /\ f.slug \in Seq(Words \cup Nat)
       /\ f.geometry # NoGeometry =>
            f.geometry.type \in GeometryTypes /\ f.geometry.points \in Seq(Int \X Int)

VARIABLES
  kind,      \* the dataset's kind
  parsed,    \* the features read so far
  out,       \* those that are served: their place and, if interactive, their id
  box,       \* collectionBbox, <<>> before there is one
  rejected   \* a feature made the build throw

buildVars == <<kind, parsed, out, box, rejected>>

----------------------------------------------------------------------------
(* geometrySchema *)

PositionWithin(p, bounds) ==
  /\ p[1] >= bounds[1] /\ p[2] >= bounds[2]
  /\ p[1] <= bounds[3] /\ p[2] <= bounds[4]

Valid(g) ==
  /\ g # NoGeometry
  /\ \A i \in DOMAIN g.points : PositionWithin(g.points[i], Bounds)
  /\ CASE g.type = "Point" -> Len(g.points) = 1
       [] g.type = "LineString" -> Len(g.points) >= 2
       [] g.type = "Polygon" -> Len(g.points) >= 4 /\ g.points[1] = Last(g.points)
       [] OTHER -> FALSE

----------------------------------------------------------------------------
(* geoJsonBbox, foldBbox *)

Bbox(g) ==
  LET along(axis) == {g.points[i][axis] : i \in DOMAIN g.points}
  IN <<Min(along(1)), Min(along(2)), Max(along(1)), Max(along(2))>>

FoldBbox_Crossed(acc, next) ==
  IF acc = <<>> THEN next
  ELSE <<Min({acc[1], next[1]}), Min({acc[2], next[2]}),
         Max({acc[3], next[3]}), Max({acc[4], next[3]})>>

FoldBbox(acc, next) ==
  IF acc = <<>> THEN next
  ELSE <<Min({acc[1], next[1]}), Min({acc[2], next[2]}),
         Max({acc[3], next[3]}), Max({acc[4], next[4]})>>

----------------------------------------------------------------------------
(* featureId *)

\* A slug without a letter or digit gives way to the feature's place.
Base(f, place) == IF f.slug = <<>> THEN <<Unnamed, place>> ELSE f.slug

Candidate(base, n) == IF n = 1 THEN base ELSE Append(base, n)

FeatureId_Counted(base, seen) ==
  LET same == {i \in DOMAIN out : Base(parsed[out[i].place], out[i].place) = base}
  IN Candidate(base, Cardinality(same) + 1)

FeatureId(base, seen) ==
  Candidate(base, Min({n \in 1 .. Cardinality(seen) + 1 : Candidate(base, n) \notin seen}))

Ids == {out[i].id : i \in DOMAIN out}

----------------------------------------------------------------------------
(* normalize, validateFeatureCollection *)

BuildInit ==
  /\ kind \in Kinds
  /\ parsed = <<>> /\ out = <<>> /\ box = <<>> /\ rejected = FALSE

Keep(f, id) ==
  /\ out' = Append(out, [place |-> Len(parsed) + 1, id |-> id])
  /\ box' = FoldBbox(box, Bbox(f.geometry))

\* An interactive dataset takes what it can plot and name.
TakeFeature(f) ==
  /\ kind = "interactive" /\ Valid(f.geometry) /\ f.titled
  /\ Keep(f, FeatureId(Base(f, Len(parsed) + 1), Ids))
  /\ UNCHANGED rejected

DropFeature(f) ==
  /\ kind = "interactive" /\ ~(Valid(f.geometry) /\ f.titled)
  /\ UNCHANGED <<out, box, rejected>>

\* summarizeFeatures, which gives no ids.
SummarizeFeature(f) ==
  /\ kind = "context" /\ Valid(f.geometry)
  /\ Keep(f, <<>>)
  /\ UNCHANGED rejected

RejectCollection(f) ==
  /\ kind = "context" /\ ~Valid(f.geometry)
  /\ rejected' = TRUE
  /\ UNCHANGED <<out, box>>

BuildNext ==
  /\ Len(parsed) < MaxFeatures /\ ~rejected
  /\ \E f \in Features :
       /\ TakeFeature(f) \/ DropFeature(f) \/ SummarizeFeature(f) \/ RejectCollection(f)
       /\ parsed' = Append(parsed, f)
  /\ UNCHANGED kind

BuildSpec == BuildInit /\ [][BuildNext]_buildVars

\* buildEntry returns an entry.
Builds == out # <<>> /\ ~rejected

----------------------------------------------------------------------------
(* Properties *)

\* "One bad upstream feature must not fail a whole layer": an interactive layer
\* is served exactly if it has a feature that can be shown, and consists of
\* those, in the upstream's order; a context layer is served exactly if all of
\* its features can be drawn.  Its box is the smallest that covers them.
LayerIsWhatCanBeShown ==
  LET Shown(f) == Valid(f.geometry) /\ (kind = "interactive" => f.titled)
      shown == Ascending({i \in DOMAIN parsed : Shown(parsed[i])})
      points == UNION {Range(parsed[i].geometry.points) : i \in Range(shown)}
  IN /\ Builds <=> shown # <<>> /\ (kind = "context" => Len(shown) = Len(parsed))
     /\ Builds =>
          /\ [i \in DOMAIN out |-> out[i].place] = shown
          /\ \A p \in points : PositionWithin(p, box)
          /\ \A side \in 1 .. 4 : \E p \in points :
               box[side] = p[IF side \in {1, 3} THEN 1 ELSE 2]

\* Clients key features by id: no two of a layer share one, also when one is
\* named like the numbered duplicate of another, and a feature whose name no
\* earlier one has taken is called by it.
IdsTellApart ==
  kind = "interactive" =>
    \A j \in DOMAIN out :
      LET earlier == {out[i].id : i \in 1 .. j - 1}
          own == Base(parsed[out[j].place], out[j].place)
      IN /\ out[j].id \notin earlier
         /\ own \notin earlier => out[j].id = own
=============================================================================
