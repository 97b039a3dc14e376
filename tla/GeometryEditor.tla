--------------------------- MODULE GeometryEditor ---------------------------
(***************************************************************************)
(* The geometry editor of the create form: a list of parts edited in cards *)
(* or by clicking a map, a preview on that map, and the check made before  *)
(* the form is sent.  A point of a part has both coordinates (a position), *)
(* one of them (Half) or none (Blank).  Labels are left out.               *)
(***************************************************************************)
EXTENDS NoticeShapes, Subsequences, SequencesExt

CONSTANTS
  Half, Blank,
  MaxParts,   \* bound on the parts of a form
  MaxDrawn    \* bound on its parts and points together

ASSUME EditorAssumption ==
  /\ Half \notin Positions /\ Blank \notin Positions /\ Half # Blank
  /\ MaxParts \in Nat /\ MaxDrawn \in Nat

VARIABLES
  parts,    \* state: the parts as edited
  active,   \* activeIndex: the part map clicks go to, 0 when there is none
  preview   \* the positions the preview on the map covers, as of the last redraw

editorVars == <<parts, active, preview>>

PointValues == Positions \cup {Half, Blank}

EditedPart == [type: GeometryTypes, points: Seq(PointValues)]

EditorTypeOK ==
  /\ parts \in Seq(EditedPart)
  /\ active \in 0 .. Len(parts)
  /\ preview \subseteq Positions

----------------------------------------------------------------------------
(* serialize, firstError, readInitial *)

Whole(points) == Subsequence(points, {j \in DOMAIN points : points[j] \in Positions})

Trimmed(ps) == [i \in DOMAIN ps |-> [ps[i] EXCEPT !.points = Whole(@)]]

\* What is sent: the parts with their complete points, less those that have none.
Serialized(ps) ==
  Subsequence(Trimmed(ps), {i \in DOMAIN ps : Trimmed(ps)[i].points # <<>>})

\* redraw shows the complete points of every part.
Vertices(ps) == Enclosed(ps) \cap Positions

\* The page's own copy of MIN_POINTS.
FormMinPoints_NoSeam == [point |-> 1, line |-> 2, polygon |-> 2]

FormMinPoints == [point |-> 1, line |-> 2, polygon |-> 3]

\* firstError finds nothing: no point is half given, no part too short.
Sendable(ps) ==
  /\ \A i \in DOMAIN ps : \A j \in DOMAIN ps[i].points : ps[i].points[j] # Half
  /\ LET sent == Serialized(ps)
     IN \A i \in DOMAIN sent : Len(sent[i].points) >= FormMinPoints[sent[i].type]

\* The editor opens on the areas the page carries.
Open(areas) ==
  /\ parts' = areas
  /\ active' = IF areas = <<>> THEN 0 ELSE 1
  /\ preview' = Vertices(areas)

----------------------------------------------------------------------------
(* Editing *)

Drawn(ps) ==
  LET n[i \in 0 .. Len(ps)] == IF i = 0 THEN 0 ELSE n[i - 1] + 1 + Len(ps[i].points)
  IN n[Len(ps)]

Redraw == preview' = Vertices(parts')

Room == Drawn(parts) < MaxDrawn

\* A click on the map moves a point part and extends any other.
ClickMap(p) ==
  /\ active # 0
  /\ \/ parts[active].type = "point"
     \/ Room
  /\ parts' = [parts EXCEPT ![active].points =
                 IF parts[active].type = "point" THEN <<p>> ELSE Append(@, p)]
  /\ Redraw
  /\ UNCHANGED active

AddPart ==
  /\ Len(parts) < MaxParts /\ Room
  /\ parts' = Append(parts, [type |-> "point", points |-> <<>>])
  /\ active' = Len(parts')
  /\ Redraw

\* Points in excess of the new type's are kept.
ChangeType(i, t) ==
  /\ parts' = [parts EXCEPT ![i].type = t]
  /\ Redraw
  /\ UNCHANGED active

RemovePart_StaleActive(i) ==
  /\ parts' = RemoveAt(parts, i)
  /\ Redraw
  /\ UNCHANGED active

\* The parts after the removed one move up; the active index does not, unless it
\* would be past the end.
RemovePart(i) ==
  /\ parts' = RemoveAt(parts, i)
  /\ active' = IF active > Len(parts') THEN Len(parts') ELSE active
  /\ Redraw

SetActive(i) == active' = i /\ UNCHANGED <<parts, preview>>

\* An empty row, which draws nothing: the map is not redrawn.
AddPoint(i) ==
  /\ active' = i
  /\ IF parts[i].type = "point" /\ parts[i].points # <<>>
     THEN UNCHANGED parts
     ELSE /\ Room
          /\ parts' = [parts EXCEPT ![i].points = Append(@, Blank)]
  /\ UNCHANGED preview

TypeCoordinate_NoRedraw(i, j, v) ==
  /\ Half \in {parts[i].points[j], v} \/ {parts[i].points[j], v} \subseteq Positions
  /\ parts' = [parts EXCEPT ![i].points[j] = v]
  /\ UNCHANGED <<active, preview>>

\* One coordinate of a point is typed, changed or cleared.
TypeCoordinate(i, j, v) ==
  /\ Half \in {parts[i].points[j], v} \/ {parts[i].points[j], v} \subseteq Positions
  /\ parts' = [parts EXCEPT ![i].points[j] = v]
  /\ Redraw
  /\ UNCHANGED active

\* The rows are rendered anew, the map is not redrawn.
RemovePoint(i, j) ==
  /\ parts' = [parts EXCEPT ![i].points = RemoveAt(@, j)]
  /\ UNCHANGED <<active, preview>>

Edit ==
  \/ \E p \in Positions : ClickMap(p)
  \/ AddPart
  \/ \E i \in DOMAIN parts :
       \/ \E t \in GeometryTypes : ChangeType(i, t)
       \/ RemovePart(i)
       \/ SetActive(i)
       \/ AddPoint(i)
       \/ \E j \in DOMAIN parts[i].points :
            \/ \E v \in PointValues : TypeCoordinate(i, j, v)
            \/ RemovePoint(i, j)

EditorInit == parts = <<>> /\ active = 0 /\ preview = {}
=============================================================================
