-------------------------- MODULE AdminPanelProofs --------------------------
(***************************************************************************)
(* One tab of the admin panel, for any number of notices, page size,       *)
(* drawing, dataset and order of events: its types, what the preview and   *)
(* the server make of a drawing, paging, row actions, the session and the  *)
(* buttons of the zone map.                                                *)
(***************************************************************************)
EXTENDS AdminPanel, SubsequenceTheorems, SequenceTheorems

----------------------------------------------------------------------------
(* Lemmas about drawings *)

\* The positions given in full anywhere in a drawing.
Given(ps) ==
  {v \in Positions : \E i \in DOMAIN ps : \E j \in DOMAIN ps[i].points :
                       ps[i].points[j] = v}

LEMMA WholeFacts ==
  ASSUME NEW points \in Seq(PointValues)
  PROVE  /\ Whole(points) \in Seq(Positions)
         /\ \A v : (\E j \in DOMAIN Whole(points) : Whole(points)[j] = v)
                     <=> v \in Positions /\ \E j \in DOMAIN points : points[j] = v
         /\ points \in Seq(Positions) => Whole(points) = points
<1> DEFINE K == {j \in DOMAIN points : points[j] \in Positions}
           w == Subsequence(points, K)
<1>1. K \in SUBSET DOMAIN points /\ \A j \in K : points[j] \in Positions
  OBVIOUS
<1>2. /\ w \in Seq(Positions)
      /\ \A v : (\E n \in DOMAIN w : w[n] = v) <=> \E j \in K : points[j] = v
  <2> HIDE DEF K
  <2> QED
    BY <1>1, SubsequenceKeeps
<1>3. ASSUME points \in Seq(Positions)
      PROVE  w = points
  <2>1. \A j \in DOMAIN points : points[j] \in Positions
    BY <1>3, LenProperties, ElementOfSeq
  <2>2. K = DOMAIN points
    BY <2>1
  <2> QED
    BY <2>2, SubsequenceOfAll
<1> HIDE DEF w
<1> QED
  BY <1>2, <1>3 DEF Whole, w

LEMMA TrimmedFacts ==
  ASSUME NEW ps \in Seq(EditedPart)
  PROVE  /\ Trimmed(ps) \in Seq(Part) /\ DOMAIN Trimmed(ps) = DOMAIN ps
         /\ \A i \in DOMAIN ps : /\ Trimmed(ps)[i].type = ps[i].type
                                 /\ Trimmed(ps)[i].points = Whole(ps[i].points)
<1>1. \A i \in DOMAIN ps : ps[i] \in EditedPart
  OBVIOUS
<1>2. ASSUME NEW i \in DOMAIN ps
      PROVE  /\ Trimmed(ps)[i] \in Part
             /\ Trimmed(ps)[i].type = ps[i].type
             /\ Trimmed(ps)[i].points = Whole(ps[i].points)
  <2>1. Whole(ps[i].points) \in Seq(Positions)
    BY <1>1, WholeFacts DEF EditedPart
  <2> QED
    BY <1>1, <2>1 DEF Trimmed, EditedPart, Part
<1>3. Trimmed(ps) \in Seq(Part)
  <2>1. DOMAIN ps = 1 .. Len(ps) /\ Len(ps) \in Nat
    BY LenProperties
  <2>2. Trimmed(ps) \in [1 .. Len(ps) -> Part]
    BY <1>2, <2>1 DEF Trimmed
  <2> QED
    BY <2>1, <2>2
<1> QED
  BY <1>2, <1>3 DEF Trimmed

\* What is sent has only complete points and no part without one, and covers
\* every position that is given in full.
LEMMA SerializedFacts ==
  ASSUME NEW ps \in Seq(EditedPart)
  PROVE  /\ Serialized(ps) \in Seq(Part)
         /\ \A n \in DOMAIN Serialized(ps) : Serialized(ps)[n].points # <<>>
         /\ Enclosed(Serialized(ps)) = Given(ps) /\ Vertices(ps) = Given(ps)
<1> DEFINE t == Trimmed(ps)
           K == {i \in DOMAIN ps : t[i].points # <<>>}
           s == Subsequence(t, K)
<1>0. \A i \in DOMAIN ps : ps[i].points \in Seq(PointValues)
  <2>1. \A i \in DOMAIN ps : ps[i] \in EditedPart
    BY LenProperties, ElementOfSeq
  <2> QED
    BY <2>1 DEF EditedPart
<1>1. /\ t \in Seq(Part) /\ DOMAIN t = DOMAIN ps
      /\ \A i \in DOMAIN ps : t[i].points = Whole(ps[i].points)
  BY TrimmedFacts
<1> HIDE DEF t
<1>2. /\ s \in Seq(Part)
      /\ \A v : (\E n \in DOMAIN s : s[n] = v) <=> \E i \in K : t[i] = v
  <2>1. K \in SUBSET DOMAIN t /\ \A i \in K : t[i] \in Part
    BY <1>1, LenProperties, ElementOfSeq
  <2> HIDE DEF K
  <2> QED
    BY <1>1, <2>1, SubsequenceKeeps
<1>3. Serialized(ps) = s
  BY DEF Serialized, t
<1> HIDE DEF s
<1>4. ASSUME NEW n \in DOMAIN s
      PROVE  s[n].points # <<>>
  BY <1>2
<1>5. ASSUME NEW n \in DOMAIN s, NEW j \in DOMAIN s[n].points
      PROVE  s[n].points[j] \in Given(ps)
  <2>1. PICK i \in DOMAIN ps : s[n] = t[i]
    BY <1>2
  <2>2. s[n].points = Whole(ps[i].points) /\ ps[i].points \in Seq(PointValues)
    BY <1>0, <1>1, <2>1
  <2> HIDE DEF K
  <2> QED
    BY <2>2, WholeFacts DEF Given
<1>6. ASSUME NEW v \in Given(ps)
      PROVE  \E n \in DOMAIN s : \E j \in DOMAIN s[n].points : s[n].points[j] = v
  <2>1. PICK i \in DOMAIN ps : \E j \in DOMAIN ps[i].points : ps[i].points[j] = v
    BY DEF Given
  <2>2. t[i].points = Whole(ps[i].points) /\ ps[i].points \in Seq(PointValues)
    BY <1>0, <1>1, <2>1
  <2>3. PICK j \in DOMAIN t[i].points : t[i].points[j] = v
    BY <2>1, <2>2, WholeFacts DEF Given
  <2>4. t[i].points # <<>>
    BY <2>3
  <2>5. i \in K
    BY <2>4
  <2>6. PICK n \in DOMAIN s : s[n] = t[i]
    BY <1>2, <2>5
  <2> QED
    BY <2>3, <2>6
<1>7. Enclosed(s) = Given(ps)
  BY <1>5, <1>6 DEF Enclosed
<1>8. Vertices(ps) = Given(ps)
  BY DEF Vertices, Enclosed, Given
<1> QED
  BY <1>2, <1>3, <1>4, <1>7, <1>8

LEMMA SamePart ==
  ASSUME NEW a \in Part, NEW b \in Part, a.type = b.type, a.points = b.points
  PROVE  a = b
  BY DEF Part

LEMMA PartsAreEdited == Seq(Part) \subseteq Seq(EditedPart)
<1>1. Seq(Positions) \subseteq Seq(PointValues)
  BY SeqMonotonic DEF PointValues
<1>2. Part \subseteq EditedPart
  BY <1>1 DEF Part, EditedPart
<1> QED
  BY <1>2, SeqMonotonic

\* Sending what was sent sends the same.
LEMMA SerializedTwice ==
  ASSUME NEW sent \in Seq(Part), \A n \in DOMAIN sent : sent[n].points # <<>>
  PROVE  Serialized(sent) = sent
<1>1. sent \in Seq(EditedPart)
  BY PartsAreEdited
<1>2. /\ Trimmed(sent) \in Seq(Part) /\ DOMAIN Trimmed(sent) = DOMAIN sent
      /\ \A i \in DOMAIN sent : /\ Trimmed(sent)[i].type = sent[i].type
                                /\ Trimmed(sent)[i].points = Whole(sent[i].points)
  BY <1>1, TrimmedFacts
<1>3. ASSUME NEW i \in DOMAIN sent
      PROVE  Trimmed(sent)[i] = sent[i]
  <2>1. sent[i] \in Part /\ Trimmed(sent)[i] \in Part
    BY <1>2
  <2>2. Whole(sent[i].points) = sent[i].points
    <3>1. sent[i].points \in Seq(Positions) /\ sent[i].points \in Seq(PointValues)
      BY <2>1, SeqMonotonic DEF Part, PointValues
    <3> QED
      BY <3>1, WholeFacts
  <2> QED
    BY <1>2, <2>1, <2>2, SamePart
<1>4. Trimmed(sent) = sent
  BY <1>2, <1>3, SeqEqual
<1>5. {i \in DOMAIN sent : sent[i].points # <<>>} = DOMAIN sent
  OBVIOUS
<1> QED
  BY <1>4, <1>5, SubsequenceOfAll DEF Serialized

\* Giving a part other points leaves the rest of the drawing.
LEMMA SetPoints ==
  ASSUME NEW ps \in Seq(EditedPart), NEW i \in DOMAIN ps,
         NEW points \in Seq(PointValues)
  PROVE  LET new == [ps EXCEPT ![i].points = points]
         IN  /\ new \in Seq(EditedPart) /\ Len(new) = Len(ps) /\ DOMAIN new = DOMAIN ps
             /\ \A k \in DOMAIN ps : new[k].points = IF k = i THEN points ELSE ps[k].points
<1> DEFINE part == [ps[i] EXCEPT !.points = points]
           new == [ps EXCEPT ![i] = part]
<1>1. /\ ps[i] \in EditedPart /\ i \in 1 .. Len(ps) /\ DOMAIN ps = 1 .. Len(ps)
  BY LenProperties, ElementOfSeq
<1>2. part \in EditedPart /\ part.points = points
  BY <1>1 DEF EditedPart
<1> HIDE DEF part
<1>3. /\ new \in Seq(EditedPart) /\ Len(new) = Len(ps)
      /\ \A k \in 1 .. Len(ps) : new[k] = IF k = i THEN part ELSE ps[k]
  BY <1>1, <1>2, ExceptSeq
<1>4. DOMAIN new = DOMAIN ps
  OBVIOUS
<1> HIDE DEF new
<1>5. \A k \in DOMAIN ps : new[k].points = IF k = i THEN points ELSE ps[k].points
  BY <1>1, <1>2, <1>3
<1> QED
  BY <1>3, <1>4, <1>5 DEF new, part

LEMMA RemoveAtFacts ==
  ASSUME NEW S, NEW s \in Seq(S), NEW i \in DOMAIN s
  PROVE  /\ RemoveAt(s, i) \in Seq(S) /\ Len(RemoveAt(s, i)) = Len(s) - 1
         /\ \A k \in DOMAIN RemoveAt(s, i) : \E j \in DOMAIN s : RemoveAt(s, i)[k] = s[j]
<1> DEFINE before == SubSeq(s, 1, i - 1)
           after == SubSeq(s, i + 1, Len(s))
<1>1. Len(s) \in Nat /\ DOMAIN s = 1 .. Len(s) /\ i \in 1 .. Len(s)
      /\ \A j \in 1 .. Len(s) : s[j] \in S
  BY LenProperties, ElementOfSeq
<1>2. /\ before \in Seq(S) /\ Len(before) = i - 1
      /\ \A j \in 1 .. i - 1 : before[j] = s[j]
  <2>1. \A j \in 1 .. i - 1 : s[j] \in S
    BY <1>1
  <2> QED
    BY <1>1, <2>1, SubSeqProperties
<1>3. /\ after \in Seq(S) /\ Len(after) = Len(s) - i
      /\ \A j \in 1 .. Len(s) - i : after[j] = s[i + j]
  <2>1. \A j \in i + 1 .. Len(s) : s[j] \in S
    BY <1>1
  <2>2. /\ after \in Seq(S) /\ Len(after) = IF i + 1 <= Len(s) THEN Len(s) - (i + 1) + 1 ELSE 0
        /\ \A j \in 1 .. Len(s) - (i + 1) + 1 : after[j] = s[(i + 1) + j - 1]
    BY <1>1, <2>1, SubSeqProperties
  <2> HIDE DEF after
  <2>3. (IF i + 1 <= Len(s) THEN Len(s) - (i + 1) + 1 ELSE 0) = Len(s) - i
    BY <1>1
  <2>4. ASSUME NEW j \in 1 .. Len(s) - i
        PROVE  after[j] = s[i + j]
    <3>1. j \in 1 .. Len(s) - (i + 1) + 1 /\ (i + 1) + j - 1 = i + j
      BY <1>1
    <3> QED
      BY <2>2, <3>1
  <2> QED
    BY <2>2, <2>3, <2>4
<1> HIDE DEF before, after
<1>4. /\ before \o after \in Seq(S) /\ Len(before \o after) = Len(s) - 1
      /\ \A k \in 1 .. Len(s) - 1 :
           (before \o after)[k] = IF k <= i - 1 THEN before[k] ELSE after[k - (i - 1)]
  <2>1. /\ before \o after \in Seq(S)
        /\ Len(before \o after) = Len(before) + Len(after)
        /\ \A k \in 1 .. Len(before) + Len(after) :
             (before \o after)[k] =
               IF k <= Len(before) THEN before[k] ELSE after[k - Len(before)]
    BY <1>2, <1>3, ConcatProperties
  <2>2. Len(before) = i - 1 /\ Len(before) + Len(after) = Len(s) - 1
    BY <1>1, <1>2, <1>3
  <2> QED
    BY <2>1, <2>2
<1>5. DOMAIN (before \o after) = 1 .. Len(s) - 1
  BY <1>1, <1>4, LenProperties
<1>6. ASSUME NEW k \in 1 .. Len(s) - 1
      PROVE  \E j \in DOMAIN s : (before \o after)[k] = s[j]
  <2>1. CASE k <= i - 1
    <3>1. k \in DOMAIN s /\ (before \o after)[k] = s[k]
      BY <1>1, <1>2, <1>4, <2>1
    <3> QED
      BY <3>1
  <2>2. CASE ~(k <= i - 1)
    <3>1. k - (i - 1) \in 1 .. Len(s) - i /\ k + 1 \in DOMAIN s /\ i + (k - (i - 1)) = k + 1
      BY <1>1, <2>2
    <3>2. (before \o after)[k] = s[k + 1]
      BY <1>1, <1>3, <1>4, <2>2, <3>1
    <3> QED
      BY <3>1, <3>2
  <2> QED
    BY <2>1, <2>2
<1> QED
  BY <1>4, <1>5, <1>6 DEF RemoveAt, before, after

----------------------------------------------------------------------------
(* The editor *)

\* The preview covers what would be sent: it is redrawn, or points are only taken
\* out of the drawing.
EditorInv == EditorTypeOK /\ PreviewShowsWhatIsSent

LEMMA Redrawn ==
  ASSUME parts' \in Seq(EditedPart), Redraw, active' \in 0 .. Len(parts')
  PROVE  EditorInv'
<1>1. preview' = Given(parts') /\ Enclosed(Serialized(parts')) = Given(parts')
  BY SerializedFacts DEF Redraw
<1> QED
  BY <1>1 DEF EditorInv, EditorTypeOK, PreviewShowsWhatIsSent, Given

LEMMA NotRedrawn ==
  ASSUME EditorInv, parts' \in Seq(EditedPart), Given(parts') \subseteq Given(parts),
         preview' = preview, active' \in 0 .. Len(parts')
  PROVE  EditorInv'
<1>1. /\ Enclosed(Serialized(parts')) = Given(parts')
      /\ Enclosed(Serialized(parts)) = Given(parts)
  BY SerializedFacts DEF EditorInv, EditorTypeOK
<1> QED
  BY <1>1 DEF EditorInv, EditorTypeOK, PreviewShowsWhatIsSent

LEMMA OpenStep ==
  ASSUME NEW areas \in Seq(Part), Open(areas)
  PROVE  EditorInv'
<1>1. parts' = areas /\ areas \in Seq(EditedPart) /\ Len(areas) \in Nat
  BY PartsAreEdited, LenProperties DEF Open
<1>2. areas # <<>> => Len(areas) > 0
  BY EmptySeq
<1> QED
  BY <1>1, <1>2, Redrawn DEF Open, Redraw

LEMMA EditStep ==
  ASSUME EditorInv, Edit
  PROVE  EditorInv'
<1>0. /\ parts \in Seq(EditedPart) /\ Len(parts) \in Nat /\ DOMAIN parts = 1 .. Len(parts)
      /\ active \in 0 .. Len(parts)
      /\ \A i \in DOMAIN parts : /\ parts[i] \in EditedPart
                                 /\ parts[i].points \in Seq(PointValues)
  <2>1. parts \in Seq(EditedPart) /\ active \in 0 .. Len(parts)
    BY DEF EditorInv, EditorTypeOK
  <2>2. \A i \in DOMAIN parts : parts[i] \in EditedPart
    BY <2>1, LenProperties, ElementOfSeq
  <2> QED
    BY <2>1, <2>2, LenProperties DEF EditedPart
<1>1. ASSUME NEW p \in Positions, ClickMap(p)
      PROVE  EditorInv'
  <2> DEFINE points == IF parts[active].type = "point" THEN <<p>>
                       ELSE Append(parts[active].points, p)
  <2>1. active \in DOMAIN parts /\ parts' = [parts EXCEPT ![active].points = points]
    BY <1>0, <1>1 DEF ClickMap
  <2>2. points \in Seq(PointValues)
    <3>1. p \in PointValues
      BY DEF PointValues
    <3> QED
      BY <1>0, <2>1, <3>1
  <2> HIDE DEF points
  <2>3. parts' \in Seq(EditedPart) /\ Len(parts') = Len(parts)
    BY <1>0, <2>1, <2>2, SetPoints
  <2> QED
    BY <1>0, <1>1, <2>3, Redrawn DEF ClickMap
<1>2. CASE AddPart
  <2>1. [type |-> "point", points |-> <<>>] \in EditedPart
    BY DEF EditedPart, GeometryTypes
  <2>2. parts' \in Seq(EditedPart) /\ Len(parts') = Len(parts) + 1
    BY <1>0, <1>2, <2>1, AppendProperties DEF AddPart
  <2> QED
    BY <1>0, <1>2, <2>2, Redrawn DEF AddPart
<1>3. ASSUME NEW i \in DOMAIN parts, NEW t \in GeometryTypes, ChangeType(i, t)
      PROVE  EditorInv'
  <2>1. [parts[i] EXCEPT !.type = t] \in EditedPart
    BY <1>0 DEF EditedPart
  <2>2. parts' \in Seq(EditedPart) /\ Len(parts') = Len(parts)
    BY <1>0, <1>3, <2>1, ExceptSeq DEF ChangeType
  <2> QED
    BY <1>0, <1>3, <2>2, Redrawn DEF ChangeType
<1>4. ASSUME NEW i \in DOMAIN parts, RemovePart(i)
      PROVE  EditorInv'
  <2>1. parts' \in Seq(EditedPart) /\ Len(parts') = Len(parts) - 1
    BY <1>0, <1>4, RemoveAtFacts DEF RemovePart
  <2> QED
    BY <1>0, <1>4, <2>1, Redrawn DEF RemovePart
<1>5. ASSUME NEW i \in DOMAIN parts, SetActive(i)
      PROVE  EditorInv'
  BY <1>0, <1>5, NotRedrawn DEF SetActive
<1>6. ASSUME NEW i \in DOMAIN parts, AddPoint(i)
      PROVE  EditorInv'
  <2>1. CASE parts' = parts
    BY <1>0, <1>6, <2>1, NotRedrawn DEF AddPoint
  <2>2. CASE parts' = [parts EXCEPT ![i].points = Append(@, Blank)]
    <3> DEFINE old == parts[i].points
               points == Append(old, Blank)
    <3>1. Blank \in PointValues /\ Blank \notin Positions /\ old \in Seq(PointValues)
      BY <1>0, EditorAssumption DEF PointValues
    <3>2. /\ points \in Seq(PointValues) /\ Len(points) = Len(old) + 1
          /\ \A j \in 1 .. Len(old) : points[j] = old[j]
          /\ points[Len(old) + 1] = Blank /\ Len(old) \in Nat
          /\ DOMAIN old = 1 .. Len(old) /\ DOMAIN points = 1 .. Len(old) + 1
      BY <3>1, AppendProperties, LenProperties
    <3> HIDE DEF points
    <3>3. parts' = [parts EXCEPT ![i].points = points]
      BY <2>2 DEF points
    <3>4. /\ parts' \in Seq(EditedPart) /\ Len(parts') = Len(parts) /\ DOMAIN parts' = DOMAIN parts
          /\ \A k \in DOMAIN parts :
               parts'[k].points = IF k = i THEN points ELSE parts[k].points
      BY <1>0, <3>2, <3>3, SetPoints
    <3>5. ASSUME NEW v \in Given(parts')
          PROVE  v \in Given(parts)
      <4>0. PICK k \in DOMAIN parts' : \E j \in DOMAIN parts'[k].points : parts'[k].points[j] = v
        BY DEF Given
      <4>1. PICK j \in DOMAIN parts'[k].points : parts'[k].points[j] = v
        BY <4>0
      <4>2. v \in Positions
        BY DEF Given
      <4>3. CASE k # i
        BY <3>4, <4>1, <4>2, <4>3 DEF Given
      <4>4. CASE k = i
        <5>1. j \in 1 .. Len(old) + 1 /\ points[j] = v
          BY <3>2, <3>4, <4>1, <4>4
        <5>2. j \in DOMAIN old /\ old[j] = v
          BY <3>1, <3>2, <4>2, <5>1
        <5> QED
          BY <4>2, <5>2 DEF Given
      <4> QED
        BY <4>3, <4>4
    <3> QED
      BY <1>0, <1>6, <3>4, <3>5, NotRedrawn DEF AddPoint
  <2> QED
    BY <1>6, <2>1, <2>2 DEF AddPoint
<1>7. ASSUME NEW i \in DOMAIN parts, NEW j \in DOMAIN parts[i].points,
             NEW v \in PointValues, TypeCoordinate(i, j, v)
      PROVE  EditorInv'
  <2> DEFINE points == [parts[i].points EXCEPT ![j] = v]
  <2>1. points \in Seq(PointValues)
    BY <1>0, ExceptSeq, LenProperties
  <2>2. parts' = [parts EXCEPT ![i].points = points]
    BY <1>7 DEF TypeCoordinate
  <2> HIDE DEF points
  <2>3. parts' \in Seq(EditedPart) /\ Len(parts') = Len(parts)
    BY <1>0, <2>1, <2>2, SetPoints
  <2> QED
    BY <1>0, <1>7, <2>3, Redrawn DEF TypeCoordinate
<1>8. ASSUME NEW i \in DOMAIN parts, NEW j \in DOMAIN parts[i].points, RemovePoint(i, j)
      PROVE  EditorInv'
  <2> DEFINE points == RemoveAt(parts[i].points, j)
  <2>1. /\ points \in Seq(PointValues)
        /\ \A k \in DOMAIN points : \E m \in DOMAIN parts[i].points :
             points[k] = parts[i].points[m]
    BY <1>0, RemoveAtFacts
  <2>2. parts' = [parts EXCEPT ![i].points = points]
    BY <1>8 DEF RemovePoint
  <2> HIDE DEF points
  <2>3. /\ parts' \in Seq(EditedPart) /\ Len(parts') = Len(parts) /\ DOMAIN parts' = DOMAIN parts
        /\ \A k \in DOMAIN parts :
             parts'[k].points = IF k = i THEN points ELSE parts[k].points
    BY <1>0, <2>1, <2>2, SetPoints
  <2>4. Given(parts') \subseteq Given(parts)
    BY <2>1, <2>3 DEF Given
  <2> QED
    BY <1>0, <1>8, <2>3, <2>4, NotRedrawn DEF RemovePoint
<1> QED
  BY <1>1, <1>2, <1>3, <1>4, <1>5, <1>6, <1>7, <1>8 DEF Edit

----------------------------------------------------------------------------
(* The create form *)

ResultTypeOK ==
  /\ result \in [kind: {"none", "created", "shapes", "other"},
                 stored: BOOLEAN, areas: Seq(Part), key: Keys \cup {NoKey}]
  /\ key \in Keys \cup {NoKey} /\ taken \subseteq Keys
  /\ saved \in [Keys -> Nat]

\* What the form lets through: refused for its shapes only out of bounds.
Sent(areas) ==
  /\ areas \in Seq(Part) /\ \A n \in DOMAIN areas : areas[n].points # <<>>
  /\ AreasAccepted(areas) \/ ~(Enclosed(areas) \subseteq World)

\* The last answer was to a request the form let through, and the form shows it
\* again if it was refused.
AnswerInv ==
  /\ result.kind # "none" => Sent(result.areas) /\ result.key \in Keys
  /\ result.kind \in {"shapes", "other"} => parts = result.areas

\* A notice saved from the form holds the key that the form still has, or has
\* just been emptied of; and it is the key of the request that can be reloaded.
SavedInv ==
  \A k \in Keys : saved[k] > 0 =>
    /\ saved[k] = 1 /\ k \in taken
    /\ key = k \/ (key = NoKey /\ result.kind # "none")
    /\ result.kind # "none" => result.key = k

ResultInv ==
  /\ ResultTypeOK /\ RefusedOnlyForBounds /\ StoredPartsAreShown
  /\ AnswerInv /\ SavedInv

LEMMA NoKeyIsNone == NoKey \notin Keys
  BY PanelAssumption DEF NoKey, Keys

LEMMA SavedOne == ResultInv => SavedOnce
<1>1. ASSUME ResultInv, NEW k \in Keys, NEW l \in Keys, saved[k] > 0, saved[l] > 0
      PROVE  k = l /\ saved[k] = 1
  BY <1>1, NoKeyIsNone DEF ResultInv, SavedInv
<1> QED
  BY <1>1 DEF SavedOnce

\* What the DTO accepts the serializer pins, and draws if no point is repeated.
LEMMA AcceptedIsShown ==
  ASSUME NEW areas \in Seq(Part), AreasAccepted(areas)
  PROVE  /\ Anchored(areas) = DOMAIN areas
         /\ (\A i \in DOMAIN areas : IsInjective(areas[i].points)) =>
              Features(areas) = DOMAIN areas
<1>1. ASSUME NEW i \in DOMAIN areas
      PROVE  /\ areas[i].type \in GeometryTypes
             /\ areas[i].points \in Seq(Positions)
             /\ Len(areas[i].points) \in Nat
             /\ DOMAIN areas[i].points = 1 .. Len(areas[i].points)
             /\ Len(areas[i].points) >= MinPoints[areas[i].type]
  <2>1. areas[i] \in Part
    BY LenProperties, ElementOfSeq
  <2> QED
    BY <2>1, LenProperties DEF Part, AreasAccepted, PointCountMatchesType
<1>2. ASSUME NEW i \in DOMAIN areas
      PROVE  areas[i].points # <<>>
  <2>1. Len(areas[i].points) >= 1
    BY <1>1 DEF GeometryTypes, MinPoints
  <2> QED
    BY <2>1
<1>3. ASSUME NEW i \in DOMAIN areas, IsInjective(areas[i].points)
      PROVE  Drawable(areas[i])
  <2> DEFINE ring == areas[i].points
  <2>1. CASE areas[i].type = "point"
    BY <1>2, <2>1 DEF Drawable
  <2>2. CASE areas[i].type = "line"
    BY <1>1, <2>2 DEF Drawable, MinPoints
  <2>3. CASE areas[i].type = "polygon"
    <3>1. Len(ring) >= 3
      BY <1>1, <2>3 DEF MinPoints
    <3>2. ring[1] # ring[Len(ring)]
      BY <1>1, <1>3, <3>1 DEF IsInjective
    <3>3. CloseRing(ring) = Append(ring, ring[1])
      BY <3>2 DEF CloseRing, IsRingClosed
    <3>4. Len(CloseRing(ring)) = Len(ring) + 1
      <4>1. ring \in Seq(Positions) /\ ring[1] \in Positions
        BY <1>1, <3>1, ElementOfSeq
      <4> QED
        BY <3>3, <4>1, AppendProperties
    <3> QED
      BY <1>1, <1>2, <2>3, <3>1, <3>4 DEF Drawable
  <2> QED
    BY <1>1, <2>1, <2>2, <2>3 DEF GeometryTypes
<1> QED
  BY <1>2, <1>3 DEF Anchored, Features

\* What the page's own check lets through has enough points in every part.
LEMMA RefusedForBounds ==
  ASSUME parts \in Seq(EditedPart), Sendable(parts), ~AreasAccepted(Serialized(parts))
  PROVE  ~(Enclosed(Serialized(parts)) \subseteq World)
<1> DEFINE sent == Serialized(parts)
<1>1. \A i \in DOMAIN sent : PointCountMatchesType(sent[i])
  BY DEF Sendable, FormMinPoints, MinPoints, PointCountMatchesType
<1>2. PICK i \in DOMAIN sent : ~InBounds(sent[i])
  BY <1>1 DEF AreasAccepted
<1> HIDE DEF sent
<1> QED
  BY <1>2 DEF InBounds, Enclosed, sent

\* The last answer is dropped, and nothing was saved or the key stays.
LEMMA NoResultInv ==
  ASSUME ResultInv, result' = NoResult, key' \in Keys \cup {NoKey}, taken' \subseteq Keys,
         \/ saved' = NoneSaved
         \/ key \in Keys /\ UNCHANGED <<key, taken, saved>>
  PROVE  ResultInv'
<1>1. NoResult \in [kind: {"none", "created", "shapes", "other"},
                    stored: BOOLEAN, areas: Seq(Part), key: Keys \cup {NoKey}]
  BY EmptySeq DEF NoResult
<1>2. saved' \in [Keys -> Nat]
  BY DEF ResultInv, ResultTypeOK, NoneSaved
<1>3. result'.kind = "none" /\ ~result'.stored
  BY DEF NoResult
<1>4. ResultTypeOK'
  BY <1>1, <1>2 DEF ResultTypeOK
<1>5. RefusedOnlyForBounds' /\ StoredPartsAreShown' /\ AnswerInv'
  BY <1>3 DEF RefusedOnlyForBounds, StoredPartsAreShown, AnswerInv
<1>6. SavedInv'
  <2>1. CASE saved' = NoneSaved
    BY <2>1 DEF SavedInv, NoneSaved
  <2>2. CASE key \in Keys /\ UNCHANGED <<key, taken, saved>>
    BY <1>3, <2>2, NoKeyIsNone DEF ResultInv, SavedInv
  <2> QED
    BY <2>1, <2>2
<1> QED
  BY <1>4, <1>5, <1>6 DEF ResultInv

\* A table that others write keeps or loses what was saved.
LEMMA TableInv ==
  ASSUME ResultInv, UNCHANGED <<parts, key, result>>, NEW k \in Keys,
         \/ taken' = taken \cup {k} /\ saved' = saved
         \/ taken' = taken \ {k} /\ saved' = [saved EXCEPT ![k] = 0]
  PROVE  ResultInv'
<1>1. saved' \in [Keys -> Nat] /\ \A l \in Keys : saved'[l] > 0 =>
                                  saved'[l] = saved[l] /\ (l \in taken => l \in taken')
  BY DEF ResultInv, ResultTypeOK
<1>2. ResultTypeOK'
  BY <1>1 DEF ResultInv, ResultTypeOK
<1>3. RefusedOnlyForBounds' /\ StoredPartsAreShown' /\ AnswerInv'
  BY DEF ResultInv, RefusedOnlyForBounds, StoredPartsAreShown, AnswerInv
<1>4. SavedInv'
  BY <1>1 DEF ResultInv, SavedInv
<1> QED
  BY <1>2, <1>3, <1>4 DEF ResultInv

\* A request that reaches the server, sent from the form or again.
LEMMA CreateStep ==
  ASSUME EditorInv, ResultInv, NEW areas, Sent(areas), NEW k \in Keys,
         key = k \/ (result.kind # "none" /\ result.key = k),
         Guarded, Create(areas, k)
  PROVE  /\ EditorInv' /\ ResultInv'
         /\ result'.kind # "created" => parts' = areas /\ preview' = Vertices(areas)
<1>1. PICK kind \in {"created", "shapes", "other"}, stored \in BOOLEAN :
        /\ Answer(kind, stored, areas, k)
        /\ kind = "shapes" => ~AreasAccepted(areas) /\ ~stored
        /\ kind = "created" => stored
        /\ stored => AreasAccepted(areas) /\ KeyFree(k)
  BY DEF Create
<1>2. /\ result' = [kind |-> kind, stored |-> stored, areas |-> areas, key |-> k]
      /\ kind = "created" => Open(<<>>) /\ key' = NoKey
      /\ kind # "created" => Open(areas) /\ key' = k
      /\ stored => taken' = taken \cup {k} /\ saved' = [saved EXCEPT ![k] = @ + 1]
      /\ ~stored => UNCHANGED <<taken, saved>>
  BY <1>1 DEF Answer, FormAfter, KeyAfter
<1>3. EditorInv'
  <2>1. <<>> \in Seq(Part) /\ areas \in Seq(Part)
    BY EmptySeq DEF Sent
  <2> QED
    BY <1>2, <2>1, OpenStep
<1>4. ResultTypeOK'
  BY <1>2 DEF ResultInv, ResultTypeOK, Sent
<1>5. RefusedOnlyForBounds' /\ StoredPartsAreShown'
  BY <1>1, <1>2, AcceptedIsShown DEF RefusedOnlyForBounds, StoredPartsAreShown, Sent
<1>6. AnswerInv'
  BY <1>2 DEF AnswerInv, Open
\* Nothing is in the table under another key, nor under this one if it is free.
<1>7. ASSUME NEW l \in Keys, saved[l] > 0
      PROVE  l = k /\ k \in taken /\ saved[k] = 1
  BY <1>7, NoKeyIsNone DEF ResultInv, SavedInv
<1>8. SavedInv'
  <2>1. saved \in [Keys -> Nat] /\ result'.key = k /\ result'.kind # "none"
    BY <1>2 DEF ResultInv, ResultTypeOK
  <2>2. CASE stored
    <3>1. \A l \in Keys : saved[l] = 0
      BY <1>1, <1>7, <2>1, <2>2 DEF KeyFree
    <3>2. \A l \in Keys : saved'[l] > 0 => l = k /\ saved'[l] = 1
      BY <1>2, <2>1, <2>2, <3>1
    <3> QED
      BY <1>2, <2>1, <2>2, <3>2 DEF SavedInv
  <2>3. CASE ~stored
    BY <1>1, <1>2, <1>7, <2>1, <2>3 DEF SavedInv
  <2> QED
    BY <2>2, <2>3
<1>9. ResultInv'
  BY <1>4, <1>5, <1>6, <1>8 DEF ResultInv
<1> QED
  BY <1>2, <1>3, <1>9 DEF Open

\* What the form lets through.
LEMMA SubmitSends ==
  ASSUME EditorInv, Sendable(parts)
  PROVE  Sent(Serialized(parts))
<1>1. parts \in Seq(EditedPart)
  BY DEF EditorInv, EditorTypeOK
<1> QED
  BY <1>1, SerializedFacts, RefusedForBounds DEF Sent

----------------------------------------------------------------------------
(* The zone map *)

\* Layers are numbered up to the last answer, and fetches are bounded.
ZonesInv ==
  /\ ZonesTypeOK /\ ButtonsMatchTheMap
  /\ \A d \in RefLayers :
       /\ cached[d] <= loads[d] /\ pending[d] + loads[d] <= MaxLoads
       /\ \A n \in 1 .. MaxLoads : <<d, n>> \in onMap => n <= loads[d]

LEMMA FreshZones ==
  ASSUME listed' = {}, pressed' = NoticeLayers, onMap' = NoticeLayers \X {0},
         cached' = [d \in RefLayers |-> 0], pending' = [d \in RefLayers |-> 0],
         loads' = [d \in RefLayers |-> 0]
  PROVE  ZonesInv'
<1>1. \A d \in RefLayers : d \notin NoticeLayers
  BY ZonesAssumption
<1>2. ZonesTypeOK'
  BY ZonesAssumption DEF ZonesTypeOK
<1>3. ButtonsMatchTheMap'
  BY <1>1 DEF ButtonsMatchTheMap, LayersOf
<1>4. ASSUME NEW d \in RefLayers
      PROVE  /\ cached'[d] <= loads'[d] /\ pending'[d] + loads'[d] <= MaxLoads
             /\ \A n \in 1 .. MaxLoads : <<d, n>> \in onMap' => n <= loads'[d]
  BY <1>1, ZonesAssumption
<1> QED
  BY <1>2, <1>3, <1>4 DEF ZonesInv

LEMMA ZonesStepInv ==
  ASSUME ZonesInv, ZonesStep
  PROVE  ZonesInv'
<1> USE DEF ZonesInv, ZonesTypeOK, ButtonsMatchTheMap, LayersOf
<1>0. /\ MaxLoads \in Nat
      /\ \A d \in RefLayers : d \notin NoticeLayers
      /\ \A d \in RefLayers : cached[d] \in Nat /\ pending[d] \in Nat /\ loads[d] \in Nat
  BY ZonesAssumption
<1>1. CASE ListDatasets
  BY <1>1 DEF ListDatasets
<1>2. ASSUME NEW k \in NoticeLayers, ToggleNotices(k)
      PROVE  ZonesInv'
  BY <1>0, <1>2 DEF ToggleNotices
<1>3. ASSUME NEW d \in RefLayers, SwitchOff(d)
      PROVE  ZonesInv'
  BY <1>0, <1>3 DEF SwitchOff
<1>4. ASSUME NEW d \in RefLayers, SwitchOn(d)
      PROVE  ZonesInv'
  BY <1>0, <1>4 DEF SwitchOn
<1>5. ASSUME NEW d \in RefLayers, FetchLayer(d)
      PROVE  ZonesInv'
  BY <1>0, <1>5 DEF FetchLayer
<1>6. ASSUME NEW d \in RefLayers, RenderLayer(d)
      PROVE  ZonesInv'
  BY <1>0, <1>6 DEF RenderLayer
<1>7. ASSUME NEW d \in RefLayers, FetchFails(d)
      PROVE  ZonesInv'
  BY <1>0, <1>7 DEF FetchFails
<1> QED
  BY <1>1, <1>2, <1>3, <1>4, <1>5, <1>6, <1>7 DEF ZonesStep

----------------------------------------------------------------------------
(* Pages of the queue *)

Statuses == {"new", "listed", "settled", "gone"}

LEMMA FirstOfFacts ==
  ASSUME NEW S, NEW s \in Seq(S), NEW n \in Nat
  PROVE  /\ FirstOf(s, n) \in Seq(S)
         /\ Len(FirstOf(s, n)) = IF n < Len(s) THEN n ELSE Len(s)
         /\ \A i \in 1 .. Len(FirstOf(s, n)) : FirstOf(s, n)[i] = s[i]
<1> DEFINE m == IF n < Len(s) THEN n ELSE Len(s)
<1>1. Len(s) \in Nat /\ m \in Nat /\ m <= Len(s) /\ \A i \in 1 .. Len(s) : s[i] \in S
  BY LenProperties, ElementOfSeq
<1>2. \A i \in 1 .. m : s[i] \in S
  BY <1>1
<1> HIDE DEF m
<1>3. /\ SubSeq(s, 1, m) \in Seq(S)
      /\ Len(SubSeq(s, 1, m)) = IF 1 <= m THEN m - 1 + 1 ELSE 0
      /\ \A i \in 1 .. m - 1 + 1 : SubSeq(s, 1, m)[i] = s[1 + i - 1]
  BY <1>1, <1>2, SubSeqProperties
<1>4. Len(SubSeq(s, 1, m)) = m /\ \A i \in 1 .. m : SubSeq(s, 1, m)[i] = s[i]
  BY <1>1, <1>3
<1> QED
  BY <1>3, <1>4 DEF FirstOf, m

\* The queue lists every listed notice once, in order.
LEMMA ListedFacts ==
  ASSUME NEW st
  PROVE  LET L == Listed(st)
         IN  /\ L \in Seq(Ids) /\ Len(L) \in 0 .. Count /\ DOMAIN L = 1 .. Len(L)
             /\ \A i, j \in 1 .. Len(L) : i < j => L[i] < L[j]
             /\ \A i \in Ids : st[i] = "listed" => \E n \in 1 .. Len(L) : L[n] = i
<1> DEFINE K == {i \in Ids : st[i] = "listed"}
<1>1. K \in SUBSET Ids /\ Ids \in SUBSET Nat /\ Count \in Nat
  BY PanelAssumption DEF Ids
<1>2. IsFiniteSet(Ids) /\ Cardinality(Ids) = Count
  BY <1>1, FS_Interval DEF Ids
<1>4. Listed(st) = Ascending(K)
  BY DEF Listed
<1> HIDE DEF K
<1>3. IsFiniteSet(K) /\ Cardinality(K) \in 0 .. Count /\ K \in SUBSET Nat
  <2>1. IsFiniteSet(K) /\ Cardinality(K) <= Cardinality(Ids)
    BY <1>1, <1>2, FS_Subset
  <2>2. Cardinality(K) \in Nat
    BY <2>1, FS_CardinalityType
  <2>3. Cardinality(K) \in 0 .. Count
    BY <1>1, <1>2, <2>1, <2>2
  <2>4. K \in SUBSET Nat
    BY <1>1
  <2> QED
    BY <2>1, <2>3, <2>4
<1>5. Ascending(K) \in [1 .. Cardinality(K) -> Ids]
  <2>1. \A n \in 1 .. Cardinality(K) : Ascending(K)[n] \in Ids
    BY <1>1, <1>3, AscendingRank
  <2> QED
    BY <2>1 DEF Ascending
<1>6. /\ Ascending(K) \in Seq(Ids) /\ Len(Ascending(K)) = Cardinality(K)
      /\ DOMAIN Ascending(K) = 1 .. Cardinality(K)
  BY <1>3, <1>5
<1>7. \A i, j \in 1 .. Cardinality(K) : i < j => Ascending(K)[i] < Ascending(K)[j]
  BY <1>3, AscendingIncreases
<1>8. \A i \in K : \E n \in 1 .. Cardinality(K) : Ascending(K)[n] = i
  BY <1>3, AscendingOnto
<1> QED
  BY <1>3, <1>4, <1>6, <1>7, <1>8 DEF K

\* What a request with an offset finds, and what of it is shown.
LEMMA PageFacts ==
  ASSUME NEW st, NEW o \in Nat
  PROVE  LET L == Listed(st)
             got == FirstOf(PageAt(st, o), Limit)
         IN  /\ got \in Seq(Ids)
             /\ Len(PageAt(st, o)) > Limit <=> o + Limit < Len(L)
             /\ Len(got) = IF o + Limit < Len(L) THEN Limit
                           ELSE IF o < Len(L) THEN Len(L) - o ELSE 0
             /\ \A i \in 1 .. Len(got) : got[i] = L[o + i]
<1> DEFINE L == Listed(st)
           after == SubSeq(L, o + 1, Len(L))
           read == FirstOf(after, Taken)
           got == FirstOf(read, Limit)
<1>1. /\ L \in Seq(Ids) /\ Len(L) \in Nat /\ Limit \in Nat /\ Taken = Limit + 1
      /\ \A i \in 1 .. Len(L) : L[i] \in Ids
  BY ListedFacts, ElementOfSeq, PanelAssumption DEF Taken
<1> HIDE DEF L
<1>2. /\ after \in Seq(Ids) /\ Len(after) = IF o < Len(L) THEN Len(L) - o ELSE 0
      /\ \A i \in 1 .. Len(after) : after[i] = L[o + i]
  <2>1. \A i \in o + 1 .. Len(L) : L[i] \in Ids
    BY <1>1
  <2>2. /\ after \in Seq(Ids)
        /\ Len(after) = IF o + 1 <= Len(L) THEN Len(L) - (o + 1) + 1 ELSE 0
        /\ \A i \in 1 .. Len(L) - (o + 1) + 1 : after[i] = L[(o + 1) + i - 1]
    BY <1>1, <2>1, SubSeqProperties
  <2> QED
    BY <1>1, <2>2
<1> HIDE DEF after
<1>3. /\ read \in Seq(Ids)
      /\ Len(read) = IF Limit + 1 < Len(after) THEN Limit + 1 ELSE Len(after)
      /\ \A i \in 1 .. Len(read) : read[i] = after[i]
  BY <1>1, <1>2, FirstOfFacts
<1> HIDE DEF read
<1>4. /\ got \in Seq(Ids)
      /\ Len(got) = IF Limit < Len(read) THEN Limit ELSE Len(read)
      /\ \A i \in 1 .. Len(got) : got[i] = read[i]
  BY <1>1, <1>3, FirstOfFacts
<1> HIDE DEF got
<1>5. Len(after) \in Nat /\ Len(read) \in Nat /\ Len(got) \in Nat
  BY <1>2, <1>3, <1>4, LenProperties
<1>6. /\ Len(read) > Limit <=> o + Limit < Len(L)
      /\ Len(got) = IF o + Limit < Len(L) THEN Limit
                    ELSE IF o < Len(L) THEN Len(L) - o ELSE 0
      /\ Len(got) <= Len(read) /\ Len(read) <= Len(after)
  BY <1>1, <1>2, <1>3, <1>4, <1>5
<1>7. ASSUME NEW i \in 1 .. Len(got)
      PROVE  got[i] = L[o + i]
  <2>1. i \in 1 .. Len(read) /\ i \in 1 .. Len(after)
    BY <1>5, <1>6
  <2> QED
    BY <1>2, <1>3, <1>4, <2>1
<1>8. PageAt(st, o) = read
  BY DEF PageAt, read, after, L
<1> QED
  BY <1>4, <1>6, <1>7, <1>8 DEF got, L

\* A page shows as many notices as it lists.
LEMMA PageSize ==
  ASSUME NEW st, NEW o \in Nat
  PROVE  LET got == FirstOf(PageAt(st, o), Limit)
         IN  /\ IsFiniteSet(ToSet(got)) /\ Cardinality(ToSet(got)) = Len(got)
             /\ Len(got) \in 0 .. Limit /\ ToSet(got) \subseteq Ids
<1> DEFINE L == Listed(st)
           got == FirstOf(PageAt(st, o), Limit)
<1>1. /\ got \in Seq(Ids) /\ Len(got) \in Nat /\ DOMAIN got = 1 .. Len(got)
      /\ Len(got) = IF o + Limit < Len(L) THEN Limit
                    ELSE IF o < Len(L) THEN Len(L) - o ELSE 0
      /\ \A i \in 1 .. Len(got) : got[i] = L[o + i] /\ got[i] \in Ids
  BY PageFacts, LenProperties, ElementOfSeq
<1>2. /\ Len(L) \in Nat /\ Limit \in Nat
      /\ \A i, j \in 1 .. Len(L) : i < j => L[i] < L[j]
  BY ListedFacts, PanelAssumption
<1> HIDE DEF L, got
<1>3. Len(got) \in 0 .. Limit /\ (Len(got) = 0 \/ o + Len(got) <= Len(L))
  BY <1>1, <1>2
<1>4. \A i, j \in 1 .. Len(got) : i < j => got[i] < got[j]
  <2> SUFFICES ASSUME NEW i \in 1 .. Len(got), NEW j \in 1 .. Len(got), i < j
               PROVE  got[i] < got[j]
    OBVIOUS
  <2>1. o + i \in 1 .. Len(L) /\ o + j \in 1 .. Len(L) /\ o + i < o + j
    BY <1>1, <1>2, <1>3
  <2> QED
    BY <1>1, <1>2, <2>1
<1>5. got \in [1 .. Len(got) -> ToSet(got)]
  BY <1>1 DEF ToSet
<1>6. \A i, j \in 1 .. Len(got) : got[i] = got[j] => i = j
  <2>1. \A i \in 1 .. Len(got) : got[i] \in Nat
    BY <1>1, PanelAssumption DEF Ids
  <2> QED
    BY <1>1, <1>4, <2>1
<1>7. got \in Injection(1 .. Len(got), ToSet(got)) /\ got \in Surjection(1 .. Len(got), ToSet(got))
  BY <1>1, <1>5, <1>6 DEF Injection, Surjection, IsInjective, ToSet
<1>8. IsFiniteSet(1 .. Len(got)) /\ Cardinality(1 .. Len(got)) = Len(got)
  BY <1>1, FS_Interval
<1>9. IsFiniteSet(ToSet(got)) /\ Cardinality(ToSet(got)) = Cardinality(1 .. Len(got))
  BY <1>7, <1>8, FS_Surjection
<1> QED
  BY <1>1, <1>2, <1>3, <1>8, <1>9 DEF ToSet, got


\* The rows at one offset follow the queue up to it.
LEMMA PageContinues ==
  ASSUME NEW st, NEW o \in Nat, o <= Len(Listed(st))
  PROVE  LET L == Listed(st)
         IN  SubSeq(L, 1, o) \o FirstOf(PageAt(st, o), Limit) =
               IF o + Limit < Len(L) THEN SubSeq(L, 1, o + Limit) ELSE L
<1> DEFINE L == Listed(st)
           got == FirstOf(PageAt(st, o), Limit)
           end == IF o + Limit < Len(L) THEN o + Limit ELSE Len(L)
           before == SubSeq(L, 1, o)
           upTo == SubSeq(L, 1, end)
<1>1. /\ L \in Seq(Ids) /\ Len(L) \in Nat /\ \A i \in 1 .. Len(L) : L[i] \in Ids
      /\ Limit \in Nat
  BY ListedFacts, ElementOfSeq, PanelAssumption
<1>2. /\ got \in Seq(Ids) /\ \A i \in 1 .. Len(got) : got[i] = L[o + i]
      /\ Len(got) = IF o + Limit < Len(L) THEN Limit
                    ELSE IF o < Len(L) THEN Len(L) - o ELSE 0
  BY PageFacts
<1>3. o <= Len(L)
  OBVIOUS
<1> HIDE DEF L, got
<1>4. end \in Nat /\ end <= Len(L) /\ Len(got) = end - o /\ o <= end
  BY <1>1, <1>2, <1>3
<1> HIDE DEF end
<1>5. /\ before \in Seq(Ids) /\ Len(before) = o
      /\ \A i \in 1 .. o : before[i] = L[i]
  <2>1. \A i \in 1 .. o : L[i] \in Ids
    BY <1>1, <1>3
  <2>2. /\ before \in Seq(Ids)
        /\ Len(before) = IF 1 <= o THEN o - 1 + 1 ELSE 0
        /\ \A i \in 1 .. o - 1 + 1 : before[i] = L[1 + i - 1]
    BY <1>1, <2>1, SubSeqProperties
  <2> QED
    BY <1>1, <2>2
<1>6. /\ upTo \in Seq(Ids) /\ Len(upTo) = end
      /\ \A i \in 1 .. end : upTo[i] = L[i]
  <2>1. \A i \in 1 .. end : L[i] \in Ids
    BY <1>1, <1>4
  <2>2. /\ upTo \in Seq(Ids)
        /\ Len(upTo) = IF 1 <= end THEN end - 1 + 1 ELSE 0
        /\ \A i \in 1 .. end - 1 + 1 : upTo[i] = L[1 + i - 1]
    BY <1>1, <1>4, <2>1, SubSeqProperties
  <2> QED
    BY <1>4, <2>2
<1> HIDE DEF before, upTo
<1>7. /\ before \o got \in Seq(Ids) /\ Len(before \o got) = o + Len(got)
      /\ \A i \in 1 .. o + Len(got) :
           (before \o got)[i] = IF i <= o THEN before[i] ELSE got[i - o]
  BY <1>2, <1>5, ConcatProperties
<1>8. \A i \in 1 .. end : (before \o got)[i] = upTo[i]
  <2> SUFFICES ASSUME NEW i \in 1 .. end
               PROVE  (before \o got)[i] = upTo[i]
    OBVIOUS
  <2>1. i \in 1 .. o + Len(got)
    BY <1>4
  <2>2. CASE i <= o
    BY <1>4, <1>5, <1>6, <1>7, <2>1, <2>2
  <2>3. CASE ~(i <= o)
    <3>1. i - o \in 1 .. Len(got) /\ o + (i - o) = i
      BY <1>4, <2>3
    <3> QED
      BY <1>2, <1>6, <1>7, <2>1, <2>3, <3>1
  <2> QED
    BY <2>2, <2>3
<1>9. before \o got = upTo
  <2>1. Len(before \o got) = Len(upTo)
    BY <1>4, <1>6, <1>7
  <2> QED
    BY <1>6, <1>7, <1>8, <2>1, SeqEqual
<1>10. end = Len(L) => upTo = L
  BY <1>1, <1>6, SeqEqual
<1> QED
  BY <1>9, <1>10 DEF before, upTo, end, got, L

\* What the queue has listed since its first page, as its links promise.
Followed ==
  LET L == Listed(status)
  IN IF "next" \in links
     THEN offset + Limit < Len(L) /\ seen = SubSeq(L, 1, offset + Limit)
     ELSE seen = L

QueueTypeOK ==
  /\ status \in [Ids -> Statuses]
  /\ rows \subseteq Ids /\ offset \in 0 .. Count /\ links \subseteq {"next", "prev"}
  /\ asking = 0 \/ asking \in rows
  /\ steady \in BOOLEAN /\ seen \in Seq(Ids)

\* A link leads to an offset inside the table, or did when the page was shown.
QueueInv ==
  /\ QueueTypeOK
  /\ IsFiniteSet(rows) /\ Cardinality(rows) <= Limit
  /\ "next" \in links => offset + Limit <= Count
  /\ "prev" \in links => offset > 0
  /\ steady => Followed

SessionTypeOK ==
  /\ cookie \in {"valid", "stale", "none"}
  /\ page \in Pages /\ expired \in BOOLEAN
  /\ expired => page = "login"

\* The inductive invariant: a part of it for each part of the panel.
PanelInv == SessionTypeOK /\ QueueInv /\ EditorInv /\ ResultInv /\ ZonesInv

LEMMA ShownPage ==
  ASSUME NEW o \in 0 .. Count, NEW unbroken \in BOOLEAN,
         status' \in [Ids -> Statuses], ShowQueue(status', o, unbroken),
         seen \in Seq(Ids),
         unbroken => /\ o <= Len(Listed(status'))
                     /\ seen = SubSeq(Listed(status'), 1, o)
  PROVE  QueueInv'
<1> DEFINE st == status'
           L == Listed(st)
           got == FirstOf(PageAt(st, o), Limit)
<1>0. o \in Nat /\ Limit \in Nat /\ Count \in Nat
  BY PanelAssumption
<1>1. /\ got \in Seq(Ids)
      /\ Len(PageAt(st, o)) > Limit <=> o + Limit < Len(L)
  BY <1>0, PageFacts
<1>2. /\ IsFiniteSet(ToSet(got)) /\ Cardinality(ToSet(got)) = Len(got)
      /\ Len(got) \in 0 .. Limit /\ ToSet(got) \subseteq Ids
  BY <1>0, PageSize
<1>3. L \in Seq(Ids) /\ Len(L) \in 0 .. Count
  BY ListedFacts
<1>4. o <= Len(L) =>
        SubSeq(L, 1, o) \o got = IF o + Limit < Len(L) THEN SubSeq(L, 1, o + Limit) ELSE L
  BY <1>0, PageContinues
<1>5. /\ rows' = ToSet(got) /\ offset' = o /\ asking' = 0
      /\ steady' = (o = 0 \/ unbroken)
      /\ seen' = IF o = 0 THEN got ELSE IF unbroken THEN seen \o got ELSE <<>>
      /\ links' \subseteq {"next", "prev"}
      /\ "next" \in links' <=> o + Limit < Len(L)
      /\ "prev" \in links' => o > 0
  BY <1>1 DEF ShowQueue
<1>6. o = 0 => SubSeq(L, 1, o) \o got = got
  BY <1>1, SubSeqEmpty, ConcatEmptySeq
<1>7. seen' \in Seq(Ids)
  BY <1>1, <1>5, EmptySeq, ConcatProperties
<1> HIDE DEF st, L, got
<1>8. QueueTypeOK'
  BY <1>2, <1>5, <1>7 DEF QueueTypeOK
<1>9. ASSUME steady'
      PROVE  Followed'
  <2>1. o <= Len(L) /\ seen' = SubSeq(L, 1, o) \o got
    <3>1. CASE o = 0
      BY <1>3, <1>5, <1>6, <3>1
    <3>2. CASE o # 0
      BY <1>5, <1>9, <3>2 DEF L, st
    <3> QED
      BY <3>1, <3>2
  <2>2. seen' = IF "next" \in links' THEN SubSeq(L, 1, o + Limit) ELSE L
    BY <1>4, <1>5, <2>1
  <2>3. "next" \in links' => offset' + Limit < Len(L)
    BY <1>5
  <2> QED
    BY <1>5, <2>2, <2>3 DEF Followed, L, st
<1>10. IsFiniteSet(rows') /\ Cardinality(rows') <= Limit
  BY <1>2, <1>5
<1>11. /\ "next" \in links' => offset' + Limit <= Count
       /\ "prev" \in links' => offset' > 0
  BY <1>0, <1>3, <1>5
<1> QED
  BY <1>8, <1>9, <1>10, <1>11 DEF QueueInv

LEMMA NoQueue ==
  ASSUME status' = Unfollowed, rows' = {}, offset' = 0, links' = {}, asking' = 0,
         steady' = FALSE, seen' = <<>>
  PROVE  QueueInv'
<1>1. IsFiniteSet({}) /\ Cardinality({}) = 0 /\ Limit \in Nat /\ Count \in Nat
  BY FS_EmptySet, PanelAssumption
<1>2. status' \in [Ids -> Statuses]
  BY DEF Unfollowed, Statuses
<1>3. seen' \in Seq(Ids)
  BY EmptySeq
<1>4. QueueTypeOK'
  <2>1. rows' \subseteq Ids /\ links' \subseteq {"next", "prev"}
    OBVIOUS
  <2>2. offset' \in 0 .. Count /\ asking' = 0
    BY <1>1
  <2>3. steady' \in BOOLEAN
    OBVIOUS
  <2> QED
    BY <1>2, <1>3, <2>1, <2>2, <2>3 DEF QueueTypeOK
<1>5. "next" \notin links' /\ "prev" \notin links' /\ ~steady'
  OBVIOUS
<1>6. IsFiniteSet(rows') /\ Cardinality(rows') <= Limit
  BY <1>1
<1> QED
  BY <1>4, <1>5, <1>6 DEF QueueInv

\* A table that changes under the page.
LEMMA ChangedQueue ==
  ASSUME QueueInv, NEW i \in Ids, NEW s \in Statuses,
         Becomes([status EXCEPT ![i] = s]),
         rows' \subseteq rows, asking' = 0 \/ asking' \in rows',
         UNCHANGED <<offset, links>>
  PROVE  QueueInv'
<1>1. /\ status' \in [Ids -> Statuses] /\ ~steady' /\ steady' \in BOOLEAN
      /\ seen' \in Seq(Ids)
  BY EmptySeq DEF QueueInv, QueueTypeOK, Becomes
<1>2. IsFiniteSet(rows') /\ Cardinality(rows') <= Limit
  <2>1. IsFiniteSet(rows') /\ Cardinality(rows') <= Cardinality(rows)
    BY FS_Subset DEF QueueInv
  <2>2. Cardinality(rows') \in Nat /\ Cardinality(rows) \in Nat
    BY <2>1, FS_CardinalityType DEF QueueInv
  <2> QED
    BY <2>1, <2>2, PanelAssumption DEF QueueInv
<1> QED
  BY <1>1, <1>2 DEF QueueInv, QueueTypeOK

----------------------------------------------------------------------------
(* Every step keeps the invariant *)

LEMMA QueueKept ==
  ASSUME QueueInv, UNCHANGED queueVars
  PROVE  QueueInv'
BY DEF QueueInv, QueueTypeOK, Followed, queueVars

LEMMA EditorKept ==
  ASSUME EditorInv, UNCHANGED editorVars
  PROVE  EditorInv'
BY DEF EditorInv, EditorTypeOK, PreviewShowsWhatIsSent, editorVars

LEMMA ResultKept ==
  ASSUME ResultInv, UNCHANGED <<parts, formVars>>
  PROVE  ResultInv'
BY DEF ResultInv, ResultTypeOK, RefusedOnlyForBounds, StoredPartsAreShown, AnswerInv,
       SavedInv, formVars

LEMMA ZonesKept ==
  ASSUME ZonesInv, UNCHANGED zonesVars
  PROVE  ZonesInv'
BY DEF ZonesInv, ZonesTypeOK, ButtonsMatchTheMap, LayersOf, zonesVars

\* The parts that are left when another page is opened.
LEMMA Left ==
  ASSUME ResultInv, LeaveForm, LeaveZones
  PROVE  EditorInv' /\ ResultInv' /\ ZonesInv'
<1>1. EditorInv'
  <2>1. <<>> \in Seq(Part)
    BY EmptySeq
  <2> QED
    BY <2>1, OpenStep DEF LeaveForm
<1>2. ResultInv'
  BY NoResultInv DEF LeaveForm, Unkeyed
<1>3. ZonesInv'
  BY FreshZones DEF LeaveZones
<1> QED
  BY <1>1, <1>2, <1>3

LEMMA LoggedOut ==
  ASSUME PanelInv, NEW says \in BOOLEAN, ToLogin(says),
         cookie' \in {"valid", "stale", "none"}
  PROVE  PanelInv'
<1>1. EditorInv' /\ ResultInv' /\ ZonesInv'
  BY Left DEF PanelInv, ToLogin
<1>2. QueueInv'
  BY NoQueue DEF ToLogin, LeaveQueue
<1>3. SessionTypeOK'
  BY DEF SessionTypeOK, ToLogin, Pages
<1> QED
  BY <1>1, <1>2, <1>3 DEF PanelInv

LEMMA PageOpened ==
  ASSUME PanelInv, NEW p \in Pages, OpenPage(p),
         cookie' \in {"valid", "stale", "none"}
  PROVE  PanelInv'
<1>1. EditorInv' /\ ResultInv' /\ ZonesInv'
  BY Left DEF PanelInv, OpenPage
<1>2. QueueInv'
  <2>1. CASE p = "review"
    <3>1. status' \in [Ids -> Statuses]
      BY <2>1 DEF OpenPage, PanelInv, QueueInv, QueueTypeOK, Statuses
    <3>2. ShowQueue(status', 0, FALSE)
      BY <2>1 DEF OpenPage
    <3>3. 0 \in 0 .. Count /\ seen \in Seq(Ids)
      BY PanelAssumption DEF PanelInv, QueueInv, QueueTypeOK
    <3> QED
      BY <3>1, <3>2, <3>3, ShownPage
  <2>2. CASE p # "review"
    BY <2>2, NoQueue DEF OpenPage, LeaveQueue
  <2> QED
    BY <2>1, <2>2
<1>3. SessionTypeOK'
  BY DEF SessionTypeOK, OpenPage
<1> QED
  BY <1>1, <1>2, <1>3 DEF PanelInv

\* Steps on a page of the queue that only concern the queue.
LEMMA OnlyTheQueue ==
  ASSUME PanelInv, QueueInv',
         UNCHANGED <<sessionVars, editorVars, zonesVars, formVars>>
  PROVE  PanelInv'
<1>1. EditorInv' /\ ResultInv' /\ ZonesInv'
  BY EditorKept, ResultKept, ZonesKept DEF PanelInv, editorVars
<1>2. SessionTypeOK'
  BY DEF PanelInv, SessionTypeOK, sessionVars
<1> QED
  BY <1>1, <1>2 DEF PanelInv

LEMMA ActStep ==
  ASSUME PanelInv, NEW i \in rows, NEW outcome \in Statuses, Act(i, outcome)
  PROVE  PanelInv'
<1>1. CASE Guarded
  <2>0. QueueInv /\ i \in Ids
    BY DEF PanelInv, QueueInv, QueueTypeOK
  <2>1. CASE Exists(i)
    <3>1. /\ Becomes([status EXCEPT ![i] = outcome]) /\ rows' = rows \ {i}
          /\ asking' = 0 /\ UNCHANGED <<offset, links>>
      BY <1>1, <2>1 DEF Act
    <3> QED
      BY <1>1, <2>0, <3>1, ChangedQueue, OnlyTheQueue DEF Act, sessionVars
  <2>2. CASE ~Exists(i)
    <3>1. UNCHANGED <<status, rows, offset, links, steady, seen>> /\ asking' = 0
      BY <1>1, <2>2 DEF Act
    <3>2. QueueInv'
      BY <2>0, <3>1 DEF QueueInv, QueueTypeOK, Followed
    <3> QED
      BY <1>1, <3>2, OnlyTheQueue DEF Act, sessionVars
  <2> QED
    BY <2>1, <2>2
<1>2. CASE ~Guarded
  BY <1>2, LoggedOut DEF Act, PanelInv, SessionTypeOK
<1> QED
  BY <1>1, <1>2

LEMMA QueueStepInv ==
  ASSUME PanelInv, QueueStep
  PROVE  PanelInv'
<1>0. /\ QueueInv /\ QueueTypeOK /\ Count \in Nat /\ Limit \in Nat \ {0}
      /\ cookie \in {"valid", "stale", "none"}
  BY PanelAssumption DEF PanelInv, QueueInv, SessionTypeOK
<1>1. CASE NextPage
  <2>1. CASE Guarded
    <3>1. /\ ShowQueue(status, offset + Limit, steady) /\ status' = status
          /\ UNCHANGED <<sessionVars, editorVars, zonesVars, formVars>>
      BY <1>1, <2>1 DEF NextPage, sessionVars
    <3>2. offset + Limit \in 0 .. Count
      BY <1>0, <1>1 DEF QueueInv, QueueTypeOK, NextPage
    <3>3. steady => /\ offset + Limit <= Len(Listed(status))
                    /\ seen = SubSeq(Listed(status), 1, offset + Limit)
      <4>1. Len(Listed(status)) \in Nat
        BY ListedFacts
      <4> QED
        BY <1>0, <1>1, <3>2, <4>1 DEF QueueInv, Followed, NextPage
    <3>4. QueueInv'
      BY <1>0, <3>1, <3>2, <3>3, ShownPage DEF QueueTypeOK
    <3> QED
      BY <3>1, <3>4, OnlyTheQueue
  <2>2. CASE ~Guarded
    BY <1>0, <1>1, <2>2, LoggedOut DEF NextPage
  <2> QED
    BY <2>1, <2>2
<1>2. CASE PreviousPage
  <2>1. CASE Guarded
    <3> DEFINE o == IF offset > Limit THEN offset - Limit ELSE 0
    <3>1. /\ ShowQueue(status, o, FALSE) /\ status' = status
          /\ UNCHANGED <<sessionVars, editorVars, zonesVars, formVars>>
      BY <1>2, <2>1 DEF PreviousPage, sessionVars
    <3>2. o \in 0 .. Count
      BY <1>0 DEF QueueTypeOK
    <3> HIDE DEF o
    <3>3. QueueInv'
      BY <1>0, <3>1, <3>2, ShownPage DEF QueueTypeOK
    <3> QED
      BY <3>1, <3>3, OnlyTheQueue
  <2>2. CASE ~Guarded
    BY <1>0, <1>2, <2>2, LoggedOut DEF PreviousPage
  <2> QED
    BY <2>1, <2>2
<1>3. ASSUME NEW i \in rows, Approve(i)
      PROVE  PanelInv'
  BY <1>3, ActStep DEF Approve, Statuses
<1>4. ASSUME NEW i \in rows, AskReject(i)
      PROVE  PanelInv'
  <2>1. QueueInv'
    BY <1>0, <1>4 DEF AskReject, QueueInv, QueueTypeOK, Followed
  <2> QED
    BY <1>4, <2>1, OnlyTheQueue DEF AskReject
<1>5. ASSUME NEW yes \in BOOLEAN, AnswerReject(yes)
      PROVE  PanelInv'
  <2>1. asking \in rows
    BY <1>0, <1>5 DEF AnswerReject, QueueTypeOK
  <2>2. CASE yes
    BY <1>5, <2>1, <2>2, ActStep DEF AnswerReject, Statuses
  <2>3. CASE ~yes
    <3>1. QueueInv'
      BY <1>0, <1>5, <2>3 DEF AnswerReject, QueueInv, QueueTypeOK, Followed
    <3> QED
      BY <1>5, <2>3, <3>1, OnlyTheQueue DEF AnswerReject
  <2> QED
    BY <2>2, <2>3
<1>6. ASSUME NEW i \in Ids, OthersWrite(i)
      PROVE  PanelInv'
  <2>1. PICK s \in Statuses : Becomes([status EXCEPT ![i] = s])
    BY <1>6 DEF OthersWrite, Statuses
  <2>2. rows' = rows /\ asking' = asking /\ UNCHANGED <<offset, links>>
    BY <1>6 DEF OthersWrite
  <2>3. QueueInv'
    BY <1>0, <2>1, <2>2, ChangedQueue DEF QueueTypeOK
  <2> QED
    BY <1>6, <2>3, OnlyTheQueue DEF OthersWrite
<1> QED
  BY <1>1, <1>2, <1>3, <1>4, <1>5, <1>6 DEF QueueStep

LEMMA PanelInit == Init => PanelInv
<1> SUFFICES ASSUME Init PROVE PanelInv
  OBVIOUS
<1> USE DEF Init
<1>1. SessionTypeOK
  BY DEF SessionTypeOK, Pages
<1>2. QueueInv
  <2>1. (/\ status = Unfollowed /\ rows = {} /\ offset = 0 /\ links = {}
         /\ asking = 0 /\ steady = FALSE /\ seen = <<>>)
    BY DEF QueueInit
  <2>2. IsFiniteSet(rows) /\ Cardinality(rows) = 0 /\ Limit \in Nat /\ Count \in Nat
    BY <2>1, FS_EmptySet, PanelAssumption
  <2>3. QueueTypeOK
    <3>1. status \in [Ids -> Statuses] /\ seen \in Seq(Ids)
      BY <2>1, EmptySeq DEF Unfollowed, Statuses
    <3>2. offset \in 0 .. Count /\ rows \subseteq Ids /\ links \subseteq {"next", "prev"}
      BY <2>1, <2>2
    <3> QED
      BY <2>1, <3>1, <3>2 DEF QueueTypeOK
  <2>4. "next" \notin links /\ "prev" \notin links /\ ~steady
    BY <2>1
  <2>5. Cardinality(rows) <= Limit
    BY <2>2
  <2> QED
    BY <2>2, <2>3, <2>4, <2>5 DEF QueueInv
<1>3. EditorInv
  <2>1. parts = <<>> /\ active = 0 /\ preview = {}
    BY DEF EditorInit
  <2>2. parts \in Seq(EditedPart) /\ Len(parts) = 0 /\ parts \in Seq(Part)
    BY <2>1, EmptySeq
  <2>3. Serialized(parts) = parts
    <3>1. DOMAIN parts = 1 .. 0
      BY <2>2, LenProperties
    <3>2. \A i \in DOMAIN parts : parts[i].points # <<>>
      BY <3>1
    <3> QED
      BY <2>2, <3>2, SerializedTwice
  <2>4. Enclosed(Serialized(parts)) = {}
    BY <2>1, <2>3 DEF Enclosed
  <2> QED
    BY <2>1, <2>2, <2>4 DEF EditorInv, EditorTypeOK, PreviewShowsWhatIsSent
<1>4. ResultInv
  <2>1. NoResult \in [kind: {"none", "created", "shapes", "other"},
                      stored: BOOLEAN, areas: Seq(Part), key: Keys \cup {NoKey}]
    BY EmptySeq DEF NoResult
  <2>2. result.kind = "none" /\ ~result.stored
    BY DEF NoResult
  <2>3. ResultTypeOK /\ SavedInv
    BY <2>1 DEF ResultTypeOK, SavedInv, NoneSaved
  <2> QED
    BY <2>2, <2>3 DEF ResultInv, RefusedOnlyForBounds, StoredPartsAreShown, AnswerInv
<1>5. ZonesInv
  <2>1. \A d \in RefLayers : d \notin NoticeLayers
    BY ZonesAssumption
  <2> QED
    BY <2>1, ZonesAssumption DEF ZonesInit, ZonesInv, ZonesTypeOK, ButtonsMatchTheMap, LayersOf
<1> QED
  BY <1>1, <1>2, <1>3, <1>4, <1>5 DEF PanelInv

LEMMA PanelNext == PanelInv /\ [Next]_vars => PanelInv'
<1> SUFFICES ASSUME PanelInv, [Next]_vars
             PROVE  PanelInv'
  OBVIOUS
<1>0. cookie \in {"valid", "stale", "none"} /\ "review" \in Pages
  BY DEF PanelInv, SessionTypeOK, Pages
<1>1. ASSUME NEW p \in Pages \ {"login"}, Visit(p)
      PROVE  PanelInv'
  BY <1>0, <1>1, LoggedOut, PageOpened DEF Visit
<1>2. ASSUME NEW right \in BOOLEAN, Login(right)
      PROVE  PanelInv'
  BY <1>0, <1>2, LoggedOut, PageOpened DEF Login
<1>3. CASE Logout
  BY <1>3, LoggedOut DEF Logout
<1>4. CASE SessionChanges
  <2>1. QueueInv' /\ EditorInv' /\ ResultInv' /\ ZonesInv'
    BY <1>4, QueueKept, EditorKept, ResultKept, ZonesKept
       DEF SessionChanges, PanelInv, editorVars
  <2>2. SessionTypeOK'
    BY <1>4 DEF SessionChanges, PanelInv, SessionTypeOK
  <2> QED
    BY <2>1, <2>2 DEF PanelInv
<1>5. CASE QueueStep
  BY <1>5, QueueStepInv
<1>6. CASE Draw
  <2>1. EditorInv'
    BY <1>6, EditStep DEF Draw, PanelInv
  <2>2. ResultInv'
    <3>1. ResultInv /\ key \in Keys \cup {NoKey} /\ taken \subseteq Keys
      BY DEF PanelInv, ResultInv, ResultTypeOK
    <3> QED
      BY <1>6, <3>1, NoResultInv DEF Draw, Unkeyed
  <2>3. QueueInv' /\ ZonesInv'
    BY <1>6, QueueKept, ZonesKept DEF Draw, PanelInv
  <2>4. SessionTypeOK'
    BY <1>6 DEF Draw, PanelInv, SessionTypeOK, sessionVars
  <2> QED
    BY <2>1, <2>2, <2>3, <2>4 DEF PanelInv
<1>7. CASE Submit \/ Reload
  <2>1. PICK areas \in Seq(Part), k \in Keys :
          /\ Sent(areas) /\ Create(areas, k)
          /\ key = k \/ (result.kind # "none" /\ result.key = k)
    <3>1. EditorInv /\ AnswerInv /\ key \in Keys \cup {NoKey}
      BY DEF PanelInv, ResultInv, ResultTypeOK
    <3>2. CASE Submit
      <4>1. /\ Sent(Serialized(parts)) /\ Create(Serialized(parts), key) /\ key \in Keys
            /\ Serialized(parts) \in Seq(Part)
        BY <3>1, <3>2, SubmitSends DEF Submit, Sent
      <4> QED
        BY <4>1
    <3>3. CASE Reload
      <4>1. /\ Sent(result.areas) /\ Create(result.areas, result.key) /\ result.key \in Keys
            /\ result.areas \in Seq(Part) /\ result.kind # "none"
        BY <3>1, <3>3 DEF Reload, AnswerInv, Sent
      <4> QED
        BY <4>1
    <3> QED
      BY <1>7, <3>2, <3>3
  <2>2. CASE Guarded
    <3>1. EditorInv' /\ ResultInv'
      BY <2>1, <2>2, CreateStep DEF PanelInv
    <3>2. QueueInv' /\ ZonesInv'
      BY <2>1, <2>2, QueueKept, ZonesKept DEF Create, PanelInv
    <3>3. SessionTypeOK'
      BY <2>1, <2>2 DEF Create, PanelInv, SessionTypeOK
    <3> QED
      BY <3>1, <3>2, <3>3 DEF PanelInv
  <2>3. CASE ~Guarded
    BY <1>0, <2>1, <2>3, LoggedOut DEF Create
  <2> QED
    BY <2>2, <2>3
<1>8. CASE ZonesStep /\ UNCHANGED <<sessionVars, queueVars, editorVars, formVars>>
  <2>1. ZonesInv'
    BY <1>8, ZonesStepInv DEF PanelInv
  <2>2. QueueInv' /\ EditorInv' /\ ResultInv'
    BY <1>8, QueueKept, EditorKept, ResultKept DEF PanelInv, editorVars
  <2>3. SessionTypeOK'
    BY <1>8 DEF PanelInv, SessionTypeOK, sessionVars
  <2> QED
    BY <2>1, <2>2, <2>3 DEF PanelInv
<1>10. ASSUME NEW k \in Keys, TypeKey(k) \/ OthersInsert(k) \/ OthersDelete(k)
       PROVE  PanelInv'
  <2>1. UNCHANGED <<sessionVars, queueVars, editorVars, zonesVars>>
    BY <1>10 DEF TypeKey, OthersInsert, OthersDelete
  <2>2. ResultInv'
    <3>1. CASE TypeKey(k)
      BY <3>1, NoResultInv DEF TypeKey, PanelInv
    <3>2. CASE OthersInsert(k) \/ OthersDelete(k)
      BY <3>2, TableInv DEF OthersInsert, OthersDelete, PanelInv, editorVars
    <3> QED
      BY <1>10, <3>1, <3>2
  <2>3. QueueInv' /\ EditorInv' /\ ZonesInv' /\ SessionTypeOK'
    BY <2>1, QueueKept, EditorKept, ZonesKept DEF PanelInv, SessionTypeOK, sessionVars
  <2> QED
    BY <2>2, <2>3 DEF PanelInv
<1>9. CASE UNCHANGED vars
  <2>1. QueueInv' /\ EditorInv' /\ ResultInv' /\ ZonesInv'
    BY <1>9, QueueKept, EditorKept, ResultKept, ZonesKept DEF vars, editorVars, PanelInv
  <2>2. SessionTypeOK'
    BY <1>9 DEF vars, sessionVars, PanelInv, SessionTypeOK
  <2> QED
    BY <2>1, <2>2 DEF PanelInv
<1>11. FormStep => PanelInv'
  <2>1. taken \subseteq Keys
    BY DEF PanelInv, ResultInv, ResultTypeOK
  <2> QED
    BY <1>6, <1>7, <1>10, <2>1 DEF FormStep
<1> QED
  BY <1>1, <1>2, <1>3, <1>4, <1>5, <1>8, <1>9, <1>11 DEF Next

LEMMA PanelSafe == Spec => []PanelInv
<1> QED
  BY PanelInit, PanelNext, PTL DEF Spec

----------------------------------------------------------------------------
(* Theorems *)

(* In every reachable state of a tab, on whatever page, the session, the     *)
(* queue, the drawing, the last answer and the zone map have their types:    *)
(* the active part exists, the offset lies in the table, and a deletion is   *)
(* only confirmed for a row that is shown.                                   *)
THEOREM PanelTypes == Spec => []PanelTypeOK
<1>1. PanelInv => PanelTypeOK
  BY DEF PanelInv, SessionTypeOK, QueueInv, QueueTypeOK, Statuses, EditorInv,
         ResultInv, ResultTypeOK, ZonesInv, PanelTypeOK
<1> QED
  BY <1>1, PanelSafe, PTL

(* However a drawing is edited, with or without a redraw of the map, every   *)
(* vertex a submission would send is on the preview.                         *)
THEOREM PreviewIsComplete == Spec => []PreviewShowsWhatIsSent
<1>1. PanelInv => PreviewShowsWhatIsSent
  BY DEF PanelInv, EditorInv
<1> QED
  BY <1>1, PanelSafe, PTL

(* What the form's own check lets through, the server refuses for its shapes *)
(* only because a position lies out of bounds.                               *)
THEOREM RefusalsAreForBounds == Spec => []RefusedOnlyForBounds
<1>1. PanelInv => RefusedOnlyForBounds
  BY DEF PanelInv, ResultInv
<1> QED
  BY <1>1, PanelSafe, PTL

(* Every part of a notice stored from the form has its pin, and its shape    *)
(* when no part repeats a position.                                          *)
THEOREM StoredNoticesAreShown == Spec => []StoredPartsAreShown
<1>1. PanelInv => StoredPartsAreShown
  BY DEF PanelInv, ResultInv
<1> QED
  BY <1>1, PanelSafe, PTL

(* However often a form is sent again after an error, edited or reloaded, for *)
(* any sources and subKeys and whatever others write to the table, it leaves *)
(* no second notice there: a refused form keeps its key, and the key is taken. *)
THEOREM SavedAtMostOnce == Spec => []SavedOnce
<1>1. PanelInv => SavedOnce
  BY SavedOne DEF PanelInv
<1> QED
  BY <1>1, PanelSafe, PTL

(* Whatever the size of the queue and of its pages, following Next through   *)
(* an unchanging queue lists it in order, none twice and none left out.      *)
THEOREM PagesCoverTheQueue == Spec => []PagesListTheQueue
<1>1. ASSUME PanelInv, steady
      PROVE  /\ seen = SubSeq(Listed(status), 1, Len(seen))
             /\ "next" \notin links => seen = Listed(status)
  <2> DEFINE L == Listed(status)
  <2>1. L \in Seq(Ids) /\ Len(L) \in Nat /\ \A i \in 1 .. Len(L) : L[i] \in Ids
    BY ListedFacts, ElementOfSeq
  <2>2. /\ offset \in Nat /\ Limit \in Nat
        /\ IF "next" \in links
           THEN offset + Limit < Len(L) /\ seen = SubSeq(L, 1, offset + Limit)
           ELSE seen = L
    BY <1>1, PanelAssumption DEF PanelInv, QueueInv, QueueTypeOK, Followed
  <2> HIDE DEF L
  <2>3. CASE "next" \in links
    <3>1. \A i \in 1 .. offset + Limit : L[i] \in Ids
      BY <2>1, <2>2, <2>3
    <3>2. Len(SubSeq(L, 1, offset + Limit)) =
            IF 1 <= offset + Limit THEN offset + Limit - 1 + 1 ELSE 0
      BY <2>2, <3>1, SubSeqProperties
    <3>3. Len(seen) = offset + Limit
      BY <2>2, <2>3, <3>2
    <3> QED
      BY <2>2, <2>3, <3>3 DEF L
  <2>4. CASE "next" \notin links
    BY <2>1, <2>2, <2>4, SubSeqFull DEF L
  <2> QED
    BY <2>3, <2>4
<1>2. PanelInv => PagesListTheQueue
  BY <1>1 DEF PagesListTheQueue
<1> QED
  BY <1>2, PanelSafe, PTL

(* Whatever is fetched, clicked again or answered late, a button of the zone *)
(* map says whether its layer is on the map.                                 *)
THEOREM ButtonsTellTheTruth == Spec => []ButtonsMatchTheMap
<1>1. PanelInv => ButtonsMatchTheMap
  BY DEF PanelInv, ZonesInv
<1> QED
  BY <1>1, PanelSafe, PTL

(* A create request that is refused leaves the drawing it was sent with.     *)
THEOREM RefusedDrawingsAreKept == Spec => RefusedDrawingKept
<1> DEFINE Refused == result' # result /\ result'.kind \in {"shapes", "other"}
                        /\ result.kind # "created"
           Kept == Serialized(parts') = Serialized(parts) /\ preview' = Vertices(parts)
<1>1. ASSUME PanelInv, Next, Refused
      PROVE  Kept
  <2>1. result' # NoResult
    BY <1>1 DEF NoResult
  <2>2. (Submit \/ Reload) /\ Guarded
    BY <1>1, <2>1
       DEF Next, Visit, Login, Logout, SessionChanges, QueueStep, NextPage, PreviousPage,
           Approve, AskReject, AnswerReject, OthersWrite, Act, Draw, FormStep, Submit, Reload,
           Create, TypeKey, OthersInsert, OthersDelete, Unkeyed, ToLogin, OpenPage, LeaveForm,
           formVars
  <2>3. /\ EditorInv /\ ResultInv /\ AnswerInv /\ key \in Keys \cup {NoKey}
        /\ parts \in Seq(EditedPart) /\ result.kind \in {"none", "created", "shapes", "other"}
    BY <1>1 DEF PanelInv, ResultInv, ResultTypeOK, EditorInv, EditorTypeOK
  \* What is sent is what the form would send: reloading a refusal sends the
  \* drawing it was rendered with.
  <2>4. PICK areas \in Seq(Part), k \in Keys :
          /\ Sent(areas) /\ Create(areas, k) /\ areas = Serialized(parts)
          /\ key = k \/ (result.kind # "none" /\ result.key = k)
    <3>1. CASE Submit
      <4>1. /\ Sent(Serialized(parts)) /\ Create(Serialized(parts), key) /\ key \in Keys
            /\ Serialized(parts) \in Seq(Part)
        BY <2>3, <3>1, SubmitSends DEF Submit, Sent
      <4> QED
        BY <4>1
    <3>2. CASE Reload
      <4>1. parts = result.areas /\ Sent(result.areas) /\ result.key \in Keys
        BY <1>1, <2>3, <3>2 DEF Reload, AnswerInv
      <4>2. Serialized(parts) = result.areas
        BY <4>1, SerializedTwice DEF Sent
      <4>3. /\ Create(result.areas, result.key) /\ result.kind # "none"
            /\ result.areas \in Seq(Part)
        BY <3>2, <4>1 DEF Reload, Sent
      <4> QED
        BY <4>1, <4>2, <4>3
    <3> QED
      BY <2>2, <3>1, <3>2
  <2>5. parts' = areas /\ preview' = Vertices(areas)
    BY <1>1, <2>2, <2>3, <2>4, CreateStep
  <2>6. Serialized(areas) = areas /\ areas \in Seq(EditedPart)
    BY <2>4, SerializedTwice, PartsAreEdited DEF Sent
  <2>7. Vertices(areas) = Enclosed(areas) /\ Vertices(parts) = Enclosed(areas)
    BY <2>3, <2>4, <2>6, SerializedFacts
  <2> QED
    BY <2>4, <2>5, <2>6, <2>7
<1>2. PanelInv /\ [Next]_vars => [Refused => Kept]_vars
  <2>1. UNCHANGED vars => result' = result
    BY DEF vars, formVars
  <2> QED
    BY <1>1, <2>1
<1> QED
  BY <1>2, PanelSafe, PTL DEF Spec, RefusedDrawingKept

(* A row leaves the open page of the queue only when its notice was decided: *)
(* turning or opening a page never drops one that is still to be reviewed.   *)
THEOREM RowsLeaveOnlyWhenDecided == Spec => RowsLeaveWhenDecided
<1> DEFINE Decided ==
             page = "review" /\ page' = "review" /\ offset' = offset /\ rows' \subseteq rows
               => \A i \in rows \ rows' : status'[i] # "listed"
<1>1. ASSUME PanelInv, Next, page = "review", page' = "review", offset' = offset,
             rows' \subseteq rows, NEW i \in rows \ rows'
      PROVE  status'[i] # "listed"
  <2>0. /\ QueueInv /\ QueueTypeOK /\ i \in Ids /\ Limit \in Nat \ {0}
    BY <1>1, PanelAssumption DEF PanelInv, QueueInv, QueueTypeOK
  <2>1. CASE Visit("review")
    <3>1. status' = status /\ ShowQueue(status, 0, FALSE)
      BY <1>1, <2>1 DEF Visit, OpenPage, ToLogin
    <3> DEFINE got == FirstOf(PageAt(status, 0), Limit)
               L == Listed(status)
    <3>2. rows' = ToSet(got)
      BY <3>1 DEF ShowQueue
    <3>3. /\ IsFiniteSet(ToSet(got)) /\ Cardinality(ToSet(got)) = Len(got)
      BY PageSize
    <3>4. /\ got \in Seq(Ids)
          /\ Len(got) = IF 0 + Limit < Len(L) THEN Limit
                        ELSE IF 0 < Len(L) THEN Len(L) - 0 ELSE 0
          /\ \A n \in 1 .. Len(got) : got[n] = L[0 + n]
      BY PageFacts
    <3>5. /\ Len(L) \in Nat
          /\ \A k \in Ids : status[k] = "listed" => \E n \in 1 .. Len(L) : L[n] = k
      BY ListedFacts
    <3>6. DOMAIN got = 1 .. Len(got)
      BY <3>4, LenProperties
    <3> HIDE DEF got, L
    <3>7. CASE Limit < Len(L)
      <4>1. Len(got) = Limit /\ IsFiniteSet(rows) /\ Cardinality(rows) <= Limit
        BY <2>0, <3>4, <3>5, <3>7 DEF QueueInv
      <4>2. Cardinality(rows) \in Nat /\ Cardinality(rows') = Limit
        BY <3>2, <3>3, <4>1, FS_CardinalityType
      <4>3. /\ Cardinality(rows') <= Cardinality(rows)
            /\ Cardinality(rows') = Cardinality(rows) => rows' = rows
        BY <1>1, <4>1, FS_Subset
      <4>4. rows' = rows
        BY <2>0, <4>1, <4>2, <4>3
      <4> QED
        BY <1>1, <4>4
    <3>8. CASE ~(Limit < Len(L))
      <4>1. Len(got) = Len(L)
        BY <2>0, <3>4, <3>5, <3>8
      <4>2. ASSUME status[i] = "listed" PROVE FALSE
        <5>1. PICK n \in 1 .. Len(L) : L[n] = i
          BY <2>0, <3>5, <4>2
        <5>2. got[n] = i /\ n \in DOMAIN got
          BY <3>4, <3>6, <4>1, <5>1
        <5>3. i \in rows'
          BY <3>2, <5>2 DEF ToSet
        <5> QED
          BY <1>1, <5>3
      <4> QED
        BY <3>1, <4>2
    <3> QED
      BY <3>7, <3>8
  <2>2. ASSUME NEW k \in rows, NEW outcome \in {"settled", "gone"}, Act(k, outcome)
        PROVE  status'[i] # "listed"
    <3>1. /\ Exists(k) => status' = [status EXCEPT ![k] = outcome]
          /\ rows' = IF Exists(k) THEN rows \ {k} ELSE rows
      BY <1>1, <2>2 DEF Act, ToLogin, Becomes
    <3>2. Exists(k) /\ i = k
      BY <1>1, <3>1
    <3>3. status'[i] = outcome
      BY <2>0, <3>1, <3>2 DEF QueueTypeOK
    <3> QED
      BY <3>3
  <2>3. \/ Visit("review")
        \/ \E k \in rows : \E outcome \in {"settled", "gone"} : Act(k, outcome)
        \/ NextPage \/ PreviousPage
        \/ rows' = rows
    <3>1. CASE QueueStep
      <4>1. asking = 0 \/ asking \in rows
        BY <2>0 DEF QueueTypeOK
      <4> QED
        BY <3>1, <4>1 DEF QueueStep, Approve, AskReject, AnswerReject, OthersWrite
    <3>2. CASE ~QueueStep
      BY <1>1, <3>2 DEF Next, Visit, Login, Logout, SessionChanges, OpenPage, ToLogin, queueVars
    <3> QED
      BY <3>1, <3>2
  <2>4. ~NextPage
    <3>1. offset \in Nat /\ Limit \in Nat \ {0}
      BY <2>0 DEF QueueTypeOK
    <3>2. offset + Limit # offset
      BY <3>1
    <3> QED
      BY <1>1, <3>2 DEF NextPage, ToLogin, ShowQueue
  <2>5. ~PreviousPage
    <3>1. ASSUME PreviousPage PROVE FALSE
      <4>1. offset \in Nat /\ Limit \in Nat \ {0} /\ offset > 0
        BY <2>0, <3>1 DEF QueueTypeOK, QueueInv, PreviousPage
      <4>2. (IF offset > Limit THEN offset - Limit ELSE 0) # offset
        BY <4>1
      <4> QED
        BY <1>1, <3>1, <4>2 DEF PreviousPage, ToLogin, ShowQueue
    <3> QED
      BY <3>1
  <2> QED
    BY <1>1, <2>1, <2>2, <2>3, <2>4, <2>5
<1>2. PanelInv /\ [Next]_vars => [Decided]_vars
  <2>1. UNCHANGED vars => rows' = rows
    BY DEF vars, queueVars
  <2> QED
    BY <1>1, <2>1
<1> QED
  BY <1>2, PanelSafe, PTL DEF Spec, RowsLeaveWhenDecided

(* No step shows a page other than the login page, saves a notice or changes *)
(* the rows of the queue unless the session is valid after it.               *)
THEOREM NothingWithoutASession == Spec => OnlyWithASession
<1> DEFINE Saves == \E k \in Keys : saved'[k] > saved[k]
           Shown == \/ page' # page /\ page' # "login"
                    \/ Saves
                    \/ page = "review" /\ page' = "review" /\ rows' # rows
<1>1. ASSUME PanelInv, Next, Shown
      PROVE  cookie' = "valid"
  <2>0. saved \in [Keys -> Nat]
    BY <1>1 DEF PanelInv, ResultInv, ResultTypeOK
  <2>1. \A k \in Keys : ~(0 > saved[k]) /\ ~(saved[k] > saved[k])
    BY <2>0
  <2>2. \/ saved' = saved \/ saved' = NoneSaved
        \/ \E k \in Keys : saved' = [saved EXCEPT ![k] = 0]
        => ~Saves
    BY <2>0, <2>1 DEF NoneSaved
  <2>3. \A says : ToLogin(says) => page' = "login" /\ saved' = NoneSaved
    BY DEF ToLogin, LeaveForm, Unkeyed
  <2>4. CASE QueueStep
    <3>1. saved' \in {saved, NoneSaved}
      BY <2>3, <2>4
         DEF QueueStep, NextPage, PreviousPage, Approve, AskReject, AnswerReject, Act,
             OthersWrite, formVars
    <3>2. ~Saves
      BY <2>2, <3>1
    <3> HIDE DEF Saves
    <3> QED
      BY <1>1, <2>3, <2>4, <3>2
         DEF QueueStep, NextPage, PreviousPage, Approve, AskReject, AnswerReject, Act,
             OthersWrite, Guarded, sessionVars
  <2>5. CASE FormStep
    <3>1. CASE Submit \/ Reload
      BY <1>1, <2>2, <2>3, <3>1 DEF Submit, Reload, Create, Guarded, queueVars
    <3>2. CASE ~(Submit \/ Reload)
      <4>1. /\ \/ saved' = saved \/ saved' = NoneSaved
               \/ \E k \in Keys : saved' = [saved EXCEPT ![k] = 0]
            /\ UNCHANGED <<sessionVars, queueVars>>
        <5>1. taken \subseteq Keys
          BY <1>1 DEF PanelInv, ResultInv, ResultTypeOK
        <5> QED
          BY <2>5, <3>2, <5>1
             DEF FormStep, Draw, Unkeyed, TypeKey, OthersInsert, OthersDelete
      <4>2. ~Saves
        BY <2>2, <4>1
      <4> HIDE DEF Saves
      <4> QED
        BY <1>1, <4>1, <4>2 DEF sessionVars, queueVars
    <3> QED
      BY <3>1, <3>2
  <2>6. CASE SessionChanges \/ UNCHANGED <<sessionVars, queueVars, editorVars, formVars>>
    <3>1. ~Saves
      BY <2>2, <2>6 DEF SessionChanges, formVars
    <3> HIDE DEF Saves
    <3> QED
      BY <1>1, <2>6, <3>1 DEF SessionChanges, sessionVars, queueVars
  <2>7. CASE \E p \in Pages \ {"login"} : Visit(p)
    <3>1. ~Saves
      BY <2>2, <2>3, <2>7 DEF Visit, OpenPage, LeaveForm, Unkeyed
    <3> HIDE DEF Saves
    <3> QED
      BY <1>1, <2>3, <2>7, <3>1 DEF Visit, Guarded
  <2>8. CASE Logout \/ \E right \in BOOLEAN : Login(right)
    <3>1. ~Saves
      BY <2>2, <2>3, <2>8 DEF Logout, Login, OpenPage, LeaveForm, Unkeyed
    <3> HIDE DEF Saves
    <3> QED
      BY <1>1, <2>3, <2>8, <3>1 DEF Logout, Login
  <2> QED
    BY <1>1, <2>4, <2>5, <2>6, <2>7, <2>8 DEF Next
<1>2. PanelInv /\ [Next]_vars => [Shown => cookie' = "valid"]_vars
  <2>1. UNCHANGED vars => UNCHANGED <<page, saved, rows>>
    BY DEF vars, sessionVars, queueVars, formVars
  <2>2. PanelInv => \A k \in Keys : ~(saved[k] > saved[k])
    BY DEF PanelInv, ResultInv, ResultTypeOK
  <2> QED
    BY <1>1, <2>1, <2>2
<1> QED
  BY <1>2, PanelSafe, PTL DEF Spec, OnlyWithASession
=============================================================================
