---------------------------- MODULE SourceProofs ----------------------------
(***************************************************************************)
(* What the server makes of what it reads from its sources, for documents  *)
(* and collections of any length: the features of a dataset and their ids, *)
(* the zones of the community map, and the facts of a zone's text.         *)
(***************************************************************************)
EXTENDS MapSnapshot, DatasetBuild, ZoneFacts, SubsequenceTheorems, SequenceTheorems

----------------------------------------------------------------------------
(* Least and greatest members *)

LEMMA LeastNat ==
  ASSUME NEW K \in SUBSET Nat, IsFiniteSet(K), K # {}
  PROVE  \E m \in K : \A j \in K : m <= j
<1>1. PICK k \in K : TRUE
  OBVIOUS
<1>2. Cardinality(K) \in Nat /\ Cardinality(K) # 0
  BY FS_CardinalityType, FS_EmptySet
<1> DEFINE m == Ascending(K)[1]
<1>3. 1 \in 1 .. Cardinality(K)
  BY <1>2
<1>4. m \in K
  BY <1>3, AscendingRank
<1>5. ASSUME NEW j \in K
      PROVE  m <= j
  <2> DEFINE n == Rank(K, j)
  <2>1. n \in 1 .. Cardinality(K) /\ Ascending(K)[n] = j
    BY AscendingOnto
  <2> HIDE DEF n
  <2>2. CASE n = 1
    <3>1. j \in Nat
      OBVIOUS
    <3> QED
      BY <2>1, <2>2, <3>1
  <2>3. CASE n # 1
    <3>1. 1 < n
      BY <1>2, <2>1, <2>3
    <3>2. m < Ascending(K)[n]
      BY <1>3, <2>1, <3>1, AscendingIncreases
    <3> HIDE DEF m
    <3>3. m \in Nat /\ j \in Nat
      BY <1>4
    <3> QED
      BY <2>1, <3>2, <3>3
  <2> QED
    BY <2>2, <2>3
<1> QED
  BY <1>4, <1>5

\* What Min and Max name for integers between two others.
LEMMA Extremes ==
  ASSUME NEW lo \in Int, NEW hi \in Int, NEW S \in SUBSET (lo .. hi), S # {}
  PROVE  /\ Min(S) \in S /\ \A x \in S : Min(S) <= x
         /\ Max(S) \in S /\ \A x \in S : x <= Max(S)
<1>0. \A x \in S : x \in Int /\ lo <= x /\ x <= hi
  OBVIOUS
<1>1. \E m \in S : \A x \in S : m <= x
  <2> DEFINE K == {n \in 0 .. hi - lo : n + lo \in S}
  <2>1. IsFiniteSet(0 .. hi - lo)
    BY FS_Interval
  <2>2. K \in SUBSET (0 .. hi - lo) /\ K \in SUBSET Nat
    OBVIOUS
  <2>3. \A x \in S : x - lo \in K
    BY <1>0
  <2>4. K # {}
    BY <2>3
  <2>5. \A n \in K : n \in Nat /\ n + lo \in S
    OBVIOUS
  <2> HIDE DEF K
  <2>6. IsFiniteSet(K)
    BY <2>1, <2>2, FS_Subset
  <2>7. PICK m \in K : \A n \in K : m <= n
    BY <2>2, <2>4, <2>6, LeastNat
  <2>8. \A x \in S : m + lo <= x
    <3> SUFFICES ASSUME NEW x \in S PROVE m + lo <= x
      OBVIOUS
    <3>1. m <= x - lo /\ m \in Nat /\ x \in Int
      BY <1>0, <2>3, <2>5, <2>7
    <3> QED
      BY <3>1
  <2> QED
    BY <2>5, <2>8
<1>2. \E m \in S : \A x \in S : m >= x
  <2> DEFINE K == {n \in 0 .. hi - lo : hi - n \in S}
  <2>1. IsFiniteSet(0 .. hi - lo)
    BY FS_Interval
  <2>2. K \in SUBSET (0 .. hi - lo) /\ K \in SUBSET Nat
    OBVIOUS
  <2>3. \A x \in S : hi - x \in K
    <3> SUFFICES ASSUME NEW x \in S PROVE hi - x \in K
      OBVIOUS
    <3>1. x \in Int /\ lo <= x /\ x <= hi /\ hi - (hi - x) = x
      BY <1>0
    <3> QED
      BY <3>1
  <2>4. K # {}
    BY <2>3
  <2>5. \A n \in K : n \in Nat /\ hi - n \in S
    OBVIOUS
  <2> HIDE DEF K
  <2>6. IsFiniteSet(K)
    BY <2>1, <2>2, FS_Subset
  <2>7. PICK m \in K : \A n \in K : m <= n
    BY <2>2, <2>4, <2>6, LeastNat
  <2>8. \A x \in S : hi - m >= x
    <3> SUFFICES ASSUME NEW x \in S PROVE hi - m >= x
      OBVIOUS
    <3>1. m <= hi - x /\ m \in Nat /\ x \in Int
      BY <1>0, <2>3, <2>5, <2>7
    <3> QED
      BY <3>1
  <2> QED
    BY <2>5, <2>8
<1>3. Min(S) \in S /\ \A x \in S : Min(S) <= x
  BY <1>1 DEF Min
<1>4. Max(S) \in S /\ \A x \in S : Max(S) >= x
  BY <1>2 DEF Max
<1>5. \A x \in S : x <= Max(S)
  BY <1>0, <1>4
<1> QED
  BY <1>3, <1>4, <1>5

\* The first of some positions of a sequence.
LEMMA FirstPosition ==
  ASSUME NEW n \in Nat, NEW K \in SUBSET (1 .. n), K # {}
  PROVE  Min(K) \in K /\ \A j \in K : Min(K) <= j
<1>1. 1 \in Int /\ n \in Int
  OBVIOUS
<1> QED
  BY <1>1, Extremes

----------------------------------------------------------------------------
(* The ids of a dataset's features *)

Slug == Seq(Words \cup Nat)

LEMMA CandidatesDiffer ==
  ASSUME NEW base \in Slug, NEW m \in Nat, NEW n \in Nat
  PROVE  /\ Candidate(base, n) \in Slug
         /\ Candidate(base, m) = Candidate(base, n) => m = n
<1>1. /\ Append(base, n) \in Slug /\ Append(base, m) \in Slug
      /\ Len(Append(base, n)) = Len(base) + 1 /\ Append(base, n)[Len(base) + 1] = n
      /\ Len(Append(base, m)) = Len(base) + 1 /\ Append(base, m)[Len(base) + 1] = m
      /\ Len(base) \in Nat
  BY AppendProperties, LenProperties DEF Slug
<1>2. Len(base) + 1 # Len(base)
  BY <1>1
<1> QED
  BY <1>1, <1>2 DEF Candidate

\* One number more than there are ids always leaves a free one.
LEMMA FeatureIdIsFree ==
  ASSUME NEW base \in Slug, NEW seen, IsFiniteSet(seen)
  PROVE  /\ FeatureId(base, seen) \in Slug
         /\ FeatureId(base, seen) \notin seen
         /\ base \notin seen => FeatureId(base, seen) = base
<1> DEFINE N == 1 .. Cardinality(seen) + 1
           K == {n \in N : Candidate(base, n) \notin seen}
<1>1. Cardinality(seen) \in Nat
  BY FS_CardinalityType
<1>2. IsFiniteSet(N) /\ Cardinality(N) = Cardinality(seen) + 1 /\ N \in SUBSET Nat
  BY <1>1, FS_Interval
<1>3. 1 \in N
  BY <1>1
<1>4. K # {}
  <2> SUFFICES ASSUME \A n \in N : Candidate(base, n) \in seen
               PROVE  FALSE
    OBVIOUS
  <2> DEFINE f == [n \in N |-> Candidate(base, n)]
  <2>1. f \in [N -> seen]
    OBVIOUS
  <2>2. Cardinality(seen) < Cardinality(N)
    BY <1>1, <1>2
  <2>3. \A n \in N : f[n] = Candidate(base, n)
    OBVIOUS
  <2> HIDE DEF f, N
  <2>4. PICK x, y \in N : x # y /\ f[x] = f[y]
    BY <1>2, <2>1, <2>2, FS_PigeonHole
  <2>5. x \in Nat /\ y \in Nat
    BY <1>2, <2>4
  <2> QED
    BY <2>3, <2>4, <2>5, CandidatesDiffer
<1>5. Min(K) \in K /\ \A n \in K : Min(K) <= n
  <2>1. Cardinality(seen) + 1 \in Nat /\ K \in SUBSET (1 .. Cardinality(seen) + 1)
    BY <1>1
  <2> HIDE DEF K
  <2> QED
    BY <1>4, <2>1, FirstPosition
<1>6. FeatureId(base, seen) = Candidate(base, Min(K))
  BY DEF FeatureId
<1>7. Min(K) \in Nat /\ Candidate(base, Min(K)) \notin seen
  BY <1>1, <1>5
<1>8. base \notin seen => Min(K) = 1
  <2>1. base \notin seen => 1 \in K
    BY <1>3 DEF Candidate
  <2>2. 1 \in K => Min(K) <= 1
    BY <1>5
  <2>3. Min(K) >= 1
    BY <1>1, <1>5
  <2> QED
    BY <1>7, <2>1, <2>2, <2>3
<1> HIDE DEF K
<1> QED
  BY <1>6, <1>7, <1>8, CandidatesDiffer DEF Candidate

Served == [place: Nat, id: Slug]

\* What the ids rest on: each served feature was read, at its place.
IdsInv ==
  /\ parsed \in Seq(Features)
  /\ out \in Seq(Served)
  /\ \A j \in DOMAIN out : out[j].place \in DOMAIN parsed
  /\ IdsTellApart

LEMMA SlugOfBase ==
  ASSUME NEW f \in Features, NEW place \in Nat
  PROVE  Base(f, place) \in Slug
<1>1. f.slug \in Slug
  BY BuildAssumption DEF Slug
<1>2. Unnamed \in Words \cup Nat /\ place \in Words \cup Nat
  BY BuildAssumption
<1>3. <<Unnamed, place>> \in Seq(Words \cup Nat)
  BY <1>2
<1> QED
  BY <1>1, <1>3 DEF Base, Slug

LEMMA ReadOn ==
  ASSUME parsed \in Seq(Features), NEW f \in Features, parsed' = Append(parsed, f)
  PROVE  /\ parsed' \in Seq(Features) /\ Len(parsed') = Len(parsed) + 1
         /\ DOMAIN parsed = 1 .. Len(parsed) /\ DOMAIN parsed' = 1 .. Len(parsed) + 1
         /\ Len(parsed) \in Nat
         /\ \A i \in DOMAIN parsed : i \in DOMAIN parsed' /\ parsed'[i] = parsed[i]
         /\ parsed'[Len(parsed) + 1] = f
BY AppendProperties, LenProperties

LEMMA KeptOn ==
  ASSUME out \in Seq(Served), NEW entry \in Served, out' = Append(out, entry)
  PROVE  /\ out' \in Seq(Served) /\ Len(out') = Len(out) + 1
         /\ DOMAIN out = 1 .. Len(out) /\ DOMAIN out' = 1 .. Len(out) + 1
         /\ Len(out) \in Nat
         /\ \A i \in DOMAIN out : i \in DOMAIN out' /\ out'[i] = out[i]
         /\ out'[Len(out) + 1] = entry
BY AppendProperties, LenProperties

LEMMA IdsStep ==
  ASSUME IdsInv, BuildNext
  PROVE  IdsInv'
<1>1. PICK f \in Features :
        /\ TakeFeature(f) \/ DropFeature(f) \/ SummarizeFeature(f) \/ RejectCollection(f)
        /\ parsed' = Append(parsed, f)
  BY DEF BuildNext
<1>2. kind' = kind
  BY DEF BuildNext
<1> DEFINE place == Len(parsed) + 1
<1>3. /\ parsed' \in Seq(Features) /\ DOMAIN parsed' = 1 .. place /\ Len(parsed) \in Nat
      /\ \A i \in DOMAIN parsed : i \in DOMAIN parsed' /\ parsed'[i] = parsed[i]
      /\ parsed'[place] = f /\ DOMAIN parsed = 1 .. Len(parsed)
  BY <1>1, ReadOn DEF IdsInv
<1>4. place \in Nat /\ place \in DOMAIN parsed' /\ Base(f, place) \in Slug
  BY <1>3, SlugOfBase
<1>5. out \in Seq(Served) /\ \A j \in DOMAIN out : out[j].place \in DOMAIN parsed
  BY DEF IdsInv
<1> HIDE DEF place
<1>6. CASE UNCHANGED out
  BY <1>2, <1>3, <1>6 DEF IdsInv, IdsTellApart
<1>7. ASSUME NEW id \in Slug, Keep(f, id),
             kind = "interactive" =>
               id \notin Ids /\ (Base(f, place) \notin Ids => id = Base(f, place))
      PROVE  IdsInv'
  <2> DEFINE entry == [place |-> place, id |-> id]
  <2>1. entry \in Served /\ entry.place = place /\ entry.id = id
    BY <1>4 DEF Served
  <2>2. out' = Append(out, entry)
    BY <1>7 DEF Keep, place
  <2> HIDE DEF entry
  <2>3. /\ out' \in Seq(Served) /\ Len(out) \in Nat
        /\ DOMAIN out = 1 .. Len(out) /\ DOMAIN out' = 1 .. Len(out) + 1
        /\ \A i \in DOMAIN out : i \in DOMAIN out' /\ out'[i] = out[i]
        /\ out'[Len(out) + 1] = entry
    BY <1>5, <2>1, <2>2, KeptOn
  <2>4. \A j \in DOMAIN out' : j \in DOMAIN out \/ j = Len(out) + 1
    BY <2>3
  <2>5. \A j \in DOMAIN out' : out'[j].place \in DOMAIN parsed'
    BY <1>3, <1>4, <1>5, <2>1, <2>3, <2>4
  <2>6. ASSUME kind = "interactive", NEW j \in DOMAIN out'
        PROVE  LET earlier == {out'[i].id : i \in 1 .. j - 1}
                   own == Base(parsed'[out'[j].place], out'[j].place)
               IN /\ out'[j].id \notin earlier
                  /\ own \notin earlier => out'[j].id = own
    <3>1. CASE j \in DOMAIN out
      <4>1. \A i \in 1 .. j - 1 : i \in DOMAIN out
        BY <2>3, <3>1
      <4>2. {out'[i].id : i \in 1 .. j - 1} = {out[i].id : i \in 1 .. j - 1}
        BY <2>3, <4>1
      <4>3. out'[j] = out[j] /\ parsed'[out[j].place] = parsed[out[j].place]
        BY <1>3, <1>5, <2>3, <3>1
      <4> QED
        BY <2>6, <3>1, <4>2, <4>3 DEF IdsInv, IdsTellApart
    <3>2. CASE j = Len(out) + 1
      <4>1. 1 .. j - 1 = DOMAIN out
        BY <2>3, <3>2
      <4>2. {out'[i].id : i \in 1 .. j - 1} = Ids
        BY <2>3, <4>1 DEF Ids
      <4>3. out'[j].place = place /\ out'[j].id = id /\ parsed'[place] = f
        BY <1>3, <2>1, <2>3, <3>2
      <4> QED
        BY <1>7, <2>6, <4>2, <4>3
    <3> QED
      BY <2>4, <3>1, <3>2
  <2>7. IdsTellApart'
    BY <1>2, <2>6 DEF IdsTellApart
  <2> QED
    BY <1>3, <2>3, <2>5, <2>7 DEF IdsInv
<1>8. CASE TakeFeature(f)
  <2>1. IsFiniteSet(Ids)
    <3>1. DOMAIN out = 1 .. Len(out) /\ Len(out) \in Nat
      BY <1>5, LenProperties
    <3>2. IsFiniteSet(DOMAIN out)
      BY <3>1, FS_Interval
    <3> DEFINE id == [i \in DOMAIN out |-> out[i].id]
    <3>3. id \in Surjection(DOMAIN out, Ids)
      BY DEF Surjection, Ids
    <3> QED
      BY <3>2, <3>3, FS_Surjection
  <2> DEFINE id == FeatureId(Base(f, place), Ids)
  <2>2. /\ id \in Slug /\ id \notin Ids
        /\ Base(f, place) \notin Ids => id = Base(f, place)
    BY <1>4, <2>1, FeatureIdIsFree
  <2>3. Keep(f, id)
    BY <1>8 DEF TakeFeature, place
  <2> HIDE DEF id
  <2> QED
    BY <1>7, <2>2, <2>3
<1>9. CASE SummarizeFeature(f)
  <2>1. Keep(f, <<>>) /\ kind # "interactive" /\ <<>> \in Slug
    BY <1>9, EmptySeq DEF SummarizeFeature, Slug
  <2> QED
    BY <1>7, <2>1
<1> QED
  BY <1>1, <1>6, <1>8, <1>9 DEF DropFeature, RejectCollection

(* The ids of an interactive layer differ, whatever its features are called, *)
(* and a feature whose name is free is called by it.                         *)
THEOREM IdsDiffer == BuildSpec => []IdsTellApart
<1>1. BuildInit => IdsInv
  <2>1. \A j \in DOMAIN <<>> : FALSE
    OBVIOUS
  <2> QED
    BY <2>1, EmptySeq DEF BuildInit, IdsInv, IdsTellApart
<1>2. IdsInv /\ [BuildNext]_buildVars => IdsInv'
  <2>1. ASSUME IdsInv, UNCHANGED buildVars
        PROVE  IdsInv'
    BY <2>1 DEF buildVars, IdsInv, IdsTellApart
  <2> QED
    BY <2>1, IdsStep
<1>3. IdsInv => IdsTellApart
  BY DEF IdsInv
<1> QED
  BY <1>1, <1>2, <1>3, PTL DEF BuildSpec

----------------------------------------------------------------------------
(* The layer a collection becomes *)

Axis(side) == IF side \in {1, 3} THEN 1 ELSE 2

\* b is the smallest box around the positions P.
Encloses(b, P) ==
  /\ \A side \in 1 .. 4 : b[side] \in Int
  /\ \A p \in P : PositionWithin(p, b)
  /\ \A side \in 1 .. 4 : \E p \in P : b[side] = p[Axis(side)]

LEMMA LessAndGreater ==
  ASSUME NEW x \in Int, NEW y \in Int
  PROVE  /\ Min({x, y}) \in {x, y} /\ Min({x, y}) <= x /\ Min({x, y}) <= y
         /\ Max({x, y}) \in {x, y} /\ x <= Max({x, y}) /\ y <= Max({x, y})
<1> DEFINE lo == IF x <= y THEN x ELSE y
           hi == IF x <= y THEN y ELSE x
<1>1. lo \in Int /\ hi \in Int /\ x \in lo .. hi /\ y \in lo .. hi
  OBVIOUS
<1> HIDE DEF lo, hi
<1> DEFINE S == {x, y}
<1>2. S \in SUBSET (lo .. hi) /\ S # {} /\ x \in S /\ y \in S
  BY <1>1
<1> HIDE DEF S
<1>3. /\ Min(S) \in S /\ \A z \in S : Min(S) <= z
      /\ Max(S) \in S /\ \A z \in S : z <= Max(S)
  BY <1>1, <1>2, Extremes
<1> QED
  BY <1>2, <1>3 DEF S

LEMMA BboxEncloses ==
  ASSUME NEW g, g.points \in Seq(Int \X Int), Valid(g)
  PROVE  Encloses(Bbox(g), Range(g.points))
<1> DEFINE P == Range(g.points)
           xs == {g.points[i][1] : i \in DOMAIN g.points}
           ys == {g.points[i][2] : i \in DOMAIN g.points}
<1>1. /\ \A p \in P : p \in Int \X Int /\ PositionWithin(p, Bounds)
      /\ \A i \in DOMAIN g.points : g.points[i] \in P
      /\ \A p \in P : \E i \in DOMAIN g.points : g.points[i] = p
  <2>1. \A i \in DOMAIN g.points : g.points[i] \in Int \X Int
    BY LenProperties, ElementOfSeq
  <2> QED
    BY <2>1 DEF Valid, Range
<1>2. 1 \in DOMAIN g.points
  <2>1. Len(g.points) = 1 \/ Len(g.points) >= 2 \/ Len(g.points) >= 4
    BY DEF Valid
  <2>2. Len(g.points) \in Nat /\ DOMAIN g.points = 1 .. Len(g.points)
    BY LenProperties
  <2> QED
    BY <2>1, <2>2
<1>3. /\ Bounds[1] \in Int /\ Bounds[2] \in Int
      /\ Bounds[3] \in Int /\ Bounds[4] \in Int
  <2>1. 1 \in 1 .. 4 /\ 2 \in 1 .. 4 /\ 3 \in 1 .. 4 /\ 4 \in 1 .. 4
    OBVIOUS
  <2> QED
    BY <2>1, BuildAssumption, ElementOfSeq
<1>4. /\ \A p \in P : p[1] \in xs /\ p[2] \in ys /\ p[1] \in Int /\ p[2] \in Int
      /\ \A x \in xs : \E p \in P : x = p[1]
      /\ \A y \in ys : \E p \in P : y = p[2]
  BY <1>1
<1>5. /\ xs \in SUBSET (Bounds[1] .. Bounds[3]) /\ xs # {}
      /\ ys \in SUBSET (Bounds[2] .. Bounds[4]) /\ ys # {}
  <2>1. \A p \in P : /\ p[1] \in Bounds[1] .. Bounds[3]
                     /\ p[2] \in Bounds[2] .. Bounds[4]
    BY <1>1, <1>3 DEF PositionWithin
  <2>2. g.points[1][1] \in xs /\ g.points[1][2] \in ys
    BY <1>2
  <2> QED
    BY <1>4, <2>1, <2>2
<1>6. Bbox(g) = <<Min(xs), Min(ys), Max(xs), Max(ys)>>
  BY DEF Bbox
<1> HIDE DEF xs, ys, P
<1>7. /\ Min(xs) \in xs /\ \A x \in xs : Min(xs) <= x
      /\ Max(xs) \in xs /\ \A x \in xs : x <= Max(xs)
  BY <1>3, <1>5, Extremes
<1>8. /\ Min(ys) \in ys /\ \A x \in ys : Min(ys) <= x
      /\ Max(ys) \in ys /\ \A x \in ys : x <= Max(ys)
  BY <1>3, <1>5, Extremes
<1>9. /\ \A x \in xs : x \in Int
      /\ \A x \in ys : x \in Int
  BY <1>4
<1> DEFINE b == Bbox(g)
<1>10. /\ b[1] = Min(xs) /\ b[2] = Min(ys)
       /\ b[3] = Max(xs) /\ b[4] = Max(ys)
  BY <1>6
<1> HIDE DEF b
<1>11. \A p \in P : PositionWithin(p, b)
  BY <1>4, <1>7, <1>8, <1>9, <1>10 DEF PositionWithin
<1>12. \A side \in 1 .. 4 : b[side] \in Int /\ \E p \in P : b[side] = p[Axis(side)]
  <2>1. \A side \in 1 .. 4 : side = 1 \/ side = 2 \/ side = 3 \/ side = 4
    OBVIOUS
  <2>2. Axis(1) = 1 /\ Axis(2) = 2 /\ Axis(3) = 1 /\ Axis(4) = 2
    BY DEF Axis
  <2>3. b[1] \in xs /\ b[2] \in ys /\ b[3] \in xs /\ b[4] \in ys
    BY <1>7, <1>8, <1>10
  <2>4. /\ b[1] \in Int /\ b[2] \in Int /\ b[3] \in Int /\ b[4] \in Int
        /\ \E p \in P : b[1] = p[1]
        /\ \E p \in P : b[2] = p[2]
        /\ \E p \in P : b[3] = p[1]
        /\ \E p \in P : b[4] = p[2]
    BY <1>4, <1>9, <2>3
  <2> QED
    BY <2>1, <2>2, <2>4
<1> QED
  BY <1>11, <1>12 DEF Encloses, b, P

LEMMA WithinWider ==
  ASSUME NEW p, NEW b, NEW d, p[1] \in Int, p[2] \in Int, PositionWithin(p, b),
         b[1] \in Int, b[2] \in Int, b[3] \in Int, b[4] \in Int,
         d[1] \in Int, d[2] \in Int, d[3] \in Int, d[4] \in Int,
         d[1] <= b[1], d[2] <= b[2], b[3] <= d[3], b[4] <= d[4]
  PROVE  PositionWithin(p, d)
BY DEF PositionWithin

LEMMA FoldEncloses ==
  ASSUME NEW P \in SUBSET (Int \X Int), NEW Q \in SUBSET (Int \X Int),
         NEW b, NEW c, Encloses(b, P), Encloses(c, Q), b # <<>>
  PROVE  Encloses(FoldBbox(b, c), P \cup Q) /\ FoldBbox(b, c) # <<>>
<1> DEFINE d == FoldBbox(b, c)
<1>1. /\ b[1] \in Int /\ b[2] \in Int /\ b[3] \in Int /\ b[4] \in Int
      /\ c[1] \in Int /\ c[2] \in Int /\ c[3] \in Int /\ c[4] \in Int
  <2>1. 1 \in 1 .. 4 /\ 2 \in 1 .. 4 /\ 3 \in 1 .. 4 /\ 4 \in 1 .. 4
    OBVIOUS
  <2> QED
    BY <2>1 DEF Encloses
<1>2. d = <<Min({b[1], c[1]}), Min({b[2], c[2]}), Max({b[3], c[3]}), Max({b[4], c[4]})>>
  BY DEF FoldBbox
<1>3. /\ d[1] = Min({b[1], c[1]}) /\ d[2] = Min({b[2], c[2]})
      /\ d[3] = Max({b[3], c[3]}) /\ d[4] = Max({b[4], c[4]})
  BY <1>2
<1>4. d # <<>>
  BY <1>2
<1> HIDE DEF d
<1>5. /\ d[1] \in {b[1], c[1]} /\ d[1] <= b[1] /\ d[1] <= c[1]
      /\ d[2] \in {b[2], c[2]} /\ d[2] <= b[2] /\ d[2] <= c[2]
      /\ d[3] \in {b[3], c[3]} /\ b[3] <= d[3] /\ c[3] <= d[3]
      /\ d[4] \in {b[4], c[4]} /\ b[4] <= d[4] /\ c[4] <= d[4]
  <2>1. d[1] \in {b[1], c[1]} /\ d[1] <= b[1] /\ d[1] <= c[1]
    BY <1>1, <1>3, LessAndGreater
  <2>2. d[2] \in {b[2], c[2]} /\ d[2] <= b[2] /\ d[2] <= c[2]
    BY <1>1, <1>3, LessAndGreater
  <2>3. d[3] \in {b[3], c[3]} /\ b[3] <= d[3] /\ c[3] <= d[3]
    BY <1>1, <1>3, LessAndGreater
  <2>4. d[4] \in {b[4], c[4]} /\ b[4] <= d[4] /\ c[4] <= d[4]
    BY <1>1, <1>3, LessAndGreater
  <2> QED
    BY <2>1, <2>2, <2>3, <2>4
<1>6. \A side \in 1 .. 4 : d[side] \in Int /\ d[side] \in {b[side], c[side]}
  <2>1. \A side \in 1 .. 4 : side = 1 \/ side = 2 \/ side = 3 \/ side = 4
    OBVIOUS
  <2> QED
    BY <1>1, <1>5, <2>1
<1>7. \A side \in 1 .. 4 : \E p \in P \cup Q : d[side] = p[Axis(side)]
  BY <1>6 DEF Encloses
<1>8. \A p \in P \cup Q : PositionWithin(p, d)
  <2>1. \A p \in P \cup Q : p[1] \in Int /\ p[2] \in Int
    OBVIOUS
  <2>3. d[1] \in Int /\ d[2] \in Int /\ d[3] \in Int /\ d[4] \in Int
    BY <1>6
  <2>4. \A p \in P : PositionWithin(p, d)
    BY <1>1, <1>5, <2>1, <2>3, WithinWider DEF Encloses
  <2>5. \A p \in Q : PositionWithin(p, d)
    BY <1>1, <1>5, <2>1, <2>3, WithinWider DEF Encloses
  <2> QED
    BY <2>4, <2>5
<1> QED
  BY <1>4, <1>6, <1>7, <1>8 DEF Encloses, d

CanBeShown(f) == Valid(f.geometry) /\ (kind = "interactive" => f.titled)

ShownAt == {i \in DOMAIN parsed : CanBeShown(parsed[i])}

ServedAt == [i \in DOMAIN out |-> out[i].place]

PointsAt(K) == UNION {Range(parsed[i].geometry.points) : i \in K}

\* What has been served follows what has been read.
LayerInv ==
  /\ kind \in Kinds /\ parsed \in Seq(Features) /\ out \in Seq(Served)
  /\ rejected \in BOOLEAN
  /\ rejected => kind = "context" /\ ShownAt # DOMAIN parsed
  /\ ~rejected =>
       /\ ServedAt = Ascending(ShownAt)
       /\ kind = "context" => ShownAt = DOMAIN parsed
       /\ IF out = <<>> THEN box = <<>>
          ELSE box # <<>> /\ Encloses(box, PointsAt(ShownAt))

LEMMA ShownFacts ==
  ASSUME parsed \in Seq(Features)
  PROVE  /\ ShownAt \in SUBSET Nat /\ IsFiniteSet(ShownAt) /\ ShownAt \in SUBSET DOMAIN parsed
         /\ Cardinality(ShownAt) \in Nat
         /\ IsFiniteSet(DOMAIN parsed) /\ Cardinality(DOMAIN parsed) = Len(parsed)
         /\ PointsAt(ShownAt) \in SUBSET (Int \X Int)
<1>1. DOMAIN parsed = 1 .. Len(parsed) /\ Len(parsed) \in Nat
  BY LenProperties
<1>2. IsFiniteSet(DOMAIN parsed) /\ Cardinality(DOMAIN parsed) = Len(parsed)
  BY <1>1, FS_Interval
<1>3. ShownAt \in SUBSET DOMAIN parsed /\ ShownAt \in SUBSET Nat
  BY <1>1 DEF ShownAt
<1>4. IsFiniteSet(ShownAt) /\ Cardinality(ShownAt) \in Nat
  BY <1>2, <1>3, FS_Subset, FS_CardinalityType
<1>5. ASSUME NEW i \in ShownAt
      PROVE  Range(parsed[i].geometry.points) \in SUBSET (Int \X Int)
  <2>1. parsed[i] \in Features /\ Valid(parsed[i].geometry)
    BY <1>1, ElementOfSeq DEF ShownAt, CanBeShown
  <2>2. parsed[i].geometry.points \in Seq(Int \X Int)
    BY <2>1, BuildAssumption DEF Valid
  <2>3. \A n \in DOMAIN parsed[i].geometry.points :
          parsed[i].geometry.points[n] \in Int \X Int
    BY <2>2, LenProperties, ElementOfSeq
  <2> QED
    BY <2>3 DEF Range
<1>6. PointsAt(ShownAt) \in SUBSET (Int \X Int)
  BY <1>5 DEF PointsAt
<1> QED
  BY <1>2, <1>3, <1>4, <1>6

\* Reading one more feature.
LEMMA ShownOn ==
  ASSUME parsed \in Seq(Features), NEW f \in Features, parsed' = Append(parsed, f),
         kind' = kind
  PROVE  LET place == Len(parsed) + 1
         IN /\ CanBeShown(f) =>
                 /\ ShownAt' = ShownAt \cup {place}
                 /\ PointsAt(ShownAt)' = PointsAt(ShownAt) \cup Range(f.geometry.points)
            /\ ~CanBeShown(f) =>
                 ShownAt' = ShownAt /\ PointsAt(ShownAt)' = PointsAt(ShownAt)
            /\ ShownAt' = DOMAIN parsed' <=> ShownAt = DOMAIN parsed /\ CanBeShown(f)
            /\ \A i \in ShownAt : i < place
            /\ place \in Nat
<1> DEFINE place == Len(parsed) + 1
<1>1. /\ parsed' \in Seq(Features) /\ DOMAIN parsed = 1 .. Len(parsed)
      /\ DOMAIN parsed' = 1 .. place /\ Len(parsed) \in Nat
      /\ \A i \in DOMAIN parsed : i \in DOMAIN parsed' /\ parsed'[i] = parsed[i]
      /\ parsed'[place] = f
  BY ReadOn
<1>2. /\ place \in Nat /\ place \notin DOMAIN parsed
      /\ DOMAIN parsed' = DOMAIN parsed \cup {place}
      /\ \A i \in DOMAIN parsed : i < place
  BY <1>1
<1> HIDE DEF place
<1>3. ShownAt' = {i \in DOMAIN parsed' : CanBeShown(parsed'[i])}
  BY DEF ShownAt, CanBeShown
<1>4. ShownAt' = ShownAt \cup (IF CanBeShown(f) THEN {place} ELSE {})
  BY <1>1, <1>2, <1>3 DEF ShownAt
<1>5. PointsAt(ShownAt)' = UNION {Range(parsed'[i].geometry.points) : i \in ShownAt'}
  BY DEF PointsAt
<1>6. \A i \in ShownAt : i \in DOMAIN parsed
  BY DEF ShownAt
<1>7. CASE CanBeShown(f)
  <2>1. ShownAt' = ShownAt \cup {place}
    BY <1>4, <1>7
  <2>2. PointsAt(ShownAt)' = PointsAt(ShownAt) \cup Range(f.geometry.points)
    BY <1>1, <1>2, <1>5, <1>6, <2>1 DEF PointsAt
  <2>3. ShownAt' = DOMAIN parsed' <=> ShownAt = DOMAIN parsed
    BY <1>2, <1>6, <2>1
  <2> QED
    BY <1>2, <1>6, <1>7, <2>1, <2>2, <2>3 DEF place
<1>8. CASE ~CanBeShown(f)
  <2>1. ShownAt' = ShownAt
    BY <1>4, <1>8
  <2>2. PointsAt(ShownAt)' = PointsAt(ShownAt)
    BY <1>1, <1>5, <1>6, <2>1 DEF PointsAt
  <2>3. ShownAt' # DOMAIN parsed'
    BY <1>2, <1>6, <2>1
  <2> QED
    BY <1>2, <1>6, <1>8, <2>1, <2>2, <2>3 DEF place
<1> QED
  BY <1>7, <1>8

LEMMA SameInterval ==
  ASSUME NEW m \in Nat, NEW n \in Nat, 1 .. m = 1 .. n
  PROVE  m = n
<1>1. Cardinality(1 .. m) = m /\ Cardinality(1 .. n) = n
  BY FS_Interval
<1> QED
  BY <1>1

\* Serving the feature just read.
LEMMA LayerKeeps ==
  ASSUME LayerInv, ~rejected, NEW f \in Features, NEW id \in Slug,
         CanBeShown(f), Keep(f, id), parsed' = Append(parsed, f),
         kind' = kind, rejected' = rejected
  PROVE  LayerInv'
<1> DEFINE place == Len(parsed) + 1
           entry == [place |-> place, id |-> id]
           K == ShownAt
           P == PointsAt(ShownAt)
           Q == Range(f.geometry.points)
<1>1. /\ parsed \in Seq(Features) /\ out \in Seq(Served) /\ kind \in Kinds
      /\ ServedAt = Ascending(K)
      /\ kind = "context" => K = DOMAIN parsed
      /\ IF out = <<>> THEN box = <<>> ELSE box # <<>> /\ Encloses(box, P)
  BY DEF LayerInv
<1>2. /\ K \in SUBSET Nat /\ IsFiniteSet(K) /\ P \in SUBSET (Int \X Int)
      /\ Cardinality(K) \in Nat
  BY <1>1, ShownFacts
<1>3. /\ ShownAt' = K \cup {place} /\ PointsAt(ShownAt)' = P \cup Q
      /\ kind = "context" => ShownAt' = DOMAIN parsed'
      /\ \A i \in K : i < place
      /\ place \in Nat
  BY <1>1, ShownOn
<1>4. entry \in Served /\ entry.place = place
  BY <1>3 DEF Served
<1>5. out' = Append(out, entry) /\ box' = FoldBbox(box, Bbox(f.geometry))
  BY DEF Keep
<1>6. parsed' \in Seq(Features)
  BY <1>1, ReadOn
<1> HIDE DEF place, entry, K, P
<1>7. /\ out' \in Seq(Served) /\ DOMAIN out = 1 .. Len(out) /\ DOMAIN out' = 1 .. Len(out) + 1
      /\ Len(out) \in Nat /\ Len(out') = Len(out) + 1
      /\ \A i \in DOMAIN out : out'[i] = out[i]
      /\ out'[Len(out) + 1] = entry
  BY <1>1, <1>4, <1>5, KeptOn
<1>8. Len(out) = Cardinality(K)
  <2>1. DOMAIN ServedAt = 1 .. Len(out) /\ DOMAIN Ascending(K) = 1 .. Cardinality(K)
    BY <1>7 DEF ServedAt, Ascending
  <2> QED
    BY <1>1, <1>2, <1>7, <2>1, SameInterval
<1>9. ServedAt' = Ascending(ShownAt')
  <2>1. /\ Cardinality(K \cup {place}) = Cardinality(K) + 1
        /\ \A m \in 1 .. Cardinality(K) : Ascending(K \cup {place})[m] = Ascending(K)[m]
        /\ Ascending(K \cup {place})[Cardinality(K) + 1] = place
    BY <1>2, <1>3, AscendingAdds
  <2>2. /\ DOMAIN ServedAt' = 1 .. Len(out) + 1
        /\ \A m \in 1 .. Len(out) + 1 : ServedAt'[m] = out'[m].place
    BY <1>7 DEF ServedAt
  <2>3. \A m \in 1 .. Len(out) : ServedAt[m] = out[m].place
    BY <1>7 DEF ServedAt
  <2>4. \A m \in 1 .. Len(out) + 1 : ServedAt'[m] = Ascending(K \cup {place})[m]
    <3>1. \A m \in 1 .. Len(out) : ServedAt'[m] = Ascending(K)[m]
      BY <1>1, <1>7, <2>2, <2>3
    <3>2. ServedAt'[Len(out) + 1] = place
      BY <1>4, <1>7, <2>2
    <3>3. \A m \in 1 .. Len(out) + 1 : m \in 1 .. Len(out) \/ m = Len(out) + 1
      BY <1>7
    <3> QED
      BY <1>8, <2>1, <3>1, <3>2, <3>3
  <2>5. ServedAt' = [m \in 1 .. Len(out) + 1 |-> ServedAt'[m]]
    BY <1>7, <2>2 DEF ServedAt
  <2>6. Ascending(K \cup {place}) =
          [m \in 1 .. Len(out) + 1 |-> Ascending(K \cup {place})[m]]
    <3>1. 1 .. Len(out) + 1 = 1 .. Cardinality(K \cup {place})
      BY <1>8, <2>1
    <3>2. Ascending(K \cup {place}) =
            [m \in 1 .. Cardinality(K \cup {place}) |-> Ascending(K \cup {place})[m]]
      BY AscendingIsFunction
    <3> QED
      BY <3>1, <3>2
  <2> QED
    BY <1>3, <2>4, <2>5, <2>6
<1>10. Encloses(Bbox(f.geometry), Q) /\ Q \in SUBSET (Int \X Int)
  <2>1. Valid(f.geometry)
    BY DEF CanBeShown
  <2>2. f.geometry.points \in Seq(Int \X Int)
    BY <2>1, BuildAssumption DEF Valid
  <2>3. \A n \in DOMAIN f.geometry.points : f.geometry.points[n] \in Int \X Int
    BY <2>2, LenProperties, ElementOfSeq
  <2> QED
    BY <2>1, <2>2, <2>3, BboxEncloses DEF Range
<1>11. box' # <<>> /\ Encloses(box', P \cup Q)
  <2>1. CASE out = <<>>
    <3>1. K = {}
      BY <1>2, <1>7, <1>8, <2>1, FS_EmptySet, EmptySeq
    <3>2. P = {}
      BY <3>1 DEF P, K, PointsAt
    <3>3. box' = Bbox(f.geometry)
      BY <1>1, <1>5, <2>1 DEF FoldBbox
    <3>4. Bbox(f.geometry) # <<>>
      BY DEF Bbox
    <3> QED
      BY <1>10, <3>2, <3>3, <3>4
  <2>2. CASE out # <<>>
    BY <1>1, <1>2, <1>5, <1>10, <2>2, FoldEncloses
  <2> QED
    BY <2>1, <2>2
<1>12. out' # <<>>
  BY <1>7, EmptySeq
<1> QED
  BY <1>1, <1>3, <1>6, <1>7, <1>9, <1>11, <1>12 DEF LayerInv

LEMMA LayerStep ==
  ASSUME LayerInv, BuildNext
  PROVE  LayerInv'
<1>1. PICK f \in Features :
        /\ TakeFeature(f) \/ DropFeature(f) \/ SummarizeFeature(f) \/ RejectCollection(f)
        /\ parsed' = Append(parsed, f)
  BY DEF BuildNext
<1>2. kind' = kind /\ ~rejected
  BY DEF BuildNext
<1>3. /\ parsed \in Seq(Features) /\ out \in Seq(Served) /\ kind \in Kinds
      /\ parsed' \in Seq(Features)
  BY <1>1, ReadOn DEF LayerInv
<1>4. /\ ~CanBeShown(f) => ShownAt' = ShownAt /\ PointsAt(ShownAt)' = PointsAt(ShownAt)
      /\ ~CanBeShown(f) => ShownAt' # DOMAIN parsed'
  BY <1>1, <1>2, <1>3, ShownOn
<1>5. CASE TakeFeature(f)
  <2>1. PICK id : id = FeatureId(Base(f, Len(parsed) + 1), Ids)
    OBVIOUS
  <2>2. CanBeShown(f) /\ Keep(f, id) /\ rejected' = rejected
    BY <1>5, <2>1 DEF TakeFeature, CanBeShown
  <2>3. id \in Slug
    <3>1. IsFiniteSet(Ids)
      <4>1. DOMAIN out = 1 .. Len(out) /\ Len(out) \in Nat
        BY <1>3, LenProperties
      <4>2. IsFiniteSet(DOMAIN out)
        BY <4>1, FS_Interval
      <4> DEFINE ids == [i \in DOMAIN out |-> out[i].id]
      <4>3. ids \in Surjection(DOMAIN out, Ids)
        BY DEF Surjection, Ids
      <4> QED
        BY <4>2, <4>3, FS_Surjection
    <3>2. Len(parsed) + 1 \in Nat
      BY <1>3, LenProperties
    <3> QED
      BY <2>1, <3>1, <3>2, SlugOfBase, FeatureIdIsFree
  <2> QED
    BY <1>1, <1>2, <2>2, <2>3, LayerKeeps
<1>6. CASE SummarizeFeature(f)
  <2>1. Keep(f, <<>>) /\ CanBeShown(f) /\ <<>> \in Slug /\ rejected' = rejected
    BY <1>6, EmptySeq DEF SummarizeFeature, CanBeShown, Slug
  <2> QED
    BY <1>1, <1>2, <2>1, LayerKeeps
<1>7. CASE DropFeature(f)
  <2>1. ~CanBeShown(f) /\ kind = "interactive" /\ UNCHANGED <<out, box, rejected>>
    BY <1>7 DEF DropFeature, CanBeShown
  <2>2. ServedAt' = ServedAt
    BY <2>1 DEF ServedAt
  <2> QED
    BY <1>2, <1>3, <1>4, <2>1, <2>2 DEF LayerInv
<1>8. CASE RejectCollection(f)
  <2>1. ~CanBeShown(f) /\ kind = "context" /\ rejected' = TRUE /\ out' = out
    BY <1>8 DEF RejectCollection, CanBeShown
  <2> QED
    BY <1>2, <1>3, <1>4, <2>1 DEF LayerInv
<1> QED
  BY <1>1, <1>5, <1>6, <1>7, <1>8

(* An interactive layer is served if it has a feature that can be shown and  *)
(* consists of those, in the upstream's order; a context layer is served if  *)
(* all its features can be drawn; its box is the smallest that covers them.  *)
THEOREM LayersAreComplete == BuildSpec => []LayerIsWhatCanBeShown
<1>1. BuildInit => LayerInv
  <2> SUFFICES ASSUME BuildInit PROVE LayerInv
    OBVIOUS
  <2>1. kind \in Kinds /\ parsed = <<>> /\ out = <<>> /\ box = <<>> /\ rejected = FALSE
    BY DEF BuildInit
  <2>2. parsed \in Seq(Features) /\ out \in Seq(Served) /\ Len(out) = 0 /\ Len(parsed) = 0
    BY <2>1, EmptySeq
  <2>3. DOMAIN parsed = 1 .. 0 /\ DOMAIN out = 1 .. 0
    BY <2>2, LenProperties
  <2>4. ShownAt = {} /\ ShownAt = DOMAIN parsed
    BY <2>3 DEF ShownAt
  <2>5. ServedAt = Ascending(ShownAt)
    <3>1. Cardinality({}) = 0
      BY FS_EmptySet
    <3>2. Ascending({}) = [m \in 1 .. 0 |-> Ascending({})[m]]
      BY <3>1 DEF Ascending
    <3>3. ServedAt = [m \in 1 .. 0 |-> ServedAt[m]]
      BY <2>3 DEF ServedAt
    <3>4. \A m \in 1 .. 0 : ServedAt[m] = Ascending({})[m]
      OBVIOUS
    <3> QED
      BY <2>4, <3>2, <3>3, <3>4
  <2> QED
    BY <2>1, <2>2, <2>4, <2>5 DEF LayerInv
<1>2. LayerInv /\ [BuildNext]_buildVars => LayerInv'
  <2>1. ASSUME LayerInv, UNCHANGED buildVars
        PROVE  LayerInv'
    BY <2>1 DEF buildVars, LayerInv, ShownAt, ServedAt, PointsAt, CanBeShown
  <2> QED
    BY <2>1, LayerStep
<1>3. ASSUME LayerInv
      PROVE  LayerIsWhatCanBeShown
  <2> DEFINE shown == Ascending(ShownAt)
             points == UNION {Range(parsed[i].geometry.points) : i \in Range(shown)}
  <2>1. /\ kind \in Kinds /\ parsed \in Seq(Features) /\ out \in Seq(Served)
        /\ rejected \in BOOLEAN
    BY <1>3 DEF LayerInv
  <2>2. /\ ShownAt \in SUBSET Nat /\ IsFiniteSet(ShownAt) /\ ShownAt \in SUBSET DOMAIN parsed
        /\ Cardinality(ShownAt) \in Nat
        /\ IsFiniteSet(DOMAIN parsed) /\ Cardinality(DOMAIN parsed) = Len(parsed)
    BY <2>1, ShownFacts
  <2>3. shown \in Seq(Nat) /\ Len(shown) = Cardinality(ShownAt)
        /\ DOMAIN shown = 1 .. Cardinality(ShownAt)
    <3>1. \A m \in 1 .. Cardinality(ShownAt) : shown[m] \in Nat
      BY <2>2, AscendingRank
    <3>2. shown \in [1 .. Cardinality(ShownAt) -> Nat]
      BY <3>1 DEF Ascending
    <3> HIDE DEF shown
    <3> QED
      BY <2>2, <3>2
  <2>4. Range(shown) = ShownAt
    <3>1. \A m \in DOMAIN shown : shown[m] \in ShownAt
      BY <2>2, <2>3, AscendingRank
    <3>2. \A i \in ShownAt : \E m \in DOMAIN shown : shown[m] = i
      BY <2>2, <2>3, AscendingOnto
    <3> QED
      BY <3>1, <3>2 DEF Range
  <2>5. points = PointsAt(ShownAt)
    BY <2>4 DEF PointsAt
  <2>6. Len(shown) = Len(parsed) <=> ShownAt = DOMAIN parsed
    BY <2>2, <2>3, FS_Subset
  <2>7. shown = <<>> <=> Cardinality(ShownAt) = 0
    BY <2>3, EmptySeq
  <2>8. ~rejected => (out = <<>> <=> shown = <<>>)
    <3> SUFFICES ASSUME ~rejected PROVE out = <<>> <=> shown = <<>>
      OBVIOUS
    <3>1. ServedAt = shown /\ DOMAIN ServedAt = DOMAIN out
      BY <1>3 DEF LayerInv, ServedAt
    <3>2. DOMAIN out = 1 .. Len(out) /\ Len(out) \in Nat
      BY <2>1, LenProperties
    <3>3. Len(out) = Cardinality(ShownAt)
      BY <2>2, <2>3, <3>1, <3>2, SameInterval
    <3>4. out = <<>> <=> Len(out) = 0
      BY <2>1, EmptySeq
    <3> QED
      BY <2>7, <3>3, <3>4
  <2>9. Builds <=> shown # <<>> /\ (kind = "context" => Len(shown) = Len(parsed))
    <3>1. CASE rejected
      BY <1>3, <2>6, <3>1 DEF LayerInv, Builds
    <3>2. CASE ~rejected
      BY <1>3, <2>6, <2>8, <3>2 DEF LayerInv, Builds
    <3> QED
      BY <3>1, <3>2
  <2>10. ASSUME Builds
         PROVE  /\ [i \in DOMAIN out |-> out[i].place] = shown
                /\ \A p \in points : PositionWithin(p, box)
                /\ \A side \in 1 .. 4 : \E p \in points :
                     box[side] = p[IF side \in {1, 3} THEN 1 ELSE 2]
    <3>1. ~rejected /\ out # <<>>
      BY <2>10 DEF Builds
    <3>2. ServedAt = shown /\ Encloses(box, points)
      BY <1>3, <2>5, <3>1 DEF LayerInv
    <3> HIDE DEF points, shown
    <3> QED
      BY <3>2 DEF ServedAt, Encloses, Axis
  <2> QED
    BY <2>9, <2>10 DEF LayerIsWhatCanBeShown, ShownAt, CanBeShown
<1> QED
  BY <1>1, <1>2, <1>3, PTL DEF BuildSpec

----------------------------------------------------------------------------
(* The facts of a text *)

TextInv ==
  /\ description \in Seq(Statements)
  /\ label \in Seq(Statements)

LEMMA StatementFacts ==
  ASSUME NEW s \in Statements
  PROVE  /\ s.says = "clearance" => s.amount \in Nat /\ s.unit \in {"m", "nm"}
         /\ s.says = "from" => s.day \in Dates \cup {NoSuchDay}
         /\ s.says = "notice" => s.year \in Nat /\ s.broken \in BOOLEAN
         /\ s # Unstated
<1>1. IsStatement(s) /\ s # Unstated
  BY FactsAssumption
<1>2. s.says = "clearance" => s.amount \in Nat /\ s.unit \in {"m", "nm"}
  BY <1>1 DEF IsStatement
<1>3. s.says = "from" => s.day \in Dates \cup {NoSuchDay}
  BY <1>1 DEF IsStatement
<1>4. s.says = "notice" => s.year \in Nat /\ s.broken \in BOOLEAN
  BY <1>1 DEF IsStatement
<1> QED
  BY <1>1, <1>2, <1>3, <1>4

\* The position a text is first matched at.
LEMMA FirstMatch ==
  ASSUME NEW text \in Seq(Statements), NEW K \in SUBSET DOMAIN text, K # {}
  PROVE  /\ Min(K) \in K /\ \A j \in K : Min(K) <= j
         /\ text[Min(K)] \in Statements
<1>1. DOMAIN text = 1 .. Len(text) /\ Len(text) \in Nat
  BY LenProperties
<1>2. Min(K) \in K /\ \A j \in K : Min(K) <= j
  BY <1>1, FirstPosition
<1> QED
  BY <1>1, <1>2, ElementOfSeq

LEMMA OnlyLeast ==
  ASSUME NEW n \in Nat, NEW K \in SUBSET (1 .. n), NEW i \in K, \A j \in K : i <= j
  PROVE  Min(K) = i
<1>1. Min(K) \in K /\ \A j \in K : Min(K) <= j
  BY FirstPosition
<1>2. Min(K) <= i /\ i <= Min(K)
  BY <1>1
<1>3. \A j \in K : j \in Nat
  OBVIOUS
<1>4. Min(K) \in Nat /\ i \in Nat
  BY <1>1, <1>3
<1> QED
  BY <1>2, <1>4

LEMMA DistanceAsStated ==
  ASSUME NEW text \in Seq(Statements),
         {i \in DOMAIN text : IsMetres(text[i]) \/ IsNauticalMiles(text[i])} # {},
         \A i \in {i \in DOMAIN text : IsMetres(text[i]) \/ IsNauticalMiles(text[i])} :
           text[i].unit = text[Min({k \in DOMAIN text : IsMetres(text[k]) \/ IsNauticalMiles(text[k])})].unit
  PROVE  LET first == text[Min({i \in DOMAIN text :
                                  IsMetres(text[i]) \/ IsNauticalMiles(text[i])})]
         IN ParseDistance(text) = IF first.amount = 0 THEN Unstated
                                  ELSE IF first.unit = "m" THEN first.amount
                                  ELSE 1852 * first.amount
<1> DEFINE metres == {i \in DOMAIN text : IsMetres(text[i])}
           miles == {i \in DOMAIN text : IsNauticalMiles(text[i])}
           K == {i \in DOMAIN text : IsMetres(text[i]) \/ IsNauticalMiles(text[i])}
           first == text[Min(K)]
<1>1. /\ FirstOf(text, IsMetres) = IF metres = {} THEN Unstated ELSE text[Min(metres)]
      /\ FirstOf(text, IsNauticalMiles) = IF miles = {} THEN Unstated ELSE text[Min(miles)]
  BY DEF FirstOf
<1>2. /\ K = metres \cup miles /\ K \in SUBSET DOMAIN text
      /\ \A i \in metres : text[i].unit = "m" /\ text[i].says = "clearance"
      /\ \A i \in miles : text[i].unit = "nm" /\ text[i].says = "clearance"
  BY DEF IsMetres, IsNauticalMiles
<1>3. K # {} /\ \A i \in K : text[i].unit = first.unit
  OBVIOUS
<1> HIDE DEF metres, miles, K
<1>4. Min(K) \in K /\ first \in Statements
  BY <1>2, <1>3, FirstMatch
<1>5. first.says = "clearance" /\ first.amount \in Nat /\ first # Unstated
  BY <1>2, <1>4, StatementFacts
<1> HIDE DEF first
<1>6. CASE first.unit = "m"
  <2>1. miles = {} /\ metres = K
    BY <1>2, <1>3, <1>6
  <2>2. FirstOf(text, IsMetres) = first /\ FirstOf(text, IsNauticalMiles) = Unstated
    BY <1>1, <1>3, <2>1 DEF first
  <2> QED
    BY <1>5, <1>6, <2>2 DEF ParseDistance, Orelse, Metre, first, K
<1>7. CASE first.unit # "m"
  <2>1. metres = {} /\ miles = K
    BY <1>2, <1>3, <1>7
  <2>2. FirstOf(text, IsMetres) = Unstated /\ FirstOf(text, IsNauticalMiles) = first
    BY <1>1, <1>3, <2>1 DEF first
  <2>3. first.amount * NauticalMile = 1852 * first.amount
    BY <1>5 DEF NauticalMile
  <2> QED
    BY <1>5, <1>7, <2>2, <2>3 DEF ParseDistance, Orelse, first, K
<1> QED
  BY <1>6, <1>7

LEMMA DateAsStated ==
  ASSUME NEW text \in Seq(Statements), DateOf(text, "from") # Unstated
  PROVE  \E s \in Range(text) : s.says = "from" /\ s.day = DateOf(text, "from")
<1> DEFINE K == {i \in DOMAIN text : text[i].says = "from"}
           first == FirstOf(text, LAMBDA s : s.says = "from")
<1>1. first = IF K = {} THEN Unstated ELSE text[Min(K)]
  BY DEF FirstOf
<1>2. DateOf(text, "from") = IF first = Unstated THEN Unstated ELSE ToDate(first.day)
  BY DEF DateOf
<1>3. K \in SUBSET DOMAIN text /\ \A i \in K : text[i].says = "from"
  OBVIOUS
<1> HIDE DEF K, first
<1>4. K # {} /\ first = text[Min(K)]
  BY <1>1, <1>2
<1>5. Min(K) \in DOMAIN text /\ first.says = "from"
  BY <1>3, <1>4, FirstMatch
<1>6. first.day = DateOf(text, "from")
  BY <1>2 DEF ToDate
<1> QED
  BY <1>4, <1>5, <1>6 DEF Range

LEMMA NoticeOfText ==
  ASSUME NEW text \in Seq(Statements), NoticesIn(text) # {},
         NEW notice, notice = text[Min(NoticesIn(text))],
         Plausible(notice)
  PROVE  /\ ParseNoticeRef(text) = notice /\ ParseNoticeDate(text) = notice.year
         /\ notice # Unstated /\ notice.year # Unstated
<1> DEFINE N == NoticesIn(text)
           U == {i \in DOMAIN text : text[i].says = "notice" /\ ~text[i].broken}
<1>1. N \in SUBSET DOMAIN text /\ \A i \in N : text[i].says = "notice"
  BY DEF NoticesIn
<1>2. N # {} /\ notice = text[Min(N)]
  OBVIOUS
<1>3. U \in SUBSET DOMAIN text /\ \A i \in U : i \in N
  BY DEF NoticesIn
<1>4. ParseNoticeRef(text) = IF N = {} THEN Unstated ELSE text[Min(N)]
  BY DEF ParseNoticeRef, FirstOf, NoticesIn
<1>5. FirstOf(text, LAMBDA s : s.says = "notice" /\ ~s.broken) =
        IF U = {} THEN Unstated ELSE text[Min(U)]
  BY DEF FirstOf
<1>6. \A i \in N : ~text[i].broken => i \in U
  BY <1>1
<1>6a. Min(N) \in N => Min(N) \in U
  BY <1>2, <1>6 DEF Plausible
<1> HIDE DEF N, U
<1>7. Min(N) \in N /\ \A j \in N : Min(N) <= j
  BY <1>1, <1>2, FirstMatch
<1>8. notice \in Statements /\ notice.says = "notice"
  BY <1>1, <1>2, <1>7, FirstMatch
<1>9. Min(U) = Min(N)
  <2>1. Min(N) \in U
    BY <1>7, <1>6a
  <2>2. \A j \in U : Min(N) <= j
    BY <1>3, <1>7
  <2>3. U \in SUBSET (1 .. Len(text)) /\ Len(text) \in Nat
    BY <1>3, LenProperties
  <2> QED
    BY <2>1, <2>2, <2>3, OnlyLeast
<1>10. U # {}
  BY <1>7, <1>6a
<1>11. notice # Unstated /\ notice.year \in Nat /\ notice.year # Unstated
  BY <1>8, StatementFacts, FactsAssumption
<1> DEFINE found == FirstOf(text, LAMBDA s : s.says = "notice" /\ ~s.broken)
<1>12. found = notice
  BY <1>2, <1>5, <1>9, <1>10
<1>13. ParseNoticeDate(text) = IF found = Unstated \/ found.year \notin 2000 .. 2100
                               THEN Unstated ELSE found.year
  BY DEF ParseNoticeDate
<1>14. notice.year \in 2000 .. 2100
  BY DEF Plausible
<1> HIDE DEF found
<1>15. ParseNoticeDate(text) = notice.year
  BY <1>11, <1>12, <1>13, <1>14
<1> QED
  BY <1>2, <1>4, <1>11, <1>15

LEMMA NoNoticeInText ==
  ASSUME NEW text, NoticesIn(text) = {}
  PROVE  ParseNoticeRef(text) = Unstated /\ ParseNoticeDate(text) = Unstated
<1> DEFINE U == {i \in DOMAIN text : text[i].says = "notice" /\ ~text[i].broken}
<1>1. U = {}
  BY DEF NoticesIn
<1>2. ParseNoticeRef(text) = Unstated
  BY DEF ParseNoticeRef, FirstOf, NoticesIn
<1>3. FirstOf(text, LAMBDA s : s.says = "notice" /\ ~s.broken) =
        IF U = {} THEN Unstated ELSE text[Min(U)]
  BY DEF FirstOf
<1> QED
  BY <1>1, <1>2, <1>3 DEF ParseNoticeDate

\* The first notice of two texts in a row is the first of the first that has one.
LEMMA FirstNotice ==
  ASSUME NEW t \in Seq(Statements), NEW u \in Seq(Statements), NoticesIn(t \o u) # {}
  PROVE  /\ NoticesIn(t) # {} =>
              (t \o u)[Min(NoticesIn(t \o u))] = t[Min(NoticesIn(t))]
         /\ NoticesIn(t) = {} =>
              NoticesIn(u) # {} /\ (t \o u)[Min(NoticesIn(t \o u))] = u[Min(NoticesIn(u))]
<1> DEFINE n == Len(t)
           m == Len(u)
           both == t \o u
           K == NoticesIn(both)
           N == NoticesIn(t)
           M == NoticesIn(u)
<1>1. n \in Nat /\ m \in Nat /\ DOMAIN t = 1 .. n /\ DOMAIN u = 1 .. m
  BY LenProperties
<1>2. /\ both \in Seq(Statements) /\ Len(both) = n + m
      /\ \A i \in 1 .. n + m : both[i] = IF i <= n THEN t[i] ELSE u[i - n]
  BY ConcatProperties
<1>3. DOMAIN both = 1 .. n + m
  BY <1>2, LenProperties
<1>4. K # {}
  OBVIOUS
<1> HIDE DEF both, n, m
<1>5. /\ K = {i \in 1 .. n + m : both[i].says = "notice"}
      /\ N = {i \in 1 .. n : t[i].says = "notice"}
      /\ M = {i \in 1 .. m : u[i].says = "notice"}
  BY <1>1, <1>3 DEF NoticesIn
<1>6. K \in SUBSET (1 .. n + m) /\ N \in SUBSET (1 .. n) /\ M \in SUBSET (1 .. m)
  BY <1>5
<1>7. ASSUME NEW i \in 1 .. n
      PROVE  both[i] = t[i] /\ (i \in N => i \in K) /\ (i \in K => i \in N)
  <2>1. i \in 1 .. n + m /\ i <= n
    BY <1>1
  <2>2. both[i] = t[i]
    BY <1>2, <2>1
  <2> QED
    BY <1>5, <2>1, <2>2
<1>8. ASSUME NEW i \in 1 .. m
      PROVE  both[n + i] = u[i] /\ (i \in M => n + i \in K) /\ (n + i \in K => i \in M)
  <2>1. n + i \in 1 .. n + m /\ ~(n + i <= n) /\ (n + i) - n = i
    BY <1>1
  <2>2. both[n + i] = u[i]
    BY <1>2, <2>1
  <2> QED
    BY <1>5, <2>1, <2>2
<1> HIDE DEF K, N, M
<1>9. n + m \in Nat
  BY <1>1
<1>10. ASSUME N # {}
       PROVE  both[Min(K)] = t[Min(N)]
  <2> DEFINE k == Min(N)
  <2>1. k \in N /\ \A j \in N : k <= j
    BY <1>1, <1>6, <1>10, FirstPosition
  <2>2. k \in 1 .. n
    BY <1>6, <2>1
  <2> HIDE DEF k
  <2>3. ASSUME NEW j \in K PROVE k <= j
    <3>1. j \in 1 .. n + m
      BY <1>6
    <3>2. CASE j <= n
      <4>1. j \in 1 .. n
        BY <1>1, <3>1, <3>2
      <4> QED
        BY <1>7, <2>1, <4>1
    <3>3. CASE ~(j <= n)
      BY <1>1, <2>2, <3>1, <3>3
    <3> QED
      BY <3>2, <3>3
  <2>4. k \in K
    BY <1>7, <2>1, <2>2
  <2>5. Min(K) = k
    BY <1>6, <1>9, <2>3, <2>4, OnlyLeast
  <2> QED
    BY <1>7, <2>2, <2>5 DEF k
<1>11. ASSUME N = {}
       PROVE  M # {} /\ both[Min(K)] = u[Min(M)]
  <2>1. ASSUME NEW j \in K PROVE j - n \in M /\ j = n + (j - n)
    <3>1. j \in 1 .. n + m
      BY <1>6
    <3>2. j \notin 1 .. n
      BY <1>7, <1>11
    <3>3. j - n \in 1 .. m /\ j = n + (j - n)
      BY <1>1, <3>1, <3>2
    <3> QED
      BY <1>8, <3>3
  <2>2. M # {}
    BY <1>4, <2>1 DEF K
  <2> DEFINE k == Min(M)
  <2>3. k \in M /\ \A j \in M : k <= j
    BY <1>1, <1>6, <2>2, FirstPosition
  <2>4. k \in 1 .. m
    BY <1>6, <2>3
  <2> HIDE DEF k
  <2>5. n + k \in K
    BY <1>8, <2>3, <2>4
  <2>6. ASSUME NEW j \in K PROVE n + k <= j
    <3>1. k <= j - n /\ j \in 1 .. n + m
      BY <1>6, <2>1, <2>3
    <3> QED
      BY <1>1, <2>4, <3>1
  <2>7. Min(K) = n + k
    BY <1>6, <1>9, <2>5, <2>6, OnlyLeast
  <2> QED
    BY <1>8, <2>2, <2>4, <2>7 DEF k
<1> QED
  BY <1>10, <1>11 DEF both, K, N, M

LEMMA NoticeAsStated ==
  ASSUME NEW t \in Seq(Statements), NEW u \in Seq(Statements), NoticesIn(t \o u) # {},
         NEW notice, notice = (t \o u)[Min(NoticesIn(t \o u))],
         Plausible(notice)
  PROVE  /\ Orelse(ParseNoticeRef(t), ParseNoticeRef(u)) = notice
         /\ Orelse(ParseNoticeDate(t), ParseNoticeDate(u)) = notice.year
<1>1. CASE NoticesIn(t) # {}
  <2>1. notice = t[Min(NoticesIn(t))]
    BY <1>1, FirstNotice
  <2>2. /\ ParseNoticeRef(t) = notice /\ ParseNoticeDate(t) = notice.year
        /\ notice # Unstated /\ notice.year # Unstated
    BY <1>1, <2>1, NoticeOfText
  <2> QED
    BY <2>2 DEF Orelse
<1>2. CASE NoticesIn(t) = {}
  <2>1. NoticesIn(u) # {} /\ notice = u[Min(NoticesIn(u))]
    BY <1>2, FirstNotice
  <2>2. ParseNoticeRef(u) = notice /\ ParseNoticeDate(u) = notice.year
    BY <2>1, NoticeOfText
  <2>3. ParseNoticeRef(t) = Unstated /\ ParseNoticeDate(t) = Unstated
    BY <1>2, NoNoticeInText
  <2> QED
    BY <2>2, <2>3 DEF Orelse
<1> QED
  BY <1>1, <1>2

(* Of any text and label, the clearance is the first stated as long as units *)
(* are not mixed, a window starts on a day the text names, and the notice    *)
(* and its year are the first reference's, where that is whole and plausible.*)
THEOREM FactsAreAsStated == TextSpec => []FactsAsStated
<1>1. TextInit => TextInv
  BY EmptySeq DEF TextInit, TextInv
<1>2. TextInv /\ [TextNext]_textVars => TextInv'
  <2> SUFFICES ASSUME TextInv, [TextNext]_textVars
               PROVE  TextInv'
    OBVIOUS
  <2>1. ASSUME NEW s \in Statements,
               \/ description' = Append(description, s) /\ UNCHANGED label
               \/ label' = Append(label, s) /\ UNCHANGED description
        PROVE  TextInv'
    <3>1. \A text \in Seq(Statements) : Append(text, s) \in Seq(Statements)
      BY AppendProperties
    <3> QED
      BY <2>1, <3>1 DEF TextInv
  <2>2. CASE UNCHANGED textVars
    BY <2>2 DEF textVars, TextInv
  <2> QED
    BY <2>1, <2>2 DEF TextNext
<1>3. ASSUME TextInv
      PROVE  FactsAsStated
  <2>1. Facts.distance = ParseDistance(description) /\ Facts.from = DateOf(description, "from")
    BY DEF Facts
  <2>2. Facts.from # Unstated =>
          \E s \in Range(description) : s.says = "from" /\ s.day = Facts.from
    BY <1>3, <2>1, DateAsStated DEF TextInv
  <2> DEFINE clearances == {i \in DOMAIN description :
                              IsMetres(description[i]) \/ IsNauticalMiles(description[i])}
             first == description[Min(clearances)]
  <2>3. clearances # {} /\ (\A i \in clearances : description[i].unit = first.unit) =>
          Facts.distance = IF first.amount = 0 THEN Unstated
                           ELSE IF first.unit = "m" THEN first.amount
                           ELSE 1852 * first.amount
    BY <1>3, <2>1, DistanceAsStated DEF TextInv
  <2> DEFINE stated == description \o label
             notice == stated[Min(NoticesIn(stated))]
  <2>4. NoticesIn(stated) # {} /\ Plausible(notice) =>
          Facts.noticeRef = notice /\ Facts.noticeDate = notice.year
    <3>1. /\ Facts.noticeRef = Orelse(ParseNoticeRef(description), ParseNoticeRef(label))
          /\ Facts.noticeDate = Orelse(ParseNoticeDate(description), ParseNoticeDate(label))
      BY DEF Facts
    <3> QED
      BY <1>3, <3>1, NoticeAsStated DEF TextInv
  <2> QED
    BY <2>2, <2>3, <2>4, Zenon DEF FactsAsStated
<1> QED
  BY <1>1, <1>2, <1>3, PTL DEF TextSpec

-----------------------------------------------------------------------------
(* The zones of the community map *)

(* However many placemarks are read, the layers counted as present are those *)
(* that have a zone.                                                         *)
THEOREM LayersCountedHaveZones == Spec => []MatchedLayersHaveZones
<1>1. Init => MatchedLayersHaveZones
  BY DEF Init, MatchedLayersHaveZones
<1>2. MatchedLayersHaveZones /\ [Next]_vars => MatchedLayersHaveZones'
  <2> SUFFICES ASSUME MatchedLayersHaveZones, [Next]_vars
               PROVE  MatchedLayersHaveZones'
    OBVIOUS
  <2>1. ASSUME NEW p \in Offered, TakePlacemark(p)
        PROVE  MatchedLayersHaveZones'
    <3>1. DOMAIN groups' = DOMAIN groups \cup {Key(p)}
      BY <2>1 DEF TakePlacemark
    <3>2. Key(p)[1] = LayerOf[p.folder]
      BY DEF Key
    <3>3. {k[1] : k \in DOMAIN groups'} = {k[1] : k \in DOMAIN groups} \cup {Key(p)[1]}
      BY <3>1
    <3> QED
      BY <2>1, <3>2, <3>3 DEF TakePlacemark, MatchedLayersHaveZones
  <2>2. ASSUME NEW p \in Offered, SkipPlacemark(p)
        PROVE  MatchedLayersHaveZones'
    BY <2>2 DEF SkipPlacemark, MatchedLayersHaveZones
  <2>3. CASE UNCHANGED vars
    BY <2>3 DEF vars, MatchedLayersHaveZones
  <2> QED
    BY <2>1, <2>2, <2>3 DEF Next
<1> QED
  BY <1>1, <1>2, PTL DEF Spec

\* The placemarks of a document that a zone is drawn from, and those of them
\* that state rules.
DrawnFor(p, k) == Taken(p) /\ Key(p) = k

Stating(p, k) == DrawnFor(p, k) /\ p.note # Absent

DrawnIn(doc, k) == {i \in DOMAIN doc : DrawnFor(doc[i], k)}

StatingIn(doc, k) == {i \in DOMAIN doc : Stating(doc[i], k)}

TakenKeys(doc) == {Key(doc[i]) : i \in {j \in DOMAIN doc : Taken(doc[j])}}

ZoneFrom(zone, doc, k) ==
  /\ DOMAIN zone = {"name", "note", "folder", "shapes"}
  /\ zone.note = IF StatingIn(doc, k) = {} THEN Absent ELSE doc[Min(StatingIn(doc, k))].note
  /\ zone.folder = doc[Min(DrawnIn(doc, k))].folder
  /\ zone.name = ZoneName(doc[Min(DrawnIn(doc, k))])

\* A key has a zone exactly if a placemark is drawn for it: without this, the
\* placemark that opens a zone need not be the first one drawn.
ZonesInv ==
  /\ read \in Seq(Offered)
  /\ DOMAIN groups = TakenKeys(read)
  /\ \A k \in DOMAIN groups : ZoneFrom(groups[k], read, k)

\* Whatever is counted, one more element leaves the first position alone, or
\* is the first if there was none.
LEMMA FirstStays ==
  ASSUME NEW n \in Nat, NEW K \in SUBSET (1 .. n), NEW L, L = K \/ L = K \cup {n + 1}
  PROVE  /\ K # {} => L # {} /\ Min(L) = Min(K) /\ Min(K) \in 1 .. n
         /\ K = {} /\ L # {} => Min(L) = n + 1
<1>1. n + 1 \in Nat /\ L \in SUBSET (1 .. n + 1)
  <2>1. n + 1 \in Nat /\ n + 1 \in 1 .. n + 1 /\ 1 .. n \in SUBSET (1 .. n + 1)
    OBVIOUS
  <2>2. \A j \in L : j \in 1 .. n + 1
    BY <2>1
  <2> QED
    BY <2>1, <2>2
<1>2. ASSUME K # {}
      PROVE  L # {} /\ Min(L) = Min(K) /\ Min(K) \in 1 .. n
  <2> DEFINE m == Min(K)
  <2>1. m \in K /\ \A j \in K : m <= j
    BY <1>2, FirstPosition
  <2>2. m \in 1 .. n
    BY <2>1
  <2> HIDE DEF m
  <2>3. m \in L /\ \A j \in L : m <= j
    <3>1. m <= n + 1
      BY <2>2
    <3> QED
      BY <2>1, <3>1
  <2>4. Min(L) = m
    BY <1>1, <2>3, OnlyLeast
  <2> QED
    BY <2>2, <2>3, <2>4 DEF m
<1>3. ASSUME K = {}, L # {}
      PROVE  Min(L) = n + 1
  <2>1. n + 1 \in L /\ \A j \in L : n + 1 <= j
    BY <1>3
  <2> QED
    BY <1>1, <2>1, OnlyLeast
<1> QED
  BY <1>2, <1>3

LEMMA DocumentOn ==
  ASSUME NEW doc \in Seq(Offered), NEW p \in Offered, NEW new, new = Append(doc, p)
  PROVE  /\ new \in Seq(Offered)
         /\ Len(doc) \in Nat
         /\ DOMAIN doc = 1 .. Len(doc) /\ DOMAIN new = 1 .. Len(doc) + 1
         /\ \A i \in 1 .. Len(doc) : new[i] = doc[i]
         /\ new[Len(doc) + 1] = p
BY AppendProperties, LenProperties

LEMMA DrawnOn ==
  ASSUME NEW k, NEW doc \in Seq(Offered), NEW p \in Offered, NEW new, new = Append(doc, p)
  PROVE  /\ DrawnIn(new, k) = IF DrawnFor(p, k) THEN DrawnIn(doc, k) \cup {Len(doc) + 1}
                              ELSE DrawnIn(doc, k)
         /\ StatingIn(new, k) = IF Stating(p, k) THEN StatingIn(doc, k) \cup {Len(doc) + 1}
                                ELSE StatingIn(doc, k)
         /\ DrawnIn(doc, k) \in SUBSET (1 .. Len(doc))
         /\ StatingIn(doc, k) \in SUBSET (1 .. Len(doc))
<1> DEFINE n == Len(doc)
<1>1. /\ n \in Nat /\ DOMAIN doc = 1 .. n /\ DOMAIN new = 1 .. n + 1
      /\ \A i \in 1 .. n : new[i] = doc[i]
      /\ new[n + 1] = p
  BY DocumentOn
<1> HIDE DEF n
<1>2. 1 .. n + 1 = (1 .. n) \cup {n + 1}
  BY <1>1
<1> QED
  BY <1>1, <1>2 DEF DrawnIn, StatingIn, n

LEMMA KeysOn ==
  ASSUME NEW doc \in Seq(Offered), NEW p \in Offered, NEW new, new = Append(doc, p)
  PROVE  TakenKeys(new) = IF Taken(p) THEN TakenKeys(doc) \cup {Key(p)} ELSE TakenKeys(doc)
<1> DEFINE n == Len(doc)
<1>1. /\ n \in Nat /\ DOMAIN doc = 1 .. n /\ DOMAIN new = 1 .. n + 1
      /\ \A i \in 1 .. n : new[i] = doc[i]
      /\ new[n + 1] = p
  BY DocumentOn
<1> HIDE DEF n
<1>2. 1 .. n + 1 = (1 .. n) \cup {n + 1}
  BY <1>1
<1>3. ASSUME NEW k
      PROVE  k \in TakenKeys(new) <=> k \in TakenKeys(doc) \/ (Taken(p) /\ k = Key(p))
  BY <1>1, <1>2 DEF TakenKeys
<1> QED
  BY <1>3

LEMMA ZonesStep ==
  ASSUME ZonesInv, NEW p \in Offered, read' = Append(read, p),
         TakePlacemark(p) \/ SkipPlacemark(p)
  PROVE  ZonesInv'
<1> DEFINE n == Len(read)
<1>1. /\ read' \in Seq(Offered) /\ n \in Nat /\ DOMAIN read = 1 .. n
      /\ \A i \in 1 .. n : read'[i] = read[i]
      /\ read'[n + 1] = p
  BY DocumentOn DEF ZonesInv
<1>2. ASSUME NEW k
      PROVE  /\ DrawnIn(read', k) = IF DrawnFor(p, k)
                                    THEN DrawnIn(read, k) \cup {n + 1} ELSE DrawnIn(read, k)
             /\ StatingIn(read', k) = IF Stating(p, k)
                                      THEN StatingIn(read, k) \cup {n + 1}
                                      ELSE StatingIn(read, k)
             /\ DrawnIn(read, k) \in SUBSET (1 .. n)
             /\ StatingIn(read, k) \in SUBSET (1 .. n)
  <2>1. read \in Seq(Offered)
    BY DEF ZonesInv
  <2>2. DrawnIn(read', k) = IF DrawnFor(p, k) THEN DrawnIn(read, k) \cup {Len(read) + 1}
                            ELSE DrawnIn(read, k)
    BY <2>1, DrawnOn, Zenon
  <2>3. StatingIn(read', k) = IF Stating(p, k) THEN StatingIn(read, k) \cup {Len(read) + 1}
                              ELSE StatingIn(read, k)
    BY <2>1, DrawnOn, Zenon
  <2>4. /\ DrawnIn(read, k) \in SUBSET (1 .. Len(read))
        /\ StatingIn(read, k) \in SUBSET (1 .. Len(read))
    BY <2>1, DrawnOn
  <2> QED
    BY <2>2, <2>3, <2>4 DEF n
<1>3. TakenKeys(read') = IF Taken(p) THEN TakenKeys(read) \cup {Key(p)} ELSE TakenKeys(read)
  BY KeysOn DEF ZonesInv
<1>4. ASSUME NEW k
      PROVE  k \in TakenKeys(read) <=> DrawnIn(read, k) # {}
  BY DEF TakenKeys, DrawnIn, DrawnFor
<1> HIDE DEF n
<1>5. ASSUME NEW k
      PROVE  /\ DrawnIn(read, k) # {} =>
                  Min(DrawnIn(read', k)) = Min(DrawnIn(read, k))
                  /\ read'[Min(DrawnIn(read, k))] = read[Min(DrawnIn(read, k))]
             /\ StatingIn(read, k) # {} =>
                  /\ StatingIn(read', k) # {}
                  /\ Min(StatingIn(read', k)) = Min(StatingIn(read, k))
                  /\ read'[Min(StatingIn(read, k))] = read[Min(StatingIn(read, k))]
             /\ DrawnIn(read, k) = {} /\ DrawnFor(p, k) =>
                  Min(DrawnIn(read', k)) = n + 1
             /\ StatingIn(read, k) = {} /\ Stating(p, k) =>
                  StatingIn(read', k) # {} /\ Min(StatingIn(read', k)) = n + 1
  <2> DEFINE D == DrawnIn(read, k)
             S == StatingIn(read, k)
             E == DrawnIn(read', k)
             T == StatingIn(read', k)
  <2>1. /\ E = IF DrawnFor(p, k) THEN D \cup {n + 1} ELSE D
        /\ T = IF Stating(p, k) THEN S \cup {n + 1} ELSE S
        /\ D \in SUBSET (1 .. n) /\ S \in SUBSET (1 .. n)
    BY <1>2
  <2> HIDE DEF D, S, E, T
  <2>2. /\ D # {} => E # {} /\ Min(E) = Min(D) /\ Min(D) \in 1 .. n
        /\ D = {} /\ E # {} => Min(E) = n + 1
    BY <1>1, <2>1, FirstStays
  <2>3. /\ S # {} => T # {} /\ Min(T) = Min(S) /\ Min(S) \in 1 .. n
        /\ S = {} /\ T # {} => Min(T) = n + 1
    BY <1>1, <2>1, FirstStays
  <2> QED
    BY <1>1, <2>1, <2>2, <2>3 DEF D, S, E, T
<1>6. ASSUME NEW k \in DOMAIN groups, ~DrawnFor(p, k)
      PROVE  ZoneFrom(groups[k], read', k)
  <2>1. StatingIn(read', k) = StatingIn(read, k) /\ DrawnIn(read, k) # {}
    BY <1>2, <1>4, <1>6 DEF ZonesInv, Stating
  <2>2. ZoneFrom(groups[k], read, k)
    BY DEF ZonesInv
  <2> QED
    BY <1>5, <2>1, <2>2 DEF ZoneFrom
<1>7. CASE SkipPlacemark(p)
  <2>1. ~Taken(p) /\ groups' = groups
    BY <1>7 DEF SkipPlacemark
  <2>2. DOMAIN groups' = TakenKeys(read')
    BY <1>3, <2>1 DEF ZonesInv
  <2>3. \A k \in DOMAIN groups' : ZoneFrom(groups'[k], read', k)
    BY <1>6, <2>1 DEF DrawnFor
  <2> QED
    BY <1>1, <2>2, <2>3 DEF ZonesInv
<1>8. CASE TakePlacemark(p)
  <2> DEFINE key == Key(p)
  <2>1. /\ Taken(p)
        /\ groups' = [k \in DOMAIN groups \cup {key} |-> IF k = key THEN Joined(p) ELSE groups[k]]
    BY <1>8 DEF TakePlacemark
  <2>2. DOMAIN groups' = TakenKeys(read')
    BY <1>3, <2>1 DEF ZonesInv
  <2>3. ZoneFrom(Joined(p), read', key)
    <3> DEFINE old == Group(p)
    <3>1. /\ Joined(p) = [old EXCEPT !.note = IF @ = Absent THEN p.note ELSE @,
                                     !.shapes = Put(@, Marine(p))]
      BY DEF Joined
    <3>2. CASE key \in DOMAIN groups
      <4>1. old = groups[key]
        BY <3>2 DEF Group
      <4>2. ZoneFrom(old, read, key) /\ DrawnIn(read, key) # {}
        BY <1>4, <3>2, <4>1 DEF ZonesInv
      <4> HIDE DEF old, key
      <4>3. /\ DOMAIN Joined(p) = {"name", "note", "folder", "shapes"}
            /\ Joined(p).note = IF old.note = Absent THEN p.note ELSE old.note
            /\ Joined(p).folder = old.folder /\ Joined(p).name = old.name
        BY <3>1, <4>2 DEF ZoneFrom
      <4>4. /\ Joined(p).folder = read'[Min(DrawnIn(read', key))].folder
            /\ Joined(p).name = ZoneName(read'[Min(DrawnIn(read', key))])
        BY <1>5, <4>2, <4>3 DEF ZoneFrom
      <4>5. Joined(p).note = IF StatingIn(read', key) = {} THEN Absent
                             ELSE read'[Min(StatingIn(read', key))].note
        <5>1. CASE StatingIn(read, key) # {}
          <6>1. Min(StatingIn(read, key)) \in StatingIn(read, key)
            BY <1>1, <1>2, <5>1, FirstPosition
          <6>2. old.note = read[Min(StatingIn(read, key))].note /\ old.note # Absent
            BY <4>2, <5>1, <6>1 DEF ZoneFrom, StatingIn, Stating
          <6> QED
            BY <1>5, <4>3, <5>1, <6>2
        <5>2. CASE StatingIn(read, key) = {}
          <6>1. old.note = Absent
            BY <4>2, <5>2 DEF ZoneFrom
          <6>2. CASE p.note = Absent
            BY <1>2, <4>3, <5>2, <6>1, <6>2 DEF Stating
          <6>3. CASE p.note # Absent
            BY <1>1, <1>5, <2>1, <4>3, <5>2, <6>1, <6>3 DEF key, Stating, DrawnFor
          <6> QED
            BY <6>2, <6>3
        <5> QED
          BY <5>1, <5>2
      <4> QED
        BY <4>3, <4>4, <4>5 DEF ZoneFrom
    <3>3. CASE key \notin DOMAIN groups
      <4>1. old = [name |-> ZoneName(p), note |-> p.note, folder |-> p.folder, shapes |-> <<>>]
        BY <3>3 DEF Group
      <4>2. /\ DOMAIN Joined(p) = {"name", "note", "folder", "shapes"}
            /\ Joined(p).note = p.note
            /\ Joined(p).folder = p.folder /\ Joined(p).name = ZoneName(p)
        BY <3>1, <4>1
      <4>3. DrawnIn(read, key) = {} /\ StatingIn(read, key) = {}
        BY <1>4, <3>3 DEF ZonesInv, StatingIn, DrawnIn, Stating
      <4>4. Min(DrawnIn(read', key)) = n + 1
        BY <1>5, <2>1, <4>3 DEF DrawnFor
      <4>5. Joined(p).note = IF StatingIn(read', key) = {} THEN Absent
                             ELSE read'[Min(StatingIn(read', key))].note
        <5>1. CASE p.note = Absent
          BY <1>2, <4>2, <4>3, <5>1 DEF Stating
        <5>2. CASE p.note # Absent
          BY <1>1, <1>5, <2>1, <4>2, <4>3, <5>2 DEF Stating, DrawnFor
        <5> QED
          BY <5>1, <5>2
      <4> QED
        BY <1>1, <4>2, <4>4, <4>5 DEF ZoneFrom
    <3> QED
      BY <3>2, <3>3
  <2>4. ASSUME NEW k \in DOMAIN groups'
        PROVE  ZoneFrom(groups'[k], read', k)
    <3>1. CASE k = key
      <4>1. groups'[k] = Joined(p)
        BY <2>1, <3>1
      <4> QED
        BY <2>3, <3>1, <4>1
    <3>2. CASE k # key
      <4>1. k \in DOMAIN groups /\ groups'[k] = groups[k]
        BY <2>1, <3>2
      <4> QED
        BY <1>6, <3>2, <4>1 DEF DrawnFor
    <3> QED
      BY <3>1, <3>2
  <2> QED
    BY <1>1, <2>2, <2>4 DEF ZonesInv
<1> QED
  BY <1>7, <1>8

(* In a document of any length, a zone takes its name and folder from the    *)
(* first placemark it is drawn from and its rules from the first of those    *)
(* that states any.                                                          *)
THEOREM RulesOfFirstNote == Spec => []FactsOfFirstNote
<1>1. Init => ZonesInv
  BY EmptySeq DEF Init, ZonesInv, TakenKeys
<1>2. ZonesInv /\ [Next]_vars => ZonesInv'
  <2>1. CASE UNCHANGED vars
    BY <2>1 DEF vars, ZonesInv
  <2>2. CASE Next
    BY <2>2, ZonesStep DEF Next
  <2> QED
    BY <2>1, <2>2
<1>3. ZonesInv => FactsOfFirstNote
  BY DEF ZonesInv, ZoneFrom, DrawnIn, DrawnFor, StatingIn, Stating, FactsOfFirstNote
<1> QED
  BY <1>1, <1>2, <1>3, PTL DEF Spec

-----------------------------------------------------------------------------
(* Turning and reversing a sequence *)

\* The position after i, and the one k further, in a cycle of n.
After(n, i) == IF i < n THEN i + 1 ELSE 1

Further(n, i, k) == IF i + k <= n THEN i + k ELSE i + k - n

LEMMA RotationAt ==
  ASSUME NEW n \in Nat, NEW s \in [1 .. n -> Nat], NEW k \in 1 .. n
  PROVE  /\ Rotation(s, k) \in [1 .. n -> Nat]
         /\ \A i \in 1 .. n : Rotation(s, k)[i] = s[Further(n, i, k)]
         /\ \A i \in 1 .. n : Further(n, i, k) \in 1 .. n
<1> DEFINE a == SubSeq(s, k + 1, n)
           b == SubSeq(s, 1, k)
<1>1. s \in Seq(Nat) /\ Len(s) = n
  OBVIOUS
<1>2. /\ a \in Seq(Nat) /\ Len(a) = n - k
      /\ \A i \in 1 .. n - k : a[i] = s[k + i]
  BY <1>1
<1>3. b \in Seq(Nat) /\ Len(b) = k /\ \A i \in 1 .. k : b[i] = s[i]
  BY <1>1
<1>4. Rotation(s, k) = a \o b
  BY <1>1 DEF Rotation
<1> HIDE DEF a, b
<1>5. /\ a \o b \in Seq(Nat) /\ Len(a \o b) = Len(a) + Len(b)
      /\ \A i \in 1 .. Len(a) + Len(b) :
           (a \o b)[i] = IF i <= Len(a) THEN a[i] ELSE b[i - Len(a)]
  BY <1>2, <1>3, ConcatProperties
<1>6. Len(a) + Len(b) = n
  BY <1>2, <1>3
<1>7. a \o b \in [1 .. n -> Nat]
  <2>1. Len(a \o b) = n
    BY <1>5, <1>6
  <2> QED
    BY <1>5, <2>1, LenProperties
<1>8. ASSUME NEW i \in 1 .. n
      PROVE  Further(n, i, k) \in 1 .. n /\ (a \o b)[i] = s[Further(n, i, k)]
  <2>1. CASE i + k <= n
    <3>1. i <= n - k /\ i \in 1 .. n - k /\ Further(n, i, k) = k + i
      BY <2>1 DEF Further
    <3> QED
      BY <1>2, <1>5, <1>6, <3>1
  <2>2. CASE ~(i + k <= n)
    <3>1. ~(i <= n - k) /\ i - (n - k) \in 1 .. k /\ Further(n, i, k) = i - (n - k)
      BY <2>2 DEF Further
    <3>2. (a \o b)[i] = b[i - (n - k)]
      BY <1>2, <1>5, <1>6, <3>1
    <3> QED
      BY <1>3, <3>1, <3>2
  <2> QED
    BY <2>1, <2>2
<1> QED
  BY <1>4, <1>7, <1>8

LEMMA ReverseAt ==
  ASSUME NEW n \in Nat, NEW s \in [1 .. n -> Nat]
  PROVE  /\ Reverse(s) \in [1 .. n -> Nat]
         /\ \A i \in 1 .. n : Reverse(s)[i] = s[n - i + 1] /\ n - i + 1 \in 1 .. n
         /\ Reverse(Reverse(s)) = s
<1>1. Len(s) = n
  OBVIOUS
<1>2. /\ Reverse(s) \in [1 .. n -> Nat]
      /\ \A i \in 1 .. n : Reverse(s)[i] = s[n - i + 1] /\ n - i + 1 \in 1 .. n
  BY <1>1 DEF Reverse
<1>3. Reverse(Reverse(s)) = s
  <2> DEFINE r == Reverse(s)
  <2>1. Len(r) = n
    BY <1>2
  <2>2. Reverse(r) = [i \in 1 .. n |-> r[n - i + 1]]
    BY <2>1 DEF Reverse
  <2> HIDE DEF r
  <2>3. \A i \in 1 .. n : n - i + 1 \in 1 .. n /\ n - (n - i + 1) + 1 = i
    OBVIOUS
  <2>4. \A i \in 1 .. n : r[n - i + 1] = s[i]
    BY <1>2, <2>3 DEF r
  <2> QED
    BY <2>2, <2>4 DEF r
<1> QED
  BY <1>2, <1>3

\* How far to turn on until a cycle is back where it was.
Back(n, k) == IF k = n THEN n ELSE n - k

LEMMA RotationTwice ==
  ASSUME NEW n \in Nat, NEW s \in [1 .. n -> Nat], NEW j \in 1 .. n, NEW k \in 1 .. n
  PROVE  /\ Further(n, j, k) \in 1 .. n
         /\ Rotation(Rotation(s, j), k) = Rotation(s, Further(n, j, k))
<1> DEFINE r == Rotation(s, j)
           m == Further(n, j, k)
<1>1. r \in [1 .. n -> Nat] /\ \A i \in 1 .. n : r[i] = s[Further(n, i, j)]
  BY RotationAt
<1>2. m \in 1 .. n
  BY DEF Further
<1> HIDE DEF r, m
<1>3. /\ Rotation(r, k) \in [1 .. n -> Nat]
      /\ \A i \in 1 .. n : Rotation(r, k)[i] = r[Further(n, i, k)] /\ Further(n, i, k) \in 1 .. n
  BY <1>1, RotationAt
<1>4. /\ Rotation(s, m) \in [1 .. n -> Nat]
      /\ \A i \in 1 .. n : Rotation(s, m)[i] = s[Further(n, i, m)]
  BY <1>2, RotationAt
<1>5. ASSUME NEW i \in 1 .. n
      PROVE  Further(n, Further(n, i, k), j) = Further(n, i, m)
  BY DEF Further, m
<1>6. ASSUME NEW i \in 1 .. n
      PROVE  Rotation(r, k)[i] = Rotation(s, m)[i]
  <2>1. Rotation(r, k)[i] = r[Further(n, i, k)] /\ Further(n, i, k) \in 1 .. n
    BY <1>3
  <2>2. r[Further(n, i, k)] = s[Further(n, Further(n, i, k), j)]
    BY <1>1, <2>1
  <2> QED
    BY <1>4, <1>5, <2>1, <2>2
<1>7. Rotation(r, k) = Rotation(s, m)
  BY <1>3, <1>4, <1>6
<1> QED
  BY <1>2, <1>7 DEF r, m

LEMMA RotationBack ==
  ASSUME NEW n \in Nat, NEW s \in [1 .. n -> Nat], NEW k \in 1 .. n
  PROVE  /\ Back(n, k) \in 1 .. n
         /\ Rotation(Rotation(s, k), Back(n, k)) = s
<1>1. Back(n, k) \in 1 .. n /\ Further(n, k, Back(n, k)) = n /\ n \in 1 .. n
  BY DEF Back, Further
<1>2. /\ Rotation(s, n) \in [1 .. n -> Nat]
      /\ \A i \in 1 .. n : Rotation(s, n)[i] = s[Further(n, i, n)]
  BY <1>1, RotationAt
<1>3. \A i \in 1 .. n : Further(n, i, n) = i
  BY DEF Further
<1>4. Rotation(s, n) = s
  BY <1>2, <1>3
<1> QED
  BY <1>1, <1>4, RotationTwice

LEMMA ReverseOfRotation ==
  ASSUME NEW n \in Nat, NEW s \in [1 .. n -> Nat], NEW k \in 1 .. n
  PROVE  Reverse(Rotation(s, k)) = Rotation(Reverse(s), Back(n, k))
<1> DEFINE r == Rotation(s, k)
           v == Reverse(s)
           m == Back(n, k)
<1>1. r \in [1 .. n -> Nat] /\ \A i \in 1 .. n : r[i] = s[Further(n, i, k)]
  BY RotationAt
<1>2. v \in [1 .. n -> Nat] /\ \A i \in 1 .. n : v[i] = s[n - i + 1]
  BY ReverseAt
<1>3. m \in 1 .. n
  BY DEF Back
<1> HIDE DEF r, v, m
<1>4. /\ Reverse(r) \in [1 .. n -> Nat]
      /\ \A i \in 1 .. n : Reverse(r)[i] = r[n - i + 1] /\ n - i + 1 \in 1 .. n
  BY <1>1, ReverseAt
<1>5. /\ Rotation(v, m) \in [1 .. n -> Nat]
      /\ \A i \in 1 .. n : Rotation(v, m)[i] = v[Further(n, i, m)] /\ Further(n, i, m) \in 1 .. n
  BY <1>2, <1>3, RotationAt
<1>6. ASSUME NEW i \in 1 .. n
      PROVE  Further(n, n - i + 1, k) = n - Further(n, i, m) + 1
  BY DEF Further, Back, m
<1>7. ASSUME NEW i \in 1 .. n
      PROVE  Reverse(r)[i] = Rotation(v, m)[i]
  <2>1. Reverse(r)[i] = r[n - i + 1] /\ n - i + 1 \in 1 .. n
    BY <1>4
  <2>2. r[n - i + 1] = s[Further(n, n - i + 1, k)]
    BY <1>1, <2>1
  <2>3. Rotation(v, m)[i] = v[Further(n, i, m)] /\ Further(n, i, m) \in 1 .. n
    BY <1>5
  <2>4. v[Further(n, i, m)] = s[n - Further(n, i, m) + 1]
    BY <1>2, <2>3
  <2> QED
    BY <1>6, <2>1, <2>2, <2>3, <2>4
<1>8. Reverse(r) = Rotation(v, m)
  BY <1>4, <1>5, <1>7
<1> QED
  BY <1>8 DEF r, v, m

-----------------------------------------------------------------------------
(* What an outline draws *)

NeverTwice(n, s) == \A i, j \in 1 .. n : s[i] = s[j] => i = j

PathEdges(n, s) == {{s[i], s[i + 1]} : i \in 1 .. n - 1}

CycleEdges(n, s) == {{s[i], s[After(n, i)]} : i \in 1 .. n}

LEMMA SamePair ==
  ASSUME NEW a, NEW b, NEW c, NEW d, {a, b} = {c, d}
  PROVE  (a = c /\ b = d) \/ (a = d /\ b = c)
<1>1. a \in {c, d} /\ b \in {c, d} /\ c \in {a, b} /\ d \in {a, b}
  OBVIOUS
<1> QED
  BY <1>1

LEMMA PathEdge ==
  ASSUME NEW n, NEW s, NEW a, NEW b, NEW i \in 1 .. n - 1,
         \/ a = s[i] /\ b = s[i + 1]
         \/ a = s[i + 1] /\ b = s[i]
  PROVE  {a, b} \in PathEdges(n, s)
<1>1. {a, b} = {s[i], s[i + 1]}
  OBVIOUS
<1> QED
  BY <1>1 DEF PathEdges

LEMMA CycleEdge ==
  ASSUME NEW n, NEW s, NEW a, NEW b, NEW i \in 1 .. n,
         \/ a = s[i] /\ b = s[After(n, i)]
         \/ a = s[After(n, i)] /\ b = s[i]
  PROVE  {a, b} \in CycleEdges(n, s)
<1>1. {a, b} = {s[i], s[After(n, i)]}
  OBVIOUS
<1> QED
  BY <1>1 DEF CycleEdges

LEMMA AfterIn ==
  ASSUME NEW n \in Nat, NEW i \in 1 .. n
  PROVE  After(n, i) \in 1 .. n
BY DEF After

\* Neither turning nor reversing an outline changes what it draws, or makes it
\* pass a position twice.
LEMMA TurnedDrawsLess ==
  ASSUME NEW n \in Nat, NEW s \in [1 .. n -> Nat], NEW k \in 1 .. n
  PROVE  CycleEdges(n, Rotation(s, k)) \subseteq CycleEdges(n, s)
<1> DEFINE r == Rotation(s, k)
<1>1. \A i \in 1 .. n : r[i] = s[Further(n, i, k)] /\ Further(n, i, k) \in 1 .. n
  BY RotationAt
<1> HIDE DEF r
<1>2. ASSUME NEW i \in 1 .. n
      PROVE  {r[i], r[After(n, i)]} \in CycleEdges(n, s)
  <2> DEFINE j == Further(n, i, k)
  <2>1. j \in 1 .. n /\ After(n, i) \in 1 .. n
    BY <1>1, AfterIn
  <2>2. Further(n, After(n, i), k) = After(n, j)
    BY DEF Further, After
  <2>3. r[i] = s[j] /\ r[After(n, i)] = s[After(n, j)]
    BY <1>1, <2>1, <2>2
  <2> QED
    BY <2>1, <2>3 DEF CycleEdges
<1> QED
  BY <1>2 DEF CycleEdges, r

LEMMA TurnedDrawsSame ==
  ASSUME NEW n \in Nat, NEW s \in [1 .. n -> Nat], NEW k \in 1 .. n
  PROVE  /\ Rotation(s, k) \in [1 .. n -> Nat]
         /\ CycleEdges(n, Rotation(s, k)) = CycleEdges(n, s)
         /\ NeverTwice(n, s) => NeverTwice(n, Rotation(s, k))
<1> DEFINE r == Rotation(s, k)
           m == Back(n, k)
<1>1. /\ r \in [1 .. n -> Nat]
      /\ \A i \in 1 .. n : r[i] = s[Further(n, i, k)] /\ Further(n, i, k) \in 1 .. n
  BY RotationAt
<1>2. m \in 1 .. n /\ Rotation(r, m) = s
  BY RotationBack
<1>3. CycleEdges(n, r) \subseteq CycleEdges(n, s)
  BY TurnedDrawsLess
<1> HIDE DEF r, m
<1>4. CycleEdges(n, s) \subseteq CycleEdges(n, r)
  BY <1>1, <1>2, TurnedDrawsLess
<1>5. ASSUME NeverTwice(n, s), NEW i \in 1 .. n, NEW j \in 1 .. n, r[i] = r[j]
      PROVE  i = j
  <2>1. Further(n, i, k) = Further(n, j, k)
    BY <1>1, <1>5 DEF NeverTwice
  <2> QED
    BY <2>1 DEF Further
<1> QED
  BY <1>1, <1>3, <1>4, <1>5 DEF NeverTwice, r

LEMMA ReversedDrawsLess ==
  ASSUME NEW n \in Nat, NEW s \in [1 .. n -> Nat]
  PROVE  /\ CycleEdges(n, Reverse(s)) \subseteq CycleEdges(n, s)
         /\ PathEdges(n, Reverse(s)) \subseteq PathEdges(n, s)
<1> DEFINE r == Reverse(s)
<1>1. \A i \in 1 .. n : r[i] = s[n - i + 1] /\ n - i + 1 \in 1 .. n
  BY ReverseAt
<1> HIDE DEF r
<1>2. ASSUME NEW i \in 1 .. n
      PROVE  {r[i], r[After(n, i)]} \in CycleEdges(n, s)
  <2> DEFINE j == n - After(n, i) + 1
  <2>1. j \in 1 .. n /\ After(n, i) \in 1 .. n
    BY <1>1, AfterIn
  <2>2. n - i + 1 = After(n, j)
    BY DEF After
  <2>3. r[After(n, i)] = s[j] /\ r[i] = s[After(n, j)]
    BY <1>1, <2>1, <2>2
  <2> QED
    BY <2>1, <2>3, CycleEdge
<1>3. ASSUME NEW i \in 1 .. n - 1
      PROVE  {r[i], r[i + 1]} \in PathEdges(n, s)
  <2> DEFINE j == n - i
  <2>1. /\ j \in 1 .. n - 1 /\ i \in 1 .. n /\ i + 1 \in 1 .. n
        /\ n - i + 1 = j + 1 /\ n - (i + 1) + 1 = j
    OBVIOUS
  <2>2. r[i + 1] = s[j] /\ r[i] = s[j + 1]
    BY <1>1, <2>1
  <2> QED
    BY <2>1, <2>2, PathEdge
<1> QED
  BY <1>2, <1>3 DEF CycleEdges, PathEdges, r

LEMMA ReversedDrawsSame ==
  ASSUME NEW n \in Nat, NEW s \in [1 .. n -> Nat]
  PROVE  /\ Reverse(s) \in [1 .. n -> Nat]
         /\ CycleEdges(n, Reverse(s)) = CycleEdges(n, s)
         /\ PathEdges(n, Reverse(s)) = PathEdges(n, s)
         /\ NeverTwice(n, s) => NeverTwice(n, Reverse(s))
<1> DEFINE r == Reverse(s)
<1>1. /\ r \in [1 .. n -> Nat] /\ Reverse(r) = s
      /\ \A i \in 1 .. n : r[i] = s[n - i + 1] /\ n - i + 1 \in 1 .. n
  BY ReverseAt
<1>2. /\ CycleEdges(n, r) \subseteq CycleEdges(n, s)
      /\ PathEdges(n, r) \subseteq PathEdges(n, s)
  BY ReversedDrawsLess
<1> HIDE DEF r
<1>3. /\ CycleEdges(n, s) \subseteq CycleEdges(n, r)
      /\ PathEdges(n, s) \subseteq PathEdges(n, r)
  BY <1>1, ReversedDrawsLess
<1>4. ASSUME NeverTwice(n, s), NEW i \in 1 .. n, NEW j \in 1 .. n, r[i] = r[j]
      PROVE  i = j
  <2>1. n - i + 1 = n - j + 1
    BY <1>1, <1>4 DEF NeverTwice
  <2> QED
    BY <2>1
<1> QED
  BY <1>1, <1>2, <1>3, <1>4 DEF NeverTwice, r

\* An outline whose segments are those of s, and that starts as s does, goes on
\* as s does: the first position where it departs from s would have to be one it
\* has passed.
LEMMA PathFollows ==
  ASSUME NEW n \in Nat, NEW s \in [1 .. n -> Nat], NeverTwice(n, s),
         NEW m \in Nat, NEW t \in [1 .. m -> Nat], NeverTwice(m, t),
         PathEdges(m, t) \subseteq PathEdges(n, s), 1 <= n, t[1] = s[1]
  PROVE  \A i \in 1 .. m : i <= n /\ t[i] = s[i]
<1> DEFINE Bad == {i \in 1 .. m : ~(i <= n /\ t[i] = s[i])}
<1>1. SUFFICES ASSUME Bad # {} PROVE FALSE
  OBVIOUS
<1> DEFINE b == Min(Bad)
<1>2. b \in Bad /\ \A j \in Bad : b <= j
  BY <1>1, FirstPosition
<1> HIDE DEF b
<1>3. b \in 1 .. m /\ ~(b <= n /\ t[b] = s[b])
  BY <1>2
<1>4. b # 1
  BY <1>3
<1>5. ASSUME NEW j \in 1 .. m, j < b
      PROVE  j <= n /\ t[j] = s[j]
  <2>1. j \notin Bad
    BY <1>2, <1>3, <1>5
  <2> QED
    BY <2>1
<1> HIDE DEF Bad
<1> DEFINE a == b - 1
<1>6. a \in 1 .. m /\ a \in 1 .. m - 1 /\ a < b /\ a + 1 = b
  BY <1>3, <1>4
<1>7. a <= n /\ t[a] = s[a] /\ a \in 1 .. n
  BY <1>5, <1>6
<1>8. {t[a], t[b]} \in PathEdges(n, s)
  BY <1>6, PathEdge
<1> HIDE DEF a
<1>9. PICK j \in 1 .. n - 1 : \/ t[a] = s[j] /\ t[b] = s[j + 1]
                              \/ t[a] = s[j + 1] /\ t[b] = s[j]
  <2>1. PICK j \in 1 .. n - 1 : {t[a], t[b]} = {s[j], s[j + 1]}
    BY <1>8 DEF PathEdges
  <2>2. t[a] \in {s[j], s[j + 1]} /\ t[b] \in {s[j], s[j + 1]}
    BY <2>1, Zenon
  <2>3. s[j] \in {t[a], t[b]} /\ s[j + 1] \in {t[a], t[b]}
    BY <2>1, Zenon
  <2> QED
    BY <2>2, <2>3
<1>10. j \in 1 .. n /\ j + 1 \in 1 .. n
  OBVIOUS
<1>11. CASE t[a] = s[j] /\ t[b] = s[j + 1]
  <2>1. a = j
    BY <1>7, <1>10, <1>11 DEF NeverTwice
  <2> QED
    BY <1>3, <1>6, <1>10, <1>11, <2>1
<1>12. CASE t[a] = s[j + 1] /\ t[b] = s[j]
  <2>1. a = j + 1
    BY <1>7, <1>10, <1>12 DEF NeverTwice
  <2>2. j \in 1 .. m /\ j < b /\ j # b
    BY <1>3, <1>6, <2>1
  <2>3. t[j] = s[j]
    BY <1>5, <2>2
  <2> QED
    BY <1>3, <1>12, <2>2, <2>3 DEF NeverTwice
<1> QED
  BY <1>9, <1>11, <1>12

LEMMA SamePath ==
  ASSUME NEW n \in Nat, NEW s \in [1 .. n -> Nat], NeverTwice(n, s),
         NEW m \in Nat, NEW t \in [1 .. m -> Nat], NeverTwice(m, t),
         PathEdges(m, t) = PathEdges(n, s), 1 <= n, 1 <= m, t[1] = s[1]
  PROVE  t = s
<1>1. \A i \in 1 .. m : i <= n /\ t[i] = s[i]
  BY PathFollows
<1>2. \A i \in 1 .. n : i <= m /\ s[i] = t[i]
  BY PathFollows
<1>3. m <= n /\ n <= m
  <2>1. m \in 1 .. m /\ n \in 1 .. n
    OBVIOUS
  <2> QED
    BY <1>1, <1>2, <2>1
<1>4. m = n
  BY <1>3
<1> QED
  BY <1>1, <1>4

\* Two open outlines with the same segments are one, or one and its reverse.
LEMMA PathOrReverse ==
  ASSUME NEW n \in Nat, NEW s \in [1 .. n -> Nat], NeverTwice(n, s), 2 <= n,
         NEW m \in Nat, NEW t \in [1 .. m -> Nat], NeverTwice(m, t), 2 <= m,
         PathEdges(m, t) = PathEdges(n, s)
  PROVE  t = s \/ t = Reverse(s)
<1>1. ASSUME NEW b, {t[1], b} \in PathEdges(m, t)
      PROVE  b = t[2]
  <2>1. PICK i \in 1 .. m - 1 : \/ t[1] = t[i] /\ b = t[i + 1]
                                \/ t[1] = t[i + 1] /\ b = t[i]
    <3>1. PICK i \in 1 .. m - 1 : {t[1], b} = {t[i], t[i + 1]}
      BY <1>1 DEF PathEdges
    <3>2. t[1] \in {t[i], t[i + 1]} /\ b \in {t[i], t[i + 1]}
      BY <3>1, Zenon
    <3>3. t[i] \in {t[1], b} /\ t[i + 1] \in {t[1], b}
      BY <3>1, Zenon
    <3> QED
      BY <3>2, <3>3
  <2>2. 1 \in 1 .. m /\ i \in 1 .. m /\ i + 1 \in 1 .. m /\ i + 1 # 1
    OBVIOUS
  <2>3. t[1] # t[i + 1]
    BY <2>2 DEF NeverTwice
  <2>4. i = 1
    BY <2>1, <2>2, <2>3 DEF NeverTwice
  <2> QED
    BY <2>1, <2>3, <2>4
<1>2. PICK i \in 1 .. n : t[1] = s[i]
  <2>1. {t[1], t[2]} \in PathEdges(m, t)
    <3>1. 1 \in 1 .. m - 1 /\ 1 + 1 = 2
      OBVIOUS
    <3> QED
      BY <3>1, PathEdge
  <2>2. PICK j \in 1 .. n - 1 : t[1] = s[j] \/ t[1] = s[j + 1]
    <3>1. PICK j \in 1 .. n - 1 : {t[1], t[2]} = {s[j], s[j + 1]}
      BY <2>1 DEF PathEdges
    <3> QED
      BY <3>1, SamePair
  <2>3. j \in 1 .. n /\ j + 1 \in 1 .. n
    OBVIOUS
  <2> QED
    BY <2>2, <2>3
<1>3. i = 1 \/ i = n
  <2>1. SUFFICES ASSUME i # 1, i # n PROVE FALSE
    OBVIOUS
  <2>2. /\ i \in 1 .. n - 1 /\ i - 1 \in 1 .. n - 1 /\ (i - 1) + 1 = i
        /\ i - 1 \in 1 .. n /\ i + 1 \in 1 .. n /\ i - 1 # i + 1
    BY <2>1
  <2>3. {t[1], s[i + 1]} \in PathEdges(n, s)
    BY <1>2, <2>2, PathEdge
  <2>4. {t[1], s[i - 1]} \in PathEdges(n, s)
    BY <1>2, <2>2, PathEdge
  <2>5. s[i + 1] = s[i - 1]
    BY <1>1, <2>3, <2>4
  <2> QED
    BY <2>2, <2>5 DEF NeverTwice
<1>4. CASE i = 1
  <2>1. t[1] = s[1] /\ 1 <= n /\ 1 <= m
    BY <1>2, <1>4
  <2>2. t = s
    BY <2>1, SamePath
  <2> QED
    BY <2>2
<1>5. CASE i = n
  <2> DEFINE r == Reverse(s)
  <2>1. r \in [1 .. n -> Nat] /\ PathEdges(n, r) = PathEdges(n, s) /\ NeverTwice(n, r)
    BY ReversedDrawsSame
  <2>2. r[1] = s[n - 1 + 1] /\ n - 1 + 1 = n
    <3>1. 1 \in 1 .. n
      OBVIOUS
    <3> QED
      BY <3>1, ReverseAt
  <2> HIDE DEF r
  <2>3. t[1] = r[1] /\ 1 <= n /\ 1 <= m
    BY <1>2, <1>5, <2>2
  <2>4. t = r
    BY <2>1, <2>3, SamePath
  <2> QED
    BY <2>4 DEF r
<1> QED
  BY <1>3, <1>4, <1>5

LEMMA CycleFollows ==
  ASSUME NEW n \in Nat, NEW s \in [1 .. n -> Nat], NeverTwice(n, s),
         NEW m \in Nat, NEW t \in [1 .. m -> Nat], NeverTwice(m, t),
         CycleEdges(m, t) \subseteq CycleEdges(n, s),
         2 <= n, 2 <= m, t[1] = s[1], t[2] = s[2]
  PROVE  \A i \in 1 .. m : i <= n /\ t[i] = s[i]
<1> DEFINE Bad == {i \in 1 .. m : ~(i <= n /\ t[i] = s[i])}
<1>1. SUFFICES ASSUME Bad # {} PROVE FALSE
  OBVIOUS
<1> DEFINE b == Min(Bad)
<1>2. b \in Bad /\ \A j \in Bad : b <= j
  BY <1>1, FirstPosition
<1> HIDE DEF b
<1>3. b \in 1 .. m /\ ~(b <= n /\ t[b] = s[b])
  BY <1>2
<1>4. b # 1 /\ b # 2
  BY <1>3
<1>5. ASSUME NEW j \in 1 .. m, j < b
      PROVE  j <= n /\ t[j] = s[j]
  <2>1. j \notin Bad
    BY <1>2, <1>3, <1>5
  <2> QED
    BY <2>1
<1> HIDE DEF Bad
<1> DEFINE a == b - 1
<1>6. a \in 1 .. m /\ a < m /\ a < b /\ a + 1 = b /\ 1 \in 1 .. m /\ a # 1
  BY <1>3, <1>4
<1>7. a <= n /\ t[a] = s[a] /\ a \in 1 .. n /\ 1 \in 1 .. n
  BY <1>5, <1>6
<1> HIDE DEF a
<1>8. {t[a], t[b]} \in CycleEdges(n, s)
  <2>1. After(m, a) = b
    BY <1>6 DEF After
  <2> QED
    BY <1>6, <2>1, CycleEdge
<1>9. PICK j \in 1 .. n : \/ t[a] = s[j] /\ t[b] = s[After(n, j)]
                          \/ t[a] = s[After(n, j)] /\ t[b] = s[j]
  <2>1. PICK j \in 1 .. n : {t[a], t[b]} = {s[j], s[After(n, j)]}
    BY <1>8 DEF CycleEdges
  <2> QED
    BY <2>1, SamePair
<1>10. After(n, j) \in 1 .. n
  BY AfterIn
<1>11. t[b] # t[1]
  BY <1>3, <1>4, <1>6 DEF NeverTwice
<1>12. CASE t[a] = s[j] /\ t[b] = s[After(n, j)]
  <2>1. a = j
    BY <1>7, <1>12 DEF NeverTwice
  <2>2. After(n, j) # 1
    BY <1>11, <1>12
  <2>3. j < n /\ After(n, j) = b
    BY <1>6, <2>1, <2>2 DEF After
  <2> QED
    BY <1>3, <1>6, <1>12, <2>1, <2>3
<1>13. CASE t[a] = s[After(n, j)] /\ t[b] = s[j]
  <2>1. a = After(n, j)
    BY <1>7, <1>10, <1>13 DEF NeverTwice
  <2>2. j < n /\ a = j + 1
    BY <1>6, <2>1 DEF After
  <2>3. j \in 1 .. m /\ j < b /\ j # b
    BY <1>3, <1>6, <2>2
  <2>4. t[j] = s[j]
    BY <1>5, <2>3
  <2> QED
    BY <1>3, <1>13, <2>3, <2>4 DEF NeverTwice
<1> QED
  BY <1>9, <1>12, <1>13

LEMMA SameCycle ==
  ASSUME NEW n \in Nat, NEW s \in [1 .. n -> Nat], NeverTwice(n, s),
         NEW m \in Nat, NEW t \in [1 .. m -> Nat], NeverTwice(m, t),
         CycleEdges(m, t) = CycleEdges(n, s),
         2 <= n, 2 <= m, t[1] = s[1], t[2] = s[2]
  PROVE  t = s
<1>1. \A i \in 1 .. m : i <= n /\ t[i] = s[i]
  BY CycleFollows
<1>2. \A i \in 1 .. n : i <= m /\ s[i] = t[i]
  BY CycleFollows
<1>3. m <= n /\ n <= m
  <2>1. m \in 1 .. m /\ n \in 1 .. n
    OBVIOUS
  <2> QED
    BY <1>1, <1>2, <2>1
<1>4. m = n
  BY <1>3
<1> QED
  BY <1>1, <1>4

Turns(n, s) == {Rotation(s, k) : k \in 1 .. n}

LEMMA TurnsOfTurned ==
  ASSUME NEW n \in Nat, NEW s \in [1 .. n -> Nat], NEW t \in Turns(n, s)
  PROVE  /\ t \in [1 .. n -> Nat]
         /\ Turns(n, t) = Turns(n, s)
         /\ Turns(n, Reverse(t)) = Turns(n, Reverse(s))
<1>1. ASSUME NEW a \in [1 .. n -> Nat], NEW j \in 1 .. n
      PROVE  Turns(n, Rotation(a, j)) \subseteq Turns(n, a)
  <2>1. \A k \in 1 .. n : /\ Further(n, j, k) \in 1 .. n
                          /\ Rotation(Rotation(a, j), k) = Rotation(a, Further(n, j, k))
    BY RotationTwice
  <2> QED
    BY <2>1 DEF Turns
<1>2. ASSUME NEW a \in [1 .. n -> Nat], NEW j \in 1 .. n
      PROVE  Turns(n, Rotation(a, j)) = Turns(n, a)
  <2>1. Rotation(a, j) \in [1 .. n -> Nat]
    BY TurnedDrawsSame
  <2>2. Back(n, j) \in 1 .. n /\ Rotation(Rotation(a, j), Back(n, j)) = a
    BY RotationBack
  <2>3. Turns(n, a) \subseteq Turns(n, Rotation(a, j))
    BY <1>1, <2>1, <2>2
  <2> QED
    BY <1>1, <2>3
<1>3. PICK k \in 1 .. n : t = Rotation(s, k)
  BY DEF Turns
<1>4. t \in [1 .. n -> Nat] /\ Turns(n, t) = Turns(n, s)
  BY <1>2, <1>3, TurnedDrawsSame
<1>5. Reverse(t) = Rotation(Reverse(s), Back(n, k)) /\ Back(n, k) \in 1 .. n
  BY <1>3, ReverseOfRotation, RotationBack
<1>6. Reverse(s) \in [1 .. n -> Nat]
  BY ReverseAt
<1> QED
  BY <1>2, <1>4, <1>5, <1>6

\* Two closed outlines with the same segments are one but for where they start
\* and which way they go.
LEMMA CycleOrTurned ==
  ASSUME NEW n \in Nat, NEW s \in [1 .. n -> Nat], NeverTwice(n, s), 2 <= n,
         NEW m \in Nat, NEW t \in [1 .. m -> Nat], NeverTwice(m, t), 2 <= m,
         CycleEdges(m, t) = CycleEdges(n, s)
  PROVE  t \in Turns(n, s) \/ t \in Turns(n, Reverse(s))
<1>1. {t[1], t[2]} \in CycleEdges(m, t)
  <2>1. 1 \in 1 .. m /\ After(m, 1) = 2
    BY DEF After
  <2> QED
    BY <2>1, CycleEdge
<1>2. PICK i \in 1 .. n : t[1] = s[i]
  <2>1. PICK j \in 1 .. n : {t[1], t[2]} = {s[j], s[After(n, j)]}
    BY <1>1 DEF CycleEdges
  <2>2. t[1] \in {s[j], s[After(n, j)]}
    BY <2>1, Zenon
  <2> QED
    BY <2>2, AfterIn
\* r is s turned to where t starts.
<1>3. PICK r \in Turns(n, s) : r[1] = t[1]
  <2>1. 1 \in 1 .. n
    OBVIOUS
  <2>2. CASE i = 1
    <3>1. n \in 1 .. n /\ Further(n, 1, n) = 1
      BY DEF Further
    <3>2. \A l \in 1 .. n : Rotation(s, n)[l] = s[Further(n, l, n)]
      BY <3>1, RotationAt
    <3> QED
      BY <1>2, <2>1, <2>2, <3>1, <3>2 DEF Turns
  <2>3. CASE i # 1
    <3>1. i - 1 \in 1 .. n /\ Further(n, 1, i - 1) = i
      BY <2>3 DEF Further
    <3>2. \A l \in 1 .. n : Rotation(s, i - 1)[l] = s[Further(n, l, i - 1)]
      BY <3>1, RotationAt
    <3> QED
      BY <1>2, <2>1, <3>1, <3>2 DEF Turns
  <2> QED
    BY <2>2, <2>3
<1>4. /\ r \in [1 .. n -> Nat] /\ NeverTwice(n, r)
      /\ CycleEdges(n, r) = CycleEdges(m, t)
  <2>1. PICK k \in 1 .. n : r = Rotation(s, k)
    BY DEF Turns
  <2> QED
    BY <2>1, TurnedDrawsSame
<1>5. t[2] = r[2] \/ t[2] = r[n]
  <2>1. PICK j \in 1 .. n : {t[1], t[2]} = {r[j], r[After(n, j)]}
    BY <1>1, <1>4 DEF CycleEdges
  <2>2. t[1] \in {r[j], r[After(n, j)]} /\ t[2] \in {r[j], r[After(n, j)]}
    BY <2>1, Zenon
  <2>3. r[j] \in {t[1], t[2]} /\ r[After(n, j)] \in {t[1], t[2]}
    BY <2>1, Zenon
  <2>4. 1 \in 1 .. n /\ After(n, j) \in 1 .. n
    BY DEF After
  <2>5. CASE r[j] = t[1] /\ t[2] = r[After(n, j)]
    <3>1. j = 1
      BY <1>3, <1>4, <2>4, <2>5 DEF NeverTwice
    <3>2. After(n, j) = 2
      BY <3>1 DEF After
    <3> QED
      BY <2>5, <3>2
  <2>6. CASE r[After(n, j)] = t[1] /\ t[2] = r[j]
    <3>1. After(n, j) = 1
      BY <1>3, <1>4, <2>4, <2>6 DEF NeverTwice
    <3>2. j = n
      BY <3>1 DEF After
    <3> QED
      BY <2>6, <3>2
  <2> QED
    BY <2>2, <2>3, <2>5, <2>6
<1>6. CASE t[2] = r[2]
  <2>1. t = r
    BY <1>3, <1>4, <1>6, SameCycle
  <2> QED
    BY <2>1
<1>7. CASE t[2] = r[n]
  <2> DEFINE v == Reverse(r)
             q == Rotation(v, n - 1)
  <2>1. /\ v \in [1 .. n -> Nat] /\ NeverTwice(n, v) /\ CycleEdges(n, v) = CycleEdges(n, r)
        /\ \A k \in 1 .. n : v[k] = r[n - k + 1]
    BY <1>4, ReverseAt, ReversedDrawsSame
  <2>2. n - 1 \in 1 .. n /\ 1 \in 1 .. n /\ 2 \in 1 .. n
        /\ Further(n, 1, n - 1) = n /\ Further(n, 2, n - 1) = 1
    BY DEF Further
  <2> HIDE DEF v
  <2>3. /\ q \in [1 .. n -> Nat] /\ NeverTwice(n, q) /\ CycleEdges(n, q) = CycleEdges(n, v)
        /\ q[1] = v[n] /\ q[2] = v[1]
    <3>1. \A l \in 1 .. n : q[l] = v[Further(n, l, n - 1)]
      BY <2>1, <2>2, RotationAt
    <3>2. /\ q \in [1 .. n -> Nat] /\ CycleEdges(n, q) = CycleEdges(n, v)
          /\ NeverTwice(n, v) => NeverTwice(n, q)
      BY <2>1, <2>2, TurnedDrawsSame
    <3> HIDE DEF q
    <3> QED
      BY <2>1, <2>2, <3>1, <3>2
  <2>4. v[n] = r[1] /\ v[1] = r[n]
    <3>1. n \in 1 .. n /\ n - n + 1 = 1 /\ n - 1 + 1 = n
      OBVIOUS
    <3> QED
      BY <2>1, <2>2, <3>1
  <2>5. q \in Turns(n, v)
    BY <2>2 DEF Turns
  <2> HIDE DEF q
  <2>6. t[1] = q[1] /\ t[2] = q[2] /\ CycleEdges(m, t) = CycleEdges(n, q)
    BY <1>3, <1>4, <1>7, <2>1, <2>3, <2>4
  <2>7. t = q
    BY <2>3, <2>6, SameCycle
  <2>8. Turns(n, v) = Turns(n, Reverse(s))
    BY TurnsOfTurned DEF v
  <2> QED
    BY <2>5, <2>7, <2>8
<1> QED
  BY <1>5, <1>6, <1>7

-----------------------------------------------------------------------------
(* The least of some sequences of one length *)

LEMMA PrecedesTotal ==
  ASSUME NEW n \in Nat, NEW s \in [1 .. n -> Nat], NEW t \in [1 .. n -> Nat]
  PROVE  Precedes(s, t) \/ Precedes(t, s)
<1> DEFINE K == {i \in 1 .. n : s[i] # t[i]}
<1>1. CASE K = {}
  <2>1. s = t
    BY <1>1
  <2> QED
    BY <2>1 DEF Precedes
<1>2. CASE K # {}
  <2> DEFINE i == Min(K)
  <2>1. i \in K /\ \A j \in K : i <= j
    BY <1>2, FirstPosition
  <2> HIDE DEF i
  <2>2. i \in 1 .. n /\ s[i] # t[i] /\ s[i] \in Nat /\ t[i] \in Nat
    BY <2>1
  <2>3. \A j \in 1 .. (i - 1) : j \in 1 .. n /\ s[j] = t[j]
    <3>1. \A j \in 1 .. (i - 1) : j \in 1 .. n /\ ~(i <= j)
      BY <2>2
    <3> QED
      BY <2>1, <3>1
  <2>4. s[i] < t[i] \/ t[i] < s[i]
    BY <2>2
  <2>5. i \in DOMAIN s /\ i \in DOMAIN t
    BY <2>2
  <2> QED
    BY <2>3, <2>4, <2>5 DEF Precedes
<1> QED
  BY <1>1, <1>2

LEMMA PrecedesOn ==
  ASSUME NEW n \in Nat, NEW a \in [1 .. n -> Nat], NEW b \in [1 .. n -> Nat],
         NEW c \in [1 .. n -> Nat], Precedes(a, b), Precedes(b, c)
  PROVE  Precedes(a, c)
<1>1. CASE a = b \/ b = c
  BY <1>1
<1>2. CASE a # b /\ b # c
  <2>1. PICK i \in 1 .. n : a[i] < b[i] /\ \A l \in 1 .. (i - 1) : a[l] = b[l]
    BY <1>2 DEF Precedes
  <2>2. PICK j \in 1 .. n : b[j] < c[j] /\ \A l \in 1 .. (j - 1) : b[l] = c[l]
    BY <1>2 DEF Precedes
  <2>3. \A l \in 1 .. n : a[l] \in Nat /\ b[l] \in Nat /\ c[l] \in Nat
    OBVIOUS
  <2> DEFINE k == IF i <= j THEN i ELSE j
  <2>4. k \in 1 .. n /\ \A l \in 1 .. (k - 1) : l \in 1 .. (i - 1) /\ l \in 1 .. (j - 1)
    OBVIOUS
  <2>5. \A l \in 1 .. (k - 1) : a[l] = c[l]
    BY <2>1, <2>2, <2>4
  <2>6. a[k] < c[k]
    <3>1. CASE i = j
      BY <2>1, <2>2, <2>3, <3>1
    <3>2. CASE i < j
      <4>1. k = i /\ i \in 1 .. (j - 1)
        BY <3>2
      <4> QED
        BY <2>1, <2>2, <4>1
    <3>3. CASE j < i
      <4>1. k = j /\ j \in 1 .. (i - 1)
        BY <3>3
      <4> QED
        BY <2>1, <2>2, <4>1
    <3> QED
      BY <3>1, <3>2, <3>3
  <2> HIDE DEF k
  <2>7. k \in DOMAIN a
    BY <2>4
  <2> QED
    BY <2>5, <2>6, <2>7 DEF Precedes
<1> QED
  BY <1>1, <1>2

\* Of finitely many sequences of one length there is a least.
LEMMA LeastIsOne ==
  ASSUME NEW n \in Nat, NEW m \in Nat, 1 <= m, NEW r \in [1 .. m -> [1 .. n -> Nat]]
  PROVE  Least({r[k] : k \in 1 .. m}) \in {r[k] : k \in 1 .. m}
<1> DEFINE First(b, j) == \A k \in 1 .. b : Precedes(r[j], r[k])
           Bad == {b \in 1 .. m : ~\E j \in 1 .. b : First(b, j)}
<1>1. Bad = {}
  <2> SUFFICES ASSUME Bad # {} PROVE FALSE
    OBVIOUS
  <2> DEFINE b == Min(Bad)
  <2>1. b \in Bad /\ \A c \in Bad : b <= c
    BY FirstPosition
  <2> HIDE DEF b
  <2>2. b \in 1 .. m /\ ~\E j \in 1 .. b : First(b, j)
    BY <2>1
  <2>3. b # 1
    <3>1. First(1, 1)
      BY DEF Precedes
    <3>2. 1 \in 1 .. 1
      OBVIOUS
    <3> HIDE DEF First
    <3> QED
      BY <2>2, <3>1, <3>2
  <2>4. b - 1 \in 1 .. m /\ ~(b <= b - 1) /\ b \in 1 .. b
        /\ \A k \in 1 .. b : k \in 1 .. b - 1 \/ k = b
    BY <2>2, <2>3
  <2>5. PICK j \in 1 .. b - 1 : First(b - 1, j)
    BY <2>1, <2>4
  <2>6. j \in 1 .. b /\ j \in 1 .. m
    BY <2>2
  <2>7. \A k \in 1 .. m : r[k] \in [1 .. n -> Nat]
    OBVIOUS
  <2>8. Precedes(r[j], r[b]) \/ Precedes(r[b], r[j])
    BY <2>2, <2>6, <2>7, PrecedesTotal
  <2>9. CASE Precedes(r[j], r[b])
    <3>1. First(b, j)
      BY <2>4, <2>5, <2>9
    <3> QED
      BY <2>2, <2>6, <3>1
  <2>10. CASE Precedes(r[b], r[j])
    <3>1. ASSUME NEW k \in 1 .. b PROVE Precedes(r[b], r[k])
      <4>1. CASE k \in 1 .. b - 1
        <5>1. Precedes(r[j], r[k]) /\ k \in 1 .. m
          BY <2>2, <2>5, <4>1
        <5> QED
          BY <2>2, <2>6, <2>7, <2>10, <5>1, PrecedesOn
      <4>2. CASE k = b
        BY <4>2 DEF Precedes
      <4> QED
        BY <2>4, <4>1, <4>2
    <3> QED
      BY <2>2, <2>4, <3>1
  <2> QED
    BY <2>8, <2>9, <2>10
<1>2. \E j \in 1 .. m : First(m, j)
  <2>1. m \in 1 .. m
    OBVIOUS
  <2> QED
    BY <1>1, <2>1
<1> DEFINE S == {r[k] : k \in 1 .. m}
<1>3. \E s \in S : \A t \in S : Precedes(s, t)
  BY <1>2
<1> HIDE DEF S
<1>4. Least(S) \in S
  BY <1>3 DEF Least
<1> QED
  BY <1>4 DEF S

LEMMA LeastOfTwo ==
  ASSUME NEW n \in Nat, NEW a \in [1 .. n -> Nat], NEW b \in [1 .. n -> Nat]
  PROVE  Least({a, b}) \in {a, b}
<1> DEFINE r == [k \in 1 .. 2 |-> IF k = 1 THEN a ELSE b]
<1>1. r \in [1 .. 2 -> [1 .. n -> Nat]]
  OBVIOUS
<1>2. {r[k] : k \in 1 .. 2} = {a, b}
  <2>1. 1 \in 1 .. 2 /\ 2 \in 1 .. 2 /\ r[1] = a /\ r[2] = b
    OBVIOUS
  <2>2. \A k \in 1 .. 2 : r[k] \in {a, b}
    OBVIOUS
  <2> HIDE DEF r
  <2> QED
    BY <2>1, <2>2
<1> HIDE DEF r
<1>3. 2 \in Nat /\ 1 <= 2
  OBVIOUS
<1>4. Least({r[k] : k \in 1 .. 2}) \in {r[k] : k \in 1 .. 2}
  BY <1>1, <1>3, LeastIsOne
<1> QED
  BY <1>2, <1>4

LEMMA SmallestTurn ==
  ASSUME NEW n \in Nat, 1 <= n, NEW s \in [1 .. n -> Nat]
  PROVE  /\ SmallestRotation(s) = Least(Turns(n, s))
         /\ SmallestRotation(s) \in Turns(n, s)
<1> DEFINE r == [k \in 1 .. n |-> Rotation(s, k)]
<1>1. r \in [1 .. n -> [1 .. n -> Nat]]
  BY RotationAt
<1>2. {r[k] : k \in 1 .. n} = Turns(n, s)
  BY DEF Turns
<1> HIDE DEF r
<1>3. Least({r[k] : k \in 1 .. n}) \in {r[k] : k \in 1 .. n}
  BY <1>1, LeastIsOne
<1>4. SmallestRotation(s) = Least(Turns(n, s))
  BY DEF SmallestRotation, Turns
<1> QED
  BY <1>2, <1>3, <1>4

-----------------------------------------------------------------------------
(* Shapes look the same exactly if their fingerprints are the same *)

RingForm(s) == Least({SmallestRotation(s), SmallestRotation(Reverse(s))})

LEMMA RingFormDraws ==
  ASSUME NEW n \in Nat, 1 <= n, NEW s \in [1 .. n -> Nat]
  PROVE  /\ RingForm(s) \in [1 .. n -> Nat]
         /\ CycleEdges(n, RingForm(s)) = CycleEdges(n, s)
<1> DEFINE v == Reverse(s)
           a == SmallestRotation(s)
           b == SmallestRotation(v)
<1>1. v \in [1 .. n -> Nat] /\ CycleEdges(n, v) = CycleEdges(n, s)
  BY ReversedDrawsSame
<1> HIDE DEF v
<1>2. a \in Turns(n, s) /\ b \in Turns(n, v)
  BY <1>1, SmallestTurn
<1>3. ASSUME NEW u \in [1 .. n -> Nat], NEW t \in Turns(n, u)
      PROVE  t \in [1 .. n -> Nat] /\ CycleEdges(n, t) = CycleEdges(n, u)
  <2>1. PICK k \in 1 .. n : t = Rotation(u, k)
    BY DEF Turns
  <2> QED
    BY <2>1, TurnedDrawsSame
<1> HIDE DEF a, b
<1>4. /\ a \in [1 .. n -> Nat] /\ CycleEdges(n, a) = CycleEdges(n, s)
      /\ b \in [1 .. n -> Nat] /\ CycleEdges(n, b) = CycleEdges(n, s)
  BY <1>1, <1>2, <1>3
<1>5. Least({a, b}) \in {a, b}
  BY <1>4, LeastOfTwo
<1>6. RingForm(s) = Least({a, b})
  BY DEF RingForm, a, b, v
<1> QED
  BY <1>4, <1>5, <1>6

LEMMA RingFormsAgree ==
  ASSUME NEW n \in Nat, NEW s \in [1 .. n -> Nat], NeverTwice(n, s), 2 <= n,
         NEW m \in Nat, NEW t \in [1 .. m -> Nat], NeverTwice(m, t), 2 <= m,
         CycleEdges(m, t) = CycleEdges(n, s)
  PROVE  RingForm(t) = RingForm(s)
<1>1. t \in Turns(n, s) \/ t \in Turns(n, Reverse(s))
  BY CycleOrTurned
<1>2. 1 <= n
  OBVIOUS
<1>3. /\ Reverse(s) \in [1 .. n -> Nat] /\ Reverse(Reverse(s)) = s
  BY ReverseAt
<1>4. ASSUME NEW u \in [1 .. n -> Nat]
      PROVE  SmallestRotation(u) = Least(Turns(n, u))
  BY <1>2, SmallestTurn
<1>5. ASSUME NEW u \in [1 .. n -> Nat], t \in Turns(n, u)
      PROVE  /\ SmallestRotation(t) = SmallestRotation(u)
             /\ SmallestRotation(Reverse(t)) = SmallestRotation(Reverse(u))
  <2>1. /\ t \in [1 .. n -> Nat] /\ Turns(n, t) = Turns(n, u)
        /\ Turns(n, Reverse(t)) = Turns(n, Reverse(u))
    BY <1>5, TurnsOfTurned
  <2>2. Reverse(t) \in [1 .. n -> Nat] /\ Reverse(u) \in [1 .. n -> Nat]
    BY <2>1, ReverseAt
  <2> QED
    BY <1>4, <2>1, <2>2
<1>6. CASE t \in Turns(n, s)
  BY <1>5, <1>6 DEF RingForm
<1>7. CASE t \in Turns(n, Reverse(s))
  <2>1. /\ SmallestRotation(t) = SmallestRotation(Reverse(s))
        /\ SmallestRotation(Reverse(t)) = SmallestRotation(s)
    BY <1>3, <1>5, <1>7
  <2>2. {SmallestRotation(t), SmallestRotation(Reverse(t))} =
          {SmallestRotation(s), SmallestRotation(Reverse(s))}
    BY <2>1
  <2> QED
    BY <2>2 DEF RingForm
<1> QED
  BY <1>1, <1>6, <1>7

\* The positions a shape goes through.
OutlineOf(g) == IF g.type = "polygon" THEN Ring(g.points) ELSE g.points

\* A line or polygon has an extent and passes no position twice.
Simple(g) ==
  LET s == OutlineOf(g)
  IN  g.type # "point" => Len(s) >= 2 /\ NeverTwice(Len(s), s)

LEMMA ShapeFacts ==
  ASSUME NEW g \in Shapes
  PROVE  g.type \in {"point", "line", "polygon"} /\ g.points \in Seq(Nat) /\ g.points # <<>>
BY SnapshotAssumption DEF Types

LEMMA RingFacts ==
  ASSUME NEW p \in Seq(Nat), p # <<>>
  PROVE  LET s == Ring(p)
             n == Len(s)
         IN  /\ n \in Nat /\ 1 <= n /\ s \in [1 .. n -> Nat]
             /\ \A i \in 1 .. n : p[i] = s[i]
             /\ \/ Len(p) = n
                \/ Len(p) = n + 1 /\ p[n + 1] = s[1]
<1> DEFINE l == Len(p)
<1>1. l \in Nat /\ l # 0 /\ p \in [1 .. l -> Nat]
  BY LenProperties, EmptySeq
<1>2. CASE l > 1 /\ p[1] = Last(p)
  <2>1. Ring(p) = SubSeq(p, 1, l - 1)
    BY <1>2 DEF Ring, Front
  <2>2. /\ Len(SubSeq(p, 1, l - 1)) = l - 1 /\ SubSeq(p, 1, l - 1) \in [1 .. l - 1 -> Nat]
        /\ \A i \in 1 .. l - 1 : SubSeq(p, 1, l - 1)[i] = p[i]
    <3>1. /\ 1 \in Int /\ l - 1 \in Int /\ 1 <= l - 1 /\ (l - 1) - 1 + 1 = l - 1
          /\ \A i \in 1 .. l - 1 : p[i] \in Nat /\ 1 + i - 1 = i
      BY <1>1, <1>2
    <3> HIDE DEF l
    <3>2. /\ SubSeq(p, 1, l - 1) \in Seq(Nat) /\ Len(SubSeq(p, 1, l - 1)) = l - 1
          /\ \A i \in 1 .. l - 1 : SubSeq(p, 1, l - 1)[i] = p[1 + i - 1]
      BY <3>1, SubSeqProperties
    <3>3. SubSeq(p, 1, l - 1) \in [1 .. l - 1 -> Nat]
      BY <3>2, LenProperties
    <3> QED
      BY <3>1, <3>2, <3>3
  <2>3. p[l] = p[1]
    BY <1>2 DEF Last
  <2>4. l - 1 \in Nat /\ 1 <= l - 1 /\ (l - 1) + 1 = l /\ 1 \in 1 .. l - 1
    BY <1>1, <1>2
  <2> HIDE DEF l
  <2> QED
    BY <2>1, <2>2, <2>3, <2>4 DEF l
<1>3. CASE ~(l > 1 /\ p[1] = Last(p))
  <2>1. Ring(p) = p
    BY <1>3 DEF Ring
  <2> QED
    BY <1>1, <2>1
<1> QED
  BY <1>2, <1>3

LEMMA PairOfTwo ==
  ASSUME NEW a, NEW b
  PROVE  Cardinality({a, b}) = 2 <=> a # b
<1>1. IsFiniteSet({a}) /\ Cardinality({a}) = 1
  BY FS_Singleton
<1>2. CASE a = b
  <2>1. {a, b} = {a}
    BY <1>2
  <2> QED
    BY <1>1, <1>2, <2>1
<1>3. CASE a # b
  <2>1. Cardinality({a} \cup {b}) = 1 + 1
    BY <1>1, <1>3, FS_AddElement
  <2>2. {a, b} = {a} \cup {b}
    OBVIOUS
  <2> QED
    BY <1>3, <2>1, <2>2
<1> QED
  BY <1>2, <1>3

LEMMA LineDraws ==
  ASSUME NEW g \in Shapes, g.type = "line", Simple(g)
  PROVE  LET n == Len(g.points)
         IN  /\ n \in Nat /\ 2 <= n /\ g.points \in [1 .. n -> Nat] /\ NeverTwice(n, g.points)
             /\ Drawn(g) = PathEdges(n, g.points)
<1> DEFINE s == g.points
           n == Len(s)
<1>1. /\ n \in Nat /\ s \in [1 .. n -> Nat]
  BY ShapeFacts, LenProperties
<1>2. n >= 2 /\ NeverTwice(n, s)
  BY DEF Simple, OutlineOf
<1>3. Segments(g) = {{s[i], s[IF i < n THEN i + 1 ELSE n]} : i \in 1 .. n}
  BY DEF Segments
<1>4. Drawn(g) = {e \in Segments(g) : Cardinality(e) = 2}
  BY DEF Drawn
<1> HIDE DEF s, n
<1>5. ASSUME NEW e \in Drawn(g)
      PROVE  e \in PathEdges(n, s)
  <2>1. PICK i \in 1 .. n : e = {s[i], s[IF i < n THEN i + 1 ELSE n]}
    BY <1>3, <1>4
  <2>2. s[i] # s[IF i < n THEN i + 1 ELSE n]
    BY <1>4, <2>1, PairOfTwo
  <2>3. i < n
    BY <1>1, <2>2
  <2>4. i \in 1 .. n - 1 /\ e = {s[i], s[i + 1]}
    BY <1>1, <2>1, <2>3
  <2> QED
    BY <2>4 DEF PathEdges
<1>6. ASSUME NEW i \in 1 .. n - 1
      PROVE  {s[i], s[i + 1]} \in Drawn(g)
  <2>1. i \in 1 .. n /\ i + 1 \in 1 .. n /\ i < n /\ i # i + 1
    BY <1>1
  <2>2. s[i] # s[i + 1]
    BY <1>2, <2>1 DEF NeverTwice
  <2>3. Cardinality({s[i], s[i + 1]}) = 2
    BY <2>2, PairOfTwo
  <2>4. {s[i], s[i + 1]} \in Segments(g)
    BY <1>3, <2>1
  <2> QED
    BY <1>4, <2>3, <2>4
<1>7. Drawn(g) = PathEdges(n, s)
  BY <1>5, <1>6 DEF PathEdges
<1> QED
  BY <1>1, <1>2, <1>7 DEF s, n

LEMMA PolygonDraws ==
  ASSUME NEW g \in Shapes, g.type = "polygon", Simple(g)
  PROVE  LET s == Ring(g.points)
             n == Len(s)
         IN  /\ n \in Nat /\ 2 <= n /\ s \in [1 .. n -> Nat] /\ NeverTwice(n, s)
             /\ Drawn(g) = CycleEdges(n, s)
<1> DEFINE p == g.points
           l == Len(p)
           s == Ring(p)
           n == Len(s)
           Next1(i) == IF i < l THEN i + 1 ELSE 1
<1>1. p \in Seq(Nat) /\ p # <<>>
  BY ShapeFacts
<1>2. /\ n \in Nat /\ s \in [1 .. n -> Nat]
      /\ \A i \in 1 .. n : p[i] = s[i]
      /\ l = n \/ (l = n + 1 /\ p[n + 1] = s[1])
  BY <1>1, RingFacts
<1>3. n >= 2 /\ NeverTwice(n, s)
  BY DEF Simple, OutlineOf
<1>4. Segments(g) = {{p[i], p[Next1(i)]} : i \in 1 .. l}
  BY DEF Segments
<1>5. Drawn(g) = {e \in Segments(g) : Cardinality(e) = 2}
  BY DEF Drawn
<1> HIDE DEF p, l, s, n
\* Where the seam is spelled out the last segment has no extent.
<1>6. ASSUME NEW i \in 1 .. n
      PROVE  i \in 1 .. l /\ p[i] = s[i] /\ p[Next1(i)] = s[After(n, i)]
  <2>1. i \in 1 .. l /\ After(n, i) \in 1 .. n /\ 1 \in 1 .. n
    BY <1>2, <1>3 DEF After
  <2>2. CASE Next1(i) \in 1 .. n
    <3>1. Next1(i) = After(n, i)
      BY <1>2, <1>3, <2>2 DEF After
    <3> QED
      BY <1>2, <2>1, <3>1
  <2>3. CASE Next1(i) \notin 1 .. n
    <3>1. l = n + 1 /\ i = n /\ Next1(i) = n + 1
      BY <1>2, <1>3, <2>3
    <3>2. After(n, i) = 1
      BY <3>1 DEF After
    <3> HIDE DEF Next1
    <3> QED
      BY <1>2, <2>1, <3>1, <3>2
  <2> QED
    BY <2>2, <2>3
<1>7. ASSUME NEW i \in 1 .. l, i \notin 1 .. n
      PROVE  p[i] = p[Next1(i)]
  <2>1. l = n + 1 /\ i = n + 1 /\ Next1(i) = 1 /\ 1 \in 1 .. n
    BY <1>2, <1>3, <1>7
  <2> HIDE DEF Next1
  <2> QED
    BY <1>2, <2>1
<1>8. ASSUME NEW e \in Drawn(g)
      PROVE  e \in CycleEdges(n, s)
  <2>1. PICK i \in 1 .. l : e = {p[i], p[Next1(i)]}
    BY <1>4, <1>5
  <2> HIDE DEF Next1
  <2>2. p[i] # p[Next1(i)]
    BY <1>5, <2>1, PairOfTwo
  <2>3. i \in 1 .. n
    BY <1>7, <2>2
  <2>4. e = {s[i], s[After(n, i)]}
    BY <1>6, <2>1, <2>3
  <2> QED
    BY <2>3, <2>4 DEF CycleEdges
<1>9. ASSUME NEW i \in 1 .. n
      PROVE  {s[i], s[After(n, i)]} \in Drawn(g)
  <2>1. After(n, i) \in 1 .. n /\ i # After(n, i)
    BY <1>2, <1>3 DEF After
  <2>2. s[i] # s[After(n, i)]
    BY <1>3, <2>1 DEF NeverTwice
  <2>3. Cardinality({s[i], s[After(n, i)]}) = 2
    BY <2>2, PairOfTwo
  <2>4. {p[i], p[Next1(i)]} \in Segments(g)
    BY <1>4, <1>6
  <2> HIDE DEF Next1
  <2>5. {s[i], s[After(n, i)]} \in Segments(g)
    BY <1>6, <2>4
  <2> QED
    BY <1>5, <2>3, <2>5
<1>10. Drawn(g) = CycleEdges(n, s)
  BY <1>8, <1>9 DEF CycleEdges
<1> QED
  BY <1>2, <1>3, <1>10 DEF p, l, s, n

LEMMA Fingerprint ==
  ASSUME NEW g, NEW h
  PROVE  GeometryFingerprint(g) = GeometryFingerprint(h) <=>
           g.type = h.type /\ CanonicalGeometry(g) = CanonicalGeometry(h)
BY DEF GeometryFingerprint

LEMMA PointsAlike ==
  ASSUME NEW g \in Shapes, NEW h \in Shapes, g.type = "point", h.type = "point"
  PROVE  CanonicalGeometry(g) = CanonicalGeometry(h) <=> Drawn(g) = Drawn(h)
<1>1. CanonicalGeometry(g) = <<g.points[1]>> /\ CanonicalGeometry(h) = <<h.points[1]>>
  BY DEF CanonicalGeometry
<1>2. Drawn(g) = {{g.points[1]}} /\ Drawn(h) = {{h.points[1]}}
  BY DEF Drawn
<1>3. CanonicalGeometry(g) = CanonicalGeometry(h) <=> g.points[1] = h.points[1]
  BY <1>1
<1>4. Drawn(g) = Drawn(h) <=> g.points[1] = h.points[1]
  <2> DEFINE a == g.points[1]
             b == h.points[1]
  <2> HIDE DEF a, b
  <2>1. ASSUME {{a}} = {{b}}
        PROVE  a = b
    <3>1. {a} \in {{b}}
      BY <2>1
    <3>2. {a} = {b}
      BY <3>1
    <3>3. a \in {b}
      BY <3>2
    <3> QED
      BY <3>3
  <2> QED
    BY <1>2, <2>1 DEF a, b
<1> QED
  BY <1>3, <1>4

LEMMA LinesAlike ==
  ASSUME NEW g \in Shapes, NEW h \in Shapes, g.type = "line", h.type = "line",
         Simple(g), Simple(h)
  PROVE  CanonicalGeometry(g) = CanonicalGeometry(h) <=> Drawn(g) = Drawn(h)
<1> DEFINE s == g.points
           n == Len(s)
           t == h.points
           m == Len(t)
           c == CanonicalGeometry(g)
           d == CanonicalGeometry(h)
<1>1. /\ n \in Nat /\ 2 <= n /\ s \in [1 .. n -> Nat] /\ NeverTwice(n, s)
      /\ Drawn(g) = PathEdges(n, s)
  BY LineDraws
<1>2. /\ m \in Nat /\ 2 <= m /\ t \in [1 .. m -> Nat] /\ NeverTwice(m, t)
      /\ Drawn(h) = PathEdges(m, t)
  BY LineDraws
<1>3. c = Least({s, Reverse(s)}) /\ d = Least({t, Reverse(t)})
  BY DEF CanonicalGeometry
<1> HIDE DEF s, n, t, m, c, d
<1>4. ASSUME NEW l \in Nat, NEW u \in [1 .. l -> Nat]
      PROVE  LET e == Least({u, Reverse(u)})
             IN  e \in [1 .. l -> Nat] /\ PathEdges(l, e) = PathEdges(l, u)
  <2>1. Reverse(u) \in [1 .. l -> Nat] /\ PathEdges(l, Reverse(u)) = PathEdges(l, u)
    BY ReversedDrawsSame
  <2>2. Least({u, Reverse(u)}) \in {u, Reverse(u)}
    BY <2>1, LeastOfTwo
  <2> QED
    BY <2>1, <2>2
<1>5. /\ c \in [1 .. n -> Nat] /\ PathEdges(n, c) = PathEdges(n, s)
      /\ d \in [1 .. m -> Nat] /\ PathEdges(m, d) = PathEdges(m, t)
  BY <1>1, <1>2, <1>3, <1>4
<1>6. ASSUME c = d
      PROVE  Drawn(g) = Drawn(h)
  <2>1. 1 .. n = 1 .. m
    BY <1>5, <1>6
  <2>2. n = m
    BY <1>1, <1>2, <2>1
  <2> QED
    BY <1>1, <1>2, <1>5, <1>6, <2>2
<1>7. ASSUME Drawn(g) = Drawn(h)
      PROVE  c = d
  <2>1. PathEdges(m, t) = PathEdges(n, s)
    BY <1>1, <1>2, <1>7
  <2>2. t = s \/ t = Reverse(s)
    BY <1>1, <1>2, <2>1, PathOrReverse
  <2>3. Reverse(Reverse(s)) = s
    BY <1>1, ReverseAt
  <2>4. {t, Reverse(t)} = {s, Reverse(s)}
    BY <2>2, <2>3
  <2> QED
    BY <1>3, <2>4
<1> QED
  BY <1>6, <1>7 DEF c, d

LEMMA PolygonsAlike ==
  ASSUME NEW g \in Shapes, NEW h \in Shapes, g.type = "polygon", h.type = "polygon",
         Simple(g), Simple(h)
  PROVE  CanonicalGeometry(g) = CanonicalGeometry(h) <=> Drawn(g) = Drawn(h)
<1> DEFINE s == Ring(g.points)
           n == Len(s)
           t == Ring(h.points)
           m == Len(t)
<1>1. /\ n \in Nat /\ 2 <= n /\ s \in [1 .. n -> Nat] /\ NeverTwice(n, s)
      /\ Drawn(g) = CycleEdges(n, s)
  BY PolygonDraws
<1>2. /\ m \in Nat /\ 2 <= m /\ t \in [1 .. m -> Nat] /\ NeverTwice(m, t)
      /\ Drawn(h) = CycleEdges(m, t)
  BY PolygonDraws
<1>3. CanonicalGeometry(g) = RingForm(s) /\ CanonicalGeometry(h) = RingForm(t)
  BY DEF CanonicalGeometry, RingForm
<1> HIDE DEF s, n, t, m
<1>4. 1 <= n /\ 1 <= m
  BY <1>1, <1>2
<1>5. /\ RingForm(s) \in [1 .. n -> Nat] /\ CycleEdges(n, RingForm(s)) = CycleEdges(n, s)
      /\ RingForm(t) \in [1 .. m -> Nat] /\ CycleEdges(m, RingForm(t)) = CycleEdges(m, t)
  BY <1>1, <1>2, <1>4, RingFormDraws
<1>6. ASSUME RingForm(s) = RingForm(t)
      PROVE  Drawn(g) = Drawn(h)
  <2>1. 1 .. n = 1 .. m
    BY <1>5, <1>6
  <2>2. n = m
    BY <1>1, <1>2, <2>1
  <2> QED
    BY <1>1, <1>2, <1>5, <1>6, <2>2
<1>7. ASSUME Drawn(g) = Drawn(h)
      PROVE  RingForm(s) = RingForm(t)
  <2>1. CycleEdges(m, t) = CycleEdges(n, s)
    BY <1>1, <1>2, <1>7
  <2>2. RingForm(t) = RingForm(s)
    BY <1>1, <1>2, <2>1, RingFormsAgree
  <2> QED
    BY <2>2
<1> QED
  BY <1>3, <1>6, <1>7

\* Simple shapes look the same exactly if they have one fingerprint.
LEMMA FingerprintTells ==
  ASSUME NEW g \in Shapes, NEW h \in Shapes, Simple(g), Simple(h)
  PROVE  GeometryFingerprint(g) = GeometryFingerprint(h) <=> SameShape(g, h)
<1>1. g.type \in {"point", "line", "polygon"}
  BY ShapeFacts
<1>2. ASSUME g.type = h.type
      PROVE  CanonicalGeometry(g) = CanonicalGeometry(h) <=> Drawn(g) = Drawn(h)
  <2>1. CASE g.type = "point"
    BY <1>2, <2>1, PointsAlike
  <2>2. CASE g.type = "line"
    BY <1>2, <2>2, LinesAlike
  <2>3. CASE g.type = "polygon"
    BY <1>2, <2>3, PolygonsAlike
  <2> QED
    BY <1>1, <2>1, <2>2, <2>3
<1> QED
  BY <1>2, Fingerprint DEF SameShape

-----------------------------------------------------------------------------
(* The shapes of a zone *)

LEMMA MarineShapes ==
  ASSUME NEW p \in Offered
  PROVE  Marine(p) \in Seq(Shapes)
<1> DEFINE K == {i \in DOMAIN p.shapes : Importable(p, p.shapes[i])}
<1>1. p.shapes \in Seq(Shapes)
  <2>1. p.shapes \in {<<g>> : g \in Shapes} \cup {<<g, h>> : g, h \in Shapes}
    BY SnapshotAssumption DEF Placemark
  <2>2. CASE p.shapes \in {<<g>> : g \in Shapes}
    <3>1. PICK g \in Shapes : p.shapes = <<g>>
      BY <2>2
    <3>2. <<g>> \in Seq(Shapes)
      OBVIOUS
    <3> QED
      BY <3>1, <3>2
  <2>3. CASE p.shapes \in {<<g, h>> : g, h \in Shapes}
    <3>1. PICK g \in Shapes, h \in Shapes : p.shapes = <<g, h>>
      BY <2>3
    <3>2. <<g, h>> \in Seq(Shapes)
      OBVIOUS
    <3> QED
      BY <3>1, <3>2
  <2> QED
    BY <2>1, <2>2, <2>3
<1>2. K \in SUBSET DOMAIN p.shapes
  OBVIOUS
<1>3. \A i \in K : p.shapes[i] \in Shapes
  BY <1>1
<1>4. Marine(p) = Subsequence(p.shapes, K)
  BY DEF Marine
<1> HIDE DEF K
<1> QED
  BY <1>1, <1>2, <1>3, <1>4, SubsequenceKeeps

\* Shapes kept by fingerprint, each one from a placemark of the zone among those read.
KeptFor(shapes, k, R) ==
  \A f \in DOMAIN shapes :
    /\ shapes[f] \in Shapes /\ GeometryFingerprint(shapes[f]) = f
    /\ \E q \in R : DrawnFor(q, k) /\ shapes[f] \in Range(Marine(q))

\* What a placemark adds stays kept by fingerprint, and leaves none out.
LEMMA PutKeeps ==
  ASSUME NEW shapes, NEW k, NEW R, KeptFor(shapes, k, R),
         NEW p \in Offered, DrawnFor(p, k)
  PROVE  /\ KeptFor(Put(shapes, Marine(p)), k, R \cup {p})
         /\ \A f \in DOMAIN shapes : f \in DOMAIN Put(shapes, Marine(p))
         /\ \A g \in Range(Marine(p)) :
              GeometryFingerprint(g) \in DOMAIN Put(shapes, Marine(p))
<1> DEFINE new == Marine(p)
           all == Put(shapes, new)
           With(f) == {i \in DOMAIN new : GeometryFingerprint(new[i]) = f}
<1>1. /\ new \in Seq(Shapes) /\ Len(new) \in Nat /\ DOMAIN new = 1 .. Len(new)
      /\ \A i \in DOMAIN new : new[i] \in Shapes
  BY MarineShapes
<1>2. Range(new) = {new[i] : i \in DOMAIN new}
  BY DEF Range
<1>3. all = [f \in DOMAIN shapes \cup {GeometryFingerprint(new[i]) : i \in DOMAIN new} |->
               IF With(f) = {} THEN shapes[f] ELSE new[Max(With(f))]]
  BY DEF Put
<1> HIDE DEF new, all
<1>4. ASSUME NEW f, With(f) # {}
      PROVE  Max(With(f)) \in DOMAIN new /\ GeometryFingerprint(new[Max(With(f))]) = f
  <2>1. With(f) \in SUBSET (1 .. Len(new)) /\ 1 \in Int /\ Len(new) \in Int
    BY <1>1
  <2>2. Max(With(f)) \in With(f)
    BY <1>4, <2>1, Extremes
  <2> QED
    BY <2>2
<1>5. ASSUME NEW f \in DOMAIN all
      PROVE  /\ all[f] \in Shapes /\ GeometryFingerprint(all[f]) = f
             /\ \E q \in R \cup {p} : DrawnFor(q, k) /\ all[f] \in Range(Marine(q))
  <2>1. CASE With(f) = {}
    <3>1. f \in DOMAIN shapes /\ all[f] = shapes[f]
      BY <1>3, <2>1
    <3> QED
      BY <3>1 DEF KeptFor
  <2>2. CASE With(f) # {}
    <3>1. all[f] = new[Max(With(f))]
      BY <1>3, <2>2
    <3> HIDE DEF With
    <3>2. all[f] \in Shapes /\ GeometryFingerprint(all[f]) = f /\ all[f] \in Range(new)
      BY <1>1, <1>2, <1>4, <2>2, <3>1
    <3> QED
      BY <3>2 DEF new
  <2> QED
    BY <2>1, <2>2
<1>6. KeptFor(all, k, R \cup {p})
  BY <1>5 DEF KeptFor
<1> HIDE DEF With
<1>7. /\ \A f \in DOMAIN shapes : f \in DOMAIN all
      /\ \A g \in Range(new) : GeometryFingerprint(g) \in DOMAIN all
  BY <1>2, <1>3
<1> QED
  BY <1>6, <1>7 DEF all, new

\* A zone keeps its shapes by fingerprint, and every shape of a placemark it is
\* drawn from is kept there: without the first part two of its shapes might have
\* one fingerprint.
ShapesInv ==
  /\ read \in Seq(Offered)
  /\ \A k \in DOMAIN groups :
       /\ DOMAIN groups[k] = {"name", "note", "folder", "shapes"}
       /\ KeptFor(groups[k].shapes, k, Reads)
  /\ \A p \in Reads : Taken(p) =>
       /\ Key(p) \in DOMAIN groups
       /\ \A g \in Range(Marine(p)) :
            GeometryFingerprint(g) \in DOMAIN groups[Key(p)].shapes

LEMMA ShapesStep ==
  ASSUME ShapesInv, NEW p \in Offered, read' = Append(read, p),
         TakePlacemark(p) \/ SkipPlacemark(p)
  PROVE  ShapesInv'
<1> DEFINE key == Key(p)
<1>1. read' \in Seq(Offered) /\ Reads' = Reads \cup {p}
  <2>1. /\ read' \in Seq(Offered) /\ Len(read) \in Nat
        /\ DOMAIN read = 1 .. Len(read) /\ DOMAIN read' = 1 .. Len(read) + 1
        /\ \A i \in 1 .. Len(read) : read'[i] = read[i]
        /\ read'[Len(read) + 1] = p
    BY DocumentOn DEF ShapesInv
  <2>2. 1 .. Len(read) + 1 = (1 .. Len(read)) \cup {Len(read) + 1}
    BY <2>1
  <2>3. ASSUME NEW q
        PROVE  q \in Reads' <=> q \in Reads \cup {p}
    BY <2>1, <2>2 DEF Reads
  <2> QED
    BY <2>1, <2>3
<1>2. ASSUME NEW k \in DOMAIN groups
      PROVE  KeptFor(groups[k].shapes, k, Reads')
  BY <1>1 DEF ShapesInv, KeptFor
<1>3. CASE SkipPlacemark(p)
  <2>1. ~Taken(p) /\ groups' = groups
    BY <1>3 DEF SkipPlacemark
  <2>2. \A k \in DOMAIN groups' :
          /\ DOMAIN groups'[k] = {"name", "note", "folder", "shapes"}
          /\ KeptFor(groups'[k].shapes, k, Reads')
    BY <1>2, <2>1 DEF ShapesInv
  <2>3. \A q \in Reads' : Taken(q) =>
          /\ Key(q) \in DOMAIN groups'
          /\ \A g \in Range(Marine(q)) :
               GeometryFingerprint(g) \in DOMAIN groups'[Key(q)].shapes
    BY <1>1, <2>1 DEF ShapesInv
  <2> QED
    BY <1>1, <2>2, <2>3 DEF ShapesInv
<1>4. CASE TakePlacemark(p)
  <2> DEFINE old == Group(p)
             zone == Joined(p)
  <2>1. /\ Taken(p)
        /\ groups' = [k \in DOMAIN groups \cup {key} |-> IF k = key THEN zone ELSE groups[k]]
    BY <1>4 DEF TakePlacemark
  <2>2. zone = [old EXCEPT !.note = IF @ = Absent THEN p.note ELSE @,
                           !.shapes = Put(@, Marine(p))]
    BY DEF Joined
  <2>3. /\ DOMAIN old = {"name", "note", "folder", "shapes"}
        /\ KeptFor(old.shapes, key, Reads)
        /\ key \in DOMAIN groups => old = groups[key]
    <3>1. CASE key \in DOMAIN groups
      <4>1. old = groups[key]
        BY <3>1 DEF Group
      <4> QED
        BY <3>1, <4>1 DEF ShapesInv
    <3>2. CASE key \notin DOMAIN groups
      <4>1. old = [name |-> ZoneName(p), note |-> p.note, folder |-> p.folder, shapes |-> <<>>]
        BY <3>2 DEF Group
      <4>2. DOMAIN old = {"name", "note", "folder", "shapes"} /\ DOMAIN old.shapes = {}
        BY <4>1
      <4> QED
        BY <3>2, <4>2 DEF KeptFor
    <3> QED
      BY <3>1, <3>2
  <2>4. DrawnFor(p, key)
    BY <2>1 DEF DrawnFor
  <2> HIDE DEF old, zone, key
  <2>5. /\ DOMAIN zone = {"name", "note", "folder", "shapes"}
        /\ zone.shapes = Put(old.shapes, Marine(p))
    BY <2>2, <2>3
  <2>6. /\ KeptFor(zone.shapes, key, Reads')
        /\ \A f \in DOMAIN old.shapes : f \in DOMAIN zone.shapes
        /\ \A g \in Range(Marine(p)) : GeometryFingerprint(g) \in DOMAIN zone.shapes
    <3> DEFINE all == Put(old.shapes, Marine(p))
    <3>1. KeptFor(all, key, Reads \cup {p})
      BY <2>3, <2>4, PutKeeps, Zenon
    <3>2. \A f \in DOMAIN old.shapes : f \in DOMAIN all
      BY <2>3, <2>4, PutKeeps, Zenon
    <3>3. \A g \in Range(Marine(p)) : GeometryFingerprint(g) \in DOMAIN all
      BY <2>3, <2>4, PutKeeps, Zenon
    <3> HIDE DEF all
    <3>4. zone.shapes = all
      BY <2>5 DEF all
    <3> QED
      BY <1>1, <3>1, <3>2, <3>3, <3>4
  <2>7. ASSUME NEW k \in DOMAIN groups'
        PROVE  /\ DOMAIN groups'[k] = {"name", "note", "folder", "shapes"}
               /\ KeptFor(groups'[k].shapes, k, Reads')
    <3>1. CASE k = key
      <4>1. groups'[k] = zone
        BY <2>1, <3>1
      <4> QED
        BY <2>5, <2>6, <3>1, <4>1
    <3>2. CASE k # key
      <4>1. k \in DOMAIN groups /\ groups'[k] = groups[k]
        BY <2>1, <3>2
      <4> QED
        BY <1>2, <4>1 DEF ShapesInv
    <3> QED
      BY <3>1, <3>2
  <2>8. ASSUME NEW q \in Reads', Taken(q)
        PROVE  /\ Key(q) \in DOMAIN groups'
               /\ \A g \in Range(Marine(q)) :
                    GeometryFingerprint(g) \in DOMAIN groups'[Key(q)].shapes
    <3>1. CASE q = p
      <4>1. groups'[Key(q)] = zone /\ Key(q) \in DOMAIN groups'
        BY <2>1, <3>1 DEF key
      <4> QED
        BY <2>6, <3>1, <4>1
    <3>2. CASE q # p
      <4>1. q \in Reads
        BY <1>1, <3>2
      <4>2. /\ Key(q) \in DOMAIN groups
            /\ \A g \in Range(Marine(q)) :
                 GeometryFingerprint(g) \in DOMAIN groups[Key(q)].shapes
        BY <2>8, <4>1 DEF ShapesInv
      <4>3. CASE Key(q) = key
        <5>1. groups'[Key(q)] = zone /\ Key(q) \in DOMAIN groups' /\ old = groups[Key(q)]
          BY <2>1, <2>3, <4>2, <4>3
        <5> QED
          BY <2>6, <4>2, <5>1
      <4>4. CASE Key(q) # key
        <5>1. groups'[Key(q)] = groups[Key(q)] /\ Key(q) \in DOMAIN groups'
          BY <2>1, <4>2, <4>4
        <5> QED
          BY <4>2, <5>1
      <4> QED
        BY <4>3, <4>4
    <3> QED
      BY <3>1, <3>2
  <2> QED
    BY <1>1, <2>7, <2>8 DEF ShapesInv
<1> QED
  BY <1>3, <1>4

(* In a document of any length, where every line and outline has an extent   *)
(* and passes no position twice, a zone draws every shape of its placemarks  *)
(* that may be drawn, each once, and nothing else.                           *)
THEOREM ZonesDrawEachShapeOnce ==
  ASSUME \A g \in Shapes : Simple(g)
  PROVE  Spec => []EveryShapeOnce
<1>1. Init => ShapesInv
  BY EmptySeq DEF Init, ShapesInv, Reads
<1>2. ShapesInv /\ [Next]_vars => ShapesInv'
  <2>1. CASE UNCHANGED vars
    BY <2>1 DEF vars, ShapesInv, Reads
  <2>2. CASE Next
    BY <2>2, ShapesStep DEF Next
  <2> QED
    BY <2>1, <2>2
<1>3. ShapesInv => EveryShapeOnce
  <2> SUFFICES ASSUME ShapesInv
               PROVE  EveryShapeOnce
    OBVIOUS
  <2>1. ASSUME NEW k \in DOMAIN groups, NEW f1 \in DOMAIN groups[k].shapes,
               NEW f2 \in DOMAIN groups[k].shapes,
               SameShape(groups[k].shapes[f1], groups[k].shapes[f2])
        PROVE  f1 = f2
    <3> DEFINE g == groups[k].shapes[f1]
               h == groups[k].shapes[f2]
    <3>1. /\ g \in Shapes /\ GeometryFingerprint(g) = f1
          /\ h \in Shapes /\ GeometryFingerprint(h) = f2
      BY DEF ShapesInv, KeptFor
    <3> HIDE DEF g, h
    <3>2. Simple(g) /\ Simple(h)
      BY <3>1
    <3>3. GeometryFingerprint(g) = GeometryFingerprint(h) <=> SameShape(g, h)
      BY <3>1, <3>2, FingerprintTells
    <3> QED
      BY <2>1, <3>1, <3>3 DEF g, h
  <2>2. ASSUME NEW p \in Reads, Taken(p), NEW g \in Range(Marine(p))
        PROVE  /\ Key(p) \in DOMAIN groups
               /\ \E h \in ShapesOf(Key(p)) : SameShape(g, h)
    <3> DEFINE f == GeometryFingerprint(g)
               h == groups[Key(p)].shapes[f]
    <3>1. Key(p) \in DOMAIN groups /\ f \in DOMAIN groups[Key(p)].shapes
      BY <2>2 DEF ShapesInv
    <3>2. h \in ShapesOf(Key(p)) /\ h \in Shapes /\ GeometryFingerprint(h) = f
      BY <3>1 DEF ShapesInv, KeptFor, ShapesOf
    <3>3. g \in Shapes
      <4>1. p \in Offered
        BY DEF ShapesInv, Reads
      <4> QED
        BY <4>1, MarineShapes DEF Range
    <3> HIDE DEF h
    <3>4. Simple(g) /\ Simple(h)
      BY <3>2, <3>3
    <3>5. SameShape(g, h)
      BY <3>2, <3>3, <3>4, FingerprintTells
    <3> QED
      BY <3>1, <3>2, <3>5
  <2>3. ASSUME NEW k \in DOMAIN groups, NEW h \in ShapesOf(k)
        PROVE  \E p \in Reads : Taken(p) /\ Key(p) = k /\ h \in Range(Marine(p))
    BY DEF ShapesInv, KeptFor, ShapesOf, DrawnFor
  <2>4. \A p \in Reads : Taken(p) => Key(p) \in DOMAIN groups
    BY DEF ShapesInv
  <2> QED
    BY <2>1, <2>2, <2>3, <2>4 DEF EveryShapeOnce
<1> QED
  BY <1>1, <1>2, <1>3, PTL DEF Spec
=============================================================================
