------------------------ MODULE SubsequenceTheorems ------------------------
(***************************************************************************)
(* What filtering a sequence keeps, loses and leaves in order, for         *)
(* sequences of any length.                                                *)
(***************************************************************************)
EXTENDS Subsequences, FiniteSetTheorems, TLAPS

\* The position of i among the members of K, counted from 1.
Rank(K, i) == Cardinality({j \in K : j <= i})

----------------------------------------------------------------------------
(* Ranks number the members of a set from 1, in increasing order *)

LEMMA RankType ==
  ASSUME NEW K \in SUBSET Nat, IsFiniteSet(K), NEW i \in K
  PROVE  Rank(K, i) \in 1 .. Cardinality(K)
<1> DEFINE upTo == {j \in K : j <= i}
<1>1. upTo \in SUBSET K /\ i \in upTo
  OBVIOUS
<1>2. IsFiniteSet(upTo) /\ Cardinality(upTo) <= Cardinality(K)
  BY <1>1, FS_Subset
<1>3. Cardinality(upTo) \in Nat /\ Cardinality(K) \in Nat
  BY <1>2, FS_CardinalityType
<1>4. Cardinality(upTo) # 0
  BY <1>1, <1>2, FS_EmptySet
<1> QED
  BY <1>2, <1>3, <1>4 DEF Rank

LEMMA RankIncreases ==
  ASSUME NEW K \in SUBSET Nat, IsFiniteSet(K), NEW i \in K, NEW k \in K, i < k
  PROVE  Rank(K, i) < Rank(K, k)
<1> DEFINE upTo(x) == {j \in K : j <= x}
<1>0. k <= k /\ ~(k <= i) /\ \A j \in K : j <= i => j <= k
  <2>1. i \in Nat /\ k \in Nat /\ \A j \in K : j \in Nat
    OBVIOUS
  <2> QED
    BY <2>1
<1>1. upTo(i) \in SUBSET upTo(k) /\ k \in upTo(k) /\ k \notin upTo(i)
  BY <1>0, Zenon
<1>2. IsFiniteSet(upTo(k))
  BY FS_Subset
<1>3. /\ Cardinality(upTo(i)) <= Cardinality(upTo(k))
      /\ Cardinality(upTo(i)) # Cardinality(upTo(k))
  BY <1>1, <1>2, FS_Subset
<1>4. Rank(K, i) \in Nat /\ Rank(K, k) \in Nat
  BY RankType, FS_CardinalityType
<1> QED
  BY <1>3, <1>4 DEF Rank

\* Every number up to the size of the set is a rank.
LEMMA RankOnto ==
  ASSUME NEW K \in SUBSET Nat, IsFiniteSet(K), NEW n \in 1 .. Cardinality(K)
  PROVE  \E i \in K : Rank(K, i) = n
<1> DEFINE N == 1 .. Cardinality(K)
           rank == [i \in K |-> Rank(K, i)]
<1>1. Cardinality(K) \in Nat
  BY FS_CardinalityType
<1>2. IsFiniteSet(N) /\ Cardinality(N) = Cardinality(K)
  BY <1>1, FS_Interval
<1>3. rank \in Injection(K, N)
  <2>1. rank \in [K -> N]
    BY RankType
  <2>2. ASSUME NEW i \in K, NEW k \in K, rank[i] = rank[k]
        PROVE  i = k
    <3>1. ~(i < k) /\ ~(k < i)
      BY <2>1, <2>2, <1>1, RankIncreases
    <3> QED
      BY <3>1
  <2> QED
    BY <2>1, <2>2 DEF Injection, IsInjective
<1>4. rank \in Surjection(K, N)
  BY <1>2, <1>3, FS_Injection
<1> QED
  BY <1>4 DEF Surjection

----------------------------------------------------------------------------
(* Ascending *)

\* It lists members of the set by rank.
LEMMA AscendingRank ==
  ASSUME NEW K \in SUBSET Nat, IsFiniteSet(K), NEW n \in 1 .. Cardinality(K)
  PROVE  Ascending(K)[n] \in K /\ Rank(K, Ascending(K)[n]) = n
  BY RankOnto DEF Ascending, Rank

\* It lists every member.
LEMMA AscendingOnto ==
  ASSUME NEW K \in SUBSET Nat, IsFiniteSet(K), NEW i \in K
  PROVE  Rank(K, i) \in 1 .. Cardinality(K) /\ Ascending(K)[Rank(K, i)] = i
<1> DEFINE n == Rank(K, i)
           k == Ascending(K)[n]
<1>1. n \in 1 .. Cardinality(K)
  BY RankType
<1>2. k \in K /\ Rank(K, k) = n
  BY <1>1, AscendingRank
<1>3. i \in Nat /\ k \in Nat /\ n \in Nat
  <2> HIDE DEF k, n
  <2> QED
    BY <1>1, <1>2, FS_CardinalityType
<1>4. ~(i < k)
  <2> SUFFICES ASSUME i < k PROVE FALSE
    OBVIOUS
  <2> HIDE DEF k, n
  <2>1. Rank(K, i) < Rank(K, k)
    BY <1>2, RankIncreases
  <2> QED
    BY <1>2, <1>3, <2>1 DEF n
<1>5. ~(k < i)
  <2> SUFFICES ASSUME k < i PROVE FALSE
    OBVIOUS
  <2> HIDE DEF k, n
  <2>1. Rank(K, k) < Rank(K, i)
    BY <1>2, RankIncreases
  <2> QED
    BY <1>2, <1>3, <2>1 DEF n
<1> QED
  BY <1>1, <1>3, <1>4, <1>5

\* It lists them in increasing order.
LEMMA AscendingIncreases ==
  ASSUME NEW K \in SUBSET Nat, IsFiniteSet(K),
         NEW m \in 1 .. Cardinality(K), NEW n \in 1 .. Cardinality(K), m < n
  PROVE  Ascending(K)[m] < Ascending(K)[n]
<1>1. /\ Ascending(K)[m] \in K /\ Rank(K, Ascending(K)[m]) = m
      /\ Ascending(K)[n] \in K /\ Rank(K, Ascending(K)[n]) = n
  BY AscendingRank
<1>2. Cardinality(K) \in Nat /\ m \in Nat /\ n \in Nat
  BY FS_CardinalityType
<1> DEFINE i == Ascending(K)[m]
           k == Ascending(K)[n]
<1> HIDE DEF i, k
<1>3. i \in K /\ k \in K /\ Rank(K, i) = m /\ Rank(K, k) = n /\ i \in Nat /\ k \in Nat
  BY <1>1 DEF i, k
<1>4. i # k /\ ~(k < i)
  BY <1>2, <1>3, RankIncreases
<1>5. i < k
  BY <1>3, <1>4
<1> QED
  BY <1>5 DEF i, k

LEMMA AscendingIsFunction ==
  ASSUME NEW K
  PROVE  Ascending(K) = [m \in 1 .. Cardinality(K) |-> Ascending(K)[m]]
<1> DEFINE At(m) == CHOOSE i \in K : Cardinality({j \in K : j <= i}) = m
<1>1. Ascending(K) = [m \in 1 .. Cardinality(K) |-> At(m)]
  BY DEF Ascending
<1> HIDE DEF At
<1> QED
  BY <1>1

\* A number above all members is listed after them.
LEMMA AscendingAdds ==
  ASSUME NEW n \in Nat, NEW K \in SUBSET Nat, IsFiniteSet(K), \A i \in K : i < n
  PROVE  /\ IsFiniteSet(K \cup {n}) /\ Cardinality(K \cup {n}) = Cardinality(K) + 1
         /\ Cardinality(K) \in Nat
         /\ \A m \in 1 .. Cardinality(K) : Ascending(K \cup {n})[m] = Ascending(K)[m]
         /\ Ascending(K \cup {n})[Cardinality(K) + 1] = n
<1> DEFINE K2 == K \cup {n}
<1>1. /\ n \notin K /\ Cardinality(K) \in Nat
      /\ IsFiniteSet(K2) /\ Cardinality(K2) = Cardinality(K) + 1
  BY FS_AddElement, FS_CardinalityType
<1>2. K2 \in SUBSET Nat
  OBVIOUS
<1>3. ASSUME NEW i \in K
      PROVE  Rank(K2, i) = Rank(K, i)
  <2>1. {j \in K2 : j <= i} = {j \in K : j <= i}
    OBVIOUS
  <2> QED
    BY <2>1 DEF Rank
<1>4. Rank(K2, n) = Cardinality(K) + 1
  <2>0. \A j \in K2 : j <= n
    OBVIOUS
  <2> HIDE DEF K2
  <2>1. {j \in K2 : j <= n} = K2
    BY <2>0
  <2> QED
    BY <1>1, <2>1 DEF Rank
<1>5. \A i \in K2 : Ascending(K2)[Rank(K2, i)] = i
  BY <1>1, <1>2, AscendingOnto
<1> HIDE DEF K2
<1>6. ASSUME NEW m \in 1 .. Cardinality(K)
      PROVE  Ascending(K2)[m] = Ascending(K)[m]
  <2>1. Ascending(K)[m] \in K /\ Rank(K, Ascending(K)[m]) = m
    BY AscendingRank
  <2>2. Ascending(K)[m] \in K2
    BY <2>1 DEF K2
  <2> QED
    BY <1>3, <1>5, <2>1, <2>2
<1>7. Ascending(K2)[Cardinality(K) + 1] = n
  <2>1. n \in K2
    BY DEF K2
  <2> QED
    BY <1>4, <1>5, <2>1
<1> QED
  BY <1>1, <1>6, <1>7 DEF K2

\* An interval from 1 is listed as it is.
LEMMA AscendingInterval ==
  ASSUME NEW n \in Nat
  PROVE  /\ IsFiniteSet(1 .. n) /\ Cardinality(1 .. n) = n
         /\ \A i \in 1 .. n : Ascending(1 .. n)[i] = i
<1>1. IsFiniteSet(1 .. n) /\ Cardinality(1 .. n) = n
  BY FS_Interval
<1>2. ASSUME NEW i \in 1 .. n
      PROVE  Rank(1 .. n, i) = i
  <2>1. {j \in 1 .. n : j <= i} = 1 .. i
    OBVIOUS
  <2>2. Cardinality(1 .. i) = i
    BY FS_Interval
  <2> QED
    BY <2>1, <2>2 DEF Rank
<1>3. 1 .. n \in SUBSET Nat
  OBVIOUS
<1>4. ASSUME NEW i \in 1 .. n
      PROVE  Ascending(1 .. n)[i] = i
  BY <1>1, <1>2, <1>3, AscendingOnto
<1> QED
  BY <1>1, <1>4

----------------------------------------------------------------------------
(* Subsequence *)

\* It is a sequence of the members of s at the positions to keep, of all of those
\* and of no others.
THEOREM SubsequenceKeeps ==
  ASSUME NEW S, NEW s \in Seq(S), NEW K \in SUBSET DOMAIN s,
         NEW T, \A i \in K : s[i] \in T
  PROVE  /\ IsFiniteSet(K) /\ Cardinality(K) \in Nat
         /\ Subsequence(s, K) \in Seq(T)
         /\ Len(Subsequence(s, K)) = Cardinality(K)
         /\ DOMAIN Subsequence(s, K) = 1 .. Cardinality(K)
         /\ \A v : (\E n \in DOMAIN Subsequence(s, K) : Subsequence(s, K)[n] = v)
                     <=> \E i \in K : s[i] = v
<1>1. IsFiniteSet(K) /\ K \in SUBSET Nat /\ Cardinality(K) \in Nat
  <2>1. DOMAIN s = 1 .. Len(s) /\ Len(s) \in Nat
    OBVIOUS
  <2>2. IsFiniteSet(DOMAIN s)
    BY <2>1, FS_Interval
  <2> QED
    BY <2>1, <2>2, FS_Subset, FS_CardinalityType
<1>2. \A n \in 1 .. Cardinality(K) : Subsequence(s, K)[n] = s[Ascending(K)[n]]
  BY DEF Subsequence
<1>3. \A n \in 1 .. Cardinality(K) : Ascending(K)[n] \in K
  BY <1>1, AscendingRank
<1>4. Subsequence(s, K) \in [1 .. Cardinality(K) -> T]
  BY <1>3 DEF Subsequence
<1>5. Subsequence(s, K) \in Seq(T) /\ Len(Subsequence(s, K)) = Cardinality(K)
  BY <1>1, <1>4
<1>6. \A i \in K : \E n \in 1 .. Cardinality(K) : Ascending(K)[n] = i
  BY <1>1, AscendingOnto
<1>7. DOMAIN Subsequence(s, K) = 1 .. Cardinality(K)
  BY DEF Subsequence
<1>8. ASSUME NEW v
      PROVE  (\E n \in DOMAIN Subsequence(s, K) : Subsequence(s, K)[n] = v)
               <=> \E i \in K : s[i] = v
  <2>1. ASSUME NEW n \in DOMAIN Subsequence(s, K), Subsequence(s, K)[n] = v
        PROVE  \E i \in K : s[i] = v
    <3>1. n \in 1 .. Cardinality(K)
      BY <1>7, <2>1
    <3>2. Ascending(K)[n] \in K /\ s[Ascending(K)[n]] = v
      BY <1>2, <1>3, <2>1, <3>1
    <3> QED
      BY <3>2
  <2>2. ASSUME NEW i \in K, s[i] = v
        PROVE  \E n \in DOMAIN Subsequence(s, K) : Subsequence(s, K)[n] = v
    <3>1. PICK n \in 1 .. Cardinality(K) : Ascending(K)[n] = i
      BY <1>6
    <3>2. n \in DOMAIN Subsequence(s, K) /\ Subsequence(s, K)[n] = v
      BY <1>2, <1>7, <2>2, <3>1
    <3> QED
      BY <3>2
  <2> QED
    BY <2>1, <2>2
<1> QED
  BY <1>1, <1>5, <1>7, <1>8

\* Keeping every position changes nothing.
THEOREM SubsequenceOfAll ==
  ASSUME NEW S, NEW s \in Seq(S)
  PROVE  Subsequence(s, DOMAIN s) = s
<1>1. DOMAIN s = 1 .. Len(s) /\ Len(s) \in Nat
  OBVIOUS
<1>2. Cardinality(DOMAIN s) = Len(s) /\ \A i \in 1 .. Len(s) : Ascending(DOMAIN s)[i] = i
  BY <1>1, AscendingInterval
<1> QED
  BY <1>1, <1>2 DEF Subsequence
=============================================================================
