-------------------------- MODULE ImportQueueProofs --------------------------
(***************************************************************************)
(* Safety of the import queue, for any number of replicas, days, attempts, *)
(* stalls and kept jobs.                                                   *)
(***************************************************************************)
EXTENDS ImportQueue, FiniteSetTheorems, TLAPS

\* A job's starts are accounted for by its attempts and stalls.
Counted(j, n) ==
  /\ j.state = "active" <=> j.owner # NoOne
  /\ j.state = "none" => j = NoJob
  /\ j.state \in {"waiting", "delayed"} => n <= j.made + j.stalls /\ j.made < Attempts
  /\ j.state = "active" => n <= j.made + j.stalls + 1 /\ j.made < Attempts

CountsInv == \A d \in Days : Counted(job[d], starts[d])

\* The reports of a day that are still to come.
Pending(d) == {r \in Replicas : event[r].day = d /\ Report(event[r].made)}

\* Every report, made or to come, is of a failed job of its own.
HeardInv ==
  \A d \in Days : alerts[d] + Cardinality(Pending(d)) <= Cardinality(Failures(d))

\* Attempts are captured as they are made.
Captured(j, n) ==
  /\ j.state \in {"waiting", "active", "delayed"} => n >= j.made
  /\ j.state = "failed" => n >= Attempts \/ j.stalls = MaxStalls

CapturedInv == \A d \in Days : Captured(job[d], captured[d])

\* A worker that does not own its job lost it.
OwnersInv ==
  \A r \in Replicas : worker[r] # 0 =>
    \/ job[worker[r]].owner = r
    \/ job[worker[r]].stalls > 0
    \/ worker[r] \in EndedDays

\* A job is kept until enough others ended the same way.
KeptInv ==
  \A i \in DOMAIN ended :
    Since(ended, i, Len(ended)) < Kept =>
      job[ended[i].day].state \in {"completed", "failed"}

IInv ==
  /\ TypeOK /\ CountsInv /\ StartsBounded /\ OwnersInv
  /\ KeptInv /\ NotRepeated
  /\ HeardInv /\ CapturedInv

----------------------------------------------------------------------------
(* Counting endings *)

(* The count is a natural number.                                            *)
LEMMA SinceNat ==
  ASSUME NEW e \in Seq(Ending), NEW i \in Nat, NEW n \in Nat
  PROVE  /\ Since(e, i, n) \in Nat
         /\ IsFiniteSet({k \in i + 1 .. n : e[k].how = e[i].how})
<1> DEFINE S == {k \in i + 1 .. n : e[k].how = e[i].how}
<1>1. IsFiniteSet(i + 1 .. n) BY FS_Interval
<1>2. S \subseteq i + 1 .. n OBVIOUS
<1>3. IsFiniteSet(S) BY <1>1, <1>2, FS_Subset
<1> QED BY <1>3, FS_CardinalityType DEF Since

(* One more ending counts for those like it that came before.                *)
LEMMA SinceAppend ==
  ASSUME NEW e \in Seq(Ending), NEW x \in Ending, NEW i \in DOMAIN e
  PROVE  LET f == Append(e, x) IN
         /\ \A n \in 0 .. Len(e) : Since(f, i, n) = Since(e, i, n)
         /\ Since(f, i, Len(f)) =
              IF x.how = e[i].how THEN Since(e, i, Len(e)) + 1 ELSE Since(e, i, Len(e))
<1> DEFINE f == Append(e, x)
           S(n) == {k \in i + 1 .. n : e[k].how = e[i].how}
           T(n) == {k \in i + 1 .. n : f[k].how = f[i].how}
<1>1. /\ f \in Seq(Ending) /\ Len(f) = Len(e) + 1 /\ f[Len(e) + 1] = x
      /\ \A k \in 1 .. Len(e) : f[k] = e[k]
      /\ i \in 1 .. Len(e) /\ Len(e) \in Nat
  OBVIOUS
<1>2. ASSUME NEW n \in 0 .. Len(e) PROVE T(n) = S(n)
  BY <1>1
<1>3. IsFiniteSet(S(Len(e))) /\ Cardinality(S(Len(e))) \in Nat
  <2>1. i \in Nat /\ Len(e) \in Nat BY <1>1
  <2>2. /\ Since(e, i, Len(e)) \in Nat
        /\ IsFiniteSet({k \in i + 1 .. Len(e) : e[k].how = e[i].how})
    BY <2>1, SinceNat
  <2> QED BY <2>2 DEF Since
<1>4. T(Len(f)) = IF x.how = e[i].how THEN S(Len(e)) \cup {Len(e) + 1} ELSE S(Len(e))
  BY <1>1
<1>5. Len(e) + 1 \notin S(Len(e))
  BY <1>1
<1>6. Cardinality(S(Len(e)) \cup {Len(e) + 1}) = Cardinality(S(Len(e))) + 1
  BY <1>3, <1>5, FS_AddElement
<1> QED BY <1>2, <1>4, <1>6 DEF Since

(* The new ending has none after it.                                         *)
LEMMA SinceLast ==
  ASSUME NEW e \in Seq(Ending)
  PROVE  Since(e, Len(e), Len(e)) = 0
<1>1. {k \in Len(e) + 1 .. Len(e) : e[k].how = e[Len(e)].how} = {} OBVIOUS
<1> QED BY <1>1, FS_EmptySet DEF Since

(* The count grows with the endings counted.                                 *)
LEMMA SinceMonotone ==
  ASSUME NEW e \in Seq(Ending), NEW i \in Nat, NEW m \in Nat, NEW n \in Nat, m <= n
  PROVE  Since(e, i, m) <= Since(e, i, n)
<1> DEFINE S(k) == {j \in i + 1 .. k : e[j].how = e[i].how}
<1>1. IsFiniteSet(S(n)) BY SinceNat
<1>2. S(m) \subseteq S(n) OBVIOUS
<1>3. Cardinality(S(m)) <= Cardinality(S(n)) BY <1>1, <1>2, FS_Subset
<1> QED BY <1>3 DEF Since

----------------------------------------------------------------------------
(* A job ends *)

\* What a job that ends leaves behind.
Settled(d, how, made) ==
  /\ ended' \in Seq(Ending)
  /\ EndedDays \cup {d} \subseteq EndedDays'
  /\ job' \in [Days -> Job]
  /\ \A x \in Days :
       \/ job'[x] = NoJob /\ x \in EndedDays'
       \/ x = d /\ job'[x] = [job[d] EXCEPT !.state = how, !.made = made, !.owner = NoOne]
       \/ x # d /\ job'[x] = job[x]
  /\ KeptInv' /\ NotRepeated'

(* When an active job ends, the jobs dropped are those whose ending was kept *)
(* longest, and the others of its kind are still kept.                       *)
LEMMA SettleStep ==
  ASSUME IInv, NEW d \in Days, job[d].state = "active",
         NEW how \in {"completed", "failed"}, NEW made \in 0 .. Attempts,
         Settle(d, how, made)
  PROVE  Settled(d, how, made)
<1> DEFINE x == [day |-> d, how |-> how]
           last == Len(ended)
<1>1. /\ ended \in Seq(Ending) /\ x \in Ending /\ last \in Nat
      /\ ended' = Append(ended, x) /\ ended' \in Seq(Ending) /\ Len(ended') = last + 1
      /\ ended'[last + 1] = x /\ \A k \in 1 .. last : ended'[k] = ended[k] /\ ended[k] \in Ending
      /\ Kept \in Nat /\ job \in [Days -> Job]
  <2>1. ended \in Seq(Ending) /\ job \in [Days -> Job] BY DEF IInv, TypeOK
  <2>2. x \in Ending BY DEF Ending
  <2>3. ended' = Append(ended, x) BY DEF Settle
  <2> QED BY <2>1, <2>2, <2>3, QueueAssumption
<1>a. /\ \A i, n \in Nat : Since(ended, i, n) \in Nat
      /\ \A i, m, n \in Nat : m <= n => Since(ended, i, m) <= Since(ended, i, n)
  BY <1>1, SinceNat, SinceMonotone
\* What the invariant says of two endings of one day.
<1>b. \A i, k \in 1 .. last :
        i < k /\ ended[i].day = ended[k].day => Since(ended, i, k - 1) >= Kept
  <2> SUFFICES ASSUME NEW i \in 1 .. last, NEW k \in 1 .. last, i < k,
                      ended[i].day = ended[k].day
               PROVE  Since(ended, i, k - 1) >= Kept
    OBVIOUS
  <2>1. k \in DOMAIN ended /\ i \in 1 .. k - 1 BY <1>1
  <2> QED BY <2>1 DEF IInv, NotRepeated
<1>2. EndedDays \cup {d} \subseteq EndedDays'
  BY <1>1 DEF EndedDays
<1>3. Dropped(ended', how) \subseteq EndedDays'
  BY <1>1 DEF Dropped, EndedDays
<1>4. \A y \in Days :
       \/ job'[y] = NoJob /\ y \in Dropped(ended', how)
       \/ y = d /\ y \notin Dropped(ended', how)
            /\ job'[y] = [job[d] EXCEPT !.state = how, !.made = made, !.owner = NoOne]
       \/ y # d /\ y \notin Dropped(ended', how) /\ job'[y] = job[y]
  BY <1>1 DEF Settle
<1>5. job' \in [Days -> Job]
  <2>1. NoJob \in Job BY QueueAssumption DEF NoJob, Job, States
  <2>2. [job[d] EXCEPT !.state = how, !.made = made, !.owner = NoOne] \in Job
    BY <1>1 DEF Job, States
  <2> QED BY <1>1, <2>1, <2>2 DEF Settle
\* The job that ends was not kept.
<1>6. \A i \in 1 .. last : ended[i].day = d => Since(ended, i, last) >= Kept
  <2> SUFFICES ASSUME NEW i \in 1 .. last, ended[i].day = d
               PROVE  Since(ended, i, last) >= Kept
    OBVIOUS
  <2>1. Since(ended, i, last) \in Nat
    <3>1. i \in Nat /\ last \in Nat BY <1>1
    <3> QED BY <1>a, <3>1
  <2>2. job[d].state \notin {"completed", "failed"} OBVIOUS
  <2>3. i \in DOMAIN ended BY <1>1
  <2> QED BY <1>1, <2>1, <2>2, <2>3 DEF IInv, KeptInv
<1>7. \A i \in 1 .. last :
       /\ \A n \in 0 .. last : Since(ended', i, n) = Since(ended, i, n)
       /\ Since(ended', i, last + 1) =
            IF how = ended[i].how THEN Since(ended, i, last) + 1 ELSE Since(ended, i, last)
       /\ Since(ended, i, last) \in Nat
  <2> SUFFICES ASSUME NEW i \in 1 .. last
               PROVE  /\ \A n \in 0 .. last : Since(ended', i, n) = Since(ended, i, n)
                      /\ Since(ended', i, last + 1) =
                           IF how = ended[i].how THEN Since(ended, i, last) + 1
                                                 ELSE Since(ended, i, last)
                      /\ Since(ended, i, last) \in Nat
    OBVIOUS
  <2>1. i \in DOMAIN ended BY <1>1
  <2>2. /\ \A n \in 0 .. last : Since(Append(ended, x), i, n) = Since(ended, i, n)
        /\ Since(Append(ended, x), i, Len(Append(ended, x))) =
             IF x.how = ended[i].how THEN Since(ended, i, last) + 1
                                     ELSE Since(ended, i, last)
    BY <1>1, <2>1, SinceAppend
  <2>3. Since(ended, i, last) \in Nat
    <3>1. i \in Nat /\ last \in Nat BY <1>1
    <3> QED BY <1>a, <3>1
  <2>4. x.how = how OBVIOUS
  <2>5. Since(ended', i, last + 1) =
          IF how = ended[i].how THEN Since(ended, i, last) + 1 ELSE Since(ended, i, last)
    BY <1>1, <2>2, <2>4
  <2> QED BY <1>1, <2>2, <2>3, <2>5
<1>8. Since(ended', last + 1, last + 1) = 0
  BY <1>1, SinceLast
\* What is dropped had one ending too few after it until now.
<1>9. ASSUME NEW k \in 1 .. last, ended[k].how = how, Since(ended', k, last + 1) = Kept
      PROVE  Since(ended, k, last) < Kept
  BY <1>1, <1>7, <1>9
<1>10. NotRepeated'
  <2> SUFFICES ASSUME NEW j \in 1 .. last + 1, NEW i \in 1 .. j - 1,
                      ended'[i].day = ended'[j].day
               PROVE  Since(ended', i, j - 1) >= Kept
    BY <1>1 DEF NotRepeated
  <2>1. CASE j = last + 1
    BY <1>1, <1>6, <1>7, <2>1
  <2>2. CASE j \in 1 .. last
    <3>1. ended[i].day = ended[j].day /\ i \in 1 .. last /\ i < j /\ j - 1 \in 0 .. last
      BY <1>1, <2>2
    <3> QED BY <1>7, <1>b, <2>2, <3>1
  <2> QED BY <1>1, <2>1, <2>2
<1>11. KeptInv'
  <2> SUFFICES ASSUME NEW i \in 1 .. last + 1, Since(ended', i, last + 1) < Kept
               PROVE  job'[ended'[i].day].state \in {"completed", "failed"}
    BY <1>1 DEF KeptInv
  <2>1. CASE i = last + 1
    <3>1. d \notin Dropped(ended', how)
      BY <1>1, <1>6, <1>7, <1>8, <1>9, <2>1 DEF Dropped
    <3>2. job[d] \in Job /\ ended'[i].day = d BY <1>1, <2>1
    <3>3. job'[d] = [job[d] EXCEPT !.state = how, !.made = made, !.owner = NoOne]
      BY <1>4, <3>1
    <3>4. job'[d].state = how BY <3>2, <3>3 DEF Job
    <3> QED BY <3>2, <3>4
  <2>2. CASE i \in 1 .. last
    <3> DEFINE y == ended[i].day
    <3>1. Since(ended, i, last) < Kept
      BY <1>1, <1>7, <2>2
    <3>2. job[y].state \in {"completed", "failed"} /\ y # d /\ y \in Days
      BY <1>1, <2>2, <3>1 DEF IInv, KeptInv, Ending
    <3>3. ASSUME NEW k \in 1 .. last + 1, ended'[k].how = how, ended'[k].day = y,
                 Since(ended', k, last + 1) = Kept
          PROVE  FALSE
      <4>1. k \in 1 .. last /\ k # i
        BY <1>1, <3>2, <3>3
      <4>2. Since(ended, k, last) < Kept
        BY <1>1, <1>9, <3>3, <4>1
      <4>3. CASE k < i
        <5>1. Since(ended, k, i - 1) >= Kept
          BY <1>1, <1>b, <2>2, <3>3, <4>1, <4>3
        <5>a. k \in Nat /\ i - 1 \in Nat /\ last \in Nat /\ i - 1 <= last
          BY <1>1, <2>2, <4>1
        <5>2. Since(ended, k, i - 1) <= Since(ended, k, last)
          BY <1>a, <5>a
        <5>3. Since(ended, k, i - 1) \in Nat /\ Since(ended, k, last) \in Nat
          BY <1>a, <5>a
        <5> QED BY <1>1, <4>2, <5>1, <5>2, <5>3
      <4>4. CASE i < k
        <5>1. Since(ended, i, k - 1) >= Kept
          BY <1>1, <1>b, <2>2, <3>3, <4>1, <4>4
        <5>a. i \in Nat /\ k - 1 \in Nat /\ last \in Nat /\ k - 1 <= last
          BY <1>1, <2>2, <4>1
        <5>2. Since(ended, i, k - 1) <= Since(ended, i, last)
          BY <1>a, <5>a
        <5>3. Since(ended, i, k - 1) \in Nat /\ Since(ended, i, last) \in Nat
          BY <1>a, <5>a
        <5> QED BY <1>1, <3>1, <5>1, <5>2, <5>3
      <4> QED BY <1>1, <2>2, <4>1, <4>3, <4>4
    <3>4. y \notin Dropped(ended', how)
      BY <1>1, <3>3 DEF Dropped
    <3> QED BY <1>1, <1>4, <2>2, <3>2, <3>4
  <2> QED BY <1>1, <2>1, <2>2
<1> QED BY <1>1, <1>2, <1>3, <1>4, <1>5, <1>10, <1>11 DEF Settled

(* A step that ends no job and touches none that ended keeps both.           *)
LEMMA QuietStep ==
  ASSUME IInv, UNCHANGED ended,
         \A x \in Days : job[x].state \in {"completed", "failed"} =>
                          job'[x].state \in {"completed", "failed"}
  PROVE  KeptInv' /\ NotRepeated'
<1>1. \A i \in DOMAIN ended : ended[i].day \in Days
  <2>1. ended \in Seq(Ending) BY DEF IInv, TypeOK
  <2>2. \A i \in DOMAIN ended : ended[i] \in Ending BY <2>1
  <2> QED BY <2>2 DEF Ending
<1> QED BY <1>1 DEF IInv, KeptInv, NotRepeated, Since

----------------------------------------------------------------------------
(* The jobs and their workers *)

Safe == CountsInv /\ StartsBounded /\ OwnersInv /\ KeptInv /\ NotRepeated

\* One job changes, and with it its counts.
OnlyChanges(d) ==
  /\ job' \in [Days -> Job]
  /\ starts' \in [Days -> Nat]
  /\ \A x \in Days : x # d => job'[x] = job[x] /\ starts'[x] = starts[x]

(* A job that goes on, or is added, keeps the invariant when its counts and  *)
(* its owner do.                                                             *)
LEMMA GoesOn ==
  ASSUME IInv, NEW d \in Days, OnlyChanges(d), UNCHANGED ended,
         job[d].state \notin {"completed", "failed"},
         job'[d].state \notin {"completed", "failed"},
         Counted(job'[d], starts'[d]), starts'[d] <= Attempts + MaxStalls,
         job[d].stalls > 0 => job'[d].stalls > 0,
         \A r \in Replicas : worker'[r] # 0 =>
           \/ worker'[r] = d /\ job'[d].owner = r
           \/ worker'[r] = d /\ job'[d].stalls > 0
           \/ worker'[r] = worker[r] /\ (worker[r] = d => job[d].owner # r)
  PROVE  Safe'
<1>0. TypeOK /\ CountsInv /\ StartsBounded /\ OwnersInv
  BY DEF IInv
<1>1. CountsInv' /\ StartsBounded'
  BY <1>0 DEF OnlyChanges, CountsInv, StartsBounded
<1>3. OwnersInv'
  <2> SUFFICES ASSUME NEW r \in Replicas, worker'[r] # 0
               PROVE  \/ job'[worker'[r]].owner = r
                      \/ job'[worker'[r]].stalls > 0
                      \/ worker'[r] \in EndedDays
    BY DEF OwnersInv, EndedDays
  <2>1. CASE worker'[r] = d /\ (job'[d].owner = r \/ job'[d].stalls > 0)
    BY <2>1
  <2>2. CASE worker'[r] = worker[r] /\ (worker[r] = d => job[d].owner # r)
    <3>1. worker[r] \in Days /\ worker[r] # 0
      BY <1>0, <2>2 DEF TypeOK, Days
    <3>2. \/ job[worker[r]].owner = r
          \/ job[worker[r]].stalls > 0
          \/ worker[r] \in EndedDays
      BY <1>0, <3>1 DEF OwnersInv
    <3>3. CASE worker[r] = d BY <2>2, <3>2, <3>3
    <3>4. CASE worker[r] # d
      <4>1. job'[worker[r]] = job[worker[r]] BY <3>1, <3>4 DEF OnlyChanges
      <4> QED BY <2>2, <3>2, <4>1
    <3> QED BY <3>3, <3>4
  <2> QED BY <2>1, <2>2
<1>4. KeptInv' /\ NotRepeated'
  <2>1. \A x \in Days : job[x].state \in {"completed", "failed"} =>
                         job'[x].state \in {"completed", "failed"}
    BY DEF OnlyChanges
  <2> QED BY <2>1, QuietStep
<1> QED BY <1>1, <1>3, <1>4 DEF Safe

(* A job that ends keeps the invariant.                                      *)
LEMMA Ends ==
  ASSUME IInv, NEW d \in Days, job[d].state = "active",
         NEW how \in {"completed", "failed"}, NEW made \in 0 .. Attempts,
         Settled(d, how, made), UNCHANGED starts,
         \A r \in Replicas : worker'[r] # 0 => worker'[r] = worker[r]
  PROVE  Safe'
<1>0. /\ TypeOK /\ CountsInv /\ StartsBounded /\ OwnersInv
      /\ job[d] \in Job
  BY DEF IInv, TypeOK
<1> DEFINE v == [job[d] EXCEPT !.state = how, !.made = made, !.owner = NoOne]
<1>1. v.state = how /\ v.owner = NoOne /\ v.stalls = job[d].stalls
  BY <1>0 DEF Job
<1>2. /\ NoJob.state = "none" /\ NoJob.owner = NoOne
  BY DEF NoJob
<1>3. \A x \in Days : \/ job'[x] = NoJob /\ x \in EndedDays'
                      \/ x = d /\ job'[x] = v
                      \/ x # d /\ job'[x] = job[x]
  BY DEF Settled
<1>4. CountsInv' /\ StartsBounded'
  <2>1. Counted(v, starts[d]) BY <1>1 DEF Counted
  <2>2. \A n : Counted(NoJob, n) BY <1>2 DEF Counted
  <2>3. \A x \in Days : Counted(job[x], starts[x]) BY <1>0 DEF CountsInv
  <2> QED BY <1>0, <1>3, <2>1, <2>2, <2>3 DEF CountsInv, StartsBounded
<1>6. OwnersInv'
  <2> SUFFICES ASSUME NEW r \in Replicas, worker'[r] # 0
               PROVE  \/ job'[worker[r]].owner = r
                      \/ job'[worker[r]].stalls > 0
                      \/ worker[r] \in EndedDays'
    BY DEF OwnersInv, EndedDays
  <2>1. worker'[r] = worker[r] /\ worker[r] \in Days
    BY <1>0 DEF TypeOK, Days
  <2>2. \/ job[worker[r]].owner = r
        \/ job[worker[r]].stalls > 0
        \/ worker[r] \in EndedDays
    BY <1>0, <2>1 DEF OwnersInv
  <2>3. EndedDays \subseteq EndedDays' /\ d \in EndedDays'
    BY DEF Settled
  <2> QED BY <1>3, <2>1, <2>2, <2>3
<1> QED BY <1>4, <1>6 DEF Safe, Settled

----------------------------------------------------------------------------
(* Reports *)

(* Replicas are finitely many, and so are the reports to come.               *)
LEMMA PendingFinite ==
  ASSUME NEW d
  PROVE  IsFiniteSet(Pending(d)) /\ Cardinality(Pending(d)) \in Nat
<1>1. Pending(d) \subseteq Replicas BY DEF Pending
<1>2. IsFiniteSet(Pending(d)) BY <1>1, QueueAssumption, FS_Subset
<1> QED BY <1>2, FS_CardinalityType

(* So are the failures of a day.                                             *)
LEMMA FailuresNat ==
  ASSUME ended \in Seq(Ending), NEW d
  PROVE  IsFiniteSet(Failures(d)) /\ Cardinality(Failures(d)) \in Nat
<1>1. IsFiniteSet(1 .. Len(ended)) BY FS_Interval
<1>2. Failures(d) \subseteq 1 .. Len(ended) BY DEF Failures
<1> QED BY <1>1, <1>2, FS_Subset, FS_CardinalityType

(* A failed job that ends is one more of its day's.                          *)
LEMMA FailuresAppend ==
  ASSUME ended \in Seq(Ending), NEW d \in Days, NEW how \in {"completed", "failed"},
         ended' = Append(ended, [day |-> d, how |-> how]), NEW x \in Days
  PROVE  /\ Cardinality(Failures(x)) \in Nat
         /\ Cardinality(Failures(x)') =
              IF x = d /\ how = "failed" THEN Cardinality(Failures(x)) + 1
                                         ELSE Cardinality(Failures(x))
<1> DEFINE last == Len(ended)
           e == [day |-> d, how |-> how]
<1>1. /\ last \in Nat /\ DOMAIN ended = 1 .. last /\ DOMAIN ended' = 1 .. last + 1
      /\ ended'[last + 1] = e /\ \A k \in 1 .. last : ended'[k] = ended[k]
  OBVIOUS
<1>2. IsFiniteSet(Failures(x)) /\ Cardinality(Failures(x)) \in Nat
  BY FailuresNat
<1>3. CASE x = d /\ how = "failed"
  <2>1. e = [day |-> x, how |-> "failed"] BY <1>3
  <2>2. Failures(x)' = Failures(x) \cup {last + 1} BY <1>1, <2>1 DEF Failures
  <2>3. last + 1 \notin Failures(x) BY <1>1 DEF Failures
  <2>4. Cardinality(Failures(x) \cup {last + 1}) = Cardinality(Failures(x)) + 1
    BY <1>2, <2>3, FS_AddElement
  <2> QED BY <1>2, <1>3, <2>2, <2>4
<1>4. CASE ~(x = d /\ how = "failed")
  <2>1. e # [day |-> x, how |-> "failed"]
    <3>1. e.day = d /\ e.how = how OBVIOUS
    <3>2. [day |-> x, how |-> "failed"].day = x /\ [day |-> x, how |-> "failed"].how = "failed"
      OBVIOUS
    <3> QED BY <1>4, <3>1, <3>2
  <2>2. Failures(x)' = Failures(x) BY <1>1, <2>1 DEF Failures
  <2> QED BY <1>2, <1>4, <2>2
<1> QED BY <1>3, <1>4

(* Events that are emitted or lost, and jobs that complete, make no report.  *)
LEMMA FewerEvents ==
  ASSUME IInv, UNCHANGED alerts,
         \A d \in Days : Pending(d)' \subseteq Pending(d),
         \A d \in Days : Cardinality(Failures(d)') = Cardinality(Failures(d))
  PROVE  HeardInv'
<1> SUFFICES ASSUME NEW d \in Days
             PROVE  alerts[d] + Cardinality(Pending(d)') <= Cardinality(Failures(d)')
  BY DEF HeardInv
<1>1. IsFiniteSet(Pending(d)) /\ Cardinality(Pending(d)) \in Nat BY PendingFinite
<1>2. /\ IsFiniteSet(Pending(d)') /\ Cardinality(Pending(d)') \in Nat
      /\ Cardinality(Pending(d)') <= Cardinality(Pending(d))
  BY <1>1, FS_Subset, FS_CardinalityType
<1>3. alerts[d] \in Nat /\ ended \in Seq(Ending) BY DEF IInv, TypeOK
<1>4. Cardinality(Failures(d)) \in Nat BY <1>3, FailuresNat
<1>5. alerts[d] + Cardinality(Pending(d)) <= Cardinality(Failures(d)) BY DEF IInv, HeardInv
<1>6. Cardinality(Failures(d)') = Cardinality(Failures(d)) OBVIOUS
<1> HIDE DEF Pending
<1> QED BY <1>1, <1>2, <1>3, <1>4, <1>5, <1>6

(* A job that failed may be reported once more.                              *)
LEMMA FailureEvent ==
  ASSUME IInv, UNCHANGED alerts, NEW r \in Replicas, NEW d \in Days, NEW made \in Nat,
         Emits(r, d, made), ended' = Append(ended, [day |-> d, how |-> "failed"])
  PROVE  HeardInv'
<1>0. event \in [Replicas -> Event] /\ ended \in Seq(Ending) /\ alerts \in [Days -> Nat]
  BY DEF IInv, TypeOK
<1> SUFFICES ASSUME NEW x \in Days
             PROVE  alerts[x] + Cardinality(Pending(x)') <= Cardinality(Failures(x)')
  BY DEF HeardInv
<1>1. IsFiniteSet(Pending(x)) /\ Cardinality(Pending(x)) \in Nat BY PendingFinite
<1>2. /\ Cardinality(Failures(x)) \in Nat
      /\ Cardinality(Failures(x)') = IF x = d THEN Cardinality(Failures(x)) + 1
                                              ELSE Cardinality(Failures(x))
  BY <1>0, FailuresAppend
<1>3. alerts[x] \in Nat /\ alerts[x] + Cardinality(Pending(x)) <= Cardinality(Failures(x))
  BY <1>0 DEF IInv, HeardInv
<1>4. /\ event'[r] = [day |-> d, made |-> made]
      /\ \A q \in Replicas : q # r => event'[q] = event[q]
  BY <1>0 DEF Emits
<1>5. CASE x = d
  <2>1. Pending(x)' \subseteq Pending(x) \cup {r} BY <1>4 DEF Pending, Report
  <2>2. /\ IsFiniteSet(Pending(x) \cup {r})
        /\ Cardinality(Pending(x) \cup {r}) <= Cardinality(Pending(x)) + 1
    <3>1. /\ IsFiniteSet(Pending(x) \cup {r})
          /\ Cardinality(Pending(x) \cup {r}) =
               IF r \in Pending(x) THEN Cardinality(Pending(x)) ELSE Cardinality(Pending(x)) + 1
      BY <1>1, FS_AddElement
    <3> QED BY <1>1, <3>1
  <2>3. /\ Cardinality(Pending(x)') \in Nat
        /\ Cardinality(Pending(x)') <= Cardinality(Pending(x) \cup {r})
        /\ Cardinality(Pending(x) \cup {r}) \in Nat
    BY <2>1, <2>2, FS_Subset, FS_CardinalityType
  <2> QED BY <1>1, <1>2, <1>3, <1>5, <2>2, <2>3
<1>6. CASE x # d
  <2>1. Pending(x)' \subseteq Pending(x) BY <1>4, <1>6 DEF Pending, Report
  <2>2. /\ Cardinality(Pending(x)') \in Nat
        /\ Cardinality(Pending(x)') <= Cardinality(Pending(x))
    BY <1>1, <2>1, FS_Subset, FS_CardinalityType
  <2> QED BY <1>1, <1>2, <1>3, <1>6, <2>2
<1> QED BY <1>5, <1>6

(* A report that is made is no longer to come.                               *)
LEMMA ReportStep ==
  ASSUME IInv, NEW r \in Replicas, OnJobFailed(r)
  PROVE  HeardInv'
<1>0. event \in [Replicas -> Event] /\ alerts \in [Days -> Nat] /\ ended \in Seq(Ending)
  BY DEF IInv, TypeOK
<1> DEFINE d == event[r].day
<1> SUFFICES ASSUME NEW x \in Days
             PROVE  alerts'[x] + Cardinality(Pending(x)') <= Cardinality(Failures(x)')
  BY DEF HeardInv
<1>1. IsFiniteSet(Pending(x)) /\ Cardinality(Pending(x)) \in Nat BY PendingFinite
<1>2. Failures(x)' = Failures(x) BY DEF OnJobFailed, queueVars, Failures
<1>3. alerts[x] \in Nat /\ alerts[x] + Cardinality(Pending(x)) <= Cardinality(Failures(x))
  BY <1>0 DEF IInv, HeardInv
<1>4. /\ event'[r] = NoEvent
      /\ \A q \in Replicas : q # r => event'[q] = event[q]
  BY <1>0 DEF OnJobFailed
<1>5. Pending(x)' = Pending(x) \ {r}
  <2>1. event'[r].day = 0 BY <1>4 DEF NoEvent
  <2>2. x # 0 BY QueueAssumption DEF Days
  <2> QED BY <1>4, <2>1, <2>2 DEF Pending, Report
<1>6. Cardinality(Failures(x)') = Cardinality(Failures(x)) BY <1>2
<1>7. CASE x = d /\ Report(event[r].made)
  <2>1. r \in Pending(x) BY <1>7 DEF Pending
  <2>2. Cardinality(Pending(x) \ {r}) = Cardinality(Pending(x)) - 1
    BY <1>1, <2>1, FS_RemoveElement
  <2>3. alerts'[x] = alerts[x] + 1 BY <1>0, <1>7 DEF OnJobFailed
  <2>4. Cardinality(Pending(x)') = Cardinality(Pending(x)) - 1 BY <1>5, <2>2
  <2>5. Cardinality(Failures(x)) \in Nat BY <1>0, FailuresNat
  <2> HIDE DEF d
  <2> QED BY <1>1, <1>3, <1>6, <2>3, <2>4, <2>5
<1>8. CASE ~(x = d /\ Report(event[r].made))
  <2>1. r \notin Pending(x) BY <1>8 DEF Pending
  <2>2. Pending(x)' = Pending(x) BY <1>5, <2>1
  <2>3. alerts'[x] = alerts[x] BY <1>0, <1>8 DEF OnJobFailed
  <2> QED BY <1>3, <1>6, <2>2, <2>3
<1> QED BY <1>7, <1>8

----------------------------------------------------------------------------
(* The invariant *)

LEMMA InitInv == Init => IInv
<1> SUFFICES ASSUME Init PROVE IInv OBVIOUS
<1> USE QueueAssumption
<1>1. TypeOK
  BY DEF Init, TypeOK, Days, Job, NoJob, States, Ending, Event, NoEvent
<1>2. CountsInv /\ StartsBounded
  BY DEF Init, CountsInv, Counted, StartsBounded, NoJob
<1>3. OwnersInv BY DEF Init, OwnersInv
<1>4. KeptInv /\ NotRepeated BY DEF Init, KeptInv, NotRepeated
<1>5. HeardInv
  <2> SUFFICES ASSUME NEW d \in Days
               PROVE  alerts[d] + Cardinality(Pending(d)) <= Cardinality(Failures(d))
    BY DEF HeardInv
  <2>1. Pending(d) = {}
    <3>1. \A r \in Replicas : event[r].day # d BY DEF Init, NoEvent, Days
    <3> QED BY <3>1 DEF Pending
  <2>2. Failures(d) = {} BY DEF Init, Failures
  <2>3. alerts[d] = 0 BY DEF Init
  <2> QED BY <2>1, <2>2, <2>3, FS_EmptySet
<1>6. CapturedInv BY DEF Init, CapturedInv, Captured, NoJob
<1> QED BY <1>1, <1>2, <1>3, <1>4, <1>5, <1>6 DEF IInv

(* Every step keeps the types and the account of the jobs and their workers. *)
LEMMA StepSafe == IInv /\ [Next]_vars => TypeOK' /\ Safe'
<1> SUFFICES ASSUME IInv, [Next]_vars PROVE TypeOK' /\ Safe'
  OBVIOUS
<1> USE QueueAssumption DEF queueVars, workerVars, reportVars
<1>0. /\ TypeOK /\ CountsInv /\ StartsBounded /\ OwnersInv
      /\ KeptInv /\ NotRepeated
      /\ \A d \in Days : job[d] \in Job
  BY DEF IInv, TypeOK
<1>b. NoEvent \in Event BY DEF NoEvent, Event
\* Steps that leave the jobs and the workers alone.
<1>1. ASSUME UNCHANGED <<job, worker, ended, starts>> PROVE Safe'
  <2>1. CountsInv' /\ StartsBounded' /\ OwnersInv'
    BY <1>0, <1>1 DEF CountsInv, StartsBounded, OwnersInv, EndedDays
  <2>2. KeptInv' /\ NotRepeated' BY <1>1, QuietStep
  <2> QED BY <2>1, <2>2 DEF Safe
<1>2. ASSUME NewDay PROVE TypeOK' /\ Safe'
  <2>1. /\ day' \in Days /\ crashes \in 0 .. MaxCrashes
        /\ UNCHANGED <<up, due, job, ended, worker, event, starts, captured, alerts, crashes>>
    BY <1>0, <1>2 DEF NewDay, TypeOK, Days
  <2>2. TypeOK' BY <1>0, <2>1 DEF TypeOK
  <2> QED BY <1>1, <2>1, <2>2
<1>3. ASSUME NEW r \in Replicas, Tick(r) PROVE TypeOK' /\ Safe'
  BY <1>0, <1>1, <1>3 DEF Tick, TypeOK
<1>4. ASSUME NEW r \in Replicas, EnqueueFails(r) PROVE TypeOK' /\ Safe'
  BY <1>0, <1>1, <1>4 DEF EnqueueFails, TypeOK
<1>5. ASSUME NEW r \in Replicas, Boot(r) PROVE TypeOK' /\ Safe'
  BY <1>0, <1>1, <1>5 DEF Boot, TypeOK
<1>6. ASSUME UNCHANGED vars PROVE TypeOK' /\ Safe'
  BY <1>0, <1>1, <1>6 DEF vars, TypeOK
<1>16. ASSUME NEW r \in Replicas, OnJobFailed(r) PROVE TypeOK' /\ Safe'
  <2>1. alerts' \in [Days -> Nat] /\ event' \in [Replicas -> Event]
    <3>1. alerts \in [Days -> Nat] /\ event \in [Replicas -> Event] BY <1>0 DEF TypeOK
    <3>2. event' = [event EXCEPT ![r] = NoEvent] BY <1>16 DEF OnJobFailed
    <3>3. PICK x : alerts' = [alerts EXCEPT ![event[r].day] =
                               IF x THEN @ + 1 ELSE @]
      BY <1>16, Zenon DEF OnJobFailed
    <3>4. ASSUME event[r].day \in Days PROVE alerts[event[r].day] + 1 \in Nat
      BY <3>1, <3>4
    <3>5. alerts' \in [Days -> Nat] BY <3>1, <3>3, <3>4
    <3> QED BY <1>b, <3>1, <3>2, <3>5
  <2> QED BY <1>0, <1>1, <1>16, <2>1 DEF OnJobFailed, TypeOK
\* Steps that change what the workers do.
<1>7. ASSUME UNCHANGED <<job, ended, starts>>, NEW r \in Replicas, Idle(r)
      PROVE  Safe'
  <2>1. CountsInv' /\ StartsBounded'
    BY <1>0, <1>7 DEF CountsInv, StartsBounded
  <2>2. OwnersInv' BY <1>0, <1>7 DEF Idle, TypeOK, OwnersInv, EndedDays
  <2>3. KeptInv' /\ NotRepeated' BY <1>7, QuietStep
  <2> QED BY <2>1, <2>2, <2>3 DEF Safe
<1>8. ASSUME NEW r \in Replicas, EndUnowned(r) PROVE TypeOK' /\ Safe'
  <2>1. TypeOK' BY <1>0, <1>8 DEF EndUnowned, Idle, TypeOK
  <2>2. Idle(r) /\ UNCHANGED <<job, ended, starts>> BY <1>8 DEF EndUnowned
  <2> QED BY <1>7, <2>1, <2>2
<1>9. ASSUME NEW r \in Replicas, Crash(r) PROVE TypeOK' /\ Safe'
  <2>0. event' \in [Replicas -> Event] BY <1>0, <1>b, <1>9 DEF Crash, TypeOK
  <2>1. TypeOK' BY <1>0, <1>9, <2>0 DEF Crash, Idle, TypeOK
  <2>2. Idle(r) /\ UNCHANGED <<job, ended, starts>> BY <1>9 DEF Crash
  <2> QED BY <1>7, <2>1, <2>2
\* A job goes on.
<1>10. ASSUME NEW r \in Replicas, Enqueue(r) PROVE TypeOK' /\ Safe'
  <2>1. CASE job[day].state # "none"
    BY <1>0, <1>1, <1>10, <2>1 DEF Enqueue, TypeOK
  <2>2. CASE job[day].state = "none"
    <3>1. job[day] = NoJob /\ day \in Days
      BY <1>0, <2>2 DEF CountsInv, Counted, TypeOK
    <3> DEFINE v == [NoJob EXCEPT !.state = "waiting"]
    <3>2. /\ v \in Job /\ v.state = "waiting" /\ v.made = 0 /\ v.stalls = 0
          /\ v.owner = NoOne
      BY DEF NoJob, Job, States
    <3>3. /\ job' = [job EXCEPT ![day] = v] /\ starts' = [starts EXCEPT ![day] = 0]
          /\ captured' = [captured EXCEPT ![day] = 0]
          /\ due' = due \ {r} /\ UNCHANGED <<day, up, worker, event, ended, alerts, crashes>>
      BY <1>10, <2>2, <3>1 DEF Enqueue
    <3>4. OnlyChanges(day) /\ job'[day] = v /\ starts'[day] = 0
      BY <1>0, <3>1, <3>2, <3>3 DEF OnlyChanges, TypeOK
    <3>5. TypeOK'
      BY <1>0, <3>3, <3>4 DEF TypeOK, OnlyChanges
    <3>6. Counted(v, 0)
      BY <3>2 DEF Counted
    <3>7. job[day].stalls = 0 /\ job[day].owner = NoOne BY <3>1 DEF NoJob
    <3>8. \A q \in Replicas : worker'[q] = worker[q] /\ job[day].owner # q
      BY <3>3, <3>7
    <3> QED BY <2>2, <3>1, <3>2, <3>3, <3>4, <3>5, <3>6, <3>7, <3>8, GoesOn
  <2> QED BY <2>1, <2>2
<1>11. ASSUME NEW r \in Replicas, NEW d \in Days, Take(r, d) PROVE TypeOK' /\ Safe'
  <2> DEFINE v == [job[d] EXCEPT !.state = "active", !.owner = r]
  <2>1. /\ v \in Job /\ v.state = "active" /\ v.made = job[d].made
        /\ v.stalls = job[d].stalls /\ v.owner = r
    BY <1>0 DEF Job, States
  <2>2. /\ job' = [job EXCEPT ![d] = v] /\ starts' = [starts EXCEPT ![d] = @ + 1]
        /\ worker' = [worker EXCEPT ![r] = d] /\ worker[r] = 0
        /\ job[d].state = "waiting"
        /\ UNCHANGED <<day, up, due, event, ended, captured, alerts, crashes>>
    BY <1>11 DEF Take
  <2>3. OnlyChanges(d) /\ job'[d] = v /\ starts'[d] = starts[d] + 1
    BY <1>0, <2>1, <2>2 DEF OnlyChanges, TypeOK
  <2>a. worker' \in [Replicas -> 0 .. LastDay]
    <3>1. worker \in [Replicas -> 0 .. LastDay] /\ d \in 0 .. LastDay
      BY <1>0 DEF TypeOK, Days
    <3> QED BY <2>2, <3>1
  <2>4. TypeOK'
    <3>1. job' \in [Days -> Job] /\ starts' \in [Days -> Nat] BY <2>3 DEF OnlyChanges
    <3> QED BY <1>0, <2>2, <2>a, <3>1 DEF TypeOK
  <2>5. starts[d] <= job[d].made + job[d].stalls /\ job[d].made < Attempts
        /\ starts[d] \in Nat /\ job[d].made \in Nat /\ job[d].stalls \in 0 .. MaxStalls
        /\ job[d].owner = NoOne
    BY <1>0, <2>2 DEF CountsInv, Counted, TypeOK, Job
  <2>6. Counted(v, starts[d] + 1) /\ starts[d] + 1 <= Attempts + MaxStalls
    BY <2>1, <2>5 DEF Counted
  <2>7. \A q \in Replicas : \/ worker'[q] = d /\ v.owner = q
                            \/ worker'[q] = worker[q] /\ job[d].owner # q
    BY <1>0, <2>1, <2>2, <2>5 DEF TypeOK
  <2>8. /\ Counted(job'[d], starts'[d]) /\ starts'[d] <= Attempts + MaxStalls
        /\ job[d].stalls > 0 => job'[d].stalls > 0
        /\ job'[d].state \notin {"completed", "failed"}
        /\ \A q \in Replicas : worker'[q] # 0 =>
             \/ worker'[q] = d /\ job'[d].owner = q
             \/ worker'[q] = worker[q] /\ (worker[q] = d => job[d].owner # q)
    BY <2>1, <2>3, <2>6, <2>7
  <2> QED BY <2>2, <2>3, <2>4, <2>8, GoesOn
<1>12. ASSUME NEW d \in Days, BackoffEnds(d) PROVE TypeOK' /\ Safe'
  <2> DEFINE v == [job[d] EXCEPT !.state = "waiting"]
  <2>1. /\ v \in Job /\ v.state = "waiting" /\ v.made = job[d].made
        /\ v.stalls = job[d].stalls /\ v.owner = job[d].owner
    BY <1>0 DEF Job, States
  <2>2. /\ job' = [job EXCEPT ![d] = v] /\ job[d].state = "delayed"
        /\ UNCHANGED <<day, up, due, worker, event, ended, starts, captured, alerts, crashes>>
    BY <1>12 DEF BackoffEnds
  <2>3. OnlyChanges(d) /\ job'[d] = v /\ starts'[d] = starts[d]
    BY <1>0, <2>1, <2>2 DEF OnlyChanges, TypeOK
  <2>4. TypeOK'
    BY <1>0, <2>2, <2>3 DEF TypeOK, OnlyChanges
  <2>5. Counted(v, starts[d]) /\ starts[d] <= Attempts + MaxStalls
        /\ job[d].owner = NoOne
    BY <1>0, <2>1, <2>2 DEF CountsInv, Counted, StartsBounded
  <2> QED BY <2>1, <2>2, <2>3, <2>4, <2>5, GoesOn
<1>13. ASSUME NEW r \in Replicas, Fail(r) PROVE TypeOK' /\ Safe'
  <2> DEFINE d == worker[r]
             made == job[d].made + 1
             v == [job[d] EXCEPT !.state = "delayed", !.made = made, !.owner = NoOne]
  <2>1. /\ d \in Days /\ job[d].owner = r
        /\ Idle(r) /\ UNCHANGED <<day, up, due, starts, alerts, crashes>>
        /\ captured' = [captured EXCEPT ![d] = @ + 1]
        /\ event' = [event EXCEPT ![r] = [day |-> d, made |-> made]]
    BY <1>0, <1>13 DEF Fail, Owns, MadeAfter, Captures, Emits, TypeOK, Days
  <2>2. /\ job[d].state = "active" /\ job[d] \in Job
        /\ starts[d] <= job[d].made + job[d].stalls + 1 /\ starts[d] \in Nat
        /\ job[d].made \in 0 .. Attempts /\ job[d].made < Attempts
        /\ job[d].stalls \in 0 .. MaxStalls /\ made \in 0 .. Attempts
    BY <1>0, <2>1 DEF CountsInv, Counted, TypeOK, Job
  <2>3. worker' \in [Replicas -> 0 .. LastDay]
        /\ \A q \in Replicas : worker'[q] # 0 => worker'[q] = worker[q] /\ q # r
    BY <1>0, <2>1 DEF Idle, TypeOK
  <2>a. captured' \in [Days -> Nat] /\ event' \in [Replicas -> Event]
    <3>1. captured \in [Days -> Nat] /\ event \in [Replicas -> Event] BY <1>0 DEF TypeOK
    <3>2. [day |-> d, made |-> made] \in Event BY <2>1, <2>2 DEF Event, Days
    <3>3. captured[d] + 1 \in Nat BY <2>1, <3>1
    <3> QED BY <2>1, <3>1, <3>2, <3>3
  <2>4. CASE made >= Attempts
    <3>1. Settle(d, "failed", made)
      BY <1>13, <2>4 DEF Fail, MadeAfter, Exhausted
    <3>2. Settled(d, "failed", made) BY <2>1, <2>2, <3>1, SettleStep
    <3>4. TypeOK' BY <1>0, <2>1, <2>3, <2>a, <3>2 DEF Settled, TypeOK
    <3> QED BY <2>1, <2>2, <2>3, <3>2, <3>4, Ends
  <2>5. CASE ~(made >= Attempts)
    <3>1. job' = [job EXCEPT ![d] = v] /\ UNCHANGED ended
      BY <1>13, <2>5 DEF Fail, MadeAfter, Exhausted
    <3>2. /\ v \in Job /\ v.state = "delayed" /\ v.made = made
          /\ v.stalls = job[d].stalls /\ v.owner = NoOne
      BY <2>2 DEF Job, States
    <3>3. OnlyChanges(d) /\ job'[d] = v /\ starts'[d] = starts[d]
      BY <1>0, <2>1, <2>2, <3>1, <3>2 DEF OnlyChanges, TypeOK
    <3>4. TypeOK'
      BY <1>0, <2>1, <2>3, <2>a, <3>1, <3>3 DEF TypeOK, OnlyChanges
    <3>5. Counted(v, starts[d]) /\ starts[d] <= Attempts + MaxStalls
      BY <2>2, <2>5, <3>2 DEF Counted
    <3> QED BY <2>1, <2>2, <2>3, <3>1, <3>2, <3>3, <3>4, <3>5, GoesOn
  <2> QED BY <2>4, <2>5
<1>14. ASSUME NEW d \in Days, Requeue(d) PROVE TypeOK' /\ Safe'
  <2> DEFINE v == [job[d] EXCEPT !.state = "waiting", !.stalls = job[d].stalls + 1,
                              !.owner = NoOne]
  <2>1. /\ job[d].state = "active" /\ job[d] \in Job
        /\ UNCHANGED <<day, up, due, worker, event, ended, starts, captured, alerts, crashes>>
        /\ starts[d] <= job[d].made + job[d].stalls + 1 /\ starts[d] \in Nat
        /\ job[d].made \in 0 .. Attempts /\ job[d].made < Attempts
        /\ job[d].stalls \in 0 .. MaxStalls /\ job[d].stalls < MaxStalls
        /\ job' = [job EXCEPT ![d] = v]
    BY <1>0, <1>14 DEF Requeue, CountsInv, Counted, TypeOK, Job
  <2>2. /\ v \in Job /\ v.state = "waiting" /\ v.made = job[d].made
        /\ v.stalls = job[d].stalls + 1 /\ v.owner = NoOne
    <3>1. job[d].stalls + 1 \in 0 .. MaxStalls BY <2>1
    <3> QED BY <2>1, <3>1 DEF Job, States
  <2>3. OnlyChanges(d) /\ job'[d] = v /\ starts'[d] = starts[d]
    BY <1>0, <2>1, <2>2 DEF OnlyChanges, TypeOK
  <2>4. TypeOK'
    BY <1>0, <2>1, <2>3 DEF TypeOK, OnlyChanges
  <2>5. Counted(v, starts[d]) /\ starts[d] <= Attempts + MaxStalls /\ v.stalls > 0
    BY <2>1, <2>2 DEF Counted
  <2>6. \A q \in Replicas : worker'[q] = worker[q]
    BY <2>1
  <2>7. \A q \in Replicas : worker'[q] # 0 =>
          \/ worker'[q] = d /\ job'[d].stalls > 0
          \/ worker'[q] = worker[q] /\ (worker[q] = d => job[d].owner # q)
    BY <2>3, <2>5, <2>6
  <2> QED BY <2>1, <2>2, <2>3, <2>4, <2>5, <2>7, GoesOn
<1>17. ASSUME NEW r \in Replicas, NEW d \in Days, StallOut(r, d) PROVE TypeOK' /\ Safe'
  <2>1. /\ job[d].state = "active" /\ job[d].made \in 0 .. Attempts /\ job[d].made < Attempts
        /\ UNCHANGED <<day, up, due, worker, starts, captured, alerts, crashes>>
    BY <1>0, <1>17 DEF StallOut, CountsInv, Counted, Job
  <2>2. PICK made \in {job[d].made, job[d].made + 1} :
               Settle(d, "failed", made) /\ Emits(r, d, made)
    BY <1>17 DEF StallOut
  <2>3. made \in 0 .. Attempts BY <2>1, <2>2
  <2>4. Settled(d, "failed", made) BY <2>1, <2>2, <2>3, SettleStep
  <2>5. event' \in [Replicas -> Event]
    <3>1. event \in [Replicas -> Event] BY <1>0 DEF TypeOK
    <3>2. [day |-> d, made |-> made] \in Event BY <2>3 DEF Event, Days
    <3> QED BY <2>2, <3>1, <3>2 DEF Emits
  <2>6. TypeOK' BY <1>0, <2>1, <2>4, <2>5 DEF Settled, TypeOK
  <2>7. UNCHANGED starts /\ \A q \in Replicas : worker'[q] # 0 => worker'[q] = worker[q]
    BY <2>1
  <2> QED BY <2>1, <2>3, <2>4, <2>6, <2>7, Ends
<1>15. ASSUME NEW r \in Replicas, Complete(r) PROVE TypeOK' /\ Safe'
  <2> DEFINE d == worker[r]
  <2>1. /\ d \in Days /\ job[d].owner = r /\ Idle(r)
        /\ UNCHANGED <<day, up, due, event, starts, captured, alerts, crashes>>
        /\ Settle(d, "completed", job[d].made)
    BY <1>0, <1>15 DEF Complete, Owns, TypeOK, Days
  <2>2. job[d].state = "active" /\ job[d].made \in 0 .. Attempts
    BY <1>0, <2>1 DEF CountsInv, Counted, Job
  <2>3. Settled(d, "completed", job[d].made) BY <2>1, <2>2, SettleStep
  <2>4. worker' \in [Replicas -> 0 .. LastDay]
        /\ \A q \in Replicas : worker'[q] # 0 => worker'[q] = worker[q]
    BY <1>0, <2>1 DEF Idle, TypeOK
  <2>5. TypeOK' BY <1>0, <2>1, <2>3, <2>4 DEF Settled, TypeOK
  <2> QED BY <2>1, <2>2, <2>3, <2>4, <2>5, Ends
<1> QED
  BY <1>2, <1>3, <1>4, <1>5, <1>6, <1>8, <1>9, <1>10, <1>11, <1>12, <1>13, <1>14, <1>15,
     <1>16, <1>17
  DEF Next

(* Every step keeps the account of reports and captures.                     *)
LEMMA StepHeard == IInv /\ [Next]_vars => HeardInv' /\ CapturedInv'
<1> SUFFICES ASSUME IInv, [Next]_vars PROVE HeardInv' /\ CapturedInv'
  OBVIOUS
<1> USE QueueAssumption DEF queueVars, workerVars, reportVars
<1>0. /\ TypeOK /\ CountsInv /\ HeardInv /\ CapturedInv
      /\ job \in [Days -> Job] /\ captured \in [Days -> Nat] /\ ended \in Seq(Ending)
      /\ event \in [Replicas -> Event] /\ alerts \in [Days -> Nat]
      /\ \A d \in Days : job[d] \in Job /\ Captured(job[d], captured[d])
  BY DEF IInv, TypeOK, CapturedInv
\* Nothing ends, no event comes.
<1>a. ASSUME UNCHANGED <<alerts, event, ended>> PROVE HeardInv'
  BY <1>0, <1>a DEF HeardInv, Pending, Failures, Report
<1>b. ASSUME UNCHANGED <<job, captured>> PROVE CapturedInv'
  BY <1>0, <1>b DEF CapturedInv
\* One job changes.
<1>c. ASSUME NEW d \in Days, NEW v, job' = [job EXCEPT ![d] = v],
             \A x \in Days : x # d => captured'[x] = captured[x], Captured(v, captured'[d])
      PROVE  CapturedInv'
  <2>1. job'[d] = v /\ \A x \in Days : x # d => job'[x] = job[x] BY <1>0, <1>c
  <2> QED BY <1>0, <1>c, <2>1 DEF CapturedInv
\* A job ends.
<1>d. ASSUME NEW d \in Days, NEW how, NEW made, Settle(d, how, made),
             \A x \in Days : x # d => captured'[x] = captured[x],
             how = "completed" \/ captured'[d] >= Attempts \/ job[d].stalls = MaxStalls,
             how \in {"completed", "failed"}
      PROVE  CapturedInv'
  <2> DEFINE v == [job[d] EXCEPT !.state = how, !.made = made, !.owner = NoOne]
  <2>1. v.state = how /\ v.stalls = job[d].stalls BY <1>0 DEF Job
  <2>2. Captured(v, captured'[d]) BY <1>d, <2>1 DEF Captured
  <2>3. \A n : Captured(NoJob, n) BY DEF Captured, NoJob
  <2>4. \A x \in Days : job'[x] = NoJob \/ (x = d /\ job'[x] = v) \/ (x # d /\ job'[x] = job[x])
    BY <1>d DEF Settle
  <2> HIDE DEF v
  <2> QED BY <1>0, <1>d, <2>2, <2>3, <2>4 DEF CapturedInv
<1>1. ASSUME \/ NewDay \/ UNCHANGED vars
             \/ \E r \in Replicas : Tick(r) \/ EnqueueFails(r) \/ Boot(r) \/ EndUnowned(r)
      PROVE  HeardInv' /\ CapturedInv'
  <2>1. UNCHANGED <<alerts, event, ended, job, captured>>
    BY <1>1 DEF NewDay, Tick, EnqueueFails, Boot, EndUnowned, vars
  <2> QED BY <1>a, <1>b, <2>1
<1>2. ASSUME NEW r \in Replicas, Enqueue(r) PROVE HeardInv' /\ CapturedInv'
  <2>1. HeardInv' BY <1>2, <1>a DEF Enqueue
  <2>2. CASE job[day].state # "none" BY <1>2, <1>b, <2>1, <2>2 DEF Enqueue
  <2>3. CASE job[day].state = "none"
    <3> DEFINE v == [job[day] EXCEPT !.state = "waiting"]
    <3>1. day \in Days /\ job[day] = NoJob
      BY <1>0, <2>3 DEF TypeOK, CountsInv, Counted
    <3>2. job' = [job EXCEPT ![day] = v] /\ captured' = [captured EXCEPT ![day] = 0]
      BY <1>2, <2>3 DEF Enqueue
    <3>3. v.state = "waiting" /\ v.made = 0 BY <3>1 DEF NoJob
    <3>4. captured'[day] = 0 /\ \A x \in Days : x # day => captured'[x] = captured[x]
      BY <1>0, <3>1, <3>2
    <3>5. Captured(v, captured'[day]) BY <3>3, <3>4 DEF Captured
    <3> HIDE DEF v
    <3> QED BY <1>c, <2>1, <3>1, <3>2, <3>4, <3>5
  <2> QED BY <2>2, <2>3
<1>3. ASSUME NEW d \in Days, \/ \E r \in Replicas : Take(r, d)
                             \/ BackoffEnds(d) \/ Requeue(d)
      PROVE  HeardInv' /\ CapturedInv'
  <2>1. HeardInv' BY <1>3, <1>a DEF Take, BackoffEnds, Requeue
  <2>2. UNCHANGED captured BY <1>3 DEF Take, BackoffEnds, Requeue
  <2>3. PICK v \in Job : /\ job' = [job EXCEPT ![d] = v]
                         /\ v.state \in {"waiting", "active"} /\ v.made = job[d].made
                         /\ job[d].state \in {"waiting", "active", "delayed"}
    <3>1. ASSUME NEW r \in Replicas, Take(r, d)
          PROVE  LET v == [job[d] EXCEPT !.state = "active", !.owner = r]
                 IN  /\ v \in Job /\ job' = [job EXCEPT ![d] = v]
                     /\ v.state \in {"waiting", "active"} /\ v.made = job[d].made
                     /\ job[d].state \in {"waiting", "active", "delayed"}
      BY <1>0, <3>1 DEF Take, Job, States
    <3>2. ASSUME BackoffEnds(d)
          PROVE  LET v == [job[d] EXCEPT !.state = "waiting"]
                 IN  /\ v \in Job /\ job' = [job EXCEPT ![d] = v]
                     /\ v.state \in {"waiting", "active"} /\ v.made = job[d].made
                     /\ job[d].state \in {"waiting", "active", "delayed"}
      BY <1>0, <3>2 DEF BackoffEnds, Job, States
    <3>3. ASSUME Requeue(d)
          PROVE  LET v == [job[d] EXCEPT !.state = "waiting", !.stalls = job[d].stalls + 1,
                                         !.owner = NoOne]
                 IN  /\ v \in Job /\ job' = [job EXCEPT ![d] = v]
                     /\ v.state \in {"waiting", "active"} /\ v.made = job[d].made
                     /\ job[d].state \in {"waiting", "active", "delayed"}
      <4>1. job[d].stalls + 1 \in 0 .. MaxStalls BY <1>0, <3>3 DEF Requeue, Job
      <4> QED BY <1>0, <3>3, <4>1 DEF Requeue, Job, States
    <3> QED BY <1>3, <3>1, <3>2, <3>3
  <2>4. Captured(v, captured'[d]) BY <1>0, <2>2, <2>3 DEF Captured
  <2> QED BY <1>c, <2>1, <2>2, <2>3, <2>4
<1>4. ASSUME NEW r \in Replicas, Complete(r) PROVE HeardInv' /\ CapturedInv'
  <2> DEFINE d == worker[r]
  <2>1. /\ d \in Days /\ UNCHANGED <<event, captured, alerts>>
        /\ Settle(d, "completed", job[d].made)
    BY <1>0, <1>4 DEF Complete, Owns, TypeOK, Days
  <2>2. ended' = Append(ended, [day |-> d, how |-> "completed"]) BY <2>1 DEF Settle
  <2>3. \A x \in Days : Cardinality(Failures(x)') = Cardinality(Failures(x))
    BY <1>0, <2>1, <2>2, FailuresAppend
  <2>4. \A x \in Days : Pending(x)' \subseteq Pending(x) BY <2>1 DEF Pending, Report
  <2> QED BY <1>d, <2>1, <2>3, <2>4, FewerEvents
<1>5. ASSUME NEW r \in Replicas, Fail(r) PROVE HeardInv' /\ CapturedInv'
  <2> DEFINE d == worker[r]
             made == job[d].made + 1
             v == [job[d] EXCEPT !.state = "delayed", !.made = made, !.owner = NoOne]
  <2>1. /\ d \in Days /\ job[d].owner = r /\ UNCHANGED alerts
        /\ captured' = [captured EXCEPT ![d] = @ + 1] /\ Emits(r, d, made)
    BY <1>0, <1>5 DEF Fail, Owns, MadeAfter, Captures, TypeOK, Days
  <2>2. /\ job[d].state = "active" /\ job[d].made \in Nat /\ made \in Nat
        /\ captured[d] \in Nat /\ captured[d] >= job[d].made
    BY <1>0, <2>1 DEF CountsInv, Counted, Job, Captured
  <2>3. captured'[d] = captured[d] + 1 /\ \A x \in Days : x # d => captured'[x] = captured[x]
    BY <1>0, <2>1
  <2>4. CASE made >= Attempts
    <3>1. Settle(d, "failed", made) BY <1>5, <2>4 DEF Fail, MadeAfter, Exhausted
    <3>2. captured'[d] >= Attempts BY <2>2, <2>3, <2>4
    <3>3. ended' = Append(ended, [day |-> d, how |-> "failed"]) BY <3>1 DEF Settle
    <3>4. HeardInv' BY <2>1, <2>2, <3>3, FailureEvent
    <3> QED BY <1>d, <2>1, <2>3, <3>1, <3>2, <3>4
  <2>5. CASE ~(made >= Attempts)
    <3>1. job' = [job EXCEPT ![d] = v] /\ UNCHANGED ended
      BY <1>5, <2>5 DEF Fail, MadeAfter, Exhausted
    <3>2. v.state = "delayed" /\ v.made = made BY <1>0, <2>1 DEF Job
    <3>3. Captured(v, captured'[d]) BY <2>2, <2>3, <3>2 DEF Captured
    <3>4. CapturedInv' BY <1>c, <2>1, <2>3, <3>1, <3>3
    <3>5. /\ event'[r].made = made
          /\ \A q \in Replicas : q # r => event'[q] = event[q]
      BY <1>0, <2>1 DEF Emits
    <3>6. \A x \in Days : Pending(x)' \subseteq Pending(x)
      BY <2>5, <3>5 DEF Pending, Report
    <3>7. \A x \in Days : Failures(x)' = Failures(x) BY <3>1 DEF Failures
    <3>8. HeardInv' BY <2>1, <3>6, <3>7, FewerEvents
    <3> QED BY <3>4, <3>8
  <2> QED BY <2>4, <2>5
<1>6. ASSUME NEW r \in Replicas, NEW d \in Days, StallOut(r, d)
      PROVE  HeardInv' /\ CapturedInv'
  <2>1. UNCHANGED <<captured, alerts>> /\ job[d].stalls = MaxStalls BY <1>6 DEF StallOut
  <2>2. PICK made \in {job[d].made, job[d].made + 1} :
               Settle(d, "failed", made) /\ Emits(r, d, made)
    BY <1>6 DEF StallOut
  <2>3. made \in Nat BY <1>0, <2>2 DEF Job
  <2>4. ended' = Append(ended, [day |-> d, how |-> "failed"]) BY <2>2 DEF Settle
  <2>5. HeardInv' BY <2>1, <2>2, <2>3, <2>4, FailureEvent
  <2> QED BY <1>d, <2>1, <2>2, <2>5
<1>7. ASSUME NEW r \in Replicas, OnJobFailed(r) PROVE HeardInv' /\ CapturedInv'
  <2>1. HeardInv' BY <1>7, ReportStep
  <2>2. UNCHANGED <<job, captured>> BY <1>7 DEF OnJobFailed
  <2> QED BY <1>b, <2>1, <2>2
<1>8. ASSUME NEW r \in Replicas, Crash(r) PROVE HeardInv' /\ CapturedInv'
  <2>1. UNCHANGED <<job, captured, alerts, ended>> BY <1>8 DEF Crash
  <2>2. event'[r] = NoEvent /\ \A q \in Replicas : q # r => event'[q] = event[q]
    BY <1>0, <1>8 DEF Crash
  <2>3. event'[r].day = 0 BY <2>2 DEF NoEvent
  <2>4. \A x \in Days : Pending(x)' \subseteq Pending(x)
    BY <2>2, <2>3 DEF Pending, Report, Days
  <2>5. \A x \in Days : Failures(x)' = Failures(x) BY <2>1 DEF Failures
  <2> QED BY <1>b, <2>1, <2>4, <2>5, FewerEvents
<1> QED BY <1>1, <1>2, <1>3, <1>4, <1>5, <1>6, <1>7, <1>8 DEF Next

LEMMA StepInv == IInv /\ [Next]_vars => IInv'
<1> QED BY StepSafe, StepHeard DEF IInv, Safe

----------------------------------------------------------------------------
(* Theorems *)

(* The invariant holds in every state.                                       *)
THEOREM Invariance == Spec => []IInv
<1> QED BY InitInv, StepInv, PTL DEF Spec

(* Types: replicas, jobs and workers are what the queue says of them.        *)
THEOREM QueueTypes == Spec => []TypeOK
<1>1. IInv => TypeOK BY DEF IInv
<1> QED BY <1>1, Invariance, PTL

(* Two workers never work on the same day's job unless one lost it.          *)
THEOREM OneWorker == Spec => []OneWorkerPerJob
<1>1. IInv => OneWorkerPerJob
  BY DEF IInv, OwnersInv, OneWorkerPerJob
<1> QED BY <1>1, Invariance, PTL

(* A job is started at most once per attempt and once per stall.             *)
THEOREM Starts == Spec => []StartsBounded
<1>1. IInv => StartsBounded BY DEF IInv
<1> QED BY <1>1, Invariance, PTL

(* The importer reports a failed job at most once, and its attempts were all *)
(* captured unless it stalled too often.                                     *)
THEOREM Reports == Spec => []FailuresAreHeardOf
<1>1. IInv => FailuresAreHeardOf
  <2> SUFFICES ASSUME IInv, NEW d \in Days
               PROVE  /\ alerts[d] <= Cardinality(Failures(d))
                      /\ job[d].state = "failed" =>
                           captured[d] >= Attempts \/ job[d].stalls = MaxStalls
    BY DEF FailuresAreHeardOf
  <2>1. job[d].state = "failed" => captured[d] >= Attempts \/ job[d].stalls = MaxStalls
    BY DEF IInv, CapturedInv, Captured
  <2>2. alerts[d] \in Nat /\ Cardinality(Pending(d)) \in Nat
    BY PendingFinite DEF IInv, TypeOK
  <2>3. Cardinality(Failures(d)) \in Nat
    <3>1. ended \in Seq(Ending) BY DEF IInv, TypeOK
    <3> QED BY <3>1, FailuresNat
  <2>4. alerts[d] + Cardinality(Pending(d)) <= Cardinality(Failures(d))
    BY DEF IInv, HeardInv
  <2> QED BY <2>1, <2>2, <2>3, <2>4
<1> QED BY <1>1, Invariance, PTL

(* Boots and ticks never repeat a day's job while it is kept.                *)
THEOREM NoRepeats == Spec => []NotRepeated
<1>1. IInv => NotRepeated BY DEF IInv
<1> QED BY <1>1, Invariance, PTL
=============================================================================
