------------------------ MODULE ChangeManifestProofs ------------------------
(***************************************************************************)
(* Theorems about ChangeManifest.  The argument: a stamp given to a row is *)
(* later than everything anybody has read so far, so what a client has not *)
(* seen is stamped later than the revision it saw - except for rows of a   *)
(* transaction that began earlier, which is what `overtaken` records.  And *)
(* a row it has not read yet is never before the page to come, as long as  *)
(* the rows before that page stay there - which `torn` denies.             *)
(***************************************************************************)
EXTENDS ChangeManifest, FiniteSetTheorems, TLAPS

\* No row is stamped in the future, nor by the transaction still running.
StampsArePast ==
  /\ \A i \in Ids : notices[i] # Absent =>
       notices[i].touched <= now /\ notices[i].touched # began
  /\ began # Absent => began <= now

Past(rev) == rev # Absent => rev.latest <= now

RevsArePast ==
  /\ \A r \in Readers : Past(computed[r])
  /\ Past(cache)
  /\ \A c \in Clients : Past(clients[c].rev) /\ clients[c].at <= now

\* Every public notice stamped no later than the revision a client saw is
\* among those it shows, or not before the page to come, or was not in force
\* when the client began to fetch.
Seen(c, i) ==
  \/ <<i, notices[i].text>> \in clients[c].shown
  \/ clients[c].fetching /\ Position(i) >= clients[c].read

KeptUp(c) ==
  Started(c) /\ ~overtaken[c] /\ ~torn[c] =>
    \A i \in Public(notices) :
      notices[i].touched <= clients[c].rev.latest
        /\ notices[i].from <= clients[c].at => Seen(c, i)

Stamped == TypeOK /\ StampsArePast /\ RevsArePast
IInv == Stamped /\ \A c \in Clients : KeptUp(c)

----------------------------------------------------------------------------

\* The number of public rows of a table is a natural number.
LEMMA CountType ==
  ASSUME NEW table
  PROVE  Cardinality(Public(table)) \in Nat /\ IsFiniteSet(Public(table))
<1>1. Public(table) \subseteq Ids
  BY DEF Public
<1>2. IsFiniteSet(Public(table))
  BY <1>1, FS_Subset, ManifestAssumption
<1>. QED BY <1>2, FS_CardinalityType

\* A position is a number of rows, and so is the offset of a next page.
LEMMA PositionType ==
  ASSUME NEW i
  PROVE  Position(i) \in Nat
<1>1. {j \in InForce : Before(j, i)} \subseteq Public(notices)
  BY DEF InForce
<1>. QED BY <1>1, CountType, FS_Subset, FS_CardinalityType DEF Position

LEMMA FetchType ==
  ASSUME TypeOK, NEW c \in Clients, Fetch(c)
  PROVE  clients' \in [Clients -> Client]
<1>. DEFINE offset == clients[c].read
            next == [clients[c] EXCEPT
              !.fetching = More(offset),
              !.read = IF More(offset) THEN offset + Limit ELSE 0,
              !.at = IF offset = 0 THEN now ELSE clients[c].at,
              !.shown = clients[c].shown \cup Shows(Page(offset))]
<1>1. clients[c] \in Client /\ now \in Times /\ offset + Limit \in Nat
  BY ManifestAssumption DEF TypeOK, Client
<1>2. Shows(Page(offset)) \in SUBSET (Ids \X Texts)
  BY DEF TypeOK, Shows, Page, InForce, Public, Notice
<1>3. More(offset) \in BOOLEAN
  BY DEF More
<1>4. next \in Client
  BY <1>1, <1>2, <1>3 DEF Client
<1>5. clients' = [clients EXCEPT ![c] = next]
  BY DEF Fetch, TypeOK, Client
<1>. QED BY <1>4, <1>5 DEF TypeOK

LEMMA OfflineType == Offline \in Client
BY ManifestAssumption DEF Offline, Client, Times

\* Every step keeps the types.
LEMMA TypedStep ==
  ASSUME TypeOK, [Next]_vars
  PROVE  TypeOK'
<1>. USE DEF TypeOK
<1>a. now' \in Times
  <2>1. ASSUME Instant PROVE now' \in Times
    BY <2>1, ManifestAssumption DEF Instant, Times
  <2>2. CASE UNCHANGED now
    BY <2>2
  <2>. QED
    BY <2>1, <2>2 DEF Next, vars, tableVars, Tick, Begin, Commit, Add, Approve,
       Count, Remove, Manifest, Compute, Store, Expire, Poll, Fetch
<1>b. ASSUME torn' = [c \in Clients |-> Tears(c)] PROVE torn' \in [Clients -> BOOLEAN]
  BY <1>b DEF Tears, Shifts
<1>1. CASE Tick
  BY <1>1, <1>a DEF Tick, Elsewhere, readings, history
<1>2. CASE Begin
  BY <1>2, <1>a DEF Begin, readings, history
<1>3. CASE Commit
  <2>1. PICK written \in SUBSET Ids : \E deleted \in SUBSET (Ids \ written) :
          \E new \in [written -> Imported] :
            notices' = [i \in Ids |->
              IF i \in written THEN new[i]
              ELSE IF i \in deleted THEN Absent ELSE notices[i]]
    BY <1>3 DEF Commit
  <2>2. PICK deleted \in SUBSET (Ids \ written), new \in [written -> Imported] :
          notices' = [i \in Ids |->
            IF i \in written THEN new[i]
            ELSE IF i \in deleted THEN Absent ELSE notices[i]]
    BY <2>1
  <2>3. Imported \subseteq Notice
    BY <1>3 DEF Commit, Imported, Notice
  <2>4. notices' \in [Ids -> Notice \cup {Absent}]
    BY <2>2, <2>3
  <2>5. overtaken' \in [Clients -> BOOLEAN]
    BY <1>3 DEF Commit, Overtakes, Started
  <2>6. torn' \in [Clients -> BOOLEAN]
    BY <1>3, <1>b DEF Commit
  <2>. QED BY <1>3, <1>a, <2>4, <2>5, <2>6 DEF Commit, readings
<1>4. ASSUME NEW i \in Ids, Add(i) PROVE TypeOK'
  <2>1. PICK text \in Texts, from \in Starts :
          notices' = [notices EXCEPT ![i] =
            [public |-> TRUE, text |-> text, from |-> from, touched |-> now']]
    BY <1>4 DEF Add
  <2>2. [public |-> TRUE, text |-> text, from |-> from, touched |-> now']
          \in Notice
    BY <1>a DEF Notice
  <2>. QED BY <1>4, <1>a, <2>1, <2>2 DEF Add, Elsewhere, readings, history
<1>5. ASSUME NEW i \in Ids, Approve(i) PROVE TypeOK'
  <2>1. notices[i] \in Notice
    BY <1>5 DEF Approve
  <2>2. [notices[i] EXCEPT !.public = TRUE, !.touched = now'] \in Notice
    BY <2>1, <1>a DEF Notice
  <2>3. notices' \in [Ids -> Notice \cup {Absent}]
    BY <1>5, <2>2 DEF Approve
  <2>. QED BY <1>5, <1>a, <2>3 DEF Approve, Elsewhere, readings, history
<1>6. ASSUME NEW i \in Ids, Count(i) PROVE TypeOK'
  <2>1. notices[i] \in Notice
    BY <1>6 DEF Count
  <2>2. [notices[i] EXCEPT !.touched = now'] \in Notice
    BY <2>1, <1>a DEF Notice
  <2>3. notices' \in [Ids -> Notice \cup {Absent}]
    BY <1>6, <2>2 DEF Count
  <2>. QED BY <1>6, <1>a, <2>3 DEF Count, Elsewhere, readings, history
<1>7. ASSUME NEW i \in Ids, Remove(i) PROVE TypeOK'
  <2>1. notices' \in [Ids -> Notice \cup {Absent}]
    BY <1>7 DEF Remove
  <2>2. torn' \in [Clients -> BOOLEAN]
    BY <1>7, <1>b DEF Remove
  <2>. QED BY <1>7, <1>a, <2>1, <2>2 DEF Remove, readings
<1>8. ASSUME NEW r \in Readers, Compute(r) PROVE TypeOK'
  <2>1. PICK rev \in [count: {Cardinality(Public(notices))}, latest: Times] :
          computed' = [computed EXCEPT ![r] = rev]
    BY <1>8 DEF Compute
  <2>2. rev \in Rev
    BY CountType DEF Rev
  <2>3. computed' \in [Readers -> Rev \cup {Absent}]
    BY <2>1, <2>2
  <2>. QED BY <1>8, <1>a, <2>3 DEF Compute, tableVars, history
<1>9. ASSUME NEW r \in Readers, Store(r) PROVE TypeOK'
  <2>1. /\ cache' \in Rev \cup {Absent}
        /\ computed' \in [Readers -> Rev \cup {Absent}]
    BY <1>9 DEF Store
  <2>. QED BY <1>9, <1>a, <2>1 DEF Store, tableVars, history
<1>10. CASE Expire
  BY <1>10, <1>a DEF Expire, tableVars, history
<1>11. ASSUME NEW c \in Clients, Poll(c) PROVE TypeOK'
  <2>1. [Offline EXCEPT !.rev = cache, !.fetching = TRUE] \in Client
    BY OfflineType DEF Client
  <2>2. clients' \in [Clients -> Client]
    BY <1>11, <2>1 DEF Poll
  <2>3. /\ overtaken' \in [Clients -> BOOLEAN]
        /\ torn' \in [Clients -> BOOLEAN]
    BY <1>11 DEF Poll
  <2>. QED BY <1>11, <1>a, <2>2, <2>3 DEF Poll, tableVars
<1>12. ASSUME NEW c \in Clients, Fetch(c) PROVE TypeOK'
  <2>1. clients' \in [Clients -> Client]
    BY <1>12, FetchType
  <2>. QED BY <1>12, <1>a, <2>1 DEF Fetch, tableVars, history
<1>13. CASE UNCHANGED vars
  BY <1>13 DEF vars, history
<1>. QED
  BY <1>1, <1>2, <1>3, <1>4, <1>5, <1>6, <1>7, <1>8, <1>9, <1>10, <1>11,
     <1>12, <1>13 DEF Next, Manifest

\* Every reachable state of the manifest, its writers and its readers is well
\* typed (computeManifest, getNotices and the writers of the table).
THEOREM ManifestTypes == Spec => []TypeOK
<1>1. Init => TypeOK
  BY ManifestAssumption DEF Init, TypeOK, Offline, Client, Times, Notice, Rev
<1>. QED BY <1>1, TypedStep, PTL DEF Spec

----------------------------------------------------------------------------

\* One step of a single statement that stamps or deletes row i.
Writes(i) ==
  /\ Instant
  /\ UNCHANGED <<began, computed, cache, clients, overtaken>>
  /\ \A c \in Clients : ~torn'[c] => ~Tears(c)
  /\ \A j \in Ids \ {i} : notices'[j] = notices[j]
  /\ notices'[i] # Absent => notices'[i].touched = now'

\* Rows that stay public and keep their date move nobody's offset.
LEMMA NothingShifts ==
  ASSUME TypeOK,
         \A j \in InForce : notices'[j] # Absent /\ notices'[j].public
                              /\ notices'[j].from = notices[j].from
  PROVE  ~Shifts
<1>1. now \in Nat
  BY ManifestAssumption DEF TypeOK, Times
<1>2. ASSUME NEW j \in InForce
      PROVE  notices[j].from \in notices[j].from..now
  <2>1. notices[j] \in Notice /\ notices[j].from <= now
    BY DEF TypeOK, InForce, Public
  <2>2. notices[j].from \in Nat
    BY <2>1, ManifestAssumption DEF Notice
  <2>. QED BY <1>1, <2>1, <2>2
<1>. QED BY <1>2 DEF Shifts

LEMMA StatementsWrite ==
  ASSUME TypeOK, NEW i \in Ids,
         Add(i) \/ Approve(i) \/ Count(i) \/ Remove(i)
  PROVE  Writes(i)
<1>. USE DEF Elsewhere, readings, history
<1>1. CASE Add(i)
  <2>1. ~Shifts
    BY <1>1, NothingShifts DEF Add, TypeOK, InForce, Public
  <2>. QED BY <1>1, <2>1 DEF Add, Writes, TypeOK, Tears
<1>2. CASE Approve(i)
  <2>1. notices[i] \in Notice
    BY <1>2 DEF Approve, TypeOK
  <2>2. ~Shifts
    <3>1. \A j \in InForce : j \in Ids /\ notices[j] # Absent /\ notices[j].public
      BY DEF InForce, Public
    <3>2. notices'[i] # Absent
      <4>1. now' \in Times
        BY <1>2, ManifestAssumption DEF Approve, Instant, TypeOK, Times
      <4>2. [notices[i] EXCEPT !.public = TRUE, !.touched = now'] \in Notice
        BY <2>1, <4>1 DEF Notice
      <4>3. notices'[i] = [notices[i] EXCEPT !.public = TRUE, !.touched = now']
        BY <1>2, <2>1 DEF Approve, TypeOK, Notice
      <4>. QED BY <4>2, <4>3, ManifestAssumption
    <3>3. \A j \in Ids : notices[j] # Absent /\ notices[j].public =>
            notices'[j] # Absent /\ notices'[j].public
              /\ notices'[j].from = notices[j].from
      BY <1>2, <2>1, <3>2 DEF Approve, TypeOK, Notice
    <3>. QED BY <3>1, <3>3, NothingShifts
  <2>. QED BY <1>2, <2>1, <2>2 DEF Approve, Writes, TypeOK, Notice, Tears
<1>3. CASE Count(i)
  <2>1. notices[i] \in Notice
    BY <1>3 DEF Count, TypeOK
  <2>2. ~Shifts
    <3>1. \A j \in InForce : j \in Ids /\ notices[j] # Absent /\ notices[j].public
      BY DEF InForce, Public
    <3>2. notices'[i] # Absent
      <4>1. now' \in Times
        BY <1>3, ManifestAssumption DEF Count, Instant, TypeOK, Times
      <4>2. [notices[i] EXCEPT !.touched = now'] \in Notice
        BY <2>1, <4>1 DEF Notice
      <4>3. notices'[i] = [notices[i] EXCEPT !.touched = now']
        BY <1>3, <2>1 DEF Count, TypeOK, Notice
      <4>. QED BY <4>2, <4>3, ManifestAssumption
    <3>3. \A j \in Ids : notices[j] # Absent /\ notices[j].public =>
            notices'[j] # Absent /\ notices'[j].public
              /\ notices'[j].from = notices[j].from
      BY <1>3, <2>1, <3>2 DEF Count, TypeOK, Notice
    <3>. QED BY <3>1, <3>3, NothingShifts
  <2>. QED BY <1>3, <2>1, <2>2 DEF Count, Writes, TypeOK, Notice, Tears
<1>4. CASE Remove(i)
  BY <1>4 DEF Remove, Writes, TypeOK
<1>. QED BY <1>1, <1>2, <1>3, <1>4

\* What a commit leaves in one row: the row as it was, nothing, or a row
\* stamped with the instant the transaction began.
LEMMA CommitWrites ==
  ASSUME TypeOK, Commit, NEW i \in Ids
  PROVE  notices'[i] = notices[i] \/ notices'[i] = Absent
           \/ notices'[i] \in Imported
<1>1. PICK written \in SUBSET Ids : \E deleted \in SUBSET (Ids \ written) :
        \E new \in [written -> Imported] :
          notices' = [j \in Ids |->
            IF j \in written THEN new[j]
            ELSE IF j \in deleted THEN Absent ELSE notices[j]]
  BY DEF Commit
<1>2. PICK deleted \in SUBSET (Ids \ written), new \in [written -> Imported] :
        notices' = [j \in Ids |->
          IF j \in written THEN new[j]
          ELSE IF j \in deleted THEN Absent ELSE notices[j]]
  BY <1>1
<1>. QED BY <1>2

LEMMA StampedStep ==
  ASSUME Stamped, [Next]_vars
  PROVE  Stamped'
<1>1. TypeOK'
  BY TypedStep DEF Stamped
<1>. USE DEF Stamped, StampsArePast, RevsArePast, Past
<1>t. now \in Nat /\ now' \in Nat /\ (began # Absent => began \in Nat)
        /\ \A i \in Ids : notices[i] # Absent => notices[i].touched \in Nat
  BY <1>1, ManifestAssumption DEF TypeOK, Times, Notice
<1>r. /\ \A r \in Readers : computed[r] # Absent => computed[r].latest \in Nat
      /\ cache # Absent => cache.latest \in Nat
      /\ \A c \in Clients : clients[c].rev # Absent => clients[c].rev.latest \in Nat
      /\ \A c \in Clients : clients[c].at \in Nat
  BY ManifestAssumption DEF TypeOK, Times, Rev, Client
<1>m. ASSUME now <= now', UNCHANGED <<computed, cache, clients>>
      PROVE  RevsArePast'
  BY <1>m, <1>t, <1>r
<1>2. CASE Tick
  <2>1. now' = now + 1
    BY <1>2 DEF Tick, Instant
  <2>2. StampsArePast'
    BY <1>2, <2>1, <1>t DEF Tick, Elsewhere
  <2>. QED BY <1>1, <1>2, <2>1, <2>2, <1>t, <1>m DEF Tick, Elsewhere, readings
<1>3. CASE Begin
  <2>1. now' = now + 1 /\ began' = now'
    BY <1>3 DEF Begin, Instant
  <2>3. notices' = notices
    BY <1>3 DEF Begin
  <2>4. \A i \in Ids : notices'[i] # Absent =>
          notices'[i].touched <= now /\ notices'[i].touched \in Nat
    BY <2>3, <1>t
  <2>2. StampsArePast'
    BY <2>1, <2>4, <1>t
  <2>. QED BY <1>1, <1>3, <2>1, <2>2, <1>t, <1>m DEF Begin, readings
<1>4. CASE Commit
  <2>1. \A i \in Ids : notices'[i] # Absent => notices'[i].touched <= now'
    BY <1>4, <1>t, CommitWrites DEF Commit, Imported
  <2>2. StampsArePast'
    <3>1. \A i \in Ids : notices'[i] # Absent => notices'[i].touched # Absent
      BY <1>1, ManifestAssumption DEF TypeOK, Notice
    <3>. QED BY <1>4, <2>1, <3>1 DEF Commit
  <2>. QED BY <1>1, <1>4, <2>2, <1>t, <1>m DEF Commit, readings
<1>5. ASSUME NEW i \in Ids, Add(i) \/ Approve(i) \/ Count(i) \/ Remove(i)
      PROVE  Stamped'
  <2>1. Writes(i)
    BY <1>5, StatementsWrite
  <2>2. now' = now + 1 /\ began' = began
    BY <2>1 DEF Writes, Instant
  <2>3. StampsArePast'
    <3>1. \A j \in Ids : notices'[j] # Absent => notices'[j].touched <= now'
      BY <2>1, <2>2, <1>t DEF Writes
    <3>2. now' # began
      BY <2>2, <1>t, <1>1, ManifestAssumption DEF TypeOK
    <3>3. \A j \in Ids : notices'[j] # Absent => notices'[j].touched # began'
      BY <2>1, <2>2, <3>2 DEF Writes
    <3>. QED BY <3>1, <3>3, <2>2, <1>t
  <2>. QED BY <1>1, <2>1, <2>2, <2>3, <1>t, <1>m DEF Writes
<1>6. ASSUME NEW r \in Readers, Compute(r) PROVE Stamped'
  <2>1. PICK rev \in [count: {Cardinality(Public(notices))}, latest: Times] :
          /\ IsRev(rev, notices)
          /\ computed' = [computed EXCEPT ![r] = rev]
    BY <1>6 DEF Compute
  <2>2. rev.latest <= now
    BY <2>1, <1>t DEF IsRev, Public
  <2>3. UNCHANGED <<now, notices, began, cache, clients>>
    BY <1>6 DEF Compute, tableVars
  <2>4. \A q \in Readers : computed'[q] \in {computed[q], rev}
    BY <2>1 DEF TypeOK
  <2>5. \A q \in Readers : Past(computed[q])'
    BY <2>2, <2>3, <2>4
  <2>. QED BY <1>1, <2>3, <2>5
<1>7. ASSUME NEW r \in Readers, Store(r) PROVE Stamped'
  <2>1. \A q \in Readers : computed'[q] \in {computed[q], Absent}
    BY <1>7 DEF Store, TypeOK
  <2>2. UNCHANGED <<now, notices, began, clients>> /\ cache' = computed[r]
    BY <1>7 DEF Store, tableVars
  <2>. QED BY <1>1, <2>1, <2>2
<1>8. CASE Expire
  BY <1>1, <1>8 DEF Expire, tableVars
<1>9. ASSUME NEW c \in Clients, Poll(c) PROVE Stamped'
  <2>1. \A d \in Clients : /\ clients'[d].rev \in {clients[d].rev, cache}
                           /\ clients'[d].at \in {clients[d].at, 0}
    BY <1>9 DEF Poll, TypeOK, Client, Offline
  <2>2. UNCHANGED <<now, notices, began, computed, cache>>
    BY <1>9 DEF Poll, tableVars
  <2>. QED BY <1>1, <2>1, <2>2, <1>t
<1>10. ASSUME NEW c \in Clients, Fetch(c) PROVE Stamped'
  <2>1. \A d \in Clients : /\ clients'[d].rev = clients[d].rev
                           /\ clients'[d].at \in {clients[d].at, now}
    BY <1>10 DEF Fetch, TypeOK, Client
  <2>2. UNCHANGED <<now, notices, began, computed, cache>>
    BY <1>10 DEF Fetch, tableVars
  <2>. QED BY <1>1, <2>1, <2>2, <1>t
<1>11. CASE UNCHANGED vars
  BY <1>1, <1>11 DEF vars
<1>. QED
  BY <1>2, <1>3, <1>4, <1>5, <1>6, <1>7, <1>8, <1>9, <1>10, <1>11
     DEF Next, Manifest

----------------------------------------------------------------------------

\* A row is not before the page to come after a step that leaves it alone,
\* when it was not and no row of the list shifted.
LEMMA PositionKept ==
  ASSUME Stamped, Stamped', now <= now', ~Shifts,
         NEW i \in Ids, notices[i] # Absent, notices'[i] = notices[i]
  PROVE  Position(i)' >= Position(i)
<1>. DEFINE before == {j \in InForce : Before(j, i)}
<1>t. /\ now \in Nat /\ now' \in Nat
      /\ \A j \in Ids : notices[j] # Absent => notices[j].from \in Nat
      /\ \A j \in Ids : notices'[j] # Absent => notices'[j].from \in Nat
  <2>1. now \in Nat /\ now' \in Nat
    BY ManifestAssumption DEF Stamped, TypeOK, Times
  <2>2. ASSUME NEW j \in Ids, notices[j] # Absent PROVE notices[j].from \in Nat
    BY <2>2, ManifestAssumption DEF Stamped, TypeOK, Notice
  <2>3. ASSUME NEW j \in Ids, notices'[j] # Absent PROVE notices'[j].from \in Nat
    BY <2>3, ManifestAssumption DEF Stamped, TypeOK, Notice
  <2>. QED BY <2>1, <2>2, <2>3
<1>1. ASSUME NEW j \in before PROVE j \in before'
  <2>1. /\ j \in Ids /\ j \in InForce /\ Before(j, i)
        /\ notices[j] # Absent
    BY DEF InForce, Public
  <2>2. /\ notices'[j] # Absent /\ notices'[j].public
        /\ notices'[j].from >= notices[j].from /\ notices'[j].from <= now
    BY <2>1, <1>t DEF Shifts
  <2>3. j \in InForce'
    BY <2>1, <2>2, <1>t DEF InForce, Public
  <2>4. j \in Nat /\ i \in Nat
    BY <2>1, ManifestAssumption
  <2>5. Before(j, i)'
    BY <2>1, <2>2, <2>4, <1>t DEF Before
  <2>. QED BY <2>3, <2>5
<1>2. before \subseteq before'
  BY <1>1
<1>3. before' \subseteq Public(notices')
  BY DEF InForce, Public
<1>4. IsFiniteSet(before') /\ Cardinality(before') \in Nat
  BY <1>3, CountType, FS_Subset, FS_CardinalityType
<1>5. Cardinality(before) <= Cardinality(before')
  BY <1>2, <1>4, FS_Subset
<1>6. Position(i) = Cardinality(before) /\ Position(i)' = Cardinality(before')
  BY DEF Position
<1>. HIDE DEF before
<1>7. Cardinality(before) \in Nat
  BY <1>6, PositionType
<1>. QED BY <1>4, <1>5, <1>6, <1>7

\* What a writer leaves alone stays seen, as long as it tears no list.
LEMMA SeenKept ==
  ASSUME Stamped, Stamped', now <= now', clients' = clients,
         NEW c \in Clients, clients[c].read > 0 => ~Shifts,
         NEW i \in Ids, notices[i] # Absent, notices'[i] = notices[i], Seen(c, i)
  PROVE  Seen(c, i)'
<1>1. Position(i) \in Nat /\ clients[c].read \in Nat
  BY PositionType DEF Stamped, TypeOK, Client
<1>2. Position(i)' \in Nat
  <2>1. {j \in InForce' : Before(j, i)'} \subseteq Public(notices')
    BY DEF InForce, Public
  <2>. QED BY <2>1, CountType, FS_Subset, FS_CardinalityType DEF Position
<1>3. CASE clients[c].read > 0
  <2>1. Position(i)' >= Position(i)
    BY <1>3, PositionKept
  <2>. QED BY <1>1, <1>2, <2>1 DEF Seen
<1>4. CASE clients[c].read = 0
  BY <1>2, <1>4 DEF Seen
<1>. QED BY <1>1, <1>3, <1>4

\* A writer keeps a client up when every row it stamps is stamped later than
\* the revision the client saw and it tears no list.
LEMMA WriterKeepsUp ==
  ASSUME Stamped, Stamped', now <= now', clients' = clients,
         NEW c \in Clients, KeptUp(c),
         ~overtaken'[c] => ~overtaken[c],
         ~torn'[c] => ~Tears(c),
         \A j \in Ids :
           \/ notices'[j] = notices[j]
           \/ notices'[j] = Absent
           \/ Started(c) /\ ~overtaken'[c] =>
                ~(notices'[j].touched <= clients[c].rev.latest)
  PROVE  KeptUp(c)'
<1>1. SUFFICES ASSUME Started(c), ~overtaken'[c], ~torn'[c],
                      NEW j \in Public(notices'),
                      notices'[j].touched <= clients[c].rev.latest,
                      notices'[j].from <= clients[c].at
               PROVE  Seen(c, j)'
  BY DEF KeptUp, Public, Started
<1>2. j \in Ids /\ notices'[j] # Absent /\ notices'[j] = notices[j]
  BY <1>1 DEF Public
<1>3. ~overtaken[c] /\ ~torn[c] /\ (clients[c].read > 0 => ~Shifts)
  BY <1>1 DEF Tears
<1>4. Seen(c, j)
  BY <1>1, <1>2, <1>3 DEF KeptUp, Public
<1>. QED BY <1>2, <1>3, <1>4, SeenKept

\* A statement stamps its row later than any revision seen.
LEMMA StatementKeepsUp ==
  ASSUME Stamped, Stamped', NEW i \in Ids, Writes(i),
         NEW c \in Clients, KeptUp(c)
  PROVE  KeptUp(c)'
<1>1. /\ clients' = clients /\ overtaken' = overtaken /\ now' = now + 1
      /\ now \in Nat
  BY ManifestAssumption DEF Writes, Instant, Stamped, TypeOK, Times
<1>2. ASSUME NEW j \in Ids, notices'[j] # notices[j], notices'[j] # Absent,
             clients[c].rev # Absent
      PROVE  ~(notices'[j].touched <= clients[c].rev.latest)
  <2>1. notices'[j].touched = now + 1
    BY <1>1, <1>2 DEF Writes
  <2>2. clients[c].rev.latest <= now /\ clients[c].rev.latest \in Nat
    BY <1>2, ManifestAssumption
       DEF Stamped, RevsArePast, Past, TypeOK, Client, Rev, Times
  <2>. QED BY <1>1, <2>1, <2>2
<1>3. ~torn'[c] => ~Tears(c)
  BY DEF Writes
<1>. QED BY <1>1, <1>2, <1>3, WriterKeepsUp DEF Started

LEMMA CommitKeepsUp ==
  ASSUME Stamped, Stamped', Commit, NEW c \in Clients, KeptUp(c)
  PROVE  KeptUp(c)'
<1>1. /\ clients' = clients /\ now' = now /\ now \in Nat
      /\ overtaken'[c] = Overtakes(c)
      /\ torn'[c] = Tears(c)
  BY ManifestAssumption DEF Commit, readings, Stamped, TypeOK, Times
<1>2. ASSUME NEW j \in Ids, notices'[j] # notices[j], notices'[j] # Absent,
             Started(c), ~Overtakes(c)
      PROVE  ~(notices'[j].touched <= clients[c].rev.latest)
  <2>1. notices'[j].touched = began
    BY <1>2, CommitWrites DEF Stamped, Imported
  <2>. QED BY <1>2, <2>1 DEF Overtakes
<1>3. ~overtaken'[c] => ~overtaken[c]
  BY <1>1 DEF Overtakes
<1>. QED BY <1>1, <1>2, <1>3, WriterKeepsUp

LEMMA FetchKeepsUp ==
  ASSUME Stamped, Stamped', NEW c \in Clients, Fetch(c), KeptUp(c)
  PROVE  KeptUp(c)'
<1>. DEFINE offset == clients[c].read
<1>1. /\ clients'[c].rev = clients[c].rev
      /\ clients'[c].fetching = More(offset)
      /\ clients'[c].read = IF More(offset) THEN offset + Limit ELSE 0
      /\ clients'[c].at = IF offset = 0 THEN now ELSE clients[c].at
      /\ clients'[c].shown = clients[c].shown \cup Shows(Page(offset))
      /\ UNCHANGED <<now, notices, overtaken, torn>>
  BY DEF Fetch, Stamped, TypeOK, Client, tableVars, history
<1>2. /\ offset \in Nat /\ Limit \in Nat /\ now \in Nat
      /\ clients[c].at \in Nat /\ clients[c].at <= now
  BY ManifestAssumption DEF Stamped, RevsArePast, TypeOK, Client, Times
<1>3. SUFFICES ASSUME clients[c].rev # Absent, ~overtaken[c], ~torn[c],
                      NEW j \in Public(notices),
                      notices[j].touched <= clients[c].rev.latest,
                      notices[j].from <= clients'[c].at
               PROVE  \/ <<j, notices[j].text>> \in clients'[c].shown
                      \/ clients'[c].fetching /\ Position(j) >= clients'[c].read
  BY <1>1 DEF KeptUp, Seen, Started, Public, Position, InForce, Before
<1>4. j \in InForce
  <2>1. notices[j].from \in Nat
    BY ManifestAssumption DEF Stamped, TypeOK, Notice, Public
  <2>. QED BY <1>1, <1>2, <1>3, <2>1 DEF InForce
<1>5. <<j, notices[j].text>> \in clients[c].shown \/ Position(j) >= offset
  <2>1. CASE offset = 0
    BY <2>1, PositionType
  <2>2. CASE offset > 0
    BY <2>2, <1>1, <1>2, <1>3 DEF KeptUp, Started, Seen, Fetch
  <2>. QED BY <1>2, <2>1, <2>2
<1>. HIDE DEF offset
<1>6. CASE <<j, notices[j].text>> \in clients[c].shown
  BY <1>1, <1>6
<1>7. CASE Position(j) >= offset /\ Position(j) < offset + Limit
  BY <1>1, <1>4, <1>7 DEF Page, Shows
<1>8. CASE Position(j) >= offset + Limit
  <2>1. More(offset)
    BY <1>4, <1>8 DEF More
  <2>. QED BY <1>1, <1>8, <2>1
<1>9. Position(j) \in Nat
  BY PositionType
<1>. QED BY <1>2, <1>5, <1>6, <1>7, <1>8, <1>9

LEMMA KeptUpStep ==
  ASSUME Stamped, Stamped', [Next]_vars, NEW c \in Clients, KeptUp(c)
  PROVE  KeptUp(c)'
<1>. USE DEF history
<1>s. ASSUME UNCHANGED <<now, notices, overtaken, torn>>, clients'[c] = clients[c]
      PROVE  KeptUp(c)'
  BY <1>s DEF KeptUp, Seen, Started, Public, Position, InForce, Before
<1>1. CASE Commit
  BY <1>1, CommitKeepsUp
<1>2. ASSUME NEW i \in Ids, Add(i) \/ Approve(i) \/ Count(i) \/ Remove(i)
      PROVE  KeptUp(c)'
  <2>1. Writes(i)
    BY <1>2, StatementsWrite DEF Stamped
  <2>. QED BY <2>1, StatementKeepsUp
<1>3. ASSUME NEW d \in Clients, Poll(d) PROVE KeptUp(c)'
  <2>1. CASE d = c
    <3>1. clients'[c].fetching /\ ~(clients'[c].read > 0)
      BY <1>3, <2>1 DEF Poll, Stamped, TypeOK, Client, Offline
    <3>. QED BY <3>1 DEF KeptUp, Started
  <2>2. CASE d # c
    <3>1. /\ clients'[c] = clients[c] /\ overtaken'[c] = overtaken[c]
          /\ torn'[c] = torn[c]
      BY <1>3, <2>2 DEF Poll, Stamped, TypeOK
    <3>2. UNCHANGED <<now, notices>>
      BY <1>3 DEF Poll, tableVars
    <3>. QED
      BY <3>1, <3>2 DEF KeptUp, Seen, Started, Public, Position, InForce, Before
  <2>. QED BY <2>1, <2>2
<1>4. ASSUME NEW d \in Clients, Fetch(d) PROVE KeptUp(c)'
  <2>1. CASE d = c
    BY <1>4, <2>1, FetchKeepsUp
  <2>2. CASE d # c
    <3>1. clients'[c] = clients[c]
      BY <1>4, <2>2 DEF Fetch, Stamped, TypeOK
    <3>. QED BY <1>4, <3>1, <1>s DEF Fetch, tableVars
  <2>. QED BY <2>1, <2>2
<1>5. CASE Tick \/ Begin
  <2>1. /\ UNCHANGED <<notices, clients, overtaken, torn>>
        /\ now' = now + 1 /\ now \in Nat
    BY <1>5, ManifestAssumption
       DEF Tick, Begin, Elsewhere, readings, Instant, Stamped, TypeOK, Times
  <2>2. ~Shifts
    BY <2>1, NothingShifts DEF Stamped, InForce, Public
  <2>. QED BY <2>1, <2>2, WriterKeepsUp DEF Tears
<1>6. CASE Manifest
  BY <1>6, <1>s DEF Manifest, Compute, Store, Expire, tableVars
<1>7. CASE UNCHANGED vars
  BY <1>7, <1>s DEF vars
<1>. QED
  BY <1>1, <1>2, <1>3, <1>4, <1>5, <1>6, <1>7 DEF Next

LEMMA InvInit == Init => IInv
<1>1. Init => TypeOK
  BY ManifestAssumption DEF Init, TypeOK, Offline, Client, Times, Notice, Rev
<1>2. Init => StampsArePast /\ RevsArePast
  BY DEF Init, StampsArePast, RevsArePast, Past, Offline
<1>3. Init => \A c \in Clients : KeptUp(c)
  BY DEF Init, KeptUp, Started, Offline
<1>. QED BY <1>1, <1>2, <1>3 DEF IInv, Stamped

LEMMA InvStep == IInv /\ [Next]_vars => IInv'
<1>1. SUFFICES ASSUME IInv, [Next]_vars PROVE IInv'
  OBVIOUS
<1>2. Stamped'
  BY <1>1, StampedStep DEF IInv
<1>3. ASSUME NEW c \in Clients PROVE KeptUp(c)'
  BY <1>1, <1>2, KeptUpStep DEF IInv
<1>. QED BY <1>2, <1>3 DEF IInv

\* A client whose last revision is the present one has missed no public notice
\* and shows each in its present wording, for any numbers of notices, clients,
\* overlapping requests and rows of a page and however stale the cache was,
\* unless a transaction was overtaken or the list torn between two pages
\* (getManifest, computeManifest, getNotices).
THEOREM NothingIsMissed == Spec => []NothingMissed
<1>1. IInv => NothingMissed
  <2>1. SUFFICES ASSUME IInv, NEW c \in Clients, UpToDate(c), ~overtaken[c],
                        ~torn[c], NEW i \in Public(notices), notices[i].from <= clients[c].at
                 PROVE  <<i, notices[i].text>> \in clients[c].shown
    BY DEF NothingMissed, Shows
  <2>2. notices[i].touched <= clients[c].rev.latest
    BY <2>1 DEF UpToDate, IsRev
  <2>. QED BY <2>1, <2>2 DEF IInv, KeptUp, Started, Seen, UpToDate
<1>. QED BY <1>1, InvInit, InvStep, PTL DEF Spec

----------------------------------------------------------------------------

\* Two tables with the same revision and no row of the second stamped anew
\* have the same public rows.
LEMMA FewerPublicRows ==
  ASSUME NEW old, NEW new, NEW rev, IsRev(rev, old), IsRev(rev, new),
         Public(new) \subseteq Public(old)
  PROVE  Public(new) = Public(old)
<1>1. IsFiniteSet(Public(old)) /\ Cardinality(Public(new)) = Cardinality(Public(old))
  BY CountType DEF IsRev
<1>. QED BY <1>1, FS_Subset

\* Whatever a statement or a commit makes of the public notices, the revision
\* moves, unless a public row was stamped after the transaction began
\* (computeManifest: COUNT and MAX(updatedAt)).
THEOREM RevisionsMove == Spec => ManifestMoves
<1>1. ASSUME IInv, Next, Visible' # Visible,
             NEW n \in Nat, NEW t \in Times,
             IsRev([count |-> n, latest |-> t], notices),
             IsRev([count |-> n, latest |-> t], notices'),
             ~(/\ began # Absent /\ began' = Absent
               /\ \E i \in Public(notices) : notices[i].touched > began)
      PROVE  FALSE
  <2>. DEFINE rev == [count |-> n, latest |-> t]
  <2>t. /\ TypeOK /\ StampsArePast /\ now \in Nat /\ t \in Nat
        /\ \A i \in Public(notices) : notices[i].touched \in Nat
    BY <1>1, ManifestAssumption DEF IInv, Stamped, TypeOK, Times, Public, Notice
  <2>p. t <= now
    BY <1>1, <2>t DEF IsRev, StampsArePast, Public
  <2>1. ASSUME \A i \in Public(notices') : notices'[i] = notices[i] PROVE FALSE
    <3>1. Public(notices') \subseteq Public(notices)
      BY <2>1 DEF Public
    <3>2. Public(notices') = Public(notices)
      BY <1>1, <3>1, FewerPublicRows
    <3>. QED BY <1>1, <2>1, <3>2 DEF Visible, Public
  <2>2. ASSUME NEW i \in Ids, Add(i) \/ Approve(i) \/ Count(i) \/ Remove(i)
        PROVE  FALSE
    <3>1. Writes(i)
      BY <2>2, <2>t, StatementsWrite
    <3>2. CASE i \in Public(notices')
      <4>1. notices'[i].touched = now + 1
        BY <3>1, <3>2 DEF Writes, Instant, Public
      <4>2. notices'[i].touched <= t
        BY <1>1, <3>2 DEF IsRev
      <4>. QED BY <4>1, <4>2, <2>t, <2>p
    <3>3. CASE i \notin Public(notices')
      BY <2>1, <3>1, <3>3 DEF Writes, Public
    <3>. QED BY <3>2, <3>3
  <2>3. CASE Commit
    <3>1. began # Absent /\ began' = Absent /\ began \in Nat
      BY <2>3, <2>t, ManifestAssumption DEF Commit, TypeOK, Times
    <3>2. \A i \in Public(notices) : notices[i].touched <= began
      BY <1>1, <3>1, <2>t
    <3>3. \A i \in Public(notices) : notices[i].touched < began
      BY <3>1, <3>2, <2>t DEF StampsArePast, Public
    <3>4. PICK i \in Public(notices') : notices'[i] # notices[i]
      BY <2>1
    <3>5. notices'[i].touched = began
      BY <3>4, <2>3, <2>t, CommitWrites DEF Public, Imported
    <3>6. began <= t
      BY <1>1, <3>4, <3>5 DEF IsRev
    <3>7. t > 0 => \E j \in Public(notices) : t = notices[j].touched
      BY <1>1, <2>t DEF IsRev
    <3>8. t = 0 /\ began = 0
      BY <3>1, <3>3, <3>6, <3>7, <2>t
    <3>9. Public(notices) = {}
      BY <3>2, <3>3, <3>8, <2>t
    <3>. QED
      <4>1. Cardinality(Public(notices)) = 0
        BY <3>9, FS_EmptySet
      <4>2. Cardinality(Public(notices')) = 0
        BY <4>1, <1>1 DEF IsRev
      <4>3. IsFiniteSet(Public(notices'))
        BY CountType
      <4>. QED BY <4>2, <4>3, <3>4, FS_EmptySet
  <2>4. CASE Tick \/ Begin \/ Manifest \/ \E c \in Clients : Poll(c) \/ Fetch(c)
    <3>1. notices' = notices
      BY <2>4 DEF Tick, Begin, Manifest, Compute, Store, Expire, Poll, Fetch,
         tableVars
    <3>. QED BY <1>1, <3>1 DEF Visible, Public
  <2>. QED BY <1>1, <2>2, <2>3, <2>4 DEF Next
<1>2. ASSUME IInv, [Next]_vars
      PROVE  [Visible' # Visible =>
               \/ \A n \in 0..Cardinality(Ids), t \in Times :
                    LET rev == [count |-> n, latest |-> t]
                    IN  ~(IsRev(rev, notices) /\ IsRev(rev, notices)')
               \/ /\ began # Absent /\ began' = Absent
                  /\ \E i \in Public(notices) : notices[i].touched > began
             ]_vars
  <2>1. Cardinality(Ids) \in Nat
    BY ManifestAssumption, FS_CardinalityType
  <2>2. \A n \in 0..Cardinality(Ids) : n \in Nat
    BY <2>1
  <2>. QED BY <1>1, <1>2, <2>2 DEF IsRev, Public
<1>. QED BY <1>2, InvInit, InvStep, PTL DEF Spec, ManifestMoves

=============================================================================
