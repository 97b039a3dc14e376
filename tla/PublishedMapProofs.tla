------------------------- MODULE PublishedMapProofs -------------------------
(***************************************************************************)
(* What a single importer does to the map, for every set of zones, rails   *)
(* and batch size: dates survive rewrites, the transaction publishes the   *)
(* snapshot, the map is never blanked, and CommunityImport implements      *)
(* PublishedMap.  The last two are about importers alone: an administrator *)
(* may remove as many rows as they like.                                   *)
(***************************************************************************)
EXTENDS CommunityImportProofs, FiniteSetTheorems

\* Runs do not overlap.
OneImporter == \A v, w \in Workers : v = w

NoAdministrator == Admins = {}

----------------------------------------------------------------------------
(* The inductive invariant *)

KeepsDates(new, prior) ==
  new.publishedAt = prior.publishedAt /\ new.activeFrom = prior.activeFrom

\* What a row may be after an import that read `prior`: its start date may
\* also be the one the zone states.
Continues(new, prior, zone) ==
  /\ new.publishedAt = prior.publishedAt
  /\ new.activeFrom = prior.activeFrom \/ new.activeFrom = Stated(zone)

SameFacts(new, prior) ==
  /\ new.terms = prior.terms /\ new.shape = prior.shape
  /\ KeepsDates(new, prior)

Done(w) == Present(snap[w]) \ pending[w]

\* On an empty table, a run has published the zones it is done with, less
\* those an administrator removed.
Bootstraps(w, z) ==
  /\ toWrite[w][z] = Absent
  /\ rows[z] # Absent => z \in Done(w) /\ ShowsFacts(rows[z].notice, snap[w][z])
  /\ z \in Done(w) /\ rows[z] = Absent => Admins # {}

\* Otherwise it has left the table as it read it, less such removals, and holds
\* for each zone it is done with a row to write, unless the row it read will do.
Replaces(w, z) ==
  /\ rows[z] # Absent => existing[w][z] # Absent /\ SameFacts(rows[z].notice, existing[w][z])
  /\ existing[w][z] # Absent /\ rows[z] = Absent => Admins # {}
  /\ toWrite[w][z] # Absent =>
       /\ z \in Done(w) /\ ShowsFacts(toWrite[w][z], snap[w][z])
       /\ existing[w][z] # Absent => Continues(toWrite[w][z], existing[w][z], snap[w][z])
  /\ z \in Done(w) /\ toWrite[w][z] = Absent =>
       existing[w][z] # Absent /\ ShowsFacts(existing[w][z], snap[w][z])

\* The rails were applied to what the run replaces.
RailsHeld(w) == SafeSnapshot(snap[w], Cardinality(Present(existing[w])))

RunInv(w) ==
  /\ phase[w] # "enriching" => toWrite[w] = NoZones
  /\ phase[w] = "enriching" =>
       /\ RailsHeld(w)
       /\ \A z \in Zones : IF Bootstrap(w) THEN Bootstraps(w, z) ELSE Replaces(w, z)

MapInv == Typed /\ \A w \in Workers : RunInv(w)

----------------------------------------------------------------------------
(* Lemmas *)

\* A row the batch loop writes shows the zone's facts and continues the row that
\* was read; where it writes none, the row that was read shows those facts.
LEMMA WriteFacts ==
  ASSUME NEW prior \in Notice \cup {Absent}, NEW zone \in Zone,
         NEW at \in Dates, NEW outcome \in Outcomes
  PROVE  LET new == Write(prior, zone, at, outcome)
         IN  /\ new # Absent =>
                  /\ ShowsFacts(new, zone)
                  /\ prior # Absent => Continues(new, prior, zone)
             /\ new = Absent => prior # Absent /\ ShowsFacts(prior, zone)
<1> DEFINE row == RowFor(prior, zone, at, outcome)
<1>1. row \in Notice
  BY RowForType
<1>2. /\ row.terms = zone.terms /\ row.shape = zone.shape
      /\ row.activeFrom = ActiveFrom(prior, zone, at)
      /\ row.publishedAt = PublishedAt(prior, zone, at)
  BY DEF RowFor
<1>3. ShowsFacts(row, zone)
  BY <1>2 DEF ShowsFacts, ActiveFrom, Stated
<1>4. prior # Absent => Continues(row, prior, zone)
  BY <1>2 DEF Continues, ActiveFrom, PublishedAt
<1> HIDE DEF row
<1>5. row # Absent
  BY <1>1, StoreAssumption
<1>6. ASSUME Unchanged(prior, row)
      PROVE  prior # Absent /\ ShowsFacts(prior, zone)
  <2>1. prior \in Notice /\ [prior EXCEPT !.publishedAt = row.publishedAt] = row
    BY <1>6 DEF Unchanged
  <2>2. /\ row.terms = prior.terms /\ row.shape = prior.shape
        /\ row.activeFrom = prior.activeFrom
    BY <2>1 DEF Notice
  <2> QED
    BY <1>3, <1>6, <2>2 DEF ShowsFacts, Unchanged
<1> QED
  BY <1>3, <1>4, <1>5, <1>6 DEF Write, row

\* By hand, a zone's row is only removed or left with the facts it shows.
LEMMA StoreRowStep ==
  ASSUME StoreTypeOK, StoreNext \/ UNCHANGED storeVars, NEW z \in Zones
  PROVE  \/ rows'[z] = rows[z]
         \/ rows'[z] = Absent /\ Admins # {}
         \/ /\ rows[z] # Absent /\ rows'[z] # Absent
            /\ SameFacts(rows'[z].notice, rows[z].notice)
<1> USE DEF StoreTypeOK
<1>0. z \in Keys /\ (rows[z] # Absent => rows[z] \in Row /\ rows[z].notice \in Notice)
  BY DEF Keys, Row
<1>1. ASSUME NEW a \in Admins, Approve(a)
      PROVE  \/ rows'[z] = rows[z]
             \/ /\ rows[z] # Absent /\ rows'[z] # Absent
                /\ SameFacts(rows'[z].notice, rows[z].notice)
  <2> DEFINE k == page[a].key
             n == Approved(rows[k].notice)
  <2>1. k \in Keys /\ rows[k] # Absent
    BY <1>1 DEF Approve, Live, Id
  <2>2. rows' = [rows EXCEPT ![k].notice = n]
    BY <1>1 DEF Approve
  <2>3. CASE z # k
    BY <2>1, <2>2, <2>3
  <2>4. CASE z = k
    <3>1. rows'[z] = [rows[z] EXCEPT !.notice = n]
      BY <1>0, <2>2, <2>4
    <3>2. rows'[z] \in [inc : Incs, reports : 0 .. MaxReports, notice : {n}]
      BY <1>0, <2>1, <2>4, <3>1 DEF Row
    <3>3. n \in Notice /\ SameFacts(n, rows[z].notice)
      BY <1>0, <2>1, <2>4 DEF Approved, Notice, SameFacts, KeepsDates, Reasons
    <3>4. rows'[z] \in Row /\ rows'[z].notice = n
      BY <3>2, <3>3 DEF Row
    <3> QED
      BY <2>1, <2>4, <3>3, <3>4, StoreAssumption
  <2> QED
    BY <2>3, <2>4
<1>2. ASSUME NEW a \in Admins, DismissReports(a)
      PROVE  \/ rows'[z] = rows[z]
             \/ /\ rows[z] # Absent /\ rows'[z] # Absent
                /\ SameFacts(rows'[z].notice, rows[z].notice)
  <2>1. \/ rows'[z] = rows[z]
        \/ rows[z] # Absent /\ rows'[z] = [rows[z] EXCEPT !.reports = 0]
    BY <1>0, <1>2 DEF DismissReports, Live
  <2>2. ASSUME rows[z] # Absent, rows'[z] = [rows[z] EXCEPT !.reports = 0]
        PROVE  rows'[z] \in Row /\ rows'[z].notice = rows[z].notice
    BY <1>0, <2>2, StoreAssumption DEF Row
  <2> QED
    BY <2>1, <2>2, StoreAssumption DEF SameFacts, KeepsDates
<1>3. ASSUME NEW a \in Admins, Reject(a)
      PROVE  rows'[z] = rows[z] \/ rows'[z] = Absent
  BY <1>0, <1>3 DEF Reject
<1>4. ASSUME NEW k \in ManualKeys, AddNotice(k)
      PROVE  rows'[z] = rows[z]
  BY <1>0, <1>4, StoreAssumption DEF AddNotice, Keys
<1>5. ASSUME NEW k \in Keys, Report(k)
      PROVE  \/ rows'[z] = rows[z]
             \/ /\ rows[z] # Absent /\ rows'[z] # Absent
                /\ SameFacts(rows'[z].notice, rows[z].notice)
  <2>1. \/ rows'[z] = rows[z]
        \/ /\ rows[z] # Absent /\ rows[z].reports < MaxReports
           /\ rows'[z] = [rows[z] EXCEPT !.reports = @ + 1]
    BY <1>0, <1>5 DEF Report
  <2>2. ASSUME rows[z] # Absent, rows[z].reports < MaxReports,
               rows'[z] = [rows[z] EXCEPT !.reports = @ + 1]
        PROVE  rows'[z] \in Row /\ rows'[z].notice = rows[z].notice
    <3>1. rows[z].reports + 1 \in 0 .. MaxReports
      BY <1>0, <2>2, StoreAssumption DEF Row
    <3> QED
      BY <1>0, <2>2, <3>1 DEF Row
  <2> QED
    BY <2>1, <2>2, StoreAssumption DEF SameFacts, KeepsDates
<1>6. ASSUME rows' = rows \/ UNCHANGED storeVars
      PROVE  rows'[z] = rows[z]
  BY <1>6 DEF storeVars
<1> QED
  BY <1>1, <1>2, <1>3, <1>4, <1>5, <1>6 DEF StoreNext, View, NotFound

----------------------------------------------------------------------------
(* The invariant is inductive *)

LEMMA MapInvInit == Init => MapInv
<1> SUFFICES ASSUME Init PROVE MapInv
  OBVIOUS
<1>1. Typed
  BY TypedInit
<1>2. \A w \in Workers : RunInv(w)
  BY DEF Init, RunInv
<1> QED
  BY <1>1, <1>2 DEF MapInv

\* What the table holds of a zone matters to a run only through its facts.
LEMMA StoreMapStep ==
  ASSUME MapInv, StoreNext \/ UNCHANGED storeVars, UNCHANGED workerVars, NEW w \in Workers
  PROVE  RunInv(w)'
<1>0. StoreTypeOK /\ ImportTypeOK /\ RunInv(w)
  BY DEF MapInv, Typed, TypeOK
<1>1. /\ phase' = phase /\ snap' = snap /\ existing' = existing
      /\ pending' = pending /\ toWrite' = toWrite
  BY DEF workerVars
<1>2. phase'[w] # "enriching" => toWrite'[w] = NoZones
  BY <1>0, <1>1 DEF RunInv
<1>3. ASSUME phase'[w] = "enriching"
      PROVE  /\ RailsHeld(w)'
             /\ \A z \in Zones : IF Bootstrap(w)' THEN Bootstraps(w, z)' ELSE Replaces(w, z)'
  <2>1. RailsHeld(w) /\ RailsHeld(w)'
    BY <1>0, <1>1, <1>3 DEF RunInv, RailsHeld, SafeSnapshot, Present
  <2>2. Bootstrap(w)' <=> Bootstrap(w)
    BY <1>1 DEF Bootstrap, Present
  <2>3. Done(w)' = Done(w)
    BY <1>1 DEF Done, Present
  <2>4. ASSUME NEW z \in Zones, Bootstrap(w)
        PROVE  Bootstraps(w, z)'
    <3>1. Bootstraps(w, z)
      BY <1>0, <1>1, <1>3, <2>4 DEF RunInv
    <3> QED
      BY <1>0, <1>1, <2>3, <3>1, StoreRowStep
      DEF Bootstraps, SameFacts, KeepsDates, ShowsFacts
  <2>5. ASSUME NEW z \in Zones, ~Bootstrap(w)
        PROVE  Replaces(w, z)'
    <3>1. Replaces(w, z)
      BY <1>0, <1>1, <1>3, <2>5 DEF RunInv
    <3> QED
      BY <1>0, <1>1, <2>3, <3>1, StoreRowStep
      DEF Replaces, SameFacts, KeepsDates, ShowsFacts, Continues
  <2> QED
    BY <2>1, <2>2, <2>4, <2>5
<1> QED
  BY <1>2, <1>3 DEF RunInv

\* Reading the table starts a run that has done nothing yet.
LEMMA ReadMapStep ==
  ASSUME MapInv, NEW w \in Workers, ReadExisting(w)
  PROVE  RunInv(w)'
<1>0. StoreTypeOK /\ ImportTypeOK /\ RunInv(w)
  BY DEF MapInv, Typed, TypeOK
<1>1. /\ rows' = rows /\ snap' = snap /\ toWrite' = toWrite
      /\ phase'[w] = "enriching" /\ existing'[w] = Stored
      /\ pending'[w] = Present(snap[w])
  BY <1>0 DEF ReadExisting, storeVars, ImportTypeOK
<1>2. toWrite'[w] = NoZones
  BY <1>0, <1>1 DEF ReadExisting, RunInv
<1>3. RailsHeld(w)'
  BY <1>1 DEF ReadExisting, RailsHeld, SafeSnapshot, Present
<1>4. Done(w)' = {}
  BY <1>1 DEF Done, Present
<1>5. ASSUME NEW z \in Zones
      PROVE  /\ existing'[w][z] # Absent <=> rows'[z] # Absent
             /\ rows'[z] # Absent => existing'[w][z] = rows'[z].notice
  <2>1. rows[z] # Absent => rows[z].notice \in Notice
    BY <1>0 DEF StoreTypeOK, Keys, Row
  <2> QED
    BY <1>1, <2>1, StoreAssumption DEF Stored
<1>6. ASSUME NEW z \in Zones, Bootstrap(w)'
      PROVE  Bootstraps(w, z)'
  <2>1. existing'[w][z] = Absent
    BY <1>1, <1>6 DEF Bootstrap, Present, Stored
  <2> QED
    BY <1>2, <1>4, <1>5, <2>1 DEF Bootstraps, NoZones
<1>7. ASSUME NEW z \in Zones
      PROVE  Replaces(w, z)'
  BY <1>2, <1>4, <1>5 DEF Replaces, NoZones, SameFacts, KeepsDates
<1> QED
  BY <1>1, <1>3, <1>6, <1>7 DEF RunInv

\* A zone of a batch is one the run was not done with.
LEMMA BatchFacts ==
  ASSUME Typed, NEW w \in Workers, phase[w] = "enriching",
         NEW answer \in [Batch(w) -> Outcomes], NEW z \in Zones
  PROVE  LET new == BatchRows(w, answer)[z]
         IN  /\ z \notin Batch(w) => new = Absent
             /\ z \in Batch(w) => z \in pending[w] /\ z \in Present(snap[w])
             /\ new # Absent =>
                  /\ new \in Notice /\ ShowsFacts(new, snap[w][z])
                  /\ existing[w][z] # Absent => Continues(new, existing[w][z], snap[w][z])
             /\ z \in Batch(w) /\ new = Absent =>
                  existing[w][z] # Absent /\ ShowsFacts(existing[w][z], snap[w][z])
<1>1. z \notin Batch(w) => BatchRows(w, answer)[z] = Absent
  BY DEF BatchRows
<1>2. ASSUME z \in Batch(w)
      PROVE  /\ z \in pending[w] /\ z \in Present(snap[w])
             /\ BatchRows(w, answer)[z] =
                  Write(existing[w][z], snap[w][z], importedAt[w], answer[z])
             /\ existing[w][z] \in Notice \cup {Absent} /\ snap[w][z] \in Zone
             /\ importedAt[w] \in Dates /\ answer[z] \in Outcomes
  <2>1. z \in pending[w] /\ z \in Present(snap[w]) /\ importedAt[w] \in Dates
    BY <1>2 DEF Batch, Typed, RunsAreWellFormed
  <2>2. snap[w][z] \in Zone
    BY <2>1 DEF Typed, TypeOK, ImportTypeOK, Present, Snapshot
  <2> QED
    BY <1>2, <2>1, <2>2 DEF BatchRows, Typed, TypeOK, ImportTypeOK
<1>3. BatchRows(w, answer)[z] \in Notice \cup {Absent}
  BY BatchRowsTyped
<1> QED
  BY <1>1, <1>2, <1>3, WriteFacts

LEMMA BatchMapStep ==
  ASSUME MapInv, NEW w \in Workers, ProcessBatch(w)
  PROVE  RunInv(w)'
<1>0. StoreTypeOK /\ ImportTypeOK /\ Typed /\ RunInv(w) /\ phase[w] = "enriching"
  BY DEF MapInv, Typed, TypeOK, ProcessBatch
<1>1. PICK answer \in [Batch(w) -> Outcomes] :
        LET new == BatchRows(w, answer)
        IN  IF Bootstrap(w)
            THEN rows' = Upsert(rows, new) /\ UNCHANGED toWrite
            ELSE /\ toWrite' = [toWrite EXCEPT ![w] =
                      [z \in Zones |->
                         IF new[z] # Absent THEN new[z] ELSE @[z]]]
                 /\ UNCHANGED rows
  BY DEF ProcessBatch
<1> DEFINE new == BatchRows(w, answer)
<1>2. /\ phase' = phase /\ snap' = snap /\ existing' = existing
      /\ pending'[w] = pending[w] \ Batch(w)
  BY <1>0 DEF ProcessBatch, ImportTypeOK
<1>3. Done(w)' = Done(w) \cup Batch(w)
  <2>1. Batch(w) \subseteq Present(snap[w])
    BY <1>0 DEF Batch, Typed, RunsAreWellFormed
  <2> QED
    BY <1>2, <2>1 DEF Done, Present, Batch
<1>4. RailsHeld(w)' /\ (Bootstrap(w)' <=> Bootstrap(w))
  BY <1>0, <1>2 DEF RunInv, RailsHeld, Bootstrap, SafeSnapshot, Present
<1>5. ASSUME NEW z \in Zones, Bootstrap(w)
      PROVE  Bootstraps(w, z)'
  <2>1. Bootstraps(w, z) /\ existing[w][z] = Absent
    BY <1>0, <1>5 DEF RunInv, Bootstrap, Present, ImportTypeOK
  <2>2. rows' = Upsert(rows, new) /\ toWrite' = toWrite
    BY <1>1, <1>5
  <2>3. z \in Keys /\ z \in Batch(w) => rows[z] = Absent
    BY <2>1 DEF Keys, Bootstraps, Done, Batch
  <2>4. CASE z \in Batch(w)
    <3>1. new[z] \in Notice /\ new[z] # Absent /\ ShowsFacts(new[z], snap[w][z])
      BY <1>0, <2>1, <2>4, BatchFacts
    <3>2. rows'[z] = NewRow(z, new[z]) /\ rows'[z] \in Row
      BY <1>0, <2>2, <2>3, <2>4, <3>1, NewRowType DEF Upsert, Keys, StoreTypeOK
    <3>3. rows'[z] # Absent /\ rows'[z].notice = new[z]
      BY <3>2, StoreAssumption DEF NewRow
    <3> QED
      BY <1>2, <1>3, <2>1, <2>2, <2>4, <3>1, <3>3 DEF Bootstraps
  <2>5. CASE z \notin Batch(w)
    <3>1. new[z] = Absent
      BY <1>0, <2>5, BatchFacts
    <3>2. rows'[z] = rows[z]
      BY <2>2, <3>1 DEF Upsert, Keys
    <3> QED
      BY <1>2, <1>3, <2>1, <2>2, <2>5, <3>2 DEF Bootstraps
  <2> QED
    BY <2>4, <2>5
<1>6. ASSUME NEW z \in Zones, ~Bootstrap(w)
      PROVE  Replaces(w, z)'
  <2>1. Replaces(w, z)
    BY <1>0, <1>6 DEF RunInv
  <2>2. rows' = rows /\ toWrite'[w][z] = IF new[z] # Absent THEN new[z] ELSE toWrite[w][z]
    BY <1>0, <1>1, <1>6 DEF ImportTypeOK
  <2>3. z \in Batch(w) => toWrite[w][z] = Absent
    BY <2>1 DEF Replaces, Done, Batch
  <2> HIDE DEF new
  <2>4. CASE new[z] # Absent
    <3>1. /\ z \in Batch(w) /\ ShowsFacts(new[z], snap[w][z])
          /\ existing[w][z] # Absent => Continues(new[z], existing[w][z], snap[w][z])
      BY <1>0, <2>4, BatchFacts DEF new
    <3> QED
      BY <1>2, <1>3, <2>1, <2>2, <2>4, <3>1 DEF Replaces
  <2>5. CASE new[z] = Absent
    <3>1. z \in Batch(w) => existing[w][z] # Absent /\ ShowsFacts(existing[w][z], snap[w][z])
      BY <1>0, <2>5, BatchFacts DEF new
    <3> QED
      BY <1>2, <1>3, <2>1, <2>2, <2>5, <3>1 DEF Replaces
  <2> QED
    BY <2>4, <2>5
<1> QED
  BY <1>0, <1>2, <1>4, <1>5, <1>6 DEF RunInv

LEMMA MapInvStep ==
  ASSUME OneImporter, MapInv, [Next]_vars
  PROVE  MapInv'
<1>0. Typed' /\ ImportTypeOK
  BY TypedStep DEF MapInv, Typed, TypeOK
<1> SUFFICES ASSUME NEW w \in Workers PROVE RunInv(w)'
  BY <1>0 DEF MapInv
<1>1. CASE StoreNext /\ UNCHANGED workerVars
  BY <1>1, StoreMapStep
<1>2. ASSUME NEW v \in Workers, Fetch(v)
      PROVE  RunInv(w)'
  <2>1. v = w
    BY DEF OneImporter
  <2>2. phase'[w] = "fetched" /\ toWrite' = toWrite /\ phase[w] = "idle"
    BY <1>0, <1>2, <2>1 DEF Fetch, ImportTypeOK
  <2> QED
    BY <2>2 DEF MapInv, RunInv
<1>3. ASSUME NEW v \in Workers, ReadExisting(v)
      PROVE  RunInv(w)'
  BY <1>3, ReadMapStep DEF OneImporter
<1>4. ASSUME NEW v \in Workers, ProcessBatch(v)
      PROVE  RunInv(w)'
  BY <1>4, BatchMapStep DEF OneImporter
<1>5. ASSUME NEW v \in Workers, NEW next \in {"idle", "logging"}, Finish(v, next)
      PROVE  RunInv(w)'
  <2>1. v = w
    BY DEF OneImporter
  <2>2. phase'[w] = next /\ toWrite'[w] = NoZones
    BY <1>0, <1>5, <2>1 DEF Finish, ImportTypeOK
  <2> QED
    BY <2>2 DEF RunInv
<1>6. CASE UNCHANGED vars
  BY <1>6, StoreMapStep DEF vars
<1> QED
  BY <1>1, <1>2, <1>3, <1>4, <1>5, <1>6
  DEF Next, WorkerStep, RefuseSnapshot, Commit, RecordLog, Abort

----------------------------------------------------------------------------
(* What one step does to the row of a zone *)

\* The transaction leaves the zones of the snapshot with their facts, less what
\* an administrator removed, and continues the rows it overwrites.
LEMMA CommitRow ==
  ASSUME MapInv, NEW w \in Workers, Commit(w), NEW z \in Zones
  PROVE  /\ snap[w][z] = Absent => rows'[z] = Absent
         /\ snap[w][z] # Absent =>
              \/ rows'[z] # Absent /\ ShowsFacts(rows'[z].notice, snap[w][z])
              \/ /\ rows[z] = Absent /\ rows'[z] = Absent /\ Admins # {}
                 /\ existing[w][z] # Absent \/ Bootstrap(w)
         /\ rows[z] # Absent /\ rows'[z] # Absent =>
              \/ KeepsDates(rows'[z].notice, rows[z].notice)
              \/ /\ snap[w][z] # Absent
                 /\ Continues(rows'[z].notice, rows[z].notice, snap[w][z])
<1>0. /\ StoreTypeOK /\ ImportTypeOK /\ z \in Keys
      /\ phase[w] = "enriching" /\ pending[w] = {}
      /\ rows' = Delete(Upsert(rows, toWrite[w]), StaleKeys(w))
  BY DEF MapInv, Typed, TypeOK, Commit, Keys
<1>1. z \in Done(w) <=> snap[w][z] # Absent
  BY <1>0 DEF Done, Present, ImportTypeOK, Snapshot
<1>2. z \in StaleKeys(w) <=> existing[w][z] # Absent /\ snap[w][z] = Absent
  BY <1>0 DEF StaleKeys, Present, ImportTypeOK, Snapshot
<1>3. z \in StaleKeys(w) => rows'[z] = Absent
  BY <1>0 DEF Delete
<1>4. z \notin StaleKeys(w) /\ toWrite[w][z] = Absent => rows'[z] = rows[z]
  BY <1>0 DEF Delete, Upsert
<1>5. ASSUME z \notin StaleKeys(w), toWrite[w][z] # Absent
      PROVE  rows'[z] # Absent /\ rows'[z].notice = toWrite[w][z]
  <2>1. toWrite[w][z] \in Notice /\ Upsert(rows, toWrite[w])[z] \in Row \cup {Absent}
    BY <1>0, <1>5, UpsertType DEF ImportTypeOK
  <2>2. \/ rows'[z] = NewRow(z, toWrite[w][z])
        \/ rows[z] \in Row /\ rows'[z] = [rows[z] EXCEPT !.notice = toWrite[w][z]]
    BY <1>0, <1>5 DEF Delete, Upsert, StoreTypeOK
  <2>3. rows'[z].notice = toWrite[w][z]
    BY <2>2 DEF NewRow, Row
  <2>4. rows'[z] \in Row
    BY <1>0, <2>1, <2>2, NewRowType DEF StoreTypeOK, Row
  <2> QED
    BY <2>3, <2>4, StoreAssumption
<1>6. CASE Bootstrap(w)
  <2>1. Bootstraps(w, z) /\ existing[w][z] = Absent
    BY <1>0, <1>6 DEF MapInv, RunInv, Bootstrap, Present, ImportTypeOK
  <2>2. rows'[z] = rows[z]
    BY <1>2, <1>4, <2>1 DEF Bootstraps
  <2> QED
    BY <1>1, <1>6, <2>1, <2>2 DEF Bootstraps, KeepsDates
<1>7. CASE ~Bootstrap(w)
  <2>1. Replaces(w, z)
    BY <1>0, <1>7 DEF MapInv, RunInv
  <2>2. snap[w][z] = Absent => rows'[z] = Absent
    BY <1>1, <1>2, <1>3, <1>4, <2>1 DEF Replaces
  <2>3. ASSUME snap[w][z] # Absent, toWrite[w][z] # Absent
        PROVE  /\ rows'[z] # Absent /\ ShowsFacts(rows'[z].notice, snap[w][z])
               /\ rows[z] # Absent => Continues(rows'[z].notice, rows[z].notice, snap[w][z])
    BY <1>2, <1>5, <2>1, <2>3 DEF Replaces, Continues, SameFacts, KeepsDates
  <2>4. ASSUME snap[w][z] # Absent, toWrite[w][z] = Absent
        PROVE  /\ rows'[z] = rows[z] /\ existing[w][z] # Absent
               /\ rows[z] # Absent => ShowsFacts(rows[z].notice, snap[w][z])
               /\ rows[z] = Absent => Admins # {}
    BY <1>1, <1>2, <1>4, <2>1, <2>4
    DEF Replaces, ShowsFacts, SameFacts, KeepsDates
  <2> QED
    BY <2>2, <2>3, <2>4 DEF KeepsDates
<1> QED
  BY <1>6, <1>7

\* A batch only ever adds rows, and only on a table that was empty when the run
\* read it.
LEMMA BatchRow ==
  ASSUME MapInv, NEW w \in Workers, ProcessBatch(w), NEW z \in Zones
  PROVE  \/ rows'[z] = rows[z]
         \/ Bootstrap(w) /\ rows[z] = Absent /\ rows'[z] # Absent
<1>0. StoreTypeOK /\ Typed /\ phase[w] = "enriching" /\ z \in Keys
  BY DEF MapInv, Typed, TypeOK, ProcessBatch, Keys
<1>1. PICK answer \in [Batch(w) -> Outcomes] :
        \/ rows' = rows
        \/ Bootstrap(w) /\ rows' = Upsert(rows, BatchRows(w, answer))
  BY DEF ProcessBatch
<1> DEFINE new == BatchRows(w, answer)
<1>2. ASSUME Bootstrap(w), rows' = Upsert(rows, new), new[z] # Absent
      PROVE  rows[z] = Absent /\ rows'[z] # Absent
  <2>1. Bootstraps(w, z)
    BY <1>0, <1>2 DEF MapInv, RunInv
  <2>2. z \in Batch(w) /\ new[z] \in Notice
    BY <1>0, <1>2, BatchFacts
  <2>3. rows[z] = Absent
    BY <2>1, <2>2 DEF Bootstraps, Done, Batch
  <2>4. rows'[z] = NewRow(z, new[z]) /\ rows'[z] \in Row
    BY <1>0, <1>2, <2>2, <2>3, NewRowType DEF Upsert, StoreTypeOK
  <2> QED
    BY <2>3, <2>4, StoreAssumption
<1>3. ASSUME rows' = Upsert(rows, new), new[z] = Absent
      PROVE  rows'[z] = rows[z]
  BY <1>0, <1>3 DEF Upsert
<1> HIDE DEF new
<1> QED
  BY <1>1, <1>2, <1>3 DEF new

----------------------------------------------------------------------------
(* Dates and snapshots *)

DatesStep(z) ==
  SameRow(z) =>
    /\ rows'[z].notice.publishedAt = rows[z].notice.publishedAt
    /\ rows'[z].notice.activeFrom # rows[z].notice.activeFrom =>
         \E w \in Workers :
           snap[w][z] # Absent /\ rows'[z].notice.activeFrom = Stated(snap[w][z])

\* A zone keeps its publication date, and its start date unless the source
\* states another, through every import that does not overlap another one.
THEOREM DatesSurvive ==
  ASSUME OneImporter
  PROVE  Spec => FirstDatesKept
<1>1. Init => MapInv
  BY MapInvInit
<1>2. MapInv /\ [Next]_vars => MapInv'
  BY MapInvStep
<1>3. ASSUME MapInv, [Next]_vars, NEW z \in Zones
      PROVE  DatesStep(z)
  <2>0. StoreTypeOK
    BY <1>3 DEF MapInv, Typed, TypeOK
  <2>1. ASSUME StoreNext
        PROVE  DatesStep(z)
    BY <2>0, <2>1, StoreRowStep DEF DatesStep, SameRow, SameFacts, KeepsDates
  <2>2. ASSUME NEW w \in Workers, ProcessBatch(w)
        PROVE  DatesStep(z)
    BY <1>3, <2>2, BatchRow DEF DatesStep, SameRow
  <2>3. ASSUME NEW w \in Workers, Commit(w)
        PROVE  DatesStep(z)
    <3>1. rows[z] # Absent /\ rows'[z] # Absent =>
            \/ KeepsDates(rows'[z].notice, rows[z].notice)
            \/ /\ snap[w][z] # Absent
               /\ Continues(rows'[z].notice, rows[z].notice, snap[w][z])
      BY <1>3, <2>3, CommitRow
    <3> QED
      BY <3>1 DEF DatesStep, SameRow, KeepsDates, Continues
  <2>4. ASSUME rows' = rows
        PROVE  DatesStep(z)
    BY <2>4 DEF DatesStep
  <2> QED
    BY <1>3, <2>1, <2>2, <2>3, <2>4
    DEF Next, WorkerStep, Fetch, ReadExisting, RefuseSnapshot, RecordLog, Abort,
        vars, storeVars
<1>4. MapInv /\ [Next]_vars =>
        [\A z \in Zones : SameRow(z) =>
           /\ rows'[z].notice.publishedAt = rows[z].notice.publishedAt
           /\ rows'[z].notice.activeFrom # rows[z].notice.activeFrom =>
                \E w \in Workers :
                  snap[w][z] # Absent /\ rows'[z].notice.activeFrom = Stated(snap[w][z])]_vars
  BY <1>3 DEF DatesStep
<1> QED
  BY <1>1, <1>2, <1>4, PTL DEF Spec, FirstDatesKept

\* The only step from enriching to logging is the transaction.
LEMMA CommitStepIsCommit ==
  ASSUME Typed, [Next]_vars, NEW w \in Workers, CommitStep(w)
  PROVE  Commit(w)
<1>0. ImportTypeOK /\ phase[w] = "enriching" /\ phase'[w] = "logging"
  BY DEF Typed, TypeOK, CommitStep
<1>1. ASSUME NEW v \in Workers, WorkerStep(v) \/ Abort(v)
      PROVE  Commit(w)
  <2>1. v = w
    BY <1>0, <1>1 DEF WorkerStep, Fetch, ReadExisting, RefuseSnapshot, ProcessBatch,
                      Commit, RecordLog, Abort, Finish, ImportTypeOK
  <2> QED
    BY <1>0, <1>1, <2>1 DEF WorkerStep, Fetch, ReadExisting, RefuseSnapshot,
                            ProcessBatch, RecordLog, Abort, Finish, ImportTypeOK
<1>2. phase' # phase
  BY <1>0
<1> QED
  BY <1>1, <1>2 DEF Next, vars, workerVars

\* The transaction of an import that does not overlap another leaves exactly the
\* zones of its snapshot, with their facts, less what an administrator removed
\* while it ran.
THEOREM SnapshotIsPublished ==
  ASSUME OneImporter
  PROVE  Spec => SnapshotPublished
<1>1. Init => MapInv
  BY MapInvInit
<1>2. MapInv /\ [Next]_vars => MapInv'
  BY MapInvStep
<1>3. ASSUME MapInv, [Next]_vars, NEW w \in Workers, CommitStep(w), NEW z \in Zones
      PROVE  IF snap[w][z] = Absent THEN rows'[z] = Absent
             ELSE \/ rows'[z] # Absent /\ ShowsFacts(rows'[z].notice, snap[w][z])
                  \/ /\ rows[z] = Absent /\ Admins # {}
                     /\ existing[w][z] # Absent \/ Bootstrap(w)
  <2>1. Commit(w)
    BY <1>3, CommitStepIsCommit DEF MapInv
  <2> QED
    BY <1>3, <2>1, CommitRow
<1>4. MapInv /\ [Next]_vars =>
        [\A w \in Workers : CommitStep(w) =>
           \A z \in Zones :
             IF snap[w][z] = Absent THEN rows'[z] = Absent
             ELSE \/ rows'[z] # Absent /\ ShowsFacts(rows'[z].notice, snap[w][z])
                  \/ /\ rows[z] = Absent /\ Admins # {}
                     /\ existing[w][z] # Absent \/ Bootstrap(w)]_vars
  BY <1>3
<1> QED
  BY <1>1, <1>2, <1>4, PTL DEF Spec, SnapshotPublished

----------------------------------------------------------------------------
(* The map as a reader sees it, when no administrator removes rows *)

\* How an import on an empty table has fared; without administrators the rows of
\* the table are those of the batches it is done with.
LEMMA QuietRun ==
  ASSUME MapInv, NoAdministrator, NEW w \in Workers, phase[w] = "enriching"
  PROVE  /\ Bootstrap(w) => ShownZones = Done(w)
         /\ ~Bootstrap(w) => ShownZones = Present(existing[w])
<1>1. existing[w] \in [Zones -> Notice \cup {Absent}] /\ snap[w] \in Snapshot
  BY DEF MapInv, Typed, TypeOK, ImportTypeOK
<1>2. \A z \in Zones : IF Bootstrap(w) THEN Bootstraps(w, z) ELSE Replaces(w, z)
  BY DEF MapInv, RunInv
<1>3. Done(w) \subseteq Zones /\ Present(existing[w]) \subseteq Zones
  BY <1>1 DEF Done, Present, Snapshot
<1>4. ASSUME Bootstrap(w), NEW z \in Zones
      PROVE  z \in ShownZones <=> z \in Done(w)
  BY <1>2, <1>4 DEF Bootstraps, ShownZones, NoAdministrator
<1>5. ASSUME ~Bootstrap(w), NEW z \in Zones
      PROVE  z \in ShownZones <=> z \in Present(existing[w])
  BY <1>1, <1>2, <1>5 DEF Replaces, ShownZones, NoAdministrator, Present
<1> QED
  BY <1>3, <1>4, <1>5 DEF ShownZones

\* The transaction leaves the zones of a snapshot that the rails accepted
\* against the map it replaces.
LEMMA QuietCommit ==
  ASSUME MapInv, NoAdministrator, NEW w \in Workers, Commit(w)
  PROVE  /\ ShownZones' = Present(snap[w])
         /\ Present(snap[w]) \subseteq Zones
         /\ \A l \in Layers : \E z \in Present(snap[w]) : LayerOf[z] = l
         /\ Cardinality(Present(snap[w])) >= MinZones
         /\ Cardinality(Present(snap[w])) * RetainDen >= Cardinality(ShownZones) * RetainNum
<1>0. phase[w] = "enriching" /\ pending[w] = {} /\ snap[w] \in Snapshot
  BY DEF MapInv, Typed, TypeOK, ImportTypeOK, Commit
<1>1. ShownZones' = Present(snap[w]) /\ Present(snap[w]) \subseteq Zones
  <2>1. \A z \in Zones : rows'[z] # Absent <=> snap[w][z] # Absent
    BY CommitRow DEF NoAdministrator
  <2>2. DOMAIN snap[w] = Zones
    BY <1>0 DEF Snapshot
  <2> QED
    BY <2>1, <2>2 DEF ShownZones, Present
<1>2. SafeSnapshot(snap[w], Cardinality(Present(existing[w])))
  BY <1>0 DEF MapInv, RunInv, RailsHeld
<1>3. /\ Cardinality(ShownZones) \in Nat /\ Cardinality(Present(snap[w])) \in Nat
      /\ RetainNum \in Nat /\ RetainDen \in Nat /\ RetainNum <= RetainDen
  <2>1. IsFiniteSet(ShownZones) /\ IsFiniteSet(Present(snap[w]))
    BY <1>1, StoreAssumption, FS_Subset DEF ShownZones
  <2> QED
    BY <2>1, FS_CardinalityType, ImportAssumption
<1>4. Cardinality(Present(snap[w])) * RetainDen >= Cardinality(ShownZones) * RetainNum
  <2>1. CASE Bootstrap(w)
    <3>1. ShownZones = Present(snap[w])
      BY <1>0, <2>1, QuietRun DEF Done
    <3> QED
      BY <1>3, <3>1
  <2>2. CASE ~Bootstrap(w)
    <3>1. ShownZones = Present(existing[w])
      BY <1>0, <2>2, QuietRun
    <3>2. Cardinality(ShownZones) > 0 =>
            Cardinality(Present(snap[w])) * RetainDen >= Cardinality(ShownZones) * RetainNum
      BY <1>2, <3>1 DEF SafeSnapshot
    <3> QED
      BY <1>3, <3>2
  <2> QED
    BY <2>1, <2>2
<1> QED
  BY <1>1, <1>2, <1>4 DEF SafeSnapshot

\* Every other step, a batch apart, leaves a reader what they see.
LEMMA QuietStep ==
  ASSUME Typed, NoAdministrator, NEW z \in Zones,
         \/ StoreNext \/ UNCHANGED vars
         \/ \E w \in Workers :
              \/ Fetch(w) \/ ReadExisting(w) \/ RefuseSnapshot(w)
              \/ RecordLog(w) \/ Abort(w)
  PROVE  \/ rows'[z] = rows[z]
         \/ /\ rows[z] # Absent /\ rows'[z] # Absent
            /\ SameFacts(rows'[z].notice, rows[z].notice)
<1>1. \/ StoreNext
      \/ rows' = rows
  BY DEF Fetch, ReadExisting, RefuseSnapshot, RecordLog, Abort, vars, storeVars
<1> QED
  BY <1>1, StoreRowStep DEF Typed, TypeOK, NoAdministrator

BlankStep ==
  LET before == Cardinality(ShownZones)
      after  == Cardinality(ShownZones')
  IN  /\ after * RetainDen >= before * RetainNum
      /\ before >= MinZones => after >= MinZones

LEMMA BlankStepHolds ==
  ASSUME OneImporter, NoAdministrator, MapInv, [Next]_vars
  PROVE  BlankStep
<1>0. /\ IsFiniteSet(ShownZones) /\ IsFiniteSet(ShownZones')
      /\ Cardinality(ShownZones) \in Nat /\ Cardinality(ShownZones') \in Nat
      /\ RetainNum \in Nat /\ RetainDen \in Nat /\ RetainNum <= RetainDen
      /\ MinZones \in Nat
  <2>1. IsFiniteSet(ShownZones) /\ IsFiniteSet(ShownZones')
    BY StoreAssumption, FS_Subset DEF ShownZones
  <2> QED
    BY <2>1, FS_CardinalityType, ImportAssumption
<1>1. ASSUME ShownZones \subseteq ShownZones'
      PROVE  BlankStep
  <2>1. Cardinality(ShownZones) <= Cardinality(ShownZones')
    BY <1>0, <1>1, FS_Subset
  <2>2. Cardinality(ShownZones) * RetainNum <= Cardinality(ShownZones') * RetainDen
    BY <1>0, <2>1
  <2> QED
    BY <1>0, <2>1, <2>2 DEF BlankStep
<1>2. ASSUME NEW w \in Workers, ProcessBatch(w)
      PROVE  BlankStep
  BY <1>1, <1>2, BatchRow DEF ShownZones
<1>3. ASSUME NEW w \in Workers, Commit(w)
      PROVE  BlankStep
  BY <1>3, QuietCommit DEF BlankStep
<1>4. ASSUME \/ StoreNext \/ UNCHANGED vars
             \/ \E w \in Workers :
                  \/ Fetch(w) \/ ReadExisting(w) \/ RefuseSnapshot(w)
                  \/ RecordLog(w) \/ Abort(w)
      PROVE  BlankStep
  BY <1>1, <1>4, QuietStep DEF ShownZones, MapInv
<1> QED
  BY <1>2, <1>3, <1>4 DEF Next, WorkerStep

\* Whatever the source publishes, an import that does not overlap another never
\* takes the map below the retention ratio of what it showed, nor below the
\* expected minimum once it had reached it.
THEOREM MapIsNeverBlanked ==
  ASSUME OneImporter, NoAdministrator
  PROVE  Spec => NeverBlanked
<1>1. Init => MapInv
  BY MapInvInit
<1>2. MapInv /\ [Next]_vars => MapInv'
  BY MapInvStep
<1>3. MapInv /\ [Next]_vars =>
        [LET before == Cardinality(ShownZones)
             after  == Cardinality(ShownZones')
         IN  /\ after * RetainDen >= before * RetainNum
             /\ before >= MinZones => after >= MinZones]_vars
  BY BlankStepHolds DEF BlankStep
<1> QED
  BY <1>1, <1>2, <1>3, PTL DEF Spec, NeverBlanked

----------------------------------------------------------------------------
(* CommunityImport implements PublishedMap *)

MapLive ==
  [z \in Zones |->
     IF rows[z] = Absent THEN Absent
     ELSE [terms |-> rows[z].notice.terms, shape |-> rows[z].notice.shape]]

Filling ==
  \/ ShownZones = {}
  \/ \E w \in Workers : phase[w] = "enriching" /\ Bootstrap(w)

\* The cardinality PublishedMap counts with is the one used here.
LEMMA MapCardinality ==
  ASSUME NEW S
  PROVE  Map!Cardinality(S) = Cardinality(S)
  BY DEF Map!Cardinality, Cardinality

LEMMA MapLiveType ==
  ASSUME StoreTypeOK
  PROVE  /\ MapLive \in [Zones -> Facts \cup {Absent}]
         /\ \A z \in Zones : MapLive[z] # Absent <=> rows[z] # Absent
<1>1. ASSUME NEW z \in Zones, rows[z] # Absent
      PROVE  [terms |-> rows[z].notice.terms, shape |-> rows[z].notice.shape] \in Facts
  <2>1. rows[z] \in Row
    BY <1>1 DEF StoreTypeOK, Keys
  <2> QED
    BY <2>1 DEF Row, Notice, Facts
<1>2. Absent \notin Facts
  BY ImportAssumption DEF Facts
<1> QED
  BY <1>1, <1>2 DEF MapLive

\* A run that leaves a reader what they see implements a step of PublishedMap
\* if it does not take a finished map back to the filling phase.
LEMMA SameMapStep ==
  ASSUME StoreTypeOK', MapLive' = MapLive, Filling' => Filling
  PROVE  [Map!Next]_(Map!vars)
<1>1. MapLive' \in [Zones -> Facts \cup {Absent}]
  <2>1. (StoreTypeOK => MapLive \in [Zones -> Facts \cup {Absent}])'
    BY MapLiveType, PTL
  <2> QED
    BY <2>1
<1>2. CASE Filling
  <2>1. Map!Fill
    BY <1>1, <1>2 DEF Map!Fill, Map!Shown, MapLive, Filling
  <2> QED
    BY <2>1 DEF Map!Next
<1>3. CASE ~Filling
  BY <1>3 DEF Map!vars, MapLive, Filling
<1> QED
  BY <1>2, <1>3

\* An import on an empty table adds zones and changes none.
LEMMA BatchImplementsFill ==
  ASSUME MapInv, StoreTypeOK', NEW w \in Workers, ProcessBatch(w)
  PROVE  [Map!Next]_(Map!vars)
<1>0. StoreTypeOK /\ phase[w] = "enriching"
  BY DEF MapInv, Typed, TypeOK, ProcessBatch
<1>1. (StoreTypeOK => MapLive \in [Zones -> Facts \cup {Absent}])'
  BY MapLiveType, PTL
<1>2. CASE Bootstrap(w)
  <2>1. Filling
    BY <1>0, <1>2 DEF Filling
  <2>2. \A z \in Map!Shown(MapLive) : MapLive'[z] = MapLive[z]
    <3> SUFFICES ASSUME NEW z \in Zones, MapLive[z] # Absent
                 PROVE  MapLive'[z] = MapLive[z]
      BY DEF Map!Shown
    <3>1. rows[z] # Absent
      BY <1>0, MapLiveType
    <3> QED
      BY <3>1, BatchRow DEF MapLive
  <2>3. Map!Fill
    BY <1>1, <2>1, <2>2 DEF Map!Fill, Map!Shown, MapLive, Filling
  <2> QED
    BY <2>3 DEF Map!Next
<1>3. CASE ~Bootstrap(w)
  <2>1. rows' = rows /\ phase' = phase /\ existing' = existing
    BY <1>3 DEF ProcessBatch
  <2>2. MapLive' = MapLive /\ (Filling' => Filling)
    BY <2>1 DEF MapLive, Filling, ShownZones, Bootstrap, Present
  <2> QED
    BY <2>2, SameMapStep
<1> QED
  BY <1>2, <1>3

\* The transaction replaces the map as a whole.
LEMMA CommitImplementsReplace ==
  ASSUME OneImporter, NoAdministrator, MapInv, StoreTypeOK',
         NEW w \in Workers, Commit(w)
  PROVE  Map!Replace
<1>0. StoreTypeOK /\ ImportTypeOK
  BY DEF MapInv, Typed, TypeOK
<1>1. /\ MapLive' \in [Zones -> Facts \cup {Absent}]
      /\ \A z \in Zones : MapLive'[z] # Absent <=> rows'[z] # Absent
  <2>1. (StoreTypeOK => /\ MapLive \in [Zones -> Facts \cup {Absent}]
                        /\ \A z \in Zones : MapLive[z] # Absent <=> rows[z] # Absent)'
    BY MapLiveType, PTL
  <2> QED
    BY <2>1
<1>2. Map!Shown(MapLive') = ShownZones' /\ Map!Shown(MapLive) = ShownZones
  BY <1>0, <1>1, MapLiveType DEF Map!Shown, ShownZones
<1>3. Map!Acceptable(MapLive')
  BY <1>2, QuietCommit, MapCardinality DEF Map!Acceptable, MapLive
<1>4. ~Filling'
  <2>1. ShownZones' # {}
    <3>1. Cardinality(ShownZones') >= MinZones /\ MinZones \in Nat \ {0}
      BY QuietCommit, ImportAssumption
    <3> QED
      BY <3>1, FS_EmptySet
  <2>2. \A v \in Workers : phase'[v] = "logging"
    BY <1>0 DEF OneImporter, Commit, Finish, ImportTypeOK
  <2> QED
    BY <2>1, <2>2 DEF Filling
<1> QED
  BY <1>1, <1>3, <1>4 DEF Map!Replace, MapLive, Filling

\* Every other step leaves the map alone, and no run that begins or ends takes a
\* finished map back to the filling phase.
LEMMA OtherImplementsStutter ==
  ASSUME OneImporter, NoAdministrator, MapInv, [Next]_vars, StoreTypeOK',
         \/ StoreNext /\ UNCHANGED workerVars
         \/ UNCHANGED vars
         \/ \E w \in Workers :
              \/ Fetch(w) \/ ReadExisting(w) \/ RefuseSnapshot(w)
              \/ RecordLog(w) \/ Abort(w)
  PROVE  [Map!Next]_(Map!vars)
<1>0. StoreTypeOK /\ ImportTypeOK /\ Typed
  BY DEF MapInv, Typed, TypeOK
<1>1. \A z \in Zones :
        \/ rows'[z] = rows[z]
        \/ /\ rows[z] # Absent /\ rows'[z] # Absent
           /\ SameFacts(rows'[z].notice, rows[z].notice)
  BY <1>0, QuietStep
<1>2. MapLive' = MapLive
  BY <1>1 DEF MapLive, SameFacts
<1>3. ShownZones' = ShownZones
  BY <1>1 DEF ShownZones
<1>4. ASSUME \/ StoreNext /\ UNCHANGED workerVars
             \/ UNCHANGED vars
      PROVE  Filling' => Filling
  BY <1>3, <1>4 DEF Filling, Bootstrap, Present, vars, workerVars
<1>5. ASSUME NEW w \in Workers, ReadExisting(w)
      PROVE  Filling' => Filling
  <2>1. /\ phase' = [phase EXCEPT ![w] = "enriching"]
        /\ existing' = [existing EXCEPT ![w] = Stored]
    BY <1>5 DEF ReadExisting
  <2>2. existing'[w] = Stored /\ DOMAIN Stored = Zones
    BY <1>0, <2>1 DEF ImportTypeOK, Stored
  <2>3. \A z \in Zones : rows[z] # Absent => Stored[z] # Absent
    BY <1>0, StoreAssumption DEF Stored, StoreTypeOK, Keys, Row
  <2>4. Bootstrap(w)' => ShownZones = {}
    BY <2>2, <2>3 DEF Bootstrap, Present, ShownZones
  <2> QED
    BY <1>3, <2>4 DEF Filling, OneImporter
<1>6. ASSUME NEW w \in Workers,
             Fetch(w) \/ RefuseSnapshot(w) \/ RecordLog(w) \/ Abort(w)
      PROVE  Filling' => Filling
  <2>1. phase'[w] # "enriching"
    BY <1>0, <1>6 DEF Fetch, RefuseSnapshot, RecordLog, Abort, Finish, ImportTypeOK
  <2> QED
    BY <1>3, <2>1 DEF Filling, OneImporter
<1>7. Filling' => Filling
  BY <1>4, <1>5, <1>6
<1> QED
  BY <1>2, <1>7, SameMapStep

\* The import implements what is promised to readers of the map, whatever fails
\* and wherever a run is cut short: until it is complete for the first time zones
\* are only added; from then on it is replaced as a whole, by a snapshot the
\* rails accept.
THEOREM ImplementsPublishedMap ==
  ASSUME OneImporter, NoAdministrator
  PROVE  Spec => ReplacesMapAtOnce
<1>1. Init => MapInv
  BY MapInvInit
<1>2. MapInv /\ [Next]_vars => MapInv'
  BY MapInvStep
<1>3. Init => Map!Init
  <2> SUFFICES ASSUME Init PROVE Map!Init
    OBVIOUS
  <2>1. \A z \in Zones : rows[z] = Absent
    BY DEF Init, StoreInit, Keys
  <2> QED
    BY <2>1 DEF Map!Init, ShownZones
<1>4. ASSUME MapInv, MapInv', [Next]_vars
      PROVE  [Map!Next]_(Map!vars)
  <2>0. StoreTypeOK'
    BY <1>4 DEF MapInv, Typed, TypeOK
  <2>1. ASSUME NEW w \in Workers, ProcessBatch(w)
        PROVE  [Map!Next]_(Map!vars)
    BY <1>4, <2>0, <2>1, BatchImplementsFill
  <2>2. ASSUME NEW w \in Workers, Commit(w)
        PROVE  [Map!Next]_(Map!vars)
    BY <1>4, <2>0, <2>2, CommitImplementsReplace DEF Map!Next
  <2>3. ASSUME \/ StoreNext /\ UNCHANGED workerVars
               \/ UNCHANGED vars
               \/ \E w \in Workers :
                    \/ Fetch(w) \/ ReadExisting(w) \/ RefuseSnapshot(w)
                    \/ RecordLog(w) \/ Abort(w)
        PROVE  [Map!Next]_(Map!vars)
    BY <1>4, <2>0, <2>3, OtherImplementsStutter
  <2> QED
    BY <1>4, <2>1, <2>2, <2>3 DEF Next, WorkerStep
<1> QED
  BY <1>1, <1>2, <1>3, <1>4, PTL DEF Spec, ReplacesMapAtOnce, Map!Spec

=============================================================================
