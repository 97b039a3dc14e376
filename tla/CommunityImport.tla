-------------------------- MODULE CommunityImport --------------------------
(***************************************************************************)
(* The community-map import: workers that fetch the curated map, compare   *)
(* it with the stored rows, have the changed zones described in batches,   *)
(* and replace the stored set in one transaction (or, on an empty table,   *)
(* batch by batch).  Administrators and the public act on the same rows    *)
(* between any two steps, and any step may be the last one of its run: an  *)
(* error, or a restart, leaves only what is already in the table.          *)
(*                                                                         *)
(* One worker is what a single replica runs (processor concurrency 1); two *)
(* are an overlap of two replicas, or of a stalled job and its retry.      *)
(***************************************************************************)
EXTENDS ZoneDescription

CONSTANTS
  Workers,              \* runs of the import that may overlap
  Layers, LayerOf,      \* configured layers and the layer of each zone
  BatchSize,            \* ENRICH_CONCURRENCY
  MinZones,             \* MIN_EXPECTED_ZONE_COUNT
  RetainNum, RetainDen, \* MIN_EXISTING_RETENTION_RATIO
  SourceZones           \* states in which the source may publish a zone

ASSUME ImportAssumption ==
  /\ LayerOf \in [Zones -> Layers]
  /\ BatchSize \in Nat \ {0}
  /\ MinZones \in Nat \ {0}
  /\ RetainDen \in Nat \ {0}
  /\ RetainNum \in 1 .. RetainDen
  /\ SourceZones \subseteq Zone
  /\ Absent \notin [terms: Terms, shape: Shapes]

VARIABLES
  phase,      \* per worker: "idle", "fetched", "enriching", "logging"
  snap,       \* the snapshot the worker fetched
  existing,   \* the rows it read before enriching
  pending,    \* zones it still has to process
  toWrite,    \* rows collected for the final transaction
  importedAt  \* the instant it read the rows

workerVars == <<phase, snap, existing, pending, toWrite, importedAt>>
vars == <<storeVars, workerVars>>

Phases == {"idle", "fetched", "enriching", "logging"}
Published == [Zones -> SourceZones \cup {Absent}]
NoZones == [z \in Zones |-> Absent]

ImportTypeOK ==
  /\ phase \in [Workers -> Phases]
  /\ snap \in [Workers -> Snapshot]
  /\ existing \in [Workers -> [Zones -> Notice \cup {Absent}]]
  /\ pending \in [Workers -> SUBSET Zones]
  /\ toWrite \in [Workers -> [Zones -> Notice \cup {Absent}]]
  /\ importedAt \in [Workers -> Dates \cup {NoDate}]

TypeOK == StoreTypeOK /\ ImportTypeOK

Init ==
  /\ StoreInit
  /\ phase = [w \in Workers |-> "idle"]
  /\ snap = [w \in Workers |-> NoZones]
  /\ existing = [w \in Workers |-> NoZones]
  /\ pending = [w \in Workers |-> {}]
  /\ toWrite = [w \in Workers |-> NoZones]
  /\ importedAt = [w \in Workers |-> NoDate]

----------------------------------------------------------------------------

Present(f) == {z \in DOMAIN f : f[z] # Absent}

SafeSnapshot_NoRatio(s, count) ==
  /\ \A l \in Layers : \E z \in Present(s) : LayerOf[z] = l
  /\ Cardinality(Present(s)) >= MinZones

\* assertSafeSnapshot: every layer is there, the map is not implausibly
\* small, and it has not shrunk below the retention ratio.
SafeSnapshot(s, count) ==
  LET n == Cardinality(Present(s))
  IN  /\ \A l \in Layers : \E z \in Present(s) : LayerOf[z] = l
      /\ n >= MinZones
      /\ count > 0 => n * RetainDen >= count * RetainNum

\* The next slice of the zones in subKey order.
Batch(w) ==
  {z \in pending[w] :
     Cardinality({y \in pending[w] : y < z}) < BatchSize}

Bootstrap_Always(w) == TRUE

Bootstrap(w) == Present(existing[w]) = {}

Upsert_WholeRow(table, new) ==
  [k \in Keys |->
     IF k \notin Zones THEN table[k]
     ELSE IF new[k] = Absent THEN table[k]
     ELSE IF table[k] = Absent THEN NewRow(k, new[k])
     ELSE [table[k] EXCEPT !.notice = new[k], !.reports = 0]]

\* INSERT ... ON CONFLICT (source, subKey) DO UPDATE of the notice columns.
Upsert(table, new) ==
  [k \in Keys |->
     IF k \notin Zones THEN table[k]
     ELSE IF new[k] = Absent THEN table[k]
     ELSE IF table[k] = Absent THEN NewRow(k, new[k])
     ELSE [table[k] EXCEPT !.notice = new[k]]]

StaleKeys_Unwritten(w) ==
  Present(existing[w]) \ Present(toWrite[w])
StaleKeys_None(w) == {}

StaleKeys(w) == Present(existing[w]) \ Present(snap[w])

Delete(table, zones) ==
  [k \in Keys |-> IF k \in zones THEN Absent ELSE table[k]]

----------------------------------------------------------------------------

\* fetchCommunityMapKml, parseKmlFolders, buildCommunityMapSnapshot.  The
\* curators may have added, edited or dropped any zone since the last fetch.
Fetch(w) ==
  /\ phase[w] = "idle"
  /\ phase' = [phase EXCEPT ![w] = "fetched"]
  /\ \E published \in Published : snap' = [snap EXCEPT ![w] = published]
  /\ UNCHANGED <<storeVars, existing, pending, toWrite, importedAt>>

\* The local state of a run ends with it.
Finish(w, next) ==
  /\ phase' = [phase EXCEPT ![w] = next]
  /\ snap' = [snap EXCEPT ![w] = NoZones]
  /\ existing' = [existing EXCEPT ![w] = NoZones]
  /\ pending' = [pending EXCEPT ![w] = {}]
  /\ toWrite' = [toWrite EXCEPT ![w] = NoZones]
  /\ importedAt' = [importedAt EXCEPT ![w] = NoDate]

Stored == [z \in Zones |-> IF rows[z] = Absent THEN Absent ELSE rows[z].notice]

\* The rows are read before a language-model call is made for any of them.
ReadExisting(w) ==
  /\ phase[w] = "fetched"
  /\ SafeSnapshot(snap[w], Cardinality(Present(Stored)))
  /\ phase' = [phase EXCEPT ![w] = "enriching"]
  /\ existing' = [existing EXCEPT ![w] = Stored]
  /\ pending' = [pending EXCEPT ![w] = Present(snap[w])]
  /\ \E now \in Dates : importedAt' = [importedAt EXCEPT ![w] = now]
  /\ UNCHANGED <<storeVars, snap, toWrite>>

RefuseSnapshot(w) ==
  /\ phase[w] = "fetched"
  /\ ~SafeSnapshot(snap[w], Cardinality(Present(Stored)))
  /\ Finish(w, "idle")
  /\ UNCHANGED storeVars

\* The rows of one batch, given how the model answered for each zone.
BatchRows(w, answer) ==
  [z \in Zones |->
     IF z \in Batch(w)
     THEN Write(existing[w][z], snap[w][z], importedAt[w], answer[z])
     ELSE Absent]

\* One turn of the batch loop: on an empty table its rows are published at
\* once, otherwise they wait for the transaction.
ProcessBatch(w) ==
  /\ phase[w] = "enriching"
  /\ pending[w] # {}
  /\ \E answer \in [Batch(w) -> Outcomes] :
       LET new == BatchRows(w, answer)
       IN  IF Bootstrap(w)
           THEN rows' = Upsert(rows, new) /\ UNCHANGED toWrite
           ELSE /\ toWrite' = [toWrite EXCEPT ![w] =
                     [z \in Zones |->
                        IF new[z] # Absent THEN new[z] ELSE @[z]]]
                /\ UNCHANGED rows
  /\ pending' = [pending EXCEPT ![w] = @ \ Batch(w)]
  /\ UNCHANGED <<page, vetted, phase, snap, existing, importedAt>>

\* The transaction: upsert what changed, delete what the source dropped.
Commit(w) ==
  /\ phase[w] = "enriching"
  /\ pending[w] = {}
  /\ rows' = Delete(Upsert(rows, toWrite[w]), StaleKeys(w))
  /\ Finish(w, "logging")
  /\ UNCHANGED <<page, vetted>>

\* The import log is saved after the transaction; whether that succeeds
\* decides only whether the job is retried.
RecordLog(w) ==
  /\ phase[w] = "logging"
  /\ Finish(w, "idle")
  /\ UNCHANGED storeVars

\* A fetch, parse, database or authentication error, or a restart.
Abort(w) ==
  /\ phase[w] \in {"fetched", "enriching"}
  /\ Finish(w, "idle")
  /\ UNCHANGED storeVars

WorkerStep(w) ==
  \/ Fetch(w) \/ ReadExisting(w) \/ RefuseSnapshot(w)
  \/ ProcessBatch(w) \/ Commit(w) \/ RecordLog(w)

Next ==
  \/ \E w \in Workers : WorkerStep(w) \/ Abort(w)
  \/ StoreNext /\ UNCHANGED workerVars

Spec == Init /\ [][Next]_vars

----------------------------------------------------------------------------
(* Properties *)

\* The description states the facts stored beside it.
StatesItsTerms(notice) ==
  notice.desc # Brief /\ notice.desc.of.terms = notice.terms

Honest(z, notice) ==
  /\ notice.needsReview <=> notice.reasons # {}
  /\ \/ notice.needsReview
     \/ StatesItsTerms(notice)
     \/ <<z, notice.desc, notice.terms>> \in vetted

\* Whatever is public on the map carries a description generated for the
\* terms shown with it, unless an administrator approved that very pair; and
\* a zone is hidden exactly while it has an open review reason.  Holds
\* through failures of the model, overlapping imports and stale reads
\* (describe, approveNtM and the write-back of rows read minutes before).
PublicZonesAreHonest ==
  \A z \in Zones : rows[z] # Absent => Honest(z, rows[z].notice)

SameRow(k) ==
  rows[k] # Absent /\ rows'[k] # Absent /\ rows'[k].inc = rows[k].inc

\* No rewrite of a notice loses or invents a public report: an import that
\* read the row before the reports came in, or an approval, keeps the count
\* (`reports` deliberately absent from the upsert; approveNtM independent of
\* user reports).
ReportsSurviveRewrites ==
  [][\A k \in Keys :
       SameRow(k) =>
         /\ rows'[k].notice # rows[k].notice => rows'[k].reports = rows[k].reports
         /\ rows'[k].reports \in {0, rows[k].reports, rows[k].reports + 1}
    ]_vars

CommitStep(w) == phase[w] = "enriching" /\ phase'[w] = "logging"

\* The facts a reader gets about a zone are those of the snapshot.
ShowsFacts(notice, zone) ==
  /\ notice.terms = zone.terms
  /\ notice.shape = zone.shape
  /\ zone.from # NoDate => notice.activeFrom = zone.from

\* With one importer, the transaction leaves exactly the zones of the
\* snapshot it fetched, with their facts.  A zone may be missing only when an
\* administrator rejected it while the import was running.
SnapshotPublished ==
  [][\A w \in Workers : CommitStep(w) =>
       \A z \in Zones :
         IF snap[w][z] = Absent THEN rows'[z] = Absent
         ELSE \/ rows'[z] # Absent /\ ShowsFacts(rows'[z].notice, snap[w][z])
              \/ /\ rows[z] = Absent /\ Admins # {}
                 /\ existing[w][z] # Absent \/ Bootstrap(w)
    ]_vars

\* A zone keeps the publication date of its first import for as long as its
\* row lives, and its start date while the source states none
\* (resolveZoneFacts: prior values before the scrape time).
FirstDatesKept ==
  [][\A z \in Zones : SameRow(z) =>
       /\ rows'[z].notice.publishedAt = rows[z].notice.publishedAt
       /\ rows'[z].notice.activeFrom # rows[z].notice.activeFrom =>
            \E w \in Workers :
              snap[w][z] # Absent /\ rows'[z].notice.activeFrom = Stated(snap[w][z])
    ]_vars

\* Without an administrator removing rows, no step takes the map below the
\* retention ratio of what it showed, nor below the expected minimum once it
\* had reached it (assertSafeSnapshot against a truncated source).
ShownZones == {z \in Zones : rows[z] # Absent}

NeverBlanked ==
  [][LET before == Cardinality(ShownZones)
         after  == Cardinality(ShownZones')
     IN  /\ after * RetainDen >= before * RetainNum
         /\ before >= MinZones => after >= MinZones]_vars

\* The detailed import implements the promise made to readers, with one
\* importer and no administrator removing rows: no reader of the table ever
\* sees a partly replaced map once it has been built (the transaction of
\* runImport), whatever fails and wherever a run is cut short.
Facts == [terms: Terms, shape: Shapes]

Map == INSTANCE PublishedMap WITH
  live <- [z \in Zones |->
             IF rows[z] = Absent THEN Absent
             ELSE [terms |-> rows[z].notice.terms,
                   shape |-> rows[z].notice.shape]],
  filling <- \/ ShownZones = {}
             \/ \E w \in Workers : phase[w] = "enriching" /\ Bootstrap(w)

ReplacesMapAtOnce == Map!Spec

\* Every step of a run that has begun is eventually taken: the queue keeps
\* starting imports (daily, at boot, and on retry) and a run proceeds.
Fairness == \A w \in Workers : WF_vars(WorkerStep(w))
FairSpec == Spec /\ Fairness

\* Once the curators leave the map alone, in a state the rails accept, and
\* runs stop being cut short, the map shows exactly what they published, and
\* keeps showing it (findBy / upsert / delete of runImport taken together,
\* from any intermediate state an aborted bootstrap leaves).
Publishes(s) ==
  \A w \in Workers : phase[w] \in {"fetched", "enriching"} => snap[w] = s

Shows(s) ==
  \A z \in Zones :
    IF s[z] = Absent THEN rows[z] = Absent
    ELSE rows[z] # Absent /\ ShowsFacts(rows[z].notice, s[z])

CutShort ==
  \E w \in Workers :
    /\ phase[w] \in {"fetched", "enriching"} /\ phase'[w] = "idle"
    /\ phase[w] = "fetched" =>
         SafeSnapshot(snap[w], Cardinality(Present(Stored)))

MapConverges ==
  \A s \in {p \in Published : SafeSnapshot(p, Cardinality(Zones))} :
    (<>[]Publishes(s) /\ <>[][~CutShort]_vars) => <>[]Shows(s)

----------------------------------------------------------------------------
(* Properties the code's comments state and the code does not have *)

ImportWrites(z) ==
  /\ SameRow(z) /\ rows'[z].notice # rows[z].notice
  /\ phase' # phase \/ pending' # pending

\* "Reuse prior output unless a prompt fact changed, it predates the
\* structured format, its title still carries the raw marker prefix, or an
\* importer failure needs retrying": a published, structured description
\* without review reasons, whose facts the snapshot repeats, is not replaced
\* or sent to review by an import.
PriorOutputReused ==
  [][\A z \in Zones, w \in Workers :
       /\ ImportWrites(z) /\ CommitStep(w) /\ snap[w][z] # Absent
       /\ rows[z].notice.reasons = {}
       /\ HasCurrentDescriptionFormat(rows[z].notice.desc)
       /\ rows[z].notice.desc.of =
            [terms |-> snap[w][z].terms, from |-> snap[w][z].from]
       => /\ rows'[z].notice.desc = rows[z].notice.desc
          /\ ~rows'[z].notice.needsReview]_vars

============================================================================
