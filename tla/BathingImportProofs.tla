------------------------ MODULE BathingImportProofs ------------------------
(***************************************************************************)
(* Theorems about BathingImport: the catalogue and its classifications.    *)
(***************************************************************************)
EXTENDS BathingImport, TLAPS

----------------------------------------------------------------------------
(* Types *)

LEMMA BuiltType ==
  ASSUME NEW d \in Datasets, NEW p \in Payload, NEW known \in Labels, Builds(p)
  PROVE  Built(d, p, known) \in Entry /\ Built(d, p, known) # Absent
<1>1. p.sites \in (SUBSET Sites) \ {{}}
  BY DEF Builds, Payload
<1>2. [c \in Codes |->
         IF d = Beaches /\ c \in p.sites THEN known[c] ELSE Absent] \in Labels
  BY DEF Labels
<1>3. Built(d, p, known) \in Entry
  BY <1>1, <1>2 DEF Built, Entry
<1>. QED BY <1>3, CatalogAssumption

LEMMA AfterTypes ==
  ASSUME NEW p \in Payload, CatalogTypeOK
  PROVE  /\ RawAfter(p) \in Payload \cup {Absent}
         /\ CodesAfter(p) \in SUBSET Sites
BY DEF RawAfter, CodesAfter, CatalogTypeOK, Payload

LEMMA NoLabelsType == NoLabels \in Labels
BY DEF NoLabels, Labels

LEMMA PushTypes ==
  ASSUME CatalogTypeOK, NEW known \in Labels, SetBeachClassifications(known)
  PROVE  CatalogTypeOK'
<1>. USE DEF CatalogTypeOK
<1>0. Beaches \in Datasets
  BY CatalogAssumption
<1>1. CASE beachesRaw = Absent
  BY <1>1 DEF SetBeachClassifications
<1>2. CASE beachesRaw # Absent
  <2>1. beachesRaw \in Payload
    BY <1>2
  <2>2. siteCodes' \in SUBSET Sites
    BY <1>2, <2>1, AfterTypes DEF SetBeachClassifications
  <2>3. CASE Builds(beachesRaw)
    <3>1. Built(Beaches, beachesRaw, known) \in Entry
      BY <1>0, <2>1, <2>3, BuiltType
    <3>. QED BY <1>2, <2>2, <2>3, <3>1 DEF SetBeachClassifications, Serve
  <2>4. CASE ~Builds(beachesRaw)
    BY <1>2, <2>2, <2>4 DEF SetBeachClassifications
  <2>. QED BY <2>3, <2>4
<1>. QED BY <1>1, <1>2

LEMMA CatalogTyped ==
  ASSUME CatalogTypeOK, CatalogNext \/ Crash
  PROVE  CatalogTypeOK'
<1>. USE DEF CatalogTypeOK
<1>0. Beaches \in Datasets
  BY CatalogAssumption
<1>1. CASE Boot
  <2>1. PICK seed \in [Datasets -> Payload] :
          /\ entries' = [d \in Datasets |->
                           IF Builds(seed[d]) THEN Built(d, seed[d], NoLabels)
                           ELSE Absent]
          /\ loadFailures' = {d \in Datasets : ~Builds(seed[d])}
          /\ beachesRaw' = RawAfter(seed[Beaches])
          /\ siteCodes' = CodesAfter(seed[Beaches])
    BY <1>1 DEF Boot
  <2>2. \A d \in Datasets : Builds(seed[d]) => Built(d, seed[d], NoLabels) \in Entry
    BY <2>1, BuiltType, NoLabelsType
  <2>3. entries' \in [Datasets -> Entry \cup {Absent}]
    BY <2>1, <2>2
  <2>4. beachesRaw' \in Payload \cup {Absent} /\ siteCodes' \in SUBSET Sites
    BY <1>0, <2>1, AfterTypes
  <2>. QED BY <1>1, <2>1, <2>3, <2>4 DEF Boot
<1>2. ASSUME NEW r \in Refreshers, FetchDataset(r) PROVE CatalogTypeOK'
  BY <1>2 DEF FetchDataset, catalogVars
<1>3. ASSUME NEW r \in Refreshers, RefreshEntry(r) PROVE CatalogTypeOK'
  <2>1. fetched[r] \in Payload
    BY <1>3 DEF RefreshEntry
  <2>2. beachesRaw' \in Payload \cup {Absent} /\ siteCodes' \in SUBSET Sites
    BY <1>3, <2>1, AfterTypes DEF RefreshEntry
  <2>3. CASE Builds(fetched[r]) /\ Enough(fetched[r])
    <3>1. Built(Beaches, fetched[r], classifications) \in Entry
      BY <1>0, <2>1, <2>3, BuiltType
    <3>. QED BY <1>3, <2>2, <2>3, <3>1 DEF RefreshEntry, Serve
  <2>4. CASE ~(Builds(fetched[r]) /\ Enough(fetched[r]))
    BY <1>3, <2>2, <2>4 DEF RefreshEntry
  <2>. QED BY <2>3, <2>4
<1>4. CASE Crash
  BY <1>4, NoLabelsType DEF Crash, NoEntries, NothingFetched
<1>. QED BY <1>1, <1>2, <1>3, <1>4 DEF CatalogNext

LEMMA TypedStep ==
  ASSUME TypeOK, [Next]_vars
  PROVE  TypeOK'
<1>. USE NoLabelsType DEF TypeOK, BathingTypeOK
<1>i. Idle.at = "idle" /\ Idle.rows = NoLabels
        /\ Idle \in [at: {"idle", "parsed", "committed", "found"}, rows: Labels]
        /\ Idle \in [at: {"idle", "found", "done"}, rows: Labels]
        /\ [Idle EXCEPT !.at = "done"] \in [at: {"idle", "found", "done"}, rows: Labels]
  BY DEF Idle
<1>1. CASE CatalogNext /\ UNCHANGED bathingVars
  BY <1>1, CatalogTyped DEF bathingVars
<1>2. CASE Restart
  BY <1>2, <1>i, CatalogTyped DEF Restart
<1>3. CASE ParseReport
  BY <1>3 DEF ParseReport, catalogVars, CatalogTypeOK
<1>4. CASE CommitReport
  <2>1. job' \in [at: {"idle", "parsed", "committed", "found"}, rows: Labels]
    BY <1>4 DEF CommitReport
  <2>2. table' \in Labels /\ reports' \in SUBSET Labels
    BY <1>4 DEF CommitReport, Replaced
  <2>. QED BY <1>4, <2>1, <2>2 DEF CommitReport, catalogVars, CatalogTypeOK
<1>5. CASE FindRows
  BY <1>5 DEF FindRows, catalogVars, CatalogTypeOK
<1>6. CASE PushRows
  BY <1>6, <1>i, PushTypes DEF PushRows
<1>7. CASE FailJob
  BY <1>7, <1>i DEF FailJob, catalogVars, CatalogTypeOK
<1>8. CASE HookFind
  BY <1>8, <1>i DEF HookFind, catalogVars, CatalogTypeOK
<1>9. CASE HookPush
  BY <1>9, <1>i, PushTypes DEF HookPush
<1>10. CASE UNCHANGED vars
  BY <1>10 DEF vars, catalogVars, bathingVars, CatalogTypeOK
<1>. QED
  BY <1>1, <1>2, <1>3, <1>4, <1>5, <1>6, <1>7, <1>8, <1>9, <1>10
     DEF Next, JobStep, HookStep

LEMMA TypedInit == Init => TypeOK
<1>. SUFFICES ASSUME Init PROVE TypeOK
  OBVIOUS
<1>1. CatalogTypeOK
  BY NoLabelsType
     DEF Init, CatalogInit, CatalogTypeOK, NoEntries, NothingFetched
<1>2. Idle \in [at: {"idle", "parsed", "committed", "found"}, rows: Labels]
        /\ Idle \in [at: {"idle", "found", "done"}, rows: Labels]
  BY NoLabelsType DEF Idle
<1>3. table \in Labels /\ reports \in SUBSET Labels /\ job = Idle /\ hook = Idle
  BY NoLabelsType DEF Init
<1>. QED BY <1>1, <1>2, <1>3 DEF TypeOK, BathingTypeOK

\* Every reachable state of the catalogue, the classification job and the boot
\* hook is well typed; in particular no layer without features is ever served
\* (normalize).
THEOREM BathingTypes == Spec => []TypeOK
BY TypedInit, TypedStep, PTL DEF Spec

----------------------------------------------------------------------------
(* Served or unavailable *)

LEMMA ServeKeeps ==
  ASSUME ServedOrUnavailable, CatalogTypeOK, UNCHANGED up,
         NEW d \in Datasets, NEW entry \in Entry, Serve(d, entry)
  PROVE  ServedOrUnavailable'
BY CatalogAssumption DEF ServedOrUnavailable, CatalogTypeOK, Serve

LEMMA PushKeeps ==
  ASSUME ServedOrUnavailable, CatalogTypeOK, NEW known \in Labels,
         SetBeachClassifications(known)
  PROVE  ServedOrUnavailable'
<1>1. CASE beachesRaw # Absent /\ Builds(beachesRaw)
  <2>1. Built(Beaches, beachesRaw, known) \in Entry
    BY <1>1, BuiltType, CatalogAssumption DEF CatalogTypeOK
  <2>. QED BY <1>1, <2>1, ServeKeeps, CatalogAssumption DEF SetBeachClassifications
<1>2. CASE ~(beachesRaw # Absent /\ Builds(beachesRaw))
  BY <1>2 DEF SetBeachClassifications, ServedOrUnavailable
<1>. QED BY <1>1, <1>2

LEMMA ServedStep ==
  ASSUME TypeOK, ServedOrUnavailable, [Next]_vars
  PROVE  ServedOrUnavailable'
<1>. USE DEF TypeOK, BathingTypeOK
<1>1. CASE Boot
  <2>1. PICK seed \in [Datasets -> Payload] :
          /\ entries' = [d \in Datasets |->
                           IF Builds(seed[d]) THEN Built(d, seed[d], NoLabels)
                           ELSE Absent]
          /\ loadFailures' = {d \in Datasets : ~Builds(seed[d])}
    BY <1>1 DEF Boot
  <2>2. \A d \in Datasets : Builds(seed[d]) => Built(d, seed[d], NoLabels) # Absent
    BY <2>1, BuiltType, NoLabelsType
  <2>. QED BY <2>1, <2>2 DEF ServedOrUnavailable
<1>2. ASSUME NEW r \in Refreshers, FetchDataset(r) PROVE ServedOrUnavailable'
  BY <1>2 DEF FetchDataset, catalogVars, ServedOrUnavailable
<1>3. ASSUME NEW r \in Refreshers, RefreshEntry(r) PROVE ServedOrUnavailable'
  <2>1. CASE Builds(fetched[r]) /\ Enough(fetched[r])
    <3>1. Built(Beaches, fetched[r], classifications) \in Entry
      BY <1>3, <2>1, BuiltType, CatalogAssumption DEF RefreshEntry, CatalogTypeOK
    <3>. QED BY <1>3, <2>1, <3>1, ServeKeeps, CatalogAssumption DEF RefreshEntry
  <2>2. CASE ~(Builds(fetched[r]) /\ Enough(fetched[r]))
    BY <1>3, <2>2 DEF RefreshEntry, ServedOrUnavailable
  <2>. QED BY <2>1, <2>2
<1>4. CASE Restart
  BY <1>4 DEF Restart, Crash, ServedOrUnavailable
<1>5. CASE PushRows
  BY <1>5, PushKeeps DEF PushRows
<1>6. CASE HookPush
  BY <1>6, PushKeeps DEF HookPush
<1>7. CASE ParseReport \/ CommitReport \/ FindRows \/ FailJob \/ HookFind
  BY <1>7 DEF ParseReport, CommitReport, FindRows, FailJob, HookFind,
     catalogVars, ServedOrUnavailable
<1>8. CASE UNCHANGED vars
  BY <1>8 DEF vars, catalogVars, ServedOrUnavailable
<1>. QED
  BY <1>1, <1>2, <1>3, <1>4, <1>5, <1>6, <1>7, <1>8
     DEF Next, CatalogNext, JobStep, HookStep

\* While the process runs every configured layer is either served or reported
\* unavailable, whatever refreshes and classification pushes fail (refreshEntry,
\* setBeachClassifications, status).
THEOREM AlwaysServedOrUnavailable == Spec => []ServedOrUnavailable
<1>1. Init => ServedOrUnavailable
  BY DEF Init, CatalogInit, ServedOrUnavailable
<1>. QED BY <1>1, TypedInit, TypedStep, ServedStep, PTL DEF Spec

----------------------------------------------------------------------------
(* One whole report *)

Whole == reports \cup {NoLabels}

\* Everything that may yet be pushed onto the layer is one whole report.
CarriesWholeReports ==
  /\ classifications \in Whole
  /\ table \in Whole
  /\ job.at = "found" => job.rows \in Whole
  /\ hook.at = "found" => hook.rows \in Whole

OneReport(entry) ==
  \E r \in Whole :
    entry.labels = [c \in Codes |-> IF c \in entry.sites THEN r[c] ELSE Absent]

IInv == CarriesWholeReports /\ ServedLabelsAreOneReport

LEMMA BuiltWhole ==
  ASSUME NEW p \in Payload, NEW known \in Whole
  PROVE  OneReport(Built(Beaches, p, known))
BY DEF OneReport, Built

LEMMA PushWhole ==
  ASSUME CatalogTypeOK, ServedLabelsAreOneReport, UNCHANGED reports,
         NEW known \in Whole, SetBeachClassifications(known)
  PROVE  ServedLabelsAreOneReport' /\ classifications' = known
<1>1. CASE beachesRaw # Absent /\ Builds(beachesRaw)
  <2>1. entries'[Beaches] = Built(Beaches, beachesRaw, known)
    BY <1>1, CatalogAssumption DEF SetBeachClassifications, Serve, CatalogTypeOK
  <2>2. OneReport(Built(Beaches, beachesRaw, known))
    BY <1>1, BuiltWhole DEF CatalogTypeOK
  <2>. QED
    BY <2>1, <2>2
       DEF OneReport, Whole, ServedLabelsAreOneReport, SetBeachClassifications
<1>2. CASE ~(beachesRaw # Absent /\ Builds(beachesRaw))
  BY <1>2 DEF SetBeachClassifications, ServedLabelsAreOneReport
<1>. QED BY <1>1, <1>2

LEMMA WholeStep ==
  ASSUME TypeOK, IInv, [Next]_vars
  PROVE  IInv'
<1>. USE DEF TypeOK, BathingTypeOK, IInv
<1>1. CASE Boot /\ UNCHANGED bathingVars
  <2>1. PICK seed \in [Datasets -> Payload] :
          entries' = [d \in Datasets |->
                        IF Builds(seed[d]) THEN Built(d, seed[d], NoLabels)
                        ELSE Absent]
    BY <1>1 DEF Boot
  <2>2. entries'[Beaches] # Absent =>
          entries'[Beaches].labels = [c \in Codes |->
            IF c \in entries'[Beaches].sites THEN NoLabels[c] ELSE Absent]
    BY <2>1, CatalogAssumption DEF Built
  <2>3. ServedLabelsAreOneReport'
    BY <2>2 DEF ServedLabelsAreOneReport
  <2>. QED
    BY <1>1, <2>3 DEF CarriesWholeReports, Whole, Boot, bathingVars
<1>2. ASSUME NEW r \in Refreshers, FetchDataset(r), UNCHANGED bathingVars
      PROVE  IInv'
  BY <1>2 DEF FetchDataset, catalogVars, bathingVars, CarriesWholeReports,
     Whole, ServedLabelsAreOneReport
<1>3. ASSUME NEW r \in Refreshers, RefreshEntry(r), UNCHANGED bathingVars
      PROVE  IInv'
  <2>1. CarriesWholeReports'
    BY <1>3 DEF RefreshEntry, bathingVars, CarriesWholeReports, Whole
  <2>2. CASE Builds(fetched[r]) /\ Enough(fetched[r])
    <3>1. entries'[Beaches] = Built(Beaches, fetched[r], classifications)
      BY <1>3, <2>2, CatalogAssumption DEF RefreshEntry, Serve, CatalogTypeOK
    <3>2. OneReport(Built(Beaches, fetched[r], classifications))
      BY <1>3, BuiltWhole DEF RefreshEntry, CatalogTypeOK, CarriesWholeReports
    <3>. QED
      BY <1>3, <2>1, <3>1, <3>2
         DEF OneReport, Whole, ServedLabelsAreOneReport, bathingVars
  <2>3. CASE ~(Builds(fetched[r]) /\ Enough(fetched[r]))
    BY <1>3, <2>1, <2>3
       DEF RefreshEntry, bathingVars, ServedLabelsAreOneReport
  <2>. QED BY <2>2, <2>3
<1>4. CASE Restart
  BY <1>4, CatalogAssumption
     DEF Restart, Crash, NoEntries, Idle, CarriesWholeReports, Whole,
         ServedLabelsAreOneReport
<1>5. CASE CommitReport
  <2>1. job.rows \in Labels /\ job'.at = "committed"
    BY <1>5 DEF CommitReport
  <2>2. CarriesWholeReports'
    BY <1>5, <2>1
       DEF CommitReport, Replaced, catalogVars, CarriesWholeReports, Whole
  <2>3. reports \subseteq reports' /\ UNCHANGED entries
    BY <1>5 DEF CommitReport, catalogVars
  <2>. QED BY <2>2, <2>3 DEF ServedLabelsAreOneReport
<1>6. CASE ParseReport \/ FindRows \/ FailJob \/ HookFind
  <2>1. UNCHANGED <<entries, reports, classifications, table>>
    BY <1>6 DEF ParseReport, FindRows, FailJob, HookFind, catalogVars
  <2>2. job'.at = "found" => job'.rows \in Whole
    BY <1>6 DEF ParseReport, FindRows, FailJob, HookFind, Idle, CarriesWholeReports
  <2>3. hook'.at = "found" => hook'.rows \in Whole
    BY <1>6 DEF ParseReport, FindRows, FailJob, HookFind, Idle, CarriesWholeReports
  <2>. QED
    BY <2>1, <2>2, <2>3 DEF ServedLabelsAreOneReport, CarriesWholeReports, Whole
<1>7. CASE PushRows
  BY <1>7, PushWhole DEF PushRows, Idle, CarriesWholeReports, Whole
<1>8. CASE HookPush
  BY <1>8, PushWhole DEF HookPush, Idle, CarriesWholeReports, Whole
<1>9. CASE UNCHANGED vars
  BY <1>9 DEF vars, catalogVars, CarriesWholeReports, Whole,
     ServedLabelsAreOneReport
<1>. QED
  BY <1>1, <1>2, <1>3, <1>4, <1>5, <1>6, <1>7, <1>8, <1>9
     DEF Next, CatalogNext, JobStep, HookStep

\* The classifications served are those of one whole report, never a mix of
\* two, for every number of sites, classes and overlapping refreshes (runImport,
\* applyPersisted, normalize): whatever may yet be pushed is one whole report.
THEOREM LabelsAreOneReport == Spec => []ServedLabelsAreOneReport
<1>1. Init => IInv
  BY CatalogAssumption
     DEF Init, CatalogInit, NoEntries, Idle, IInv, CarriesWholeReports, Whole,
         ServedLabelsAreOneReport
<1>2. IInv => ServedLabelsAreOneReport
  BY DEF IInv
<1>. QED BY <1>1, <1>2, TypedInit, TypedStep, WholeStep, PTL DEF Spec

----------------------------------------------------------------------------
(* No layer is blanked *)

KeepsLayers ==
  \A d \in Datasets :
    (up /\ up' /\ entries[d] # Absent) =>
      entries'[d] # Absent /\ (d = Beaches => entries'[d].sites # {})

LEMMA LayersKept ==
  ASSUME TypeOK, TypeOK', [Next]_vars
  PROVE  [KeepsLayers]_<<up, entries>>
<1>. SUFFICES ASSUME NEW d \in Datasets, up, up', entries[d] # Absent
              PROVE  entries'[d] # Absent /\ entries'[d].sites # {}
  BY DEF KeepsLayers
<1>1. entries'[d] # Absent
  <2>1. CASE UNCHANGED entries
    BY <2>1
  <2>2. ASSUME NEW e \in Entry, Serve(Beaches, e) PROVE entries'[d] # Absent
    BY <2>2, CatalogAssumption DEF Serve, TypeOK, CatalogTypeOK
  <2>3. ASSUME NEW known \in Labels, SetBeachClassifications(known)
        PROVE  entries'[d] # Absent
    <3>1. CASE beachesRaw # Absent /\ Builds(beachesRaw)
      BY <2>2, <2>3, <3>1, BuiltType, CatalogAssumption
         DEF SetBeachClassifications, TypeOK, CatalogTypeOK
    <3>2. CASE ~(beachesRaw # Absent /\ Builds(beachesRaw))
      BY <2>1, <2>3, <3>2 DEF SetBeachClassifications
    <3>. QED BY <3>1, <3>2
  <2>4. ASSUME NEW r \in Refreshers, RefreshEntry(r) PROVE entries'[d] # Absent
    <3>1. CASE Builds(fetched[r]) /\ Enough(fetched[r])
      <4>1. Built(Beaches, fetched[r], classifications) \in Entry
        BY <2>4, <3>1, BuiltType, CatalogAssumption
           DEF RefreshEntry, TypeOK, CatalogTypeOK
      <4>. QED BY <2>2, <2>4, <3>1, <4>1 DEF RefreshEntry
    <3>2. CASE ~(Builds(fetched[r]) /\ Enough(fetched[r]))
      BY <2>1, <2>4, <3>2 DEF RefreshEntry
    <3>. QED BY <3>1, <3>2
  <2>5. CASE Boot \/ Restart
    BY <2>5 DEF Boot, Restart, Crash
  <2>6. CASE PushRows \/ HookPush
    BY <2>3, <2>6 DEF PushRows, HookPush, TypeOK, BathingTypeOK
  <2>7. CASE ParseReport \/ CommitReport \/ FindRows \/ FailJob \/ HookFind
               \/ UNCHANGED vars \/ \E r \in Refreshers : FetchDataset(r)
    BY <2>1, <2>7 DEF ParseReport, CommitReport, FindRows, FailJob, HookFind,
       FetchDataset, vars, catalogVars
  <2>. QED
    BY <2>4, <2>5, <2>6, <2>7 DEF Next, CatalogNext, JobStep, HookStep
<1>2. entries'[d].sites # {}
  BY <1>1 DEF TypeOK, CatalogTypeOK, Entry
<1>. QED BY <1>1, <1>2

\* A served layer stays served, with features on it, until the process ends
\* (refreshEntry, setBeachClassifications).
THEOREM NeverBlanked == Spec => LayersNeverBlanked
<1>1. TypeOK /\ TypeOK' /\ [Next]_vars => [KeepsLayers]_<<up, entries>>
  BY LayersKept
<1>. QED
  BY <1>1, TypedInit, TypedStep, PTL
     DEF Spec, LayersNeverBlanked, KeepsLayers

=============================================================================
