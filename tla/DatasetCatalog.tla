--------------------------- MODULE DatasetCatalog ---------------------------
(***************************************************************************)
(* The in-memory catalogue of GeoJSON layers of one process: loaded from   *)
(* seed files at boot, one layer (the beaches) refreshed from upstream     *)
(* every day and at boot, and rebuilt whenever bathing-water               *)
(* classifications are pushed onto it.  Nothing of it survives a restart.  *)
(*                                                                         *)
(* A payload is abstracted to what the rails tell apart: not JSON at all,  *)
(* JSON that is no feature collection (what an upstream error page looks   *)
(* like), or a collection with a set of plottable sites.                   *)
(***************************************************************************)
EXTENDS Naturals, FiniteSets

CONSTANTS
  Datasets, Beaches,  \* the configured layers and the refreshed one
  Sites,              \* bathing sites the upstream may list
  Codes,              \* site codes a classification report may list
  Classes,            \* water-quality classes
  Absent,
  Refreshers,         \* refreshes that may overlap (boot and cron)
  MinCount,           \* minRefreshFeatureCount
  KeepNum, KeepDen    \* minRefreshRetentionRatio

Payload ==
  [form: {"garbled", "foreign"}, sites: {{}}]
    \cup [form: {"features"}, sites: SUBSET Sites]
Labels == [Codes -> Classes \cup {Absent}]
Entry == [sites: (SUBSET Sites) \ {{}}, labels: Labels]

ASSUME CatalogAssumption ==
  /\ Beaches \in Datasets
  /\ Sites \subseteq Codes
  /\ IsFiniteSet(Sites)
  /\ MinCount \in Nat \ {0}
  /\ KeepNum \in Nat \ {0}
  /\ KeepDen \in Nat \ {0}
  /\ Absent \notin Classes \cup Entry \cup Payload

VARIABLES
  up,               \* the process runs
  entries,          \* the served layers
  loadFailures,     \* the layers that are configured but not served
  beachesRaw,       \* the payload a classification push rebuilds from
  siteCodes,        \* beachSiteCodesSet
  classifications,  \* beachClassifications
  fetched           \* per refresher, the payload it has fetched

catalogVars ==
  <<up, entries, loadFailures, beachesRaw, siteCodes, classifications>>

NoLabels == [c \in Codes |-> Absent]

CatalogTypeOK ==
  /\ up \in BOOLEAN
  /\ entries \in [Datasets -> Entry \cup {Absent}]
  /\ loadFailures \in SUBSET Datasets
  /\ beachesRaw \in Payload \cup {Absent}
  /\ siteCodes \in SUBSET Sites
  /\ classifications \in Labels
  /\ fetched \in [Refreshers -> Payload \cup {Absent}]

NoEntries == [d \in Datasets |-> Absent]
NothingFetched == [r \in Refreshers |-> Absent]

CatalogInit ==
  /\ up = FALSE
  /\ entries = NoEntries
  /\ loadFailures = {}
  /\ beachesRaw = Absent
  /\ siteCodes = {}
  /\ classifications = NoLabels
  /\ fetched = NothingFetched

----------------------------------------------------------------------------
(* buildEntry and normalize *)

Builds_Empty(p) == p.form = "features"

Builds(p) == p.form = "features" /\ p.sites # {}

\* Sites carry the classification known for their code.
Built(d, p, known) ==
  [sites |-> p.sites,
   labels |-> [c \in Codes |->
                 IF d = Beaches /\ c \in p.sites THEN known[c] ELSE Absent]]

\* What a build leaves behind whether or not it succeeds: the raw payload as
\* soon as it parses as JSON, the site codes as soon as the features are read.
RawAfter(p) == IF p.form = "garbled" THEN beachesRaw ELSE p
CodesAfter(p) == IF p.form = "features" THEN p.sites ELSE siteCodes

\* The rails of refreshEntry, against the layer being served.
Enough(p) ==
  LET count == Cardinality(p.sites)
      previous == IF entries[Beaches] = Absent THEN 0
                  ELSE Cardinality(entries[Beaches].sites)
  IN  count >= MinCount /\ count * KeepDen >= previous * KeepNum

Serve_KeepFailure(d, entry) ==
  /\ entries' = [entries EXCEPT ![d] = entry]
  /\ UNCHANGED loadFailures

Serve(d, entry) ==
  /\ entries' = [entries EXCEPT ![d] = entry]
  /\ loadFailures' = loadFailures \ {d}

----------------------------------------------------------------------------

\* onModuleInit: every seed file is loaded before any other hook runs.
Boot ==
  /\ ~up
  /\ up' = TRUE
  /\ \E seed \in [Datasets -> Payload] :
       /\ entries' = [d \in Datasets |->
                        IF Builds(seed[d]) THEN Built(d, seed[d], NoLabels)
                        ELSE Absent]
       /\ loadFailures' = {d \in Datasets : ~Builds(seed[d])}
       /\ beachesRaw' = RawAfter(seed[Beaches])
       /\ siteCodes' = CodesAfter(seed[Beaches])
  /\ UNCHANGED <<classifications, fetched>>

\* The process dies; the catalogue and what was in flight are gone.
Crash ==
  /\ up
  /\ up' = FALSE
  /\ entries' = NoEntries
  /\ loadFailures' = {}
  /\ beachesRaw' = Absent
  /\ siteCodes' = {}
  /\ classifications' = NoLabels
  /\ fetched' = NothingFetched

\* refreshOne, up to the awaited response; the overlapping run of another
\* hook may fetch and apply in between.
FetchDataset(r) ==
  /\ up
  /\ fetched[r] = Absent
  /\ \E p \in Payload : fetched' = [fetched EXCEPT ![r] = p]
  /\ UNCHANGED catalogVars

RefreshEntry_Unmerged(r) ==
  /\ fetched[r] # Absent
  /\ LET p == fetched[r]
     IN  /\ beachesRaw' = RawAfter(p)
         /\ siteCodes' = CodesAfter(p)
         /\ IF Builds(p) /\ Enough(p)
            THEN Serve(Beaches, Built(Beaches, p, NoLabels))
            ELSE UNCHANGED <<entries, loadFailures>>
  /\ fetched' = [fetched EXCEPT ![r] = Absent]
  /\ UNCHANGED <<up, classifications>>

\* refreshEntry, synchronous once the response is there.
RefreshEntry(r) ==
  /\ fetched[r] # Absent
  /\ LET p == fetched[r]
     IN  /\ beachesRaw' = RawAfter(p)
         /\ siteCodes' = CodesAfter(p)
         /\ IF Builds(p) /\ Enough(p)
            THEN Serve(Beaches, Built(Beaches, p, classifications))
            ELSE UNCHANGED <<entries, loadFailures>>
  /\ fetched' = [fetched EXCEPT ![r] = Absent]
  /\ UNCHANGED <<up, classifications>>

SetBeachClassifications_Clear(known) ==
  /\ classifications' = known
  /\ siteCodes' = IF beachesRaw = Absent THEN siteCodes ELSE CodesAfter(beachesRaw)
  /\ entries' = [entries EXCEPT ![Beaches] =
       IF beachesRaw # Absent /\ Builds(beachesRaw)
       THEN Built(Beaches, beachesRaw, known) ELSE Absent]
  /\ UNCHANGED <<loadFailures, beachesRaw, up, fetched>>

\* Rebuilds from the retained payload; a build error keeps the old entry.
SetBeachClassifications(known) ==
  /\ classifications' = known
  /\ IF beachesRaw = Absent
     THEN UNCHANGED <<entries, loadFailures, siteCodes>>
     ELSE /\ siteCodes' = CodesAfter(beachesRaw)
          /\ IF Builds(beachesRaw)
             THEN Serve(Beaches, Built(Beaches, beachesRaw, known))
             ELSE UNCHANGED <<entries, loadFailures>>
  /\ UNCHANGED <<beachesRaw, up, fetched>>

CatalogNext ==
  \/ Boot
  \/ \E r \in Refreshers : FetchDataset(r) \/ RefreshEntry(r)

----------------------------------------------------------------------------
(* Properties *)

\* While the process runs, a configured layer is either served or listed as
\* unavailable, never both and never neither (status, requireEntry).
ServedOrUnavailable ==
  up => loadFailures = {d \in Datasets : entries[d] = Absent}

\* A layer that is served stays served until the process ends, whatever the
\* refreshes fetch and whenever classifications are pushed (refreshEntry,
\* setBeachClassifications: "never blanks the layer").
LayersNeverBlanked ==
  [][\A d \in Datasets :
       (up /\ up' /\ entries[d] # Absent) =>
         entries'[d] # Absent /\ (d = Beaches => entries'[d].sites # {})
    ]_<<up, entries>>

\* "Both [rails] are checked against the normalized candidate before it
\* replaces the last-known-good in-memory entry": the set of sites served is
\* only ever replaced by one that passes the rails against it.
ReplacementsPassTheRails ==
  [][(up /\ up' /\ entries[Beaches] # Absent /\
        entries'[Beaches].sites # entries[Beaches].sites) =>
       Enough([form |-> "features", sites |-> entries'[Beaches].sites])
    ]_<<up, entries>>

=============================================================================
