---------------------------- MODULE BathingImport ----------------------------
(***************************************************************************)
(* The bathing-water classifications: a job parses the weekly report,      *)
(* replaces the persisted table in one transaction, reads it back and      *)
(* pushes it onto the beaches layer of the catalogue.  At boot the         *)
(* persisted table is pushed as well, while the first refresh and the      *)
(* first import may already be running.                                    *)
(***************************************************************************)
EXTENDS DatasetCatalog

CONSTANTS
  MinReport,               \* MIN_SITES of a parsed report
  OverlapNum, OverlapDen   \* MIN_OVERLAP_RATIO

ASSUME ImportAssumption ==
  /\ MinReport \in Nat \ {0}
  /\ OverlapNum \in Nat
  /\ OverlapDen \in Nat \ {0}

VARIABLES
  table,    \* bathing_water_classification, the persisted rows
  reports,  \* history: the reports the table has been replaced by
  job,      \* the import job: [at, rows]
  hook      \* the boot hook:  [at, rows]

bathingVars == <<table, reports, job, hook>>
vars == <<catalogVars, fetched, table, reports, job, hook>>

Listed(rows) == {c \in Codes : rows[c] # Absent}
Idle == [at |-> "idle", rows |-> NoLabels]

BathingTypeOK ==
  /\ table \in Labels
  /\ reports \in SUBSET Labels
  /\ job \in [at: {"idle", "parsed", "committed", "found"}, rows: Labels]
  /\ hook \in [at: {"idle", "found", "done"}, rows: Labels]

TypeOK == CatalogTypeOK /\ BathingTypeOK

Init ==
  /\ CatalogInit
  /\ table = NoLabels
  /\ reports = {}
  /\ job = Idle
  /\ hook = Idle

----------------------------------------------------------------------------

Overlaps(rows, codes) ==
  Cardinality(Listed(rows) \cap codes) * OverlapDen
    >= Cardinality(Listed(rows)) * OverlapNum

\* fetchLatestReport, parseClassificationReport and assertOverlap; a report
\* that is too short or does not overlap ends the attempt.  The overlap is
\* not checked while no site code is known.
ParseReport ==
  /\ up
  /\ job.at = "idle"
  /\ \E rows \in Labels :
       /\ Cardinality(Listed(rows)) >= MinReport
       /\ siteCodes = {} \/ Overlaps(rows, siteCodes)
       /\ job' = [at |-> "parsed", rows |-> rows]
  /\ UNCHANGED <<catalogVars, fetched, table, reports, hook>>

Replaced_KeepDelisted(rows) ==
  [c \in Codes |-> IF rows[c] # Absent THEN rows[c] ELSE table[c]]

\* The report is the full snapshot: what it does not list is deleted.
Replaced(rows) == rows

CommitReport ==
  /\ job.at = "parsed"
  /\ table' = Replaced(job.rows)
  /\ reports' = reports \cup {job.rows}
  /\ job' = [job EXCEPT !.at = "committed", !.rows = NoLabels]
  /\ UNCHANGED <<catalogVars, fetched, hook>>

\* applyPersisted: read, then push.
FindRows ==
  /\ job.at = "committed"
  /\ job' = [at |-> "found", rows |-> table]
  /\ UNCHANGED <<catalogVars, fetched, table, reports, hook>>

PushRows ==
  /\ job.at = "found"
  /\ SetBeachClassifications(job.rows)
  /\ job' = Idle
  /\ UNCHANGED <<table, reports, hook>>

\* A database error; the queue starts the job again later.
FailJob ==
  /\ job.at \in {"parsed", "committed"}
  /\ job' = Idle
  /\ UNCHANGED <<catalogVars, fetched, table, reports, hook>>

\* onApplicationBootstrap; a failed read is logged, and with no rows there
\* is nothing to push.
HookFind ==
  /\ up
  /\ hook.at = "idle"
  /\ \/ hook' = [Idle EXCEPT !.at = "done"]
     \/ Listed(table) # {} /\ hook' = [at |-> "found", rows |-> table]
  /\ UNCHANGED <<catalogVars, fetched, table, reports, job>>

HookPush ==
  /\ hook.at = "found"
  /\ SetBeachClassifications(hook.rows)
  /\ hook' = [Idle EXCEPT !.at = "done"]
  /\ UNCHANGED <<table, reports, job>>

\* Only the table survives.
Restart ==
  /\ Crash
  /\ job' = Idle
  /\ hook' = Idle
  /\ UNCHANGED <<table, reports>>

JobStep == ParseReport \/ CommitReport \/ FindRows \/ PushRows
HookStep == HookFind \/ HookPush

Next ==
  \/ CatalogNext /\ UNCHANGED bathingVars
  \/ JobStep \/ FailJob \/ HookStep \/ Restart

Spec == Init /\ [][Next]_vars

\* Requests complete, the cron and the queue keep firing, the process is
\* restarted when it dies (unless-stopped).
Fairness ==
  /\ WF_vars(Boot /\ UNCHANGED bathingVars)
  /\ \A r \in Refreshers :
       WF_vars((FetchDataset(r) \/ RefreshEntry(r)) /\ UNCHANGED bathingVars)
  /\ WF_vars(JobStep)
  /\ WF_vars(HookStep)

FairSpec == Spec /\ Fairness

----------------------------------------------------------------------------
(* Properties *)

\* What users see is never a mix of two reports: the classifications on the
\* layer are those of one whole report the table was replaced by, whatever
\* refreshes, imports, restarts and boot hooks came in between ("the full
\* authoritative snapshot", runImport; the merge in normalize).
ServedLabelsAreOneReport ==
  entries[Beaches] # Absent =>
    \E r \in reports \cup {NoLabels} :
      entries[Beaches].labels = [c \in Codes |->
        IF c \in entries[Beaches].sites THEN r[c] ELSE Absent]

Full == [form |-> "features", sites |-> Sites]

Quiet(rows) ==
  /\ up
  /\ \A r \in Refreshers : fetched[r] \in {Absent, Full}
  /\ job.at = "parsed" => job.rows = rows

JobFails == job.at \in {"parsed", "committed"} /\ job'.at = "idle"

\* Whatever was fetched, refused or half done before: once the process stays
\* up, upstream publishes the full layer and one report covering it, and jobs
\* stop failing, the beaches layer ends up with every site under the
\* classification of that report, and stays so.
LayerConverges ==
  \A rows \in {l \in Labels : Sites \subseteq Listed(l) /\ Overlaps(l, Sites)} :
    (<>[]Quiet(rows) /\ <>[][~JobFails]_vars) =>
      <>[](entries[Beaches] = Built(Beaches, Full, rows))

=============================================================================
