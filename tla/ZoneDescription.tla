-------------------------- MODULE ZoneDescription --------------------------
(***************************************************************************)
(* How one zone of the community map becomes a row: the facts it states,   *)
(* whether the stored description may be reused, what a new one is, and    *)
(* which review state the row ends in.  Pure operators: `prior` is the row *)
(* the import read, or Absent.                                             *)
(*                                                                         *)
(* A definition named X_Slip, here and in the other modules, is X with a   *)
(* plausible slip in it; it is used only to see that a property notices.   *)
(***************************************************************************)
EXTENDS NoticeStore

\* A zone as the source publishes it.  `from` is the start of the seasonal
\* window, `notice` the date of the establishing notice, `prose` whether the
\* placemark has a description to extract facts from.
Zone ==
  [terms: Terms, shape: Shapes, from: Dates \cup {NoDate},
   notice: Dates \cup {NoDate}, prose: BOOLEAN]

Snapshot == [Zones -> Zone \cup {Absent}]

ASSUME ZoneAssumption == Absent \notin Zone

\* Outcome of one call to the model that does not abort the import.
Failed == "failed"
Outcomes == Replies \cup {Failed}

----------------------------------------------------------------------------
(* resolveZoneFacts *)

Stated(zone) == IF zone.from # NoDate THEN zone.from ELSE zone.notice

ActiveFrom_NoScrapeTime(prior, zone, importedAt) ==
  IF Stated(zone) # NoDate \/ prior = Absent THEN Stated(zone)
  ELSE prior.activeFrom

ActiveFrom(prior, zone, importedAt) ==
  IF Stated(zone) # NoDate THEN Stated(zone)
  ELSE IF prior # Absent THEN prior.activeFrom
  ELSE importedAt

PublishedAt_EachImport(prior, zone, importedAt) ==
  ActiveFrom(prior, zone, importedAt)

PublishedAt(prior, zone, importedAt) ==
  IF prior # Absent THEN prior.publishedAt
  ELSE ActiveFrom(prior, zone, importedAt)

----------------------------------------------------------------------------
(* Reuse *)

DescriptionFactsChanged_NoTerms(prior, zone) ==
  \/ prior.title # "place"
  \/ zone.from # NoDate /\ prior.activeFrom # zone.from

\* A start date is compared only when the source states one now.
DescriptionFactsChanged(prior, zone) ==
  \/ prior.title # "place"
  \/ prior.terms # zone.terms
  \/ zone.from # NoDate /\ prior.activeFrom # zone.from

HasCurrentDescriptionFormat(desc) == desc # Brief /\ desc.reply \in Structured

Stale(prior, zone) ==
  \/ prior = Absent
  \/ DescriptionFactsChanged(prior, zone)
  \/ ~HasCurrentDescriptionFormat(prior.desc)
  \/ prior.reasons # {}

----------------------------------------------------------------------------
(* describe *)

Fallback(prior, reason) ==
  [title |-> "place",
   desc |-> IF prior = Absent THEN Brief ELSE prior.desc,
   reasons |-> {reason}]

Generated(zone, reply) ==
  [title |-> IF reply \in Plain THEN "place" ELSE "own",
   desc |-> [of |-> [terms |-> zone.terms, from |-> zone.from],
             reply |-> reply],
   reasons |-> {}]

Describe_SwallowFailure(prior, zone, outcome) ==
  IF ~zone.prose THEN Fallback(prior, SourceMissing)
  ELSE IF outcome = Failed
  THEN [Fallback(prior, AiFailed) EXCEPT !.reasons = {}]
  ELSE Generated(zone, outcome)

Describe(prior, zone, outcome) ==
  IF ~zone.prose THEN Fallback(prior, SourceMissing)
  ELSE IF outcome = Failed THEN Fallback(prior, AiFailed)
  ELSE Generated(zone, outcome)

Reuse(prior) ==
  [title |-> prior.title, desc |-> prior.desc, reasons |-> prior.reasons]

----------------------------------------------------------------------------
(* The row of the batch loop *)

RowFor(prior, zone, importedAt, outcome) ==
  LET d == IF Stale(prior, zone) THEN Describe(prior, zone, outcome)
           ELSE Reuse(prior)
  IN  [title |-> d.title, desc |-> d.desc,
       terms |-> zone.terms, shape |-> zone.shape,
       activeFrom |-> ActiveFrom(prior, zone, importedAt),
       publishedAt |-> PublishedAt(prior, zone, importedAt),
       needsReview |-> d.reasons # {}, reasons |-> d.reasons]

\* publishedAt is not compared; it is never anything but the prior one.
Unchanged(prior, next) ==
  /\ prior # Absent
  /\ [prior EXCEPT !.publishedAt = next.publishedAt] = next

\* What one zone contributes to the write set.
Write(prior, zone, importedAt, outcome) ==
  LET next == RowFor(prior, zone, importedAt, outcome)
  IN  IF Unchanged(prior, next) THEN Absent ELSE next

============================================================================
