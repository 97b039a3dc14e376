----------------------- MODULE CommunityImportProofs -----------------------
(***************************************************************************)
(* For every set of zones, administrators and overlapping workers: the     *)
(* types of CommunityImport, the honesty of what is public, and the        *)
(* survival of public reports through every rewrite.                       *)
(***************************************************************************)
EXTENDS CommunityImport, TLAPS

----------------------------------------------------------------------------
(* Lemmas about the operators *)

\* An id that no page holds exists, and is one of the ids.
LEMMA FreshIncType ==
  ASSUME NEW k \in Keys, page \in [Admins -> Id \cup {Absent}]
  PROVE  FreshInc(k) \in Incs
<1>1. PICK other \in Incs : TRUE
  BY FreshIdAssumption
<1> DEFINE held == [a \in Admins |->
                      IF page[a] = Absent THEN other ELSE page[a].inc]
<1>2. held \in [Admins -> Incs]
  BY <1>1, StoreAssumption DEF Id
<1>3. PICK i \in Incs : \A a \in Admins : held[a] # i
  BY <1>2, FreshIdAssumption
<1>4. \A a \in Admins : page[a] # [key |-> k, inc |-> i]
  <2> SUFFICES ASSUME NEW a \in Admins, page[a] = [key |-> k, inc |-> i]
               PROVE  FALSE
    OBVIOUS
  <2>1. page[a] \in Id
    BY DEF Id
  <2>2. page[a] # Absent
    BY <2>1, StoreAssumption
  <2>3. held[a] = i
    BY <2>2
  <2> QED
    BY <2>3, <1>3
<1> QED
  BY <1>4 DEF FreshInc

\* A new row of a well-formed notice is well formed.
LEMMA NewRowType ==
  ASSUME NEW k \in Keys, NEW n \in Notice,
         page \in [Admins -> Id \cup {Absent}]
  PROVE  NewRow(k, n) \in Row
  BY FreshIncType, StoreAssumption DEF NewRow, Row

\* The upsert of well-formed notices leaves a well-formed table.
LEMMA UpsertType ==
  ASSUME StoreTypeOK, NEW new \in [Zones -> Notice \cup {Absent}]
  PROVE  Upsert(rows, new) \in [Keys -> Row \cup {Absent}]
<1> SUFFICES ASSUME NEW k \in Keys
             PROVE  Upsert(rows, new)[k] \in Row \cup {Absent}
  BY DEF Upsert
<1>1. CASE k \notin Zones \/ new[k] = Absent
  BY <1>1 DEF Upsert, StoreTypeOK
<1>2. CASE k \in Zones /\ new[k] # Absent /\ rows[k] = Absent
  BY <1>2, NewRowType DEF Upsert, StoreTypeOK
<1>3. CASE k \in Zones /\ new[k] # Absent /\ rows[k] # Absent
  <2>1. rows[k] \in Row /\ new[k] \in Notice
    BY <1>3 DEF StoreTypeOK
  <2>2. [rows[k] EXCEPT !.notice = new[k]] \in Row
    BY <2>1 DEF Row
  <2> QED
    BY <1>3, <2>2 DEF Upsert
<1> QED
  BY <1>1, <1>2, <1>3

\* What the batch loop builds for a zone is a well-formed notice.
LEMMA RowForType ==
  ASSUME NEW prior \in Notice \cup {Absent}, NEW zone \in Zone,
         NEW at \in Dates, NEW outcome \in Outcomes
  PROVE  RowFor(prior, zone, at, outcome) \in Notice
<1> DEFINE d == IF Stale(prior, zone) THEN Describe(prior, zone, outcome)
                ELSE Reuse(prior)
<1>1. ActiveFrom(prior, zone, at) \in Dates
  BY StoreAssumption DEF ActiveFrom, Stated, Zone, Notice
<1>2. PublishedAt(prior, zone, at) \in Dates
  BY <1>1, StoreAssumption DEF PublishedAt, Notice
<1>3. /\ d.title \in Titles
      /\ d.desc \in Descriptions
      /\ d.reasons \in SUBSET Reasons
  <2>1. CASE ~Stale(prior, zone)
    <3>1. prior \in Notice
      BY <2>1 DEF Stale
    <3> QED
      BY <2>1, <3>1 DEF Reuse, Notice
  <2>2. CASE Stale(prior, zone) /\ (~zone.prose \/ outcome = Failed)
    <3>1. PICK r \in Reasons : d = Fallback(prior, r)
      BY <2>2 DEF Describe, Reasons
    <3>2. (IF prior = Absent THEN Brief ELSE prior.desc) \in Descriptions
      BY DEF Notice, Descriptions
    <3> QED
      BY <3>1, <3>2 DEF Fallback, Titles
  <2>3. CASE Stale(prior, zone) /\ zone.prose /\ outcome # Failed
    <3>1. d = Generated(zone, outcome)
      BY <2>3 DEF Describe
    <3>2. outcome \in Replies
      BY <2>3 DEF Outcomes
    <3>3. [terms |-> zone.terms, from |-> zone.from] \in PromptFacts
      BY DEF PromptFacts, Zone
    <3> QED
      BY <3>1, <3>2, <3>3 DEF Generated, Titles, Descriptions, AiText
  <2> QED
    BY <2>1, <2>2, <2>3
<1>4. zone.terms \in Terms /\ zone.shape \in Shapes
  BY DEF Zone
<1> HIDE DEF d
<1>5. [title |-> d.title, desc |-> d.desc,
       terms |-> zone.terms, shape |-> zone.shape,
       activeFrom |-> ActiveFrom(prior, zone, at),
       publishedAt |-> PublishedAt(prior, zone, at),
       needsReview |-> d.reasons # {}, reasons |-> d.reasons] \in Notice
  BY <1>1, <1>2, <1>3, <1>4 DEF Notice
<1> QED
  BY <1>5 DEF RowFor, d

\* A row the batch loop builds from an honest prior row, or from none, is
\* honest: either it is freshly described, or it goes to review, or it reuses
\* a description whose terms the source repeats.
LEMMA RowForHonest ==
  ASSUME NEW z \in Zones, NEW prior \in Notice \cup {Absent},
         prior # Absent => Honest(z, prior), NEW zone \in Zone,
         NEW at \in Dates, NEW outcome \in Outcomes
  PROVE  Honest(z, RowFor(prior, zone, at, outcome))
<1> DEFINE row == RowFor(prior, zone, at, outcome)
<1>1. CASE ~Stale(prior, zone)
  <2>1. /\ prior \in Notice
        /\ prior.terms = zone.terms
        /\ prior.reasons = {}
    BY <1>1 DEF Stale, DescriptionFactsChanged
  <2>2. /\ row.desc = prior.desc
        /\ row.terms = prior.terms
        /\ row.reasons = {}
        /\ row.needsReview = FALSE
    BY <1>1, <2>1 DEF RowFor, Reuse
  <2>3. Honest(z, prior) /\ prior.needsReview = FALSE
    BY <2>1, StoreAssumption DEF Honest, Notice
  <2> QED
    BY <2>2, <2>3 DEF Honest, StatesItsTerms
<1>2. CASE Stale(prior, zone) /\ (~zone.prose \/ outcome = Failed)
  <2>1. PICK r \in Reasons : Describe(prior, zone, outcome) = Fallback(prior, r)
    BY <1>2 DEF Describe, Reasons
  <2>2. row.reasons = {r}
    <3>1. row.reasons = Describe(prior, zone, outcome).reasons
      BY <1>2 DEF RowFor
    <3>2. Fallback(prior, r).reasons = {r}
      BY DEF Fallback
    <3> QED
      BY <3>1, <3>2, <2>1
  <2>3. row.needsReview <=> row.reasons # {}
    BY DEF RowFor
  <2> QED
    BY <2>2, <2>3 DEF Honest
<1>3. CASE Stale(prior, zone) /\ zone.prose /\ outcome # Failed
  <2>1. Describe(prior, zone, outcome) = Generated(zone, outcome)
    BY <1>3 DEF Describe
  <2>2. /\ row.desc = [of |-> [terms |-> zone.terms, from |-> zone.from],
                       reply |-> outcome]
        /\ row.terms = zone.terms
        /\ row.reasons = {}
    <3> DEFINE g == Describe(prior, zone, outcome)
    <3>1. row.desc = g.desc /\ row.terms = zone.terms /\ row.reasons = g.reasons
      BY <1>3 DEF RowFor
    <3>2. /\ Generated(zone, outcome).desc =
               [of |-> [terms |-> zone.terms, from |-> zone.from],
                reply |-> outcome]
          /\ Generated(zone, outcome).reasons = {}
      BY DEF Generated
    <3> QED
      BY <3>1, <3>2, <2>1
  <2>3. row.needsReview <=> row.reasons # {}
    BY DEF RowFor
  <2>4. row.desc \in AiText
    BY <1>3, <2>2 DEF AiText, PromptFacts, Zone, Outcomes
  <2> QED
    BY <2>2, <2>3, <2>4, StoreAssumption DEF Honest, StatesItsTerms
<1> QED
  BY <1>1, <1>2, <1>3

----------------------------------------------------------------------------
(* The inductive invariant *)

\* A run that is enriching works on zones of its snapshot and has a clock.
RunsAreWellFormed ==
  \A w \in Workers :
    phase[w] = "enriching" =>
      /\ pending[w] \subseteq Present(snap[w])
      /\ importedAt[w] \in Dates

\* Rows read before, and rows waiting to be written, are honest as well:
\* what makes the honesty of the table survive a write-back of stale reads.
CopiesAreHonest ==
  \A w \in Workers, z \in Zones :
    /\ existing[w][z] # Absent => Honest(z, existing[w][z])
    /\ toWrite[w][z] # Absent => Honest(z, toWrite[w][z])

Typed == TypeOK /\ RunsAreWellFormed
IInv == Typed /\ PublicZonesAreHonest /\ CopiesAreHonest

----------------------------------------------------------------------------
(* Types *)

LEMMA StoreTypeStep ==
  ASSUME StoreTypeOK, StoreNext
  PROVE  StoreTypeOK'
<1> USE DEF StoreTypeOK
<1>1. ASSUME NEW a \in Admins, NEW k \in Keys, View(a, k)
      PROVE  StoreTypeOK'
  <2>1. [key |-> k, inc |-> rows[k].inc] \in Id
    BY <1>1 DEF View, Id, Row
  <2> QED
    BY <1>1, <2>1 DEF View
<1>2. ASSUME NEW a \in Admins, NotFound(a)
      PROVE  StoreTypeOK'
  BY <1>2 DEF NotFound
<1>3. ASSUME NEW a \in Admins, Approve(a)
      PROVE  StoreTypeOK'
  <2> DEFINE k == page[a].key
  <2>1. k \in Keys /\ rows[k] \in Row
    BY <1>3 DEF Approve, Live, Id
  <2>2. Approved(rows[k].notice) \in Notice
    BY <2>1 DEF Approved, Row, Notice, Reasons
  <2>3. [rows[k] EXCEPT !.notice = Approved(rows[k].notice)] \in Row
    BY <2>1, <2>2 DEF Row
  <2>4. rows' \in [Keys -> Row \cup {Absent}]
    BY <1>3, <2>1, <2>3 DEF Approve
  <2>5. <<k, rows[k].notice.desc, rows[k].notice.terms>> \in Vetting
    BY <2>1 DEF Vetting, Row, Notice
  <2>6. vetted' \in SUBSET Vetting
    BY <1>3, <2>5 DEF Approve
  <2> QED
    BY <1>3, <2>4, <2>6 DEF Approve
<1>4. ASSUME NEW a \in Admins, DismissReports(a)
      PROVE  StoreTypeOK'
  <2> DEFINE k == page[a].key
  <2>1. k \in Keys /\ rows[k] \in Row
    BY <1>4 DEF DismissReports, Live, Id
  <2>2. [rows[k] EXCEPT !.reports = 0] \in Row
    BY <2>1, StoreAssumption DEF Row
  <2> QED
    BY <1>4, <2>1, <2>2 DEF DismissReports
<1>5. ASSUME NEW a \in Admins, Reject(a)
      PROVE  StoreTypeOK'
  BY <1>5 DEF Reject
<1>6. ASSUME NEW k \in ManualKeys, AddNotice(k)
      PROVE  StoreTypeOK'
  <2>1. PICK t \in Terms, s \in Shapes, d \in Dates :
          rows' = [rows EXCEPT ![k] = NewRow(k, ManualNotice(t, s, d))]
    BY <1>6 DEF AddNotice
  <2>2. ManualNotice(t, s, d) \in Notice
    BY DEF ManualNotice, Notice, Titles, Descriptions, Reasons
  <2>3. NewRow(k, ManualNotice(t, s, d)) \in Row
    BY <2>2, NewRowType DEF Keys
  <2> QED
    BY <1>6, <2>1, <2>3 DEF AddNotice
<1>7. ASSUME NEW k \in Keys, Report(k)
      PROVE  StoreTypeOK'
  <2>1. rows[k] \in Row /\ rows[k].reports + 1 \in 0..MaxReports
    BY <1>7, StoreAssumption DEF Report, Row
  <2>2. [rows[k] EXCEPT !.reports = @ + 1] \in Row
    BY <2>1 DEF Row
  <2> QED
    BY <1>7, <2>2 DEF Report
<1> QED
  BY <1>1, <1>2, <1>3, <1>4, <1>5, <1>6, <1>7 DEF StoreNext

\* Leaving a run keeps the types: nothing of it remains.
LEMMA FinishTyped ==
  ASSUME ImportTypeOK, RunsAreWellFormed, NEW w \in Workers,
         NEW next \in {"idle", "logging"}, Finish(w, next)
  PROVE  ImportTypeOK' /\ RunsAreWellFormed'
<1>1. NoZones \in Snapshot /\ NoZones \in [Zones -> Notice \cup {Absent}]
  BY DEF NoZones, Snapshot
<1>2. ImportTypeOK'
  BY <1>1 DEF ImportTypeOK, Finish, Phases
<1>3. RunsAreWellFormed'
  <2> SUFFICES ASSUME NEW v \in Workers, phase'[v] = "enriching"
               PROVE  /\ pending'[v] \subseteq Present(snap'[v])
                      /\ importedAt'[v] \in Dates
    BY DEF RunsAreWellFormed, Present
  <2>1. v # w
    BY DEF Finish, ImportTypeOK
  <2>2. /\ phase'[v] = phase[v]
        /\ pending'[v] = pending[v]
        /\ snap'[v] = snap[v]
        /\ importedAt'[v] = importedAt[v]
    BY <2>1 DEF Finish, ImportTypeOK
  <2> QED
    BY <2>2 DEF RunsAreWellFormed
<1> QED
  BY <1>2, <1>3

\* What a batch contributes is well formed, and honest if what was read is.
LEMMA BatchRowsTyped ==
  ASSUME Typed, NEW w \in Workers, phase[w] = "enriching",
         NEW answer \in [Batch(w) -> Outcomes]
  PROVE  BatchRows(w, answer) \in [Zones -> Notice \cup {Absent}]
<1> SUFFICES ASSUME NEW z \in Batch(w)
             PROVE  Write(existing[w][z], snap[w][z], importedAt[w], answer[z])
                      \in Notice \cup {Absent}
  BY DEF BatchRows
<1>1. z \in pending[w] /\ z \in Zones
  BY DEF Batch, Typed, TypeOK, ImportTypeOK
<1>2. snap[w][z] \in Zone /\ importedAt[w] \in Dates
  BY <1>1 DEF Typed, TypeOK, ImportTypeOK, RunsAreWellFormed, Present, Snapshot
<1>3. existing[w][z] \in Notice \cup {Absent}
  BY <1>1 DEF Typed, TypeOK, ImportTypeOK
<1>4. RowFor(existing[w][z], snap[w][z], importedAt[w], answer[z]) \in Notice
  BY <1>2, <1>3, RowForType
<1> QED
  BY <1>4 DEF Write

LEMMA BatchRowsHonest ==
  ASSUME Typed, CopiesAreHonest, NEW w \in Workers, phase[w] = "enriching",
         NEW answer \in [Batch(w) -> Outcomes],
         NEW z \in Zones, BatchRows(w, answer)[z] # Absent
  PROVE  Honest(z, BatchRows(w, answer)[z])
<1>1. z \in Batch(w) /\ z \in pending[w]
  BY DEF BatchRows, Batch
<1>2. snap[w][z] \in Zone /\ importedAt[w] \in Dates
  BY <1>1 DEF Typed, TypeOK, ImportTypeOK, RunsAreWellFormed, Present, Snapshot
<1>3. /\ existing[w][z] \in Notice \cup {Absent}
      /\ existing[w][z] # Absent => Honest(z, existing[w][z])
  BY DEF Typed, TypeOK, ImportTypeOK, CopiesAreHonest
<1>4. BatchRows(w, answer)[z] =
        RowFor(existing[w][z], snap[w][z], importedAt[w], answer[z])
  BY <1>1 DEF BatchRows, Write
<1>5. answer[z] \in Outcomes
  BY <1>1
<1>6. Honest(z, RowFor(existing[w][z], snap[w][z], importedAt[w], answer[z]))
  BY <1>2, <1>3, <1>5, RowForHonest
<1> QED
  BY <1>4, <1>6

\* Every step keeps the types.
LEMMA TypedStep ==
  ASSUME Typed, [Next]_vars
  PROVE  Typed'
<1> USE DEF Typed, TypeOK
<1>1. ASSUME StoreNext, UNCHANGED workerVars
      PROVE  Typed'
  <2>1. StoreTypeOK'
    BY <1>1, StoreTypeStep
  <2>2. ImportTypeOK' /\ RunsAreWellFormed'
    BY <1>1 DEF workerVars, ImportTypeOK, RunsAreWellFormed, Present
  <2> QED
    BY <2>1, <2>2
<1>2. ASSUME NEW w \in Workers, Fetch(w)
      PROVE  Typed'
  <2>1. PICK published \in Published : snap' = [snap EXCEPT ![w] = published]
    BY <1>2 DEF Fetch
  <2>2. published \in Snapshot
    BY <2>1, ImportAssumption DEF Published, Snapshot
  <2>3. ImportTypeOK'
    BY <1>2, <2>1, <2>2 DEF Fetch, ImportTypeOK, Phases
  <2>4. RunsAreWellFormed'
    BY <1>2, <2>1 DEF Fetch, ImportTypeOK, RunsAreWellFormed, Present
  <2>5. StoreTypeOK'
    BY <1>2 DEF Fetch, storeVars, StoreTypeOK
  <2> QED
    BY <2>3, <2>4, <2>5
<1>3. ASSUME NEW w \in Workers, ReadExisting(w)
      PROVE  Typed'
  <2>1. Stored \in [Zones -> Notice \cup {Absent}]
    BY DEF Stored, StoreTypeOK, Keys, Row
  <2>2. Present(snap[w]) \in SUBSET Zones
    BY DEF Present, ImportTypeOK, Snapshot
  <2>3. ImportTypeOK'
    BY <1>3, <2>1, <2>2 DEF ReadExisting, ImportTypeOK, Phases
  <2>4. RunsAreWellFormed'
    BY <1>3 DEF ReadExisting, ImportTypeOK, RunsAreWellFormed, Present
  <2>5. StoreTypeOK'
    BY <1>3 DEF ReadExisting, storeVars, StoreTypeOK
  <2> QED
    BY <2>3, <2>4, <2>5
<1>4. ASSUME NEW w \in Workers, ProcessBatch(w)
      PROVE  Typed'
  <2>1. PICK answer \in [Batch(w) -> Outcomes] :
          LET new == BatchRows(w, answer)
          IN  IF Bootstrap(w)
              THEN rows' = Upsert(rows, new) /\ UNCHANGED toWrite
              ELSE /\ toWrite' = [toWrite EXCEPT ![w] =
                        [z \in Zones |->
                           IF new[z] # Absent THEN new[z] ELSE @[z]]]
                   /\ UNCHANGED rows
    BY <1>4 DEF ProcessBatch
  <2>2. BatchRows(w, answer) \in [Zones -> Notice \cup {Absent}]
    BY <1>4, BatchRowsTyped DEF ProcessBatch
  <2>3. rows' \in [Keys -> Row \cup {Absent}]
    BY <2>1, <2>2, UpsertType DEF StoreTypeOK
  <2>4. toWrite' \in [Workers -> [Zones -> Notice \cup {Absent}]]
    <3> DEFINE new == BatchRows(w, answer)
               merged == [z \in Zones |->
                            IF new[z] # Absent THEN new[z] ELSE toWrite[w][z]]
    <3> HIDE DEF new
    <3>1. merged \in [Zones -> Notice \cup {Absent}]
      BY <2>2 DEF ImportTypeOK, new
    <3>2. toWrite' = toWrite \/ toWrite' = [toWrite EXCEPT ![w] = merged]
      BY <2>1 DEF new
    <3> HIDE DEF merged
    <3> QED
      BY <3>1, <3>2 DEF ImportTypeOK
  <2>5. pending' \in [Workers -> SUBSET Zones]
    BY <1>4 DEF ProcessBatch, ImportTypeOK
  <2>6. RunsAreWellFormed'
    BY <1>4 DEF ProcessBatch, ImportTypeOK, RunsAreWellFormed, Present
  <2> QED
    BY <1>4, <2>3, <2>4, <2>5, <2>6 DEF ProcessBatch, ImportTypeOK, StoreTypeOK
<1>5. ASSUME NEW w \in Workers, Commit(w)
      PROVE  Typed'
  <2>1. Upsert(rows, toWrite[w]) \in [Keys -> Row \cup {Absent}]
    BY UpsertType DEF ImportTypeOK
  <2>2. rows' \in [Keys -> Row \cup {Absent}]
    BY <1>5, <2>1 DEF Commit, Delete
  <2>3. ImportTypeOK' /\ RunsAreWellFormed'
    BY <1>5, FinishTyped DEF Commit
  <2> QED
    BY <1>5, <2>2, <2>3 DEF Commit, StoreTypeOK
<1>6. ASSUME NEW w \in Workers, RefuseSnapshot(w) \/ RecordLog(w) \/ Abort(w)
      PROVE  Typed'
  <2>1. Finish(w, "idle") /\ UNCHANGED storeVars
    BY <1>6 DEF RefuseSnapshot, RecordLog, Abort
  <2>2. ImportTypeOK' /\ RunsAreWellFormed'
    BY <2>1, FinishTyped
  <2> QED
    BY <2>1, <2>2 DEF storeVars, StoreTypeOK
<1>7. CASE UNCHANGED vars
  BY <1>7 DEF vars, storeVars, workerVars, StoreTypeOK, ImportTypeOK,
              RunsAreWellFormed, Present
<1> QED
  BY <1>1, <1>2, <1>3, <1>4, <1>5, <1>6, <1>7 DEF Next, WorkerStep

LEMMA TypedInit == Init => Typed
<1> SUFFICES ASSUME Init PROVE Typed
  OBVIOUS
<1>1. StoreTypeOK
  BY DEF Init, StoreInit, StoreTypeOK
<1>2. NoZones \in Snapshot /\ NoZones \in [Zones -> Notice \cup {Absent}]
  BY DEF NoZones, Snapshot
<1>3. ImportTypeOK
  BY <1>2 DEF Init, ImportTypeOK, Phases
<1>4. RunsAreWellFormed
  BY DEF Init, RunsAreWellFormed
<1> QED
  BY <1>1, <1>3, <1>4 DEF Typed, TypeOK

\* The type invariant of the table and of every run, for any number of zones,
\* administrators and overlapping runs.
THEOREM TypeCorrect == Spec => []TypeOK
<1>1. Init => Typed
  BY TypedInit
<1>2. Typed /\ [Next]_vars => Typed'
  BY TypedStep
<1>3. Typed => TypeOK
  BY DEF Typed
<1> QED
  BY <1>1, <1>2, <1>3, PTL DEF Spec

----------------------------------------------------------------------------
(* Honesty *)

\* Honest with the approvals as a parameter, to compare two states.
Vouched(approvals, z, notice) ==
  /\ notice.needsReview <=> notice.reasons # {}
  /\ \/ notice.needsReview
     \/ StatesItsTerms(notice)
     \/ <<z, notice.desc, notice.terms>> \in approvals

LEMMA HonestPrimed ==
  /\ PublicZonesAreHonest <=>
       \A z \in Zones : rows[z] # Absent => Vouched(vetted, z, rows[z].notice)
  /\ PublicZonesAreHonest' <=>
       \A z \in Zones : rows'[z] # Absent => Vouched(vetted', z, rows'[z].notice)
  /\ CopiesAreHonest <=>
       \A w \in Workers, z \in Zones :
         /\ existing[w][z] # Absent => Vouched(vetted, z, existing[w][z])
         /\ toWrite[w][z] # Absent => Vouched(vetted, z, toWrite[w][z])
  /\ CopiesAreHonest' <=>
       \A w \in Workers, z \in Zones :
         /\ existing'[w][z] # Absent => Vouched(vetted', z, existing'[w][z])
         /\ toWrite'[w][z] # Absent => Vouched(vetted', z, toWrite'[w][z])
  BY DEF PublicZonesAreHonest, CopiesAreHonest, Honest, Vouched, StatesItsTerms

\* Approvals are never taken back.
LEMMA VouchedMonotone ==
  ASSUME NEW A, NEW B, A \subseteq B, NEW z, NEW n, Vouched(A, z, n)
  PROVE  Vouched(B, z, n)
  BY DEF Vouched

\* The hand-made steps: an approval vouches for what it publishes, and no
\* other step makes a zone public.
LEMMA StoreHonestStep ==
  ASSUME StoreTypeOK, PublicZonesAreHonest, StoreNext
  PROVE  PublicZonesAreHonest' /\ vetted \subseteq vetted'
<1> SUFFICES /\ vetted \subseteq vetted'
             /\ \A z \in Zones :
                  rows'[z] # Absent => Vouched(vetted', z, rows'[z].notice)
  BY HonestPrimed
<1> USE DEF StoreTypeOK
<1>0. \A z \in Zones : rows[z] # Absent => Vouched(vetted, z, rows[z].notice)
  BY HonestPrimed
<1>1. ASSUME UNCHANGED <<rows, vetted>>
      PROVE  /\ vetted \subseteq vetted'
             /\ \A z \in Zones :
                  rows'[z] # Absent => Vouched(vetted', z, rows'[z].notice)
  BY <1>0, <1>1
<1>2. ASSUME NEW a \in Admins, Approve(a)
      PROVE  /\ vetted \subseteq vetted'
             /\ \A z \in Zones :
                  rows'[z] # Absent => Vouched(vetted', z, rows'[z].notice)
  <2> DEFINE k == page[a].key
             n == rows[k].notice
  <2>1. k \in Keys /\ rows[k] \in Row
    BY <1>2 DEF Approve, Live, Id
  <2>2. vetted \subseteq vetted'
    BY <1>2 DEF Approve
  <2>3. ASSUME NEW z \in Zones, z # k, rows'[z] # Absent
        PROVE  Vouched(vetted', z, rows'[z].notice)
    <3>1. rows'[z] = rows[z]
      BY <1>2, <2>3 DEF Approve, Keys
    <3> QED
      BY <1>0, <2>2, <2>3, <3>1, VouchedMonotone
  <2>4. ASSUME k \in Zones
        PROVE  Vouched(vetted', k, rows'[k].notice)
    <3>1. rows'[k].notice = Approved(n)
      BY <1>2, <2>1 DEF Approve, Row
    <3>2. n \in Notice
      BY <2>1 DEF Row
    <3>3. /\ Approved(n).needsReview = FALSE
          /\ Approved(n).reasons = {}
          /\ Approved(n).desc = n.desc
          /\ Approved(n).terms = n.terms
      BY <3>2 DEF Approved, Notice
    <3>4. Vouched(vetted, k, n)
      BY <1>0, <1>2, <2>4 DEF Approve, Live
    <3>5. CASE n.needsReview
      BY <1>2, <3>1, <3>3, <3>5 DEF Approve, Vouched
    <3>6. CASE ~n.needsReview
      BY <2>2, <3>1, <3>3, <3>4, <3>6 DEF Vouched, StatesItsTerms
    <3> QED
      BY <3>5, <3>6
  <2> QED
    BY <2>2, <2>3, <2>4
<1>3. ASSUME NEW a \in Admins, DismissReports(a) \/ Reject(a)
      PROVE  /\ vetted \subseteq vetted'
             /\ \A z \in Zones :
                  rows'[z] # Absent => Vouched(vetted', z, rows'[z].notice)
  <2>1. page[a].key \in Keys
    BY <1>3 DEF DismissReports, Reject, Live, Id
  <2>2. ASSUME NEW z \in Zones, rows'[z] # Absent
        PROVE  rows[z] # Absent /\ rows'[z].notice = rows[z].notice
    BY <1>3, <2>1, <2>2 DEF DismissReports, Reject, Live, Keys, Row
  <2>3. vetted' = vetted
    BY <1>3 DEF DismissReports, Reject
  <2> QED
    BY <1>0, <2>2, <2>3
<1>4. ASSUME NEW k \in ManualKeys, AddNotice(k)
      PROVE  /\ vetted \subseteq vetted'
             /\ \A z \in Zones :
                  rows'[z] # Absent => Vouched(vetted', z, rows'[z].notice)
  <2>1. \A z \in Zones : rows'[z] = rows[z]
    BY <1>4, StoreAssumption DEF AddNotice, Keys
  <2> QED
    BY <1>0, <1>4, <2>1 DEF AddNotice
<1>5. ASSUME NEW k \in Keys, Report(k)
      PROVE  /\ vetted \subseteq vetted'
             /\ \A z \in Zones :
                  rows'[z] # Absent => Vouched(vetted', z, rows'[z].notice)
  <2>1. \A z \in Zones :
          rows'[z] # Absent =>
            rows[z] # Absent /\ rows'[z].notice = rows[z].notice
    BY <1>5 DEF Report, Keys, Row
  <2> QED
    BY <1>0, <1>5, <2>1 DEF Report
<1> QED
  BY <1>1, <1>2, <1>3, <1>4, <1>5 DEF StoreNext, View, NotFound

\* A table of honest rows stays one under the upsert of honest notices.
LEMMA UpsertHonest ==
  ASSUME StoreTypeOK, PublicZonesAreHonest,
         NEW new \in [Zones -> Notice \cup {Absent}],
         \A z \in Zones : new[z] # Absent => Honest(z, new[z]),
         NEW z \in Zones, Upsert(rows, new)[z] # Absent
  PROVE  Honest(z, Upsert(rows, new)[z].notice)
<1>1. z \in Keys
  BY DEF Keys
<1>2. CASE new[z] = Absent
  <2>1. Upsert(rows, new)[z] = rows[z]
    BY <1>1, <1>2 DEF Upsert
  <2> QED
    BY <2>1 DEF PublicZonesAreHonest
<1>3. CASE new[z] # Absent
  <2>1. Upsert(rows, new)[z].notice = new[z]
    BY <1>1, <1>3 DEF Upsert, NewRow, StoreTypeOK, Row
  <2> QED
    BY <1>3, <2>1
<1> QED
  BY <1>2, <1>3

\* Leaving a run forgets its copies.
LEMMA FinishCopies ==
  ASSUME ImportTypeOK, CopiesAreHonest, NEW w \in Workers, NEW next,
         Finish(w, next), vetted' = vetted
  PROVE  CopiesAreHonest'
<1> SUFFICES ASSUME NEW v \in Workers, NEW z \in Zones
             PROVE  /\ existing'[v][z] # Absent => Vouched(vetted', z, existing'[v][z])
                    /\ toWrite'[v][z] # Absent => Vouched(vetted', z, toWrite'[v][z])
  BY HonestPrimed
<1>1. CASE v = w
  <2>1. existing'[v] = NoZones /\ toWrite'[v] = NoZones
    BY <1>1 DEF Finish, ImportTypeOK
  <2> QED
    BY <2>1 DEF NoZones
<1>2. CASE v # w
  <2>1. existing'[v] = existing[v] /\ toWrite'[v] = toWrite[v]
    BY <1>2 DEF Finish, ImportTypeOK
  <2> QED
    BY <2>1, HonestPrimed
<1> QED
  BY <1>1, <1>2

LEMMA HonestStep ==
  ASSUME IInv, [Next]_vars
  PROVE  PublicZonesAreHonest' /\ CopiesAreHonest'
<1> USE DEF IInv
<1>0. StoreTypeOK /\ ImportTypeOK
  BY DEF Typed, TypeOK
<1>1. ASSUME StoreNext, UNCHANGED workerVars
      PROVE  PublicZonesAreHonest' /\ CopiesAreHonest'
  <2>1. PublicZonesAreHonest' /\ vetted \subseteq vetted'
    BY <1>0, <1>1, StoreHonestStep
  <2>2. existing' = existing /\ toWrite' = toWrite
    BY <1>1 DEF workerVars
  <2>3. CopiesAreHonest'
    BY <2>1, <2>2, HonestPrimed, VouchedMonotone
  <2> QED
    BY <2>1, <2>3
<1>2. ASSUME NEW w \in Workers, Fetch(w)
      PROVE  PublicZonesAreHonest' /\ CopiesAreHonest'
  BY <1>2, HonestPrimed DEF Fetch, storeVars
<1>3. ASSUME NEW w \in Workers, ReadExisting(w)
      PROVE  PublicZonesAreHonest' /\ CopiesAreHonest'
  <2>1. /\ rows' = rows /\ vetted' = vetted /\ toWrite' = toWrite
        /\ existing' = [existing EXCEPT ![w] = Stored]
    BY <1>3 DEF ReadExisting, storeVars
  <2>2. \A z \in Zones : Stored[z] # Absent => Vouched(vetted, z, Stored[z])
    BY HonestPrimed DEF Stored
  <2>3. ASSUME NEW v \in Workers, NEW z \in Zones, existing'[v][z] # Absent
        PROVE  Vouched(vetted', z, existing'[v][z])
    <3>1. CASE v = w
      BY <1>0, <2>1, <2>2, <2>3, <3>1 DEF ImportTypeOK
    <3>2. CASE v # w
      BY <1>0, <2>1, <2>3, <3>2, HonestPrimed DEF ImportTypeOK
    <3> QED
      BY <3>1, <3>2
  <2> QED
    BY <2>1, <2>3, HonestPrimed
<1>4. ASSUME NEW w \in Workers, ProcessBatch(w)
      PROVE  PublicZonesAreHonest' /\ CopiesAreHonest'
  <2>1. PICK answer \in [Batch(w) -> Outcomes] :
          LET new == BatchRows(w, answer)
          IN  IF Bootstrap(w)
              THEN rows' = Upsert(rows, new) /\ UNCHANGED toWrite
              ELSE /\ toWrite' = [toWrite EXCEPT ![w] =
                        [z \in Zones |->
                           IF new[z] # Absent THEN new[z] ELSE @[z]]]
                   /\ UNCHANGED rows
    BY <1>4 DEF ProcessBatch
  <2> DEFINE new == BatchRows(w, answer)
  <2>2. new \in [Zones -> Notice \cup {Absent}]
    BY <1>4, BatchRowsTyped DEF ProcessBatch
  <2>3. \A z \in Zones : new[z] # Absent => Honest(z, new[z])
    BY <1>4, BatchRowsHonest DEF ProcessBatch
  <2>4. vetted' = vetted /\ existing' = existing
    BY <1>4 DEF ProcessBatch
  <2>5. rows' = Upsert(rows, new) \/ rows' = rows
    BY <2>1
  <2>6. PublicZonesAreHonest'
    <3> SUFFICES ASSUME NEW z \in Zones, rows'[z] # Absent
                 PROVE  Vouched(vetted, z, rows'[z].notice)
      BY <2>4, HonestPrimed
    <3> HIDE DEF new
    <3>1. CASE rows' = rows
      BY <3>1, HonestPrimed
    <3>2. CASE rows' = Upsert(rows, new)
      <4>1. Honest(z, Upsert(rows, new)[z].notice)
        BY <1>0, <2>2, <2>3, <3>2, UpsertHonest
      <4> QED
        BY <3>2, <4>1 DEF Honest, Vouched, StatesItsTerms
    <3> QED
      BY <2>5, <3>1, <3>2
  <2>7. \A v \in Workers, z \in Zones :
          toWrite'[v][z] # Absent =>
            toWrite'[v][z] = toWrite[v][z] \/ toWrite'[v][z] = new[z]
    <3> DEFINE merged == [z \in Zones |->
                            IF new[z] # Absent THEN new[z] ELSE toWrite[w][z]]
    <3>1. toWrite' = toWrite \/ toWrite' = [toWrite EXCEPT ![w] = merged]
      BY <2>1
    <3>2. \A z \in Zones : merged[z] = new[z] \/ merged[z] = toWrite[w][z]
      OBVIOUS
    <3> HIDE DEF merged, new
    <3> QED
      BY <1>0, <3>1, <3>2 DEF ImportTypeOK
  <2>8. CopiesAreHonest'
    <3> HIDE DEF new
    <3> SUFFICES ASSUME NEW v \in Workers, NEW z \in Zones, toWrite'[v][z] # Absent
                 PROVE  Vouched(vetted, z, toWrite'[v][z])
      BY <2>4, HonestPrimed
    <3>1. CASE toWrite'[v][z] = toWrite[v][z]
      BY <3>1, HonestPrimed
    <3>2. CASE toWrite'[v][z] = new[z]
      <4>1. Honest(z, new[z])
        BY <2>3, <3>2
      <4> QED
        BY <3>2, <4>1 DEF Honest, Vouched, StatesItsTerms
    <3> QED
      BY <2>7, <3>1, <3>2
  <2> QED
    BY <2>6, <2>8
<1>5. ASSUME NEW w \in Workers, Commit(w)
      PROVE  PublicZonesAreHonest' /\ CopiesAreHonest'
  <2>1. vetted' = vetted /\ Finish(w, "logging")
    BY <1>5 DEF Commit
  <2>2. CopiesAreHonest'
    BY <1>0, <2>1, FinishCopies
  <2>3. toWrite[w] \in [Zones -> Notice \cup {Absent}]
    BY <1>0 DEF ImportTypeOK
  <2>4. \A z \in Zones : toWrite[w][z] # Absent => Honest(z, toWrite[w][z])
    BY DEF CopiesAreHonest
  <2>5. PublicZonesAreHonest'
    <3> SUFFICES ASSUME NEW z \in Zones, rows'[z] # Absent
                 PROVE  Vouched(vetted, z, rows'[z].notice)
      BY <2>1, HonestPrimed
    <3>1. rows'[z] = Upsert(rows, toWrite[w])[z]
      BY <1>5 DEF Commit, Delete, Keys
    <3>2. Honest(z, rows'[z].notice)
      BY <1>0, <2>3, <2>4, <3>1, UpsertHonest
    <3> QED
      BY <3>2 DEF Honest, Vouched, StatesItsTerms
  <2> QED
    BY <2>2, <2>5
<1>6. ASSUME NEW w \in Workers, RefuseSnapshot(w) \/ RecordLog(w) \/ Abort(w)
      PROVE  PublicZonesAreHonest' /\ CopiesAreHonest'
  <2>1. Finish(w, "idle") /\ rows' = rows /\ vetted' = vetted
    BY <1>6 DEF RefuseSnapshot, RecordLog, Abort, storeVars
  <2>2. CopiesAreHonest'
    BY <1>0, <2>1, FinishCopies
  <2> QED
    BY <2>1, <2>2, HonestPrimed
<1>7. CASE UNCHANGED vars
  BY <1>7, HonestPrimed DEF vars, storeVars, workerVars
<1> QED
  BY <1>1, <1>2, <1>3, <1>4, <1>5, <1>6, <1>7 DEF Next, WorkerStep

\* What is public on the map is described by the terms shown with it, or was
\* approved as it is - whatever fails, however many imports overlap, and
\* however old the rows are that an import writes back.
THEOREM PublicHonesty == Spec => []PublicZonesAreHonest
<1>1. Init => IInv
  <2> SUFFICES ASSUME Init PROVE IInv
    OBVIOUS
  <2>1. Typed
    BY TypedInit
  <2>2. PublicZonesAreHonest
    BY DEF Init, StoreInit, PublicZonesAreHonest, Keys
  <2>3. CopiesAreHonest
    BY DEF Init, CopiesAreHonest, NoZones
  <2> QED
    BY <2>1, <2>2, <2>3 DEF IInv
<1>2. IInv /\ [Next]_vars => IInv'
  <2> SUFFICES ASSUME IInv, [Next]_vars PROVE IInv'
    OBVIOUS
  <2>1. Typed'
    BY TypedStep DEF IInv
  <2>2. PublicZonesAreHonest' /\ CopiesAreHonest'
    BY HonestStep
  <2> QED
    BY <2>1, <2>2 DEF IInv
<1>3. IInv => PublicZonesAreHonest
  BY DEF IInv
<1> QED
  BY <1>1, <1>2, <1>3, PTL DEF Spec

----------------------------------------------------------------------------
(* Public reports *)

\* What a step may do to the row of one key.
Counted(k) ==
  SameRow(k) =>
    /\ rows'[k].notice # rows[k].notice => rows'[k].reports = rows[k].reports
    /\ rows'[k].reports \in {0, rows[k].reports, rows[k].reports + 1}

\* An upsert writes the notice of a row and leaves its reports.
LEMMA UpsertCounted ==
  ASSUME StoreTypeOK, NEW new, NEW k \in Keys,
         rows[k] # Absent, Upsert(rows, new)[k] # Absent
  PROVE  Upsert(rows, new)[k].reports = rows[k].reports
<1>1. rows[k] \in Row
  BY DEF StoreTypeOK
<1> QED
  BY <1>1 DEF Upsert, Row

LEMMA CountedStep ==
  ASSUME Typed, [Next]_vars, NEW k \in Keys
  PROVE  Counted(k)
<1>0. StoreTypeOK
  BY DEF Typed, TypeOK
<1>1. ASSUME rows' = rows
      PROVE  Counted(k)
  BY <1>1 DEF Counted
<1>2. ASSUME NEW a \in Admins, Approve(a)
      PROVE  Counted(k)
  <2>1. rows[k] # Absent => rows'[k].reports = rows[k].reports
    BY <1>0, <1>2 DEF Approve, Live, Id, StoreTypeOK, Row
  <2> QED
    BY <2>1 DEF Counted, SameRow
<1>3. ASSUME NEW a \in Admins, DismissReports(a) \/ Reject(a)
      PROVE  Counted(k)
  <2>1. \/ rows'[k] = rows[k]
        \/ rows'[k] = Absent
        \/ rows'[k] = [rows[k] EXCEPT !.reports = 0]
    BY <1>0, <1>3 DEF DismissReports, Reject, StoreTypeOK
  <2>2. rows[k] # Absent => rows[k] \in Row
    BY <1>0 DEF StoreTypeOK
  <2> QED
    BY <2>1, <2>2 DEF Counted, SameRow, Row
<1>4. ASSUME NEW m \in ManualKeys, AddNotice(m)
      PROVE  Counted(k)
  <2>1. rows'[k] = rows[k] \/ rows[k] = Absent
    BY <1>0, <1>4 DEF AddNotice, StoreTypeOK
  <2> QED
    BY <2>1 DEF Counted, SameRow
<1>5. ASSUME NEW m \in Keys, Report(m)
      PROVE  Counted(k)
  <2>1. \/ rows'[k] = rows[k]
        \/ rows'[k] = [rows[k] EXCEPT !.reports = @ + 1]
    BY <1>0, <1>5 DEF Report, StoreTypeOK
  <2>2. rows[k] # Absent => rows[k] \in Row
    BY <1>0 DEF StoreTypeOK
  <2> QED
    BY <2>1, <2>2 DEF Counted, SameRow, Row
<1>6. ASSUME NEW w \in Workers, ProcessBatch(w)
      PROVE  Counted(k)
  <2>1. PICK answer \in [Batch(w) -> Outcomes] :
          rows' = rows \/ rows' = Upsert(rows, BatchRows(w, answer))
    BY <1>6 DEF ProcessBatch
  <2> QED
    BY <1>0, <1>1, <2>1, UpsertCounted DEF Counted, SameRow
<1>7. ASSUME NEW w \in Workers, Commit(w)
      PROVE  Counted(k)
  <2>1. rows'[k] = Absent \/ rows'[k] = Upsert(rows, toWrite[w])[k]
    BY <1>7 DEF Commit, Delete
  <2> QED
    BY <1>0, <2>1, UpsertCounted DEF Counted, SameRow
<1>8. ASSUME \/ \E a \in Admins, m \in Keys : View(a, m)
             \/ \E a \in Admins : NotFound(a)
             \/ \E w \in Workers :
                  \/ Fetch(w) \/ ReadExisting(w) \/ RefuseSnapshot(w)
                  \/ RecordLog(w) \/ Abort(w)
             \/ UNCHANGED vars
      PROVE  Counted(k)
  <2>1. rows' = rows
    BY <1>8 DEF View, NotFound, Fetch, ReadExisting, RefuseSnapshot, RecordLog,
                Abort, vars, storeVars
  <2> QED
    BY <1>1, <2>1
<1> QED
  BY <1>2, <1>3, <1>4, <1>5, <1>6, <1>7, <1>8 DEF Next, StoreNext, WorkerStep

\* No rewrite of a notice, by an import or an approval, loses or invents a
\* public report.
THEOREM ReportsSurvive == Spec => ReportsSurviveRewrites
<1>1. Init => Typed
  BY TypedInit
<1>2. Typed /\ [Next]_vars => Typed'
  BY TypedStep
<1>3. Typed /\ [Next]_vars =>
        [\A k \in Keys :
           SameRow(k) =>
             /\ rows'[k].notice # rows[k].notice => rows'[k].reports = rows[k].reports
             /\ rows'[k].reports \in {0, rows[k].reports, rows[k].reports + 1}]_vars
  BY CountedStep DEF Counted
<1> QED
  BY <1>1, <1>2, <1>3, PTL DEF Spec, ReportsSurviveRewrites

============================================================================
