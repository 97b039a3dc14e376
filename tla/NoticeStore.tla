---------------------------- MODULE NoticeStore ----------------------------
(***************************************************************************)
(* The notice_to_mariners table and everyone who writes it by hand.        *)
(*                                                                         *)
(* A row is identified by its database id and is unique per (source,       *)
(* subKey).  Zones are the subKeys of the rows whose source is             *)
(* 'community-map' (numbered in subKey order); ManualKeys are the (source, *)
(* subKey) pairs of the notices typed in by an administrator, whose source *)
(* is a URL (views/admin/new.hbs), which 'community-map' is not; the DTO   *)
(* itself takes any text.                                                  *)
(*                                                                         *)
(* The columns an import owns are kept apart, in the field `notice`, from  *)
(* the two it never writes: the id and the counter of public reports.      *)
(***************************************************************************)
EXTENDS Naturals, FiniteSets

CONSTANTS
  Zones,        \* subKeys of the community map, numbered in sort order
  ManualKeys,   \* keys of notices that do not come from the community map
  Admins,       \* administrators with the panel open
  Incs,         \* ids a row of one key can be told apart by
  Terms,        \* distance, notice reference, class and end of validity
  Shapes,       \* geometry parts and source link
  Dates,        \* instants
  NoDate,       \* "the source states no such date"
  Replies,      \* texts the language model may return
  Plain,        \* replies whose title is exactly the place name
  Structured,   \* replies that compose to the current description format
  Brief,        \* the generic description of a restriction class
  Absent,       \* no row, no record
  MaxReports    \* bound: reports counted on one row

Keys == Zones \cup ManualKeys

\* What the language model is told besides the prose itself.
PromptFacts == [terms: Terms, from: Dates \cup {NoDate}]

\* A generated text remembers the facts it was generated from.
AiText == [of: PromptFacts, reply: Replies]
Descriptions == AiText \cup {Brief}

AiFailed == "ai-enrichment-failed"
SourceMissing == "source-description-missing"
Reasons == {AiFailed, SourceMissing}

\* "place": the title is the place name; "own": the model's own title.
Titles == {"place", "own"}

Notice ==
  [title: Titles, desc: Descriptions, terms: Terms, shape: Shapes,
   activeFrom: Dates, publishedAt: Dates,
   needsReview: BOOLEAN, reasons: SUBSET Reasons]

Row == [inc: Incs, reports: 0..MaxReports, notice: Notice]

\* What the panel of an administrator holds: the id of one row.
Id == [key: Keys, inc: Incs]

ASSUME StoreAssumption ==
  /\ Zones \subseteq Nat /\ IsFiniteSet(Zones)
  /\ Zones \cap ManualKeys = {}
  /\ MaxReports \in Nat
  /\ NoDate \notin Dates
  /\ Plain \subseteq Replies
  /\ Structured \subseteq Replies
  /\ Brief \notin AiText
  /\ Absent \notin Row \cup Notice \cup Id

\* Ids are uuids: there is always one that nobody holds.
ASSUME FreshIdAssumption ==
  /\ Incs # {}
  /\ \A held \in [Admins -> Incs] :
       \E i \in Incs : \A a \in Admins : held[a] # i

VARIABLES
  rows,     \* the table: key |-> row or Absent
  page,     \* per administrator, the id on the page in front of them
  vetted    \* history: <<key, description, terms>> approved in review

storeVars == <<rows, page, vetted>>

Vetting == Keys \X Descriptions \X Terms

StoreTypeOK ==
  /\ rows \in [Keys -> Row \cup {Absent}]
  /\ page \in [Admins -> Id \cup {Absent}]
  /\ vetted \in SUBSET Vetting

StoreInit ==
  /\ rows = [k \in Keys |-> Absent]
  /\ page = [a \in Admins |-> Absent]
  /\ vetted = {}

----------------------------------------------------------------------------
(* Ids and rows *)

\* A new row of key k gets an id no open page refers to.
FreshInc(k) ==
  CHOOSE i \in Incs : \A a \in Admins : page[a] # [key |-> k, inc |-> i]

NewRow(k, notice) == [inc |-> FreshInc(k), reports |-> 0, notice |-> notice]

\* The row an id refers to still exists.
Live(id) == id # Absent /\ rows[id.key] # Absent /\ rows[id.key].inc = id.inc

----------------------------------------------------------------------------
(* The admin panel: a page shows a row, a later request acts on its id.    *)

\* viewNoticesInReview, viewNoticesFlagged, viewAllZones.
View(a, k) ==
  /\ rows[k] # Absent
  /\ page' = [page EXCEPT ![a] = [key |-> k, inc |-> rows[k].inc]]
  /\ UNCHANGED <<rows, vetted>>

\* Every request ends with the page left behind; on a row that is gone it
\* answers 404 and changes nothing (assertNoticeAffected).
NotFound(a) ==
  /\ page[a] # Absent
  /\ ~Live(page[a])
  /\ page' = [page EXCEPT ![a] = Absent]
  /\ UNCHANGED <<rows, vetted>>

Approved(notice) == [notice EXCEPT !.needsReview = FALSE, !.reasons = {}]

Approve(a) ==
  /\ Live(page[a])
  /\ LET k == page[a].key
     IN  /\ rows' = [rows EXCEPT ![k].notice = Approved(rows[k].notice)]
         /\ vetted' = vetted \cup
              IF rows[k].notice.needsReview
              THEN {<<k, rows[k].notice.desc, rows[k].notice.terms>>}
              ELSE {}
  /\ page' = [page EXCEPT ![a] = Absent]

DismissReports(a) ==
  /\ Live(page[a])
  /\ rows' = [rows EXCEPT ![page[a].key].reports = 0]
  /\ page' = [page EXCEPT ![a] = Absent]
  /\ UNCHANGED vetted

Reject(a) ==
  /\ Live(page[a])
  /\ rows' = [rows EXCEPT ![page[a].key] = Absent]
  /\ page' = [page EXCEPT ![a] = Absent]
  /\ UNCHANGED vetted

\* A manual notice skips the review queue; a second one under the same
\* (source, subKey) breaks the unique index and is not stored.
ManualNotice(t, s, d) ==
  [title |-> "own", desc |-> Brief, terms |-> t, shape |-> s,
   activeFrom |-> d, publishedAt |-> d,
   needsReview |-> FALSE, reasons |-> {}]

AddNotice(k) ==
  /\ Admins # {}
  /\ rows[k] = Absent
  /\ \E t \in Terms, s \in Shapes, d \in Dates :
       rows' = [rows EXCEPT ![k] = NewRow(k, ManualNotice(t, s, d))]
  /\ UNCHANGED <<page, vetted>>

----------------------------------------------------------------------------
(* The public API *)

\* POST /v1/map/notices/:id/report, an atomic increment.
Report(k) ==
  /\ rows[k] # Absent
  /\ rows[k].reports < MaxReports
  /\ rows' = [rows EXCEPT ![k].reports = @ + 1]
  /\ UNCHANGED <<page, vetted>>

StoreNext ==
  \/ \E a \in Admins, k \in Keys : View(a, k)
  \/ \E a \in Admins :
       NotFound(a) \/ Approve(a) \/ DismissReports(a) \/ Reject(a)
  \/ \E k \in ManualKeys : AddNotice(k)
  \/ \E k \in Keys : Report(k)

============================================================================
