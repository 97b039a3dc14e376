----------------------------- MODULE AdminPanel -----------------------------
(***************************************************************************)
(* One browser tab of the admin panel: the session behind it, the review   *)
(* queue with its pages and row actions, the create form with its geometry *)
(* editor, and the zone map.  A tab shows one page; what belongs to the    *)
(* others is in its initial state.  The queue is followed while a page of  *)
(* it is open; between two visits it may become anything.                  *)
(*                                                                         *)
(* Notices of the queue are numbered in the order it lists them in         *)
(* (activeFrom, then id).  The flagged and the report lists, and resolving *)
(* and deleting reports, go through the same code and are left out, as are *)
(* the fields of the form besides the drawing, the source and the subKey:  *)
(* they may be refused for reasons of their own.                           *)
(***************************************************************************)
EXTENDS GeometryEditor, ZonesMap

CONSTANTS
  Count,  \* the notices are 1 .. Count
  Limit,  \* page size of the queue
  Sources, SubKeys,
  NoText  \* an input left blank

ASSUME PanelAssumption ==
  /\ Count \in Nat /\ Limit \in Nat \ {0}
  /\ NoText \notin Sources

Ids == 1 .. Count

\* The identity of a notice.  The form requires a source; a subKey left blank is
\* stored as the empty text.
Keys == [source: Sources, subKey: SubKeys \cup {NoText}]
NoKey == [source |-> NoText, subKey |-> NoText]

VARIABLES
  cookie,   \* admin_session: "valid", "stale" (present, not verified) or "none"
  page,     \* the page shown
  expired,  \* the login page says that the session expired
  status,   \* id |-> "new" (not on the queue yet), "listed", "settled" or "gone"
  rows,     \* the rows of the open queue page
  offset, links,  \* its offset and the links it has
  asking,   \* the row whose deletion is being confirmed, 0 for none
  steady,   \* history: the queue did not change since its first page was opened
  seen,     \* history: the notices listed since, following Next
  key,      \* the source and subKey of the form
  result,   \* what the last create request came to, until the form is edited
  taken,    \* the keys of the table, while the form has a key or just had one
  saved     \* history: key |-> how many notices with it were saved from this form
            \* since source and subKey were typed, less those removed

queueVars == <<status, rows, offset, links, asking, steady, seen>>
sessionVars == <<cookie, page, expired>>
formVars == <<key, result, taken, saved>>
vars == <<sessionVars, queueVars, editorVars, zonesVars, formVars>>

Pages == {"login", "review", "new", "zones"}
NoResult == [kind |-> "none", stored |-> FALSE, areas |-> <<>>, key |-> NoKey]
NoneSaved == [k \in Keys |-> 0]

PanelTypeOK ==
  /\ cookie \in {"valid", "stale", "none"}
  /\ page \in Pages /\ expired \in BOOLEAN
  /\ expired => page = "login"
  /\ status \in [Ids -> {"new", "listed", "settled", "gone"}]
  /\ rows \subseteq Ids /\ offset \in 0 .. Count /\ links \subseteq {"next", "prev"}
  /\ asking = 0 \/ asking \in rows
  /\ steady \in BOOLEAN /\ seen \in Seq(Ids)
  /\ result \in [kind: {"none", "created", "shapes", "other"},
                 stored: BOOLEAN, areas: Seq(Part), key: Keys \cup {NoKey}]
  /\ key \in Keys \cup {NoKey} /\ taken \subseteq Keys
  /\ saved \in [Keys -> Nat]
  /\ EditorTypeOK /\ ZonesTypeOK

----------------------------------------------------------------------------
(* Parts of a page that is not shown *)

Unfollowed == [i \in Ids |-> "new"]

QueueInit ==
  /\ status = Unfollowed /\ rows = {} /\ offset = 0 /\ links = {}
  /\ asking = 0 /\ steady = FALSE /\ seen = <<>>

LeaveQueue ==
  /\ status' = Unfollowed /\ rows' = {} /\ offset' = 0 /\ links' = {}
  /\ asking' = 0 /\ steady' = FALSE /\ seen' = <<>>

Unkeyed == result' = NoResult /\ taken' = {} /\ saved' = NoneSaved

LeaveForm == Open(<<>>) /\ key' = NoKey /\ Unkeyed

LeaveZones ==
  /\ listed' = {} /\ pressed' = NoticeLayers /\ onMap' = NoticeLayers \X {0}
  /\ cached' = [d \in RefLayers |-> 0]
  /\ pending' = [d \in RefLayers |-> 0]
  /\ loads' = [d \in RefLayers |-> 0]

----------------------------------------------------------------------------
(* The queue *)

Listed(st) == Ascending({i \in Ids : st[i] = "listed"})

Taken_Exactly == Limit

\* One row more than the page holds is read, to know whether there are more.
Taken == Limit + 1

FirstOf(s, n) == SubSeq(s, 1, IF n < Len(s) THEN n ELSE Len(s))

PageAt(st, o) ==
  LET after == SubSeq(Listed(st), o + 1, Len(Listed(st))) IN FirstOf(after, Taken)

\* A page of the queue, as it is at this moment.  The links belong to the
\* table: a page with no rows has none.
ShowQueue(st, o, unbroken) ==
  LET got == FirstOf(PageAt(st, o), Limit)
  IN /\ rows' = ToSet(got)
     /\ offset' = o
     /\ links' = {l \in {"next", "prev"} :
                    \/ l = "next" /\ Len(PageAt(st, o)) > Limit
                    \/ l = "prev" /\ o > 0 /\ got # <<>>}
     /\ asking' = 0
     /\ steady' = (o = 0 \/ unbroken)
     /\ seen' = IF o = 0 THEN got ELSE IF unbroken THEN seen \o got ELSE <<>>

----------------------------------------------------------------------------
(* The session *)

\* A page navigation without a valid token ends on the login page.
ToLogin(says) ==
  /\ page' = "login" /\ expired' = says
  /\ LeaveQueue /\ LeaveForm /\ LeaveZones

Guarded_AnyToken == cookie # "none"

Guarded == cookie = "valid"

OpenPage(p) ==
  /\ page' = p /\ expired' = FALSE
  /\ IF p = "review"
     THEN /\ IF page = "review" THEN UNCHANGED status
             ELSE status' \in [Ids -> {"new", "listed"}]
          /\ ShowQueue(status', 0, FALSE)
     ELSE LeaveQueue
  /\ LeaveForm /\ LeaveZones

Visit(p) ==
  /\ IF Guarded THEN OpenPage(p) ELSE ToLogin(cookie = "stale")
  /\ UNCHANGED cookie

\* A wrong key renders the login page again, without the notice.
Login(right) ==
  /\ page = "login"
  /\ IF right THEN cookie' = "valid" /\ OpenPage("review")
              ELSE ToLogin(FALSE) /\ UNCHANGED cookie

Logout == page # "login" /\ cookie' = "none" /\ ToLogin(FALSE)

\* The token runs out, then the browser drops the cookie; another tab signs in
\* or out.
SessionChanges ==
  /\ cookie' \in {"valid", "stale", "none"}
  /\ cookie' = "stale" => cookie = "valid"
  /\ UNCHANGED <<page, expired, queueVars, editorVars, zonesVars, formVars>>

----------------------------------------------------------------------------
(* On a page of the queue *)

NextPage ==
  /\ "next" \in links
  /\ IF Guarded
     THEN /\ ShowQueue(status, offset + Limit, steady)
          /\ UNCHANGED <<page, expired, status, editorVars, zonesVars, formVars>>
     ELSE ToLogin(cookie = "stale")
  /\ UNCHANGED cookie

PreviousPage ==
  /\ "prev" \in links
  /\ IF Guarded
     THEN /\ ShowQueue(status, IF offset > Limit THEN offset - Limit ELSE 0, FALSE)
          /\ UNCHANGED <<page, expired, status, editorVars, zonesVars, formVars>>
     ELSE ToLogin(cookie = "stale")
  /\ UNCHANGED cookie

\* The table changes under the page.
Becomes(st) == status' = st /\ steady' = FALSE /\ seen' = <<>>

Exists(i) == status[i] \in {"listed", "settled"}

\* A request about a row.  htmx swaps the row for the empty answer of a request
\* that found its notice; a 401 sends the tab to the login page, a 404 leaves
\* the row.
Act(i, outcome) ==
  /\ IF Guarded
     THEN /\ IF Exists(i) THEN Becomes([status EXCEPT ![i] = outcome])
                          ELSE UNCHANGED <<status, steady, seen>>
          /\ rows' = IF Exists(i) THEN rows \ {i} ELSE rows
          /\ asking' = 0
          /\ UNCHANGED <<page, expired, offset, links, editorVars, zonesVars, formVars>>
     ELSE ToLogin(TRUE)
  /\ UNCHANGED cookie

Approve_StillFlagged(i) == asking = 0 /\ Act(i, "listed")

\* Publishes the notice and takes it off the queue.
Approve(i) == asking = 0 /\ Act(i, "settled")

\* Deleting asks first.
AskReject(i) ==
  /\ asking = 0 /\ asking' = i
  /\ UNCHANGED <<sessionVars, status, rows, offset, links, steady, seen,
                 editorVars, zonesVars, formVars>>

AnswerReject(yes) ==
  /\ asking # 0
  /\ IF yes THEN Act(asking, "gone")
     ELSE /\ asking' = 0
          /\ UNCHANGED <<sessionVars, status, rows, offset, links, steady, seen,
                         editorVars, zonesVars, formVars>>

\* An import or another administrator.
OthersWrite(i) ==
  /\ \/ status[i] \in {"new", "settled"} /\ Becomes([status EXCEPT ![i] = "listed"])
     \/ status[i] = "listed" /\ Becomes([status EXCEPT ![i] = "settled"])
     \/ Exists(i) /\ Becomes([status EXCEPT ![i] = "gone"])
  /\ UNCHANGED <<sessionVars, rows, offset, links, asking,
                 editorVars, zonesVars, formVars>>

QueueStep ==
  \/ NextPage \/ PreviousPage
  \/ \E i \in rows : Approve(i) \/ AskReject(i)
  \/ \E yes \in BOOLEAN : AnswerReject(yes)
  \/ \E i \in Ids : OthersWrite(i)

----------------------------------------------------------------------------
(* The create form *)

FormAfter_Emptied(areas) == <<>>

\* A refused form is rendered again with what was sent.
FormAfter(areas) == areas

KeyAfter_NoSubKey(k) == [k EXCEPT !.subKey = NoText]

KeyAfter(k) == k

Answer(kind, stored, areas, k) ==
  /\ result' = [kind |-> kind, stored |-> stored, areas |-> areas, key |-> k]
  /\ IF kind = "created" THEN Open(<<>>) /\ key' = NoKey
                         ELSE Open(FormAfter(areas)) /\ key' = KeyAfter(k)
  /\ IF stored THEN /\ taken' = taken \cup {k}
                    /\ saved' = [saved EXCEPT ![k] = @ + 1]
               ELSE UNCHANGED <<taken, saved>>

\* (source, subKey) is unique.
KeyFree(k) == k \notin taken

\* createNotice: the DTO, the insert, the log entry.  The log entry may fail
\* when the notice is saved.
Create(areas, k) ==
  /\ IF Guarded
     THEN /\ \/ ~AreasAccepted(areas) /\ Answer("shapes", FALSE, areas, k)
             \/ Answer("other", FALSE, areas, k)
             \/ AreasAccepted(areas) /\ KeyFree(k) /\ Answer("created", TRUE, areas, k)
             \/ AreasAccepted(areas) /\ KeyFree(k) /\ Answer("other", TRUE, areas, k)
          /\ UNCHANGED <<page, expired, queueVars, zonesVars>>
     ELSE ToLogin(cookie = "stale")
  /\ UNCHANGED cookie

\* The browser wants a source.
Submit == key # NoKey /\ Sendable(parts) /\ Create(Serialized(parts), key)

\* The answer is a page of its own, not a redirect: reloading it sends the
\* request again.
Reload == result.kind # "none" /\ Create(result.areas, result.key)

\* Source and subKey are typed: it is another notice, and the table may have
\* become anything since it was followed.
TypeKey(k) ==
  /\ k # key /\ key' = k
  /\ taken' \in SUBSET Keys /\ saved' = NoneSaved /\ result' = NoResult
  /\ UNCHANGED <<sessionVars, queueVars, editorVars, zonesVars>>

\* An import or another administrator.
OthersInsert(k) ==
  /\ key # NoKey \/ result.kind # "none"
  /\ k \notin taken /\ taken' = taken \cup {k}
  /\ UNCHANGED <<sessionVars, queueVars, editorVars, zonesVars, key, result, saved>>

OthersDelete(k) ==
  /\ taken' = taken \ {k}
  /\ saved' = [saved EXCEPT ![k] = 0]
  /\ UNCHANGED <<sessionVars, queueVars, editorVars, zonesVars, key, result>>

\* On a form without a key it is the beginning of another notice.
Draw ==
  /\ Edit
  /\ IF key = NoKey THEN Unkeyed ELSE result' = NoResult /\ UNCHANGED <<taken, saved>>
  /\ UNCHANGED <<sessionVars, queueVars, zonesVars, key>>

FormStep ==
  \/ Draw \/ Submit \/ Reload
  \/ \E k \in Keys : TypeKey(k) \/ OthersInsert(k)
  \/ \E k \in taken : OthersDelete(k)

----------------------------------------------------------------------------

Init ==
  /\ cookie = "none" /\ page = "login" /\ expired = FALSE
  /\ QueueInit /\ EditorInit /\ ZonesInit
  /\ key = NoKey /\ result = NoResult /\ taken = {} /\ saved = NoneSaved

Next ==
  \/ \E p \in Pages \ {"login"} : Visit(p)
  \/ \E right \in BOOLEAN : Login(right)
  \/ Logout
  \/ SessionChanges
  \/ page = "review" /\ QueueStep
  \/ page = "new" /\ FormStep
  \/ page = "zones" /\ ZonesStep
       /\ UNCHANGED <<sessionVars, queueVars, editorVars, formVars>>

Spec == Init /\ [][Next]_vars

----------------------------------------------------------------------------
(* Properties *)

(* Every vertex a submission would send is on the preview map.              *)
PreviewShowsWhatIsSent == Enclosed(Serialized(parts)) \subseteq preview

(* What the form lets through is refused for its shapes only when a position *)
(* lies outside the bounds of a coordinate: the page's minimum points are    *)
(* the server's.                                                             *)
RefusedOnlyForBounds ==
  result.kind = "shapes" => ~(Enclosed(result.areas) \subseteq World)

(* A stored notice whose parts repeat no position shows every part, and      *)
(* every part has its pin; a part with a repeated position may have lost its *)
(* shape.                                                                    *)
StoredPartsAreShown ==
  LET areas == result.areas
      Simple == \A i \in DOMAIN areas : IsInjective(areas[i].points)
  IN result.stored =>
       /\ Anchored(areas) = DOMAIN areas
       /\ Simple => Features(areas) = DOMAIN areas

(* A create request that is refused, for whatever reason, leaves the drawing *)
(* on the page.  (The page that says a notice was created is blank; reloading *)
(* it brings the drawing back with the refusal.)                             *)
RefusedDrawingKept ==
  [][result' # result /\ result'.kind \in {"shapes", "other"} /\ result.kind # "created"
       => Serialized(parts') = Serialized(parts) /\ preview' = Vertices(parts)]_vars

(* A notice may be saved although the answer is an error, and any answer may *)
(* be reloaded: whatever is sent again, until source or subKey are typed     *)
(* anew, there is one notice of this form in the table.                      *)
SavedOnce ==
  \A k, l \in Keys : saved[k] > 0 /\ saved[l] > 0 => k = l /\ saved[k] = 1

(* While nothing changes in the queue, following Next from its first page    *)
(* lists it from the top in order, no notice twice and none left out, and    *)
(* the last page is where Next is missing.                                   *)
PagesListTheQueue ==
  page = "review" /\ steady =>
    /\ seen = SubSeq(Listed(status), 1, Len(seen))
    /\ "next" \notin links => seen = Listed(status)

(* A row disappears from the open page only when its notice was decided,     *)
(* here or elsewhere.                                                        *)
RowsLeaveWhenDecided ==
  [][page = "review" /\ page' = "review" /\ offset' = offset /\ rows' \subseteq rows
       => \A i \in rows \ rows' : status'[i] # "listed"]_vars

(* Without a valid session nothing is shown, created or decided.             *)
OnlyWithASession ==
  [][\/ page' # page /\ page' # "login"
     \/ \E k \in Keys : saved'[k] > saved[k]
     \/ page = "review" /\ page' = "review" /\ rows' # rows
       => cookie' = "valid"]_vars
=============================================================================
