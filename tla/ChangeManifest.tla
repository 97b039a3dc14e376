--------------------------- MODULE ChangeManifest ---------------------------
(***************************************************************************)
(* The change manifest: a revision of the public notices, made of their    *)
(* number and of the latest instant one of them was written, cached for a  *)
(* while, which a client polls to decide whether to fetch the notices      *)
(* again.  It fetches them page by page: every page is a statement of its  *)
(* own, and the next one starts as many rows further on, wherever these    *)
(* rows are by then.                                                       *)
(*                                                                         *)
(* Every statement stamps the rows it writes with its own instant; an      *)
(* import stamps all of them with the instant its transaction began, and   *)
(* they become visible together when it commits.  Two statements never     *)
(* share an instant.                                                       *)
(*                                                                         *)
(* The end of a notice (activeTo) is left out: it moves no revision, and   *)
(* clients drop what has lapsed by nextExpiryAt.  A notice that lapses     *)
(* between two pages tears the list as a removal does.                     *)
(***************************************************************************)
EXTENDS Naturals, FiniteSets

CONSTANTS
  Ids,        \* notices, in the order of their ids
  Texts,      \* everything a client is shown of one
  Clients,
  Readers,    \* requests that may find the cache empty at the same time
  Limit,      \* rows of a page
  Absent,
  Starts,     \* instants from which a notice may be in force
  Importing,  \* whether import transactions run
  MaxTime     \* bound of the clock

Times == 0..MaxTime

\* `from` is activeFrom, `touched` is updatedAt.
Notice == [public: BOOLEAN, text: Texts, from: Starts, touched: Times]
Rev == [count: Nat, latest: Times]

\* rev: the last revision seen.  fetching: it has moved and the notices are
\* being fetched.  read: the offset of the page to come.  at, shown: the
\* instant of the first page and the answers so far.
Client ==
  [rev: Rev \cup {Absent}, fetching: BOOLEAN, read: Nat, at: Times,
   shown: SUBSET (Ids \X Texts)]

ASSUME ManifestAssumption ==
  /\ Ids \subseteq Nat /\ IsFiniteSet(Ids)
  /\ Limit \in Nat \ {0}
  /\ MaxTime \in Nat
  /\ Starts \subseteq Nat
  /\ Importing \in BOOLEAN
  /\ Absent \notin Notice \cup Rev \cup Times

VARIABLES
  now,
  notices,    \* the table: id |-> Notice or Absent
  began,      \* the instant the running import transaction began, or Absent
  computed,   \* reader |-> a revision read and not yet cached, or Absent
  cache,      \* the cached revision, or Absent
  clients,
  overtaken,  \* history: since the client began to fetch, a transaction has
              \* published rows stamped no later than the revision it saw
  torn        \* history: between two of its pages a row left the list or
              \* moved towards its end

tableVars == <<now, notices, began>>
history == <<overtaken, torn>>
vars == <<now, notices, began, computed, cache, clients, history>>

Offline ==
  [rev |-> Absent, fetching |-> FALSE, read |-> 0, at |-> 0, shown |-> {}]

TypeOK ==
  /\ now \in Times
  /\ notices \in [Ids -> Notice \cup {Absent}]
  /\ began \in Times \cup {Absent}
  /\ computed \in [Readers -> Rev \cup {Absent}]
  /\ cache \in Rev \cup {Absent}
  /\ clients \in [Clients -> Client]
  /\ overtaken \in [Clients -> BOOLEAN]
  /\ torn \in [Clients -> BOOLEAN]

Init ==
  /\ now = 0
  /\ notices = [i \in Ids |-> Absent]
  /\ began = Absent
  /\ computed = [r \in Readers |-> Absent]
  /\ cache = Absent
  /\ clients = [c \in Clients |-> Offline]
  /\ overtaken = [c \in Clients |-> FALSE]
  /\ torn = [c \in Clients |-> FALSE]

----------------------------------------------------------------------------
(* The public notices and their revision *)

Public(table) == {i \in Ids : table[i] # Absent /\ table[i].public}

\* COUNT(*) and MAX(updatedAt) of the public rows, 0 when there are none.
IsRev_CountOnly(rev, table) ==
  /\ rev.count = Cardinality(Public(table))
  /\ rev.latest = 0

IsRev(rev, table) ==
  /\ rev.count = Cardinality(Public(table))
  /\ \/ Public(table) = {} /\ rev.latest = 0
     \/ \E i \in Public(table) : rev.latest = table[i].touched
  /\ \A i \in Public(table) : table[i].touched <= rev.latest

\* What getNotices answers by default: public and in force.
InForce == {i \in Public(notices) : notices[i].from <= now}
Shows(ids) == {<<i, notices[i].text>> : i \in ids}

\* ORDER BY activeFrom DESC, id ASC.
Before(i, j) ==
  \/ notices[i].from > notices[j].from
  \/ notices[i].from = notices[j].from /\ i < j

Position(i) == Cardinality({j \in InForce : Before(j, i)})

\* The page that skips `offset` rows, and whether rows are left after it.
Page(offset) ==
  {i \in InForce : Position(i) >= offset /\ Position(i) < offset + Limit}
More(offset) == \E i \in InForce : Position(i) >= offset + Limit

----------------------------------------------------------------------------
(* Writers *)

readings == <<computed, cache, clients>>
Elsewhere == UNCHANGED <<began, readings, history>>

\* The client has fetched a page since its last revision.
Started(c) ==
  /\ clients[c].rev # Absent
  /\ clients[c].fetching => clients[c].read > 0

\* Rows after the one that goes or moves come forward, past the offset of a
\* client that is between two pages.
Shifts ==
  \E i \in InForce :
    notices'[i] = Absent \/ ~notices'[i].public
      \/ notices'[i].from \notin notices[i].from..now

Tears(c) == torn[c] \/ (clients[c].read > 0 /\ Shifts)

Instant == now < MaxTime /\ now' = now + 1

Tick == Instant /\ UNCHANGED notices /\ Elsewhere

\* addNtm
Add(i) ==
  /\ notices[i] = Absent
  /\ Instant
  /\ \E text \in Texts, from \in Starts :
       notices' = [notices EXCEPT ![i] =
         [public |-> TRUE, text |-> text, from |-> from, touched |-> now']]
  /\ Elsewhere

Approve_Untouched(i) ==
  /\ notices[i] # Absent
  /\ Instant
  /\ notices' = [notices EXCEPT ![i].public = TRUE]
  /\ Elsewhere

\* approveNtM
Approve(i) ==
  /\ notices[i] # Absent
  /\ Instant
  /\ notices' = [notices EXCEPT ![i].public = TRUE, ![i].touched = now']
  /\ Elsewhere

\* report and dismissReports: nothing a client is shown changes.
Count(i) ==
  /\ notices[i] # Absent
  /\ Instant
  /\ notices' = [notices EXCEPT ![i].touched = now']
  /\ Elsewhere

\* rejectNtM
Remove(i) ==
  /\ notices[i] # Absent
  /\ Instant
  /\ notices' = [notices EXCEPT ![i] = Absent]
  /\ torn' = [c \in Clients |-> Tears(c)]
  /\ UNCHANGED <<began, readings, overtaken>>

\* The transaction of an import: it may insert, rewrite, send to review or
\* delete any rows.
Begin ==
  /\ Importing
  /\ began = Absent
  /\ Instant
  /\ began' = now'
  /\ UNCHANGED <<notices, readings, history>>

Imported == [public: BOOLEAN, text: Texts, from: Starts, touched: {began}]

Overtakes(c) ==
  \/ overtaken[c]
  \/ Started(c) /\ began <= clients[c].rev.latest

Commit ==
  /\ began # Absent
  /\ \E written \in SUBSET Ids : \E deleted \in SUBSET (Ids \ written) :
       \E new \in [written -> Imported] :
         notices' = [i \in Ids |->
           IF i \in written THEN new[i]
           ELSE IF i \in deleted THEN Absent ELSE notices[i]]
  /\ began' = Absent
  /\ overtaken' = [c \in Clients |-> Overtakes(c)]
  /\ torn' = [c \in Clients |-> Tears(c)]
  /\ UNCHANGED <<now, readings>>

----------------------------------------------------------------------------
(* The manifest and its readers *)

Compute_Null(r) ==
  /\ cache = Absent
  /\ computed[r] = Absent
  /\ \E rev \in [count: {Cardinality(Public(notices))}, latest: Times \cup {Absent}] :
       /\ IF Public(notices) = {} THEN rev.latest = Absent
          ELSE rev.latest # Absent /\ IsRev(rev, notices)
       /\ computed' = [computed EXCEPT ![r] = rev]
  /\ UNCHANGED <<tableVars, cache, clients, history>>

\* A miss: the table is read, and the result cached some time later; what
\* other requests read may have been cached in between.
Compute(r) ==
  /\ cache = Absent
  /\ computed[r] = Absent
  /\ \E rev \in [count: {Cardinality(Public(notices))}, latest: Times] :
       /\ IsRev(rev, notices)
       /\ computed' = [computed EXCEPT ![r] = rev]
  /\ UNCHANGED <<tableVars, cache, clients, history>>

Store(r) ==
  /\ computed[r] # Absent
  /\ cache' = computed[r]
  /\ computed' = [computed EXCEPT ![r] = Absent]
  /\ UNCHANGED <<tableVars, clients, history>>


\* MAP_CACHE_TTL_MS after it was stored.
Expire ==
  /\ cache # Absent
  /\ cache' = Absent
  /\ UNCHANGED <<tableVars, computed, clients, history>>

\* The client sees a revision other than the last one it saw, and starts to
\* fetch, from the first page.
Poll(c) ==
  /\ cache # Absent
  /\ clients[c].rev # cache
  /\ clients' = [clients EXCEPT
       ![c] = [Offline EXCEPT !.rev = cache, !.fetching = TRUE]]
  /\ overtaken' = [overtaken EXCEPT ![c] = FALSE]
  /\ torn' = [torn EXCEPT ![c] = FALSE]
  /\ UNCHANGED <<tableVars, computed, cache>>

\* A page, and the next one as long as it says hasMore.
Fetch(c) ==
  /\ clients[c].fetching
  /\ LET offset == clients[c].read
     IN  clients' = [clients EXCEPT
           ![c].fetching = More(offset),
           ![c].read = IF More(offset) THEN offset + Limit ELSE 0,
           ![c].at = IF offset = 0 THEN now ELSE @,
           ![c].shown = @ \cup Shows(Page(offset))]
  /\ UNCHANGED <<tableVars, computed, cache, history>>

Manifest == (\E r \in Readers : Compute(r) \/ Store(r)) \/ Expire

Next ==
  \/ Tick \/ Begin \/ Commit
  \/ \E i \in Ids : Add(i) \/ Approve(i) \/ Count(i) \/ Remove(i)
  \/ Manifest
  \/ \E c \in Clients : Poll(c) \/ Fetch(c)

Spec == Init /\ [][Next]_vars

\* Entries expire, requests are answered and clients keep polling.
Fairness ==
  /\ WF_vars(\E r \in Readers : Compute(r))
  /\ \A r \in Readers : WF_vars(Store(r))
  /\ WF_vars(Expire)
  /\ \A c \in Clients : SF_vars(Poll(c)) /\ WF_vars(Fetch(c))

FairSpec == Spec /\ Fairness

----------------------------------------------------------------------------
(* Properties *)

UpToDate(c) ==
  /\ clients[c].rev # Absent
  /\ ~clients[c].fetching
  /\ IsRev(clients[c].rev, notices)

\* A client whose last revision is the present one shows every public notice
\* that was in force when it began to fetch, in its present wording, however
\* stale the cached revisions were that it polled, however the requests for
\* them overlapped and whatever was written before, between and after its pages
\* - unless a transaction was overtaken or the list was torn between two pages
\* (computeManifest: MAX(updatedAt) moves where a count would not; getNotices:
\* a row inserted or rewritten between two pages loses no other one).
NothingMissed ==
  \A c \in Clients :
    UpToDate(c) /\ ~overtaken[c] /\ ~torn[c] =>
      Shows({i \in Public(notices) : notices[i].from <= clients[c].at})
        \subseteq clients[c].shown

Visible == {<<i, notices[i].text, notices[i].from>> : i \in Public(notices)}

\* "Moves on every change the app can see": no step changes a public notice
\* and leaves the revision, except the commit of a transaction after a public
\* row has been stamped later than it.
ManifestMoves ==
  [][Visible' # Visible =>
       \/ \A n \in 0..Cardinality(Ids), t \in Times :
            LET rev == [count |-> n, latest |-> t]
            IN  ~(IsRev(rev, notices) /\ IsRev(rev, notices)')
       \/ /\ began # Absent /\ began' = Absent
          /\ \E i \in Public(notices) : notices[i].touched > began
    ]_vars


\* "A tiny change-detection token the app polls ... to decide whether its
\* cached datasets/notices are stale": a client whose last revision is the
\* present one shows nothing that has been taken back.
NothingStale ==
  \A c \in Clients :
    UpToDate(c) /\ ~overtaken[c] =>
      clients[c].shown \subseteq Shows(Public(notices))

=============================================================================
