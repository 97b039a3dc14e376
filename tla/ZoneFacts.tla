----------------------------- MODULE ZoneFacts -----------------------------
(***************************************************************************)
(* The facts a zone of the community map states: the clearance to keep,    *)
(* its window and the notice that establishes it, read from the placemark's*)
(* description and, for the notice, from the folder's label.               *)
(*                                                                         *)
(* A text is a sequence of statements, as the patterns find them in prose: *)
(* a clearance, a start, an end, a reference to a notice.  Wording the     *)
(* patterns do not match, links and the reference's number are left out.   *)
(***************************************************************************)
EXTENDS Naturals, SequencesExt

CONSTANTS
  Statements,   \* what a text may state
  Dates,        \* days, as instants
  NoSuchDay,    \* a day no calendar has, such as 31 June
  Unstated,
  MaxStated     \* bound on the statements of description and label

\* What the patterns recognise.
IsStatement(s) ==
  CASE s.says = "clearance" ->
         s.amount \in Nat /\ s.unit \in {"m", "nm"} /\ s.of \in {"distance", "zone"}
    [] s.says \in {"from", "to"} -> s.day \in Dates \cup {NoSuchDay}
    [] s.says = "notice" -> s.year \in Nat /\ s.broken \in BOOLEAN
    [] OTHER -> FALSE

ASSUME FactsAssumption ==
  /\ Unstated \notin Dates \cup Nat \cup Statements /\ NoSuchDay \notin Dates
  /\ \A s \in Statements : IsStatement(s)
  /\ MaxStated \in Nat

VARIABLES
  description,  \* sourceDescription, as read so far
  label         \* folderName

textVars == <<description, label>>

----------------------------------------------------------------------------
(* validity.ts *)

\* The first match of a pattern.
FirstOf(text, Matches(_)) ==
  LET found == {i \in DOMAIN text : Matches(text[i])}
  IN IF found = {} THEN Unstated ELSE text[Min(found)]

Orelse(x, y) == IF x # Unstated THEN x ELSE y

ToDate(day) == IF day = NoSuchDay THEN Unstated ELSE day

\* Only the first date is looked at.
DateOf(text, word) ==
  LET first == FirstOf(text, LAMBDA s : s.says = word)
  IN IF first = Unstated THEN Unstated ELSE ToDate(first.day)

\* A reference broken over lines or tags is found in plain text only.
ParseNoticeRef(text) == FirstOf(text, LAMBDA s : s.says = "notice")

\* The year of the first unbroken reference, if it is plausible.
ParseNoticeDate(text) ==
  LET first == FirstOf(text, LAMBDA s : s.says = "notice" /\ ~s.broken)
  IN IF first = Unstated \/ first.year \notin 2000 .. 2100 THEN Unstated ELSE first.year

Metre == 1
NauticalMile == 1852

IsMetres(s) == s.says = "clearance" /\ s.unit = "m" /\ s.of = "distance"
IsNauticalMiles(s) == s.says = "clearance" /\ s.unit = "nm"

ParseDistance_NoFactor(text) ==
  LET found == Orelse(FirstOf(text, IsMetres), FirstOf(text, IsNauticalMiles))
  IN IF found = Unstated \/ found.amount = 0 THEN Unstated ELSE found.amount

\* The amount is the one in metres if there is any, the factor is that of
\* nautical miles if they occur anywhere.
ParseDistance(text) ==
  LET miles == FirstOf(text, IsNauticalMiles)
      found == Orelse(FirstOf(text, IsMetres), miles)
  IN IF found = Unstated \/ found.amount = 0 THEN Unstated
     ELSE found.amount * (IF miles # Unstated THEN NauticalMile ELSE Metre)

----------------------------------------------------------------------------
(* resolveZoneFacts, before the stored row and the scrape time are asked *)

Facts ==
  [noticeRef |-> Orelse(ParseNoticeRef(description), ParseNoticeRef(label)),
   noticeDate |-> Orelse(ParseNoticeDate(description), ParseNoticeDate(label)),
   from |-> DateOf(description, "from"),
   to |-> DateOf(description, "to"),
   distance |-> ParseDistance(description)]

----------------------------------------------------------------------------

TextInit == description = <<>> /\ label = <<>>

TextNext ==
  /\ Len(description) + Len(label) < MaxStated
  /\ \E s \in Statements :
       \/ description' = Append(description, s) /\ UNCHANGED label
       \/ s.says = "notice" /\ label' = Append(label, s) /\ UNCHANGED description

TextSpec == TextInit /\ [][TextNext]_textVars

----------------------------------------------------------------------------
(* Properties *)

NoticesIn(text) == {i \in DOMAIN text : text[i].says = "notice"}

Plausible(notice) == ~notice.broken /\ notice.year \in 2000 .. 2100

\* The clearance is the first one stated, in metres, as long as the text does not
\* mix units; a window starts on a day the text names; and the date a zone falls
\* back on is the year of the notice it refers to, unless that reference is broken
\* or its year implausible.
FactsAsStated ==
  LET stated == description \o label
      clearances == {i \in DOMAIN description :
                       IsMetres(description[i]) \/ IsNauticalMiles(description[i])}
      first == description[Min(clearances)]
      notice == stated[Min(NoticesIn(stated))]
  IN /\ clearances # {} /\ (\A i \in clearances : description[i].unit = first.unit) =>
          Facts.distance = IF first.amount = 0 THEN Unstated
                           ELSE IF first.unit = "m" THEN first.amount
                           ELSE 1852 * first.amount
     /\ Facts.from # Unstated =>
          \E s \in Range(description) : s.says = "from" /\ s.day = Facts.from
     /\ NoticesIn(stated) # {} /\ Plausible(notice) =>
          Facts.noticeRef = notice /\ Facts.noticeDate = notice.year
=============================================================================
