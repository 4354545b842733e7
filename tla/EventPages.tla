----------------------------- MODULE EventPages -----------------------------
(***************************************************************************)
(* The events table as GET /api/events shows it: the newest events first,  *)
(* a page at a time.  A page ends at an event, and the next one takes the  *)
(* events whose millisecond lies strictly before that event's.             *)
(*                                                                         *)
(* An event is stamped when it is captured and stored some time later, so  *)
(* the stamps need not follow the order in which the rows appear, and      *)
(* several events may have the same.  Events are named by the order of     *)
(* their rows.                                                             *)
(***************************************************************************)
EXTENDS Naturals, Sequences, SequencesExt

CONSTANTS
  NumEvents,  \* bound: events captured
  MaxStamp,   \* bound: the milliseconds they are stamped with
  WalkLimit   \* the limit of a client that reads page after page

Events == 1 .. NumEvents

ASSUME PageSizes ==
  /\ NumEvents \in Nat
  /\ MaxStamp \in Nat
  /\ WalkLimit \in Nat \ {0}

VARIABLES
  at,      \* at[e]: the stamp of event e, 0 while it is not stored
  walkPc,  \* a client that reads all pages: "idle", "walking" or "done"
  cursor,  \* the cursor of its next request, 0 for none
  known,   \* the events that were stored when it began
  met,     \* those it has been given
  edges    \* the stamps that were its cursors

pageVars == <<at, walkPc, cursor, known, met, edges>>
walkVars == <<walkPc, cursor, known, met, edges>>

Stored == {e \in Events : at[e] > 0}

PagesTypeOK ==
  /\ at \in [Events -> 0 .. MaxStamp]
  /\ walkPc \in {"idle", "walking", "done"}
  /\ cursor \in 0 .. MaxStamp
  /\ known \subseteq Stored
  /\ met \subseteq Stored
  /\ edges \subseteq 1 .. MaxStamp

PagesInit ==
  /\ at = [e \in Events |-> 0]
  /\ walkPc = "idle"
  /\ cursor = 0
  /\ known = {}
  /\ met = {}
  /\ edges = {}

\* EventRepository.Insert, of an event stamped t.
Insert(e, t) ==
  /\ Stored = 1 .. e - 1
  /\ at' = [at EXCEPT ![e] = t]
  /\ UNCHANGED walkVars

\* Mutant: the comparison is off by one.
OlderByTwo(before) == {e \in Stored : before = 0 \/ at[e] + 1 < before}

Older(before) == {e \in Stored : before = 0 \/ at[e] < before}

\* The pages ListByTimestamp may return: events with the same stamp come in any order.
ListByTimestamp(limit, before) ==
  {page \in SeqOf(Events, limit) :
     /\ IsInjective(page)
     /\ ToSet(page) \subseteq Older(before)
     /\ Len(page) = limit \/ ToSet(page) = Older(before)
     /\ \A i, j \in DOMAIN page : i < j => at[page[i]] >= at[page[j]]
     /\ \A e \in Older(before) \ ToSet(page), f \in ToSet(page) : at[e] <= at[f]}

-----------------------------------------------------------------------------
(* A client that reads page after page.                                    *)

WalkBegins ==
  /\ walkPc = "idle"
  /\ walkPc' = "walking"
  /\ known' = Stored
  /\ UNCHANGED <<at, cursor, met, edges>>

\* A short page has no nextCursor.
WalkEnds(page) ==
  /\ Len(page) < WalkLimit
  /\ walkPc' = "done"
  /\ UNCHANGED <<cursor, edges>>

\* nextCursor is the last event's stamp and id.  The number alone is a cursor; the
\* whole text is none to int64Query, and asks for the first page again.
WalkGoesOn(page) ==
  /\ Len(page) = WalkLimit
  /\ \/ /\ cursor' = at[Last(page)]
        /\ edges' = edges \cup {at[Last(page)]}
     \/ cursor' = 0 /\ UNCHANGED edges
  /\ UNCHANGED walkPc

WalkReads ==
  /\ walkPc = "walking"
  /\ \E page \in ListByTimestamp(WalkLimit, cursor) :
       /\ met' = met \cup ToSet(page)
       /\ WalkEnds(page) \/ WalkGoesOn(page)
  /\ UNCHANGED <<at, known>>

-----------------------------------------------------------------------------
(* A client that read to the last page has been given everything that was  *)
(* there when it began, but for events with the very stamp of a page's     *)
(* last one, whatever was stored meanwhile and with whatever stamps.       *)
WalkSkipsOnlyTies ==
  walkPc = "done" => \A e \in known \ met : at[e] \in edges
=============================================================================
