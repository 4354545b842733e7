------------------------------- MODULE Studio -------------------------------
(***************************************************************************)
(* Studio's timeline page.  The browser keeps one copy of the list of      *)
(* events, which three things write: the response to GET /api/events       *)
(* replaces it, an event of the live stream is put at its front, and it    *)
(* is dropped when no page showed it for a while.  Opening the page        *)
(* fetches the list unless the copy counts as fresh.                       *)
(*                                                                         *)
(* The stream is opened with the tab, independently of any fetch.  When it *)
(* breaks it is closed and opened again after a delay; what is broadcast   *)
(* meanwhile is not sent again.  How the agent stores and broadcasts is    *)
(* the subject of EventPipeline, of which a stored event, one broadcast    *)
(* and one connection at a time are left here.  The rules of the copy's    *)
(* age and of the requests are those of the query library (external).      *)
(***************************************************************************)
EXTENDS EventPages

CONSTANTS
  StreamCap,  \* events a connection holds that the browser has not handled
  Setups      \* whether a tab is open, its user moves about, a client reads all pages,
              \* and bounds: [tab, visits, walk, events, stamps, limit]

ASSUME StreamCapAssumption == StreamCap \in Nat \ {0}
ASSUME SetupsAssumption ==
  Setups \subseteq [tab : BOOLEAN, visits : BOOLEAN, walk : BOOLEAN,
                   events : Nat, stamps : Nat, limit : Nat \ {0}]

VARIABLES
  setup,
  feed,         \* the events broadcast, in that order
  stream,       \* the EventSource: "none", "opening", "listening", or "closed"
  wire,         \* the events sent to it that are not handled yet
  heard,        \* history: the events handled, in that order
  copy,         \* where the list comes from: "none", "stream", "response", or
                \* "null", the items of a response that found no events
  items,        \* the list
  fetch,        \* the request for it: "none", "asked" or "answered"
  answer,       \* the page it was answered with
  asked,        \* history: the events that were stored at that time
  mounted,      \* the timeline page is shown
  stale,        \* the list was not written for five seconds
  missed,       \* history: broadcast since the list's SELECT, and not sent or not handled
  overwritten   \* history: handled before the response that could not hold them came

streamVars == <<feed, stream, wire, heard, missed>>
listVars == <<copy, items, stale, overwritten>>
fetchVars == <<fetch, answer, asked>>
vars == <<pageVars, setup, streamVars, listVars, fetchVars, mounted>>

PageLimit == setup.limit       \* 100
CopyLimit == 2 * setup.limit   \* 200

Cut(list, n) == SubSeq(list, 1, Min({n, Len(list)}))

TypeOK ==
  /\ PagesTypeOK
  /\ setup \in Setups
  /\ feed \in SeqOf(Events, NumEvents)
  /\ ToSet(feed) \subseteq Stored
  /\ stream \in {"none", "opening", "listening", "closed"}
  /\ wire \in SeqOf(Events, StreamCap)
  /\ stream # "listening" => wire = <<>>
  /\ heard \in SeqOf(Events, NumEvents)
  /\ ToSet(heard) \subseteq ToSet(feed)
  /\ copy \in {"none", "stream", "response", "null"}
  /\ items \in SeqOf(Events, CopyLimit)
  /\ copy \in {"none", "null"} <=> items = <<>>
  /\ fetch \in {"none", "asked", "answered"}
  /\ answer \in SeqOf(Events, PageLimit)
  /\ asked \subseteq Stored
  /\ mounted \in BOOLEAN
  /\ stale \in BOOLEAN
  /\ missed \subseteq ToSet(feed)
  /\ overwritten \subseteq ToSet(heard)

\* Nothing was stored, and a tab shows the timeline or another page.
Init ==
  /\ PagesInit
  /\ setup \in Setups
  /\ mounted \in {FALSE, setup.tab}
  /\ feed = <<>>
  /\ stream = IF setup.tab THEN "opening" ELSE "none"
  /\ wire = <<>>
  /\ heard = <<>>
  /\ copy = "none"
  /\ items = <<>>
  /\ fetch = IF mounted THEN "asked" ELSE "none"
  /\ answer = <<>>
  /\ asked = {}
  /\ stale = FALSE
  /\ missed = {}
  /\ overwritten = {}

-----------------------------------------------------------------------------
(* The agent.                                                              *)

Store ==
  /\ \E e \in Events, t \in 1 .. MaxStamp :
       e <= setup.events /\ t <= setup.stamps /\ Insert(e, t)
  /\ UNCHANGED <<setup, streamVars, listVars, fetchVars, mounted>>

\* A connection that is not registered, or is full, goes without the event.
Broadcast(e) ==
  /\ setup.tab
  /\ e \in Stored \ ToSet(feed)
  /\ feed' = Append(feed, e)
  /\ IF stream = "listening" /\ Len(wire) < StreamCap
     THEN wire' = Append(wire, e) /\ UNCHANGED missed
     ELSE missed' = missed \cup {e} /\ UNCHANGED wire
  /\ UNCHANGED <<pageVars, setup, stream, heard, listVars, fetchVars, mounted>>

-----------------------------------------------------------------------------
(* useSSE.                                                                 *)

\* Mutant: the server sends first what was broadcast before.
OpenWithBacklog ==
  /\ stream = "opening"
  /\ stream' = "listening"
  /\ wire' = Cut(feed, StreamCap)
  /\ UNCHANGED <<pageVars, setup, feed, heard, missed, listVars, fetchVars, mounted>>

\* The connection is registered; the browser may have been told earlier that it is live.
Open ==
  /\ stream = "opening"
  /\ stream' = "listening"
  /\ UNCHANGED <<pageVars, setup, feed, wire, heard, missed, listVars, fetchVars, mounted>>

\* Mutant: the stream is closed and no timer is set.
BreakForGood ==
  /\ stream \in {"opening", "listening"}
  /\ stream' = "none"
  /\ wire' = <<>>
  /\ missed' = missed \cup ToSet(wire)
  /\ UNCHANGED <<pageVars, setup, feed, heard, listVars, fetchVars, mounted>>

\* onerror, before or after the stream was open: what was under way is lost.
Break ==
  /\ stream \in {"opening", "listening"}
  /\ stream' = "closed"
  /\ wire' = <<>>
  /\ missed' = missed \cup ToSet(wire)
  /\ UNCHANGED <<pageVars, setup, feed, heard, listVars, fetchVars, mounted>>

\* The timer, whose delay grows to thirty seconds.  Nothing is fetched again.
Reconnect ==
  /\ stream = "closed"
  /\ stream' = "opening"
  /\ UNCHANGED <<pageVars, setup, feed, wire, heard, missed, listVars, fetchVars, mounted>>

\* Mutant: the list is not cut.
PutInFrontUncut(e) ==
  IF copy = "null"
  THEN UNCHANGED <<copy, items, stale>>
  ELSE /\ items' = <<e>> \o items
       /\ copy' = IF copy = "none" THEN "stream" ELSE copy
       /\ stale' = FALSE

\* Writing the list makes it fresh.  The items of an empty response are null, and
\* putting an event before null throws, which the handler ignores.
PutInFront(e) ==
  IF copy = "null"
  THEN UNCHANGED <<copy, items, stale>>
  ELSE /\ items' = Cut(<<e>> \o items, CopyLimit)
       /\ copy' = IF copy = "none" THEN "stream" ELSE copy
       /\ stale' = FALSE

\* Mutant: the handler belongs to the page, and hears nothing while it is not shown.
HandleIfShown ==
  /\ wire # <<>>
  /\ wire' = Tail(wire)
  /\ heard' = Append(heard, Head(wire))
  /\ IF mounted THEN PutInFront(Head(wire)) ELSE UNCHANGED <<copy, items, stale>>
  /\ UNCHANGED <<pageVars, setup, feed, stream, missed, overwritten, fetchVars, mounted>>

\* The handler of 'timeline.event'.
Handle ==
  /\ wire # <<>>
  /\ wire' = Tail(wire)
  /\ heard' = Append(heard, Head(wire))
  /\ PutInFront(Head(wire))
  /\ UNCHANGED <<pageVars, setup, feed, stream, missed, overwritten, fetchVars, mounted>>

-----------------------------------------------------------------------------
(* useEvents.                                                              *)

\* Mutant: a list that exists is never fetched again.
ShowOnce ==
  /\ setup.visits
  /\ ~mounted
  /\ mounted' = TRUE
  /\ fetch' = IF fetch = "none" /\ copy = "none" THEN "asked" ELSE fetch
  /\ UNCHANGED <<pageVars, setup, streamVars, listVars, answer, asked>>

\* The page is opened.  A request that is under way is not made twice.
Show ==
  /\ setup.visits
  /\ ~mounted
  /\ mounted' = TRUE
  /\ fetch' = IF fetch = "none" /\ (copy = "none" \/ stale) THEN "asked" ELSE fetch
  /\ UNCHANGED <<pageVars, setup, streamVars, listVars, answer, asked>>

\* It is left for another page; the request goes on.
Hide ==
  /\ setup.visits
  /\ mounted
  /\ mounted' = FALSE
  /\ UNCHANGED <<pageVars, setup, streamVars, listVars, fetchVars>>

Age ==
  /\ copy # "none"
  /\ ~stale
  /\ stale' = TRUE
  /\ UNCHANGED <<pageVars, setup, streamVars, copy, items, overwritten, fetchVars, mounted>>

\* A list that nothing shows or fetches is dropped after five minutes.
Collect ==
  /\ copy # "none"
  /\ ~mounted
  /\ fetch = "none"
  /\ copy' = "none"
  /\ items' = <<>>
  /\ stale' = FALSE
  /\ UNCHANGED <<pageVars, setup, streamVars, overwritten, fetchVars, mounted>>

\* handleListEvents reads the table.
Answer ==
  /\ fetch = "asked"
  /\ fetch' = "answered"
  /\ answer' \in ListByTimestamp(PageLimit, 0)
  /\ asked' = Stored
  /\ UNCHANGED <<pageVars, setup, streamVars, listVars, mounted>>

\* The request or its answer is lost: it is made once more, or given up.
FetchFails ==
  /\ fetch # "none"
  /\ fetch' \in {"none", "asked"}
  /\ answer' = <<>>
  /\ UNCHANGED <<pageVars, setup, streamVars, listVars, asked, mounted>>

\* Mutant: the response is put before what there is.
ArriveMerging ==
  /\ fetch = "answered"
  /\ fetch' = "none"
  /\ items' = Cut(answer \o items, CopyLimit)
  /\ copy' = IF items' = <<>> THEN "null" ELSE "response"
  /\ answer' = <<>>
  /\ stale' = FALSE
  /\ missed' = missed \ asked
  /\ overwritten' = ToSet(heard) \ asked
  /\ UNCHANGED <<pageVars, setup, feed, stream, wire, heard, asked, mounted>>

\* The response replaces the list, whatever was put in front of it meanwhile.
Arrive ==
  /\ fetch = "answered"
  /\ fetch' = "none"
  /\ items' = answer
  /\ copy' = IF answer = <<>> THEN "null" ELSE "response"
  /\ answer' = <<>>
  /\ stale' = FALSE
  /\ missed' = missed \ asked
  /\ overwritten' = ToSet(heard) \ asked
  /\ UNCHANGED <<pageVars, setup, feed, stream, wire, heard, asked, mounted>>

-----------------------------------------------------------------------------
Walk ==
  /\ setup.walk
  /\ WalkBegins \/ WalkReads
  /\ UNCHANGED <<setup, streamVars, listVars, fetchVars, mounted>>

Tab ==
  \/ Open \/ Break \/ Reconnect \/ Handle
  \/ Show \/ Hide \/ Age \/ Collect
  \/ Answer \/ FetchFails \/ Arrive

Next ==
  \/ Store
  \/ \E e \in Events : Broadcast(e)
  \/ Tab
  \/ Walk

(* What is stored is broadcast, timers fire, handlers run, and what fails  *)
(* at one time works at a later one.                                       *)
Fairness ==
  /\ WF_vars(\E e \in Events : Broadcast(e))
  /\ WF_vars(Reconnect)
  /\ SF_vars(Open)
  /\ WF_vars(Handle)
  /\ WF_vars(Age)
  /\ SF_vars(Answer)
  /\ SF_vars(Arrive)

(* A user who comes back to the page again and again.                      *)
Visits == WF_vars(Hide) /\ WF_vars(Show)

Spec == Init /\ [][Next]_vars /\ Fairness /\ Visits

-----------------------------------------------------------------------------
\* There is a page of other events.
Crowded(e) == Cardinality(Stored \ {e}) >= PageLimit

Copies(e) == Cardinality({i \in DOMAIN items : items[i] = e})

(* No event is listed more than twice, however often the stream breaks and *)
(* the list is fetched: once by the response, once by the stream.          *)
TwiceAtMost == \A e \in Events : Copies(e) <= 2

(* A stored event is missing from a list that was fetched only because it  *)
(* is still under way, the stream went without it, the response came after *)
(* it but was older, or a page of other events was stored.                 *)
HolesHaveACause ==
  copy = "response" =>
    \A e \in Stored \ ToSet(items) :
      \/ e \notin ToSet(feed)
      \/ e \in ToSet(wire) \cup missed \cup overwritten
      \/ Crowded(e)

(* While a tab is open its stream is open again and again, however often   *)
(* it breaks and the attempts to open it fail.                             *)
StreamComesBack == []<>(setup.tab => stream = "listening")

(* The holes do not stay: for a user who comes back to the page, every     *)
(* event is listed for good once no more are captured, also if the list    *)
(* began without a response, or with an empty one.                         *)
ReturningHeals ==
  \A e \in Events :
    setup.visits /\ e \in Stored ~> [](copy = "none" \/ e \in ToSet(items) \/ Crowded(e))

-----------------------------------------------------------------------------
(* The tab is a viewer of the feed, across all its connections: it is      *)
(* never shown an event twice, nor an older one after a newer one.         *)
Rank(e) == SelectInSeq(feed, LAMBDA f : f = e)

Feed == INSTANCE EventFeed WITH
  Viewers <- {"tab"},
  recorded <- Stored,
  rank <- [e \in Events |-> Rank(e)],
  last <- Len(feed),
  seen <- [v \in {"tab"} |-> ToSet(heard)],
  top <- [v \in {"tab"} |-> IF heard = <<>> THEN 0 ELSE Rank(Last(heard))]

ImplementsFeed == Feed!Spec
=============================================================================
