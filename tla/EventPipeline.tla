--------------------------- MODULE EventPipeline ---------------------------
(***************************************************************************)
(* The path of a captured event from an adapter or proxy to the browsers   *)
(* that watch the live timeline:                                           *)
(*                                                                         *)
(*   agentSink.Emit  -> events table -> Bus.Publish -> Server.broadcastSSE *)
(*                   -> one channel per connection -> handleEventStream    *)
(*                                                                         *)
(* Every Emit call runs on its own goroutine (an adapter's, or the one the *)
(* proxy starts for a response) and every connection has a handler         *)
(* goroutine.  sseMu is held for a whole broadcast; the channel operations *)
(* and the writes to the network happen outside it or never block under it.*)
(*                                                                         *)
(* A connection's channel is modelled together with its past: queued[c] is *)
(* everything ever put into it, and the first taken[c] entries of that     *)
(* have been received by the handler.                                      *)
(*                                                                         *)
(* The scenario tag that Emit reads between Validate and Insert is the     *)
(* subject of module Recording; nothing here depends on it.                *)
(***************************************************************************)
EXTENDS Naturals, Sequences

CONSTANTS Events,   \* the events emitted, one per Emit call (ids are fresh ULIDs)
          Clients,  \* the connections to GET /api/events/stream, one per request
          Reading,  \* the connections whose peer keeps reading until it closes
          ChanCap,  \* capacity of a connection's channel, 64 in the code
          Nobody    \* no goroutine broadcasts

ASSUME ReadingAssumption == Reading \subseteq Clients
ASSUME ChanCapAssumption == ChanCap \in Nat \ {0}
ASSUME NobodyAssumption == Nobody \notin Events

VARIABLES
  emitPc,      \* emitPc[e]: how far the Emit call of e has come
  stored,      \* the events table
  subscribed,  \* the API server's function is among the bus's subscribers
  sseMu,       \* the event whose broadcast holds sseMu, or Nobody
  todo,        \* todo[e]: connections e's broadcast has not visited yet
  sseClients,  \* the keys of Server.sseClients
  handlerPc,   \* handlerPc[c]: where the handler of connection c is
  queued,      \* queued[c]: every event ever put into c's channel
  taken,       \* taken[c]: how many of them the handler has received
  closed,      \* closed[c]: the request's context is done
  ticket,      \* history: ticket[e] > 0 numbers the broadcasts in lock order
  turns,       \* history: how many broadcasts have begun
  since        \* history: since[c] = turns when c was added to sseClients

emitVars == <<emitPc, stored, subscribed>>
busVars == <<sseMu, todo, ticket, turns>>
handlerVars == <<sseClients, handlerPc, taken, closed, since>>
vars == <<emitVars, busVars, handlerVars, queued>>

EmitStates == {"idle", "rejected", "stored", "calling", "sending", "returned"}
HandlerStates == {"none", "opened", "select", "writing", "leaving", "gone"}

\* The events in c's channel now, and those its handler has received.
Backlog(c) == Len(queued[c]) - taken[c]
Received(c) == {queued[c][i] : i \in 1 .. taken[c]}
Queued(c) == {queued[c][i] : i \in 1 .. Len(queued[c])}

Init ==
  /\ emitPc = [e \in Events |-> "idle"]
  /\ stored = {}
  /\ subscribed = FALSE
  /\ sseMu = Nobody
  /\ todo = [e \in Events |-> {}]
  /\ sseClients = {}
  /\ handlerPc = [c \in Clients |-> "none"]
  /\ queued = [c \in Clients |-> <<>>]
  /\ taken = [c \in Clients |-> 0]
  /\ closed = [c \in Clients |-> FALSE]
  /\ ticket = [e \in Events |-> 0]
  /\ turns = 0
  /\ since = [c \in Clients |-> 0]

-----------------------------------------------------------------------------
(* agentSink.Emit and Bus.Publish                                          *)

EmitStep(e, from, to) ==
  /\ emitPc[e] = from
  /\ emitPc' = [emitPc EXCEPT ![e] = to]

\* Mutant: the insert error is logged but no longer returned.
EmitFailsPublishes(e) ==
  /\ EmitStep(e, "idle", "stored")
  /\ UNCHANGED <<stored, subscribed, busVars, handlerVars, queued>>

\* Validate refuses the event, or the INSERT fails (context cancelled, database
\* busy or closed): Emit returns the error and publishes nothing.
EmitFails(e) ==
  /\ EmitStep(e, "idle", "rejected")
  /\ UNCHANGED <<stored, subscribed, busVars, handlerVars, queued>>

EmitInsert(e) ==
  /\ EmitStep(e, "idle", "stored")
  /\ stored' = stored \cup {e}
  /\ UNCHANGED <<subscribed, busVars, handlerVars, queued>>

\* NewServer subscribes to the bus; by then the adapters are already running.
SubscribeToEvents ==
  /\ ~subscribed
  /\ subscribed' = TRUE
  /\ UNCHANGED <<emitPc, stored, busVars, handlerVars, queued>>

\* Publish copies the subscribers under the read lock; with none, Emit returns.
Publish(e) ==
  /\ EmitStep(e, "stored", IF subscribed THEN "calling" ELSE "returned")
  /\ UNCHANGED <<stored, subscribed, busVars, handlerVars, queued>>

-----------------------------------------------------------------------------
(* Server.broadcastSSE                                                     *)

BeginTurn(e) ==
  /\ EmitStep(e, "calling", "sending")
  /\ sseMu' = e
  /\ todo' = [todo EXCEPT ![e] = sseClients]
  /\ turns' = turns + 1
  /\ ticket' = [ticket EXCEPT ![e] = turns + 1]
  /\ UNCHANGED <<stored, subscribed, handlerVars, queued>>

\* Mutant: the map is ranged over without taking sseMu.
BroadcastLockUnguarded(e) == BeginTurn(e)

BroadcastLock(e) ==
  /\ sseMu = Nobody
  /\ BeginTurn(e)

\* Mutants: a send that grows the buffer, one that blocks, and a channel treated
\* as full one entry early.
SendUnbounded(e, c) == queued' = [queued EXCEPT ![c] = Append(@, e)]

SendBlocking(e, c) ==
  /\ Backlog(c) < ChanCap
  /\ queued' = [queued EXCEPT ![c] = Append(@, e)]

SendOneEarly(e, c) ==
  queued' = [queued EXCEPT ![c] =
               IF Backlog(c) + 1 < ChanCap THEN Append(@, e) ELSE @]

\* The select with a default: the event is dropped for a slow client.
Send(e, c) ==
  queued' = [queued EXCEPT ![c] =
               IF Backlog(c) < ChanCap THEN Append(@, e) ELSE @]

\* One iteration of the loop over the map, whose order is unspecified.
BroadcastSend(e, c) ==
  /\ emitPc[e] = "sending"
  /\ c \in todo[e]
  /\ Send(e, c)
  /\ todo' = [todo EXCEPT ![e] = @ \ {c}]
  /\ UNCHANGED <<emitVars, handlerVars, sseMu, ticket, turns>>

BroadcastUnlock(e) ==
  /\ todo[e] = {}
  /\ EmitStep(e, "sending", "returned")
  /\ sseMu' = Nobody
  /\ UNCHANGED <<stored, subscribed, todo, ticket, turns, handlerVars, queued>>

-----------------------------------------------------------------------------
(* handleEventStream                                                       *)

HandlerStep(c, from, to) ==
  /\ handlerPc[c] = from
  /\ handlerPc' = [handlerPc EXCEPT ![c] = to]

\* The headers are flushed before the connection is registered: the peer is
\* told the stream is open while no event can reach it yet.
StreamOpen(c) ==
  /\ subscribed
  /\ HandlerStep(c, "none", "opened")
  /\ UNCHANGED <<emitVars, busVars, sseClients, taken, closed, since, queued>>

AddSSEClient(c) ==
  /\ sseMu = Nobody
  /\ HandlerStep(c, "opened", "select")
  /\ sseClients' = sseClients \cup {c}
  /\ since' = [since EXCEPT ![c] = turns]
  /\ UNCHANGED <<emitVars, busVars, taken, closed, queued>>

StreamTake(c) ==
  /\ Backlog(c) > 0
  /\ HandlerStep(c, "select", "writing")
  /\ taken' = [taken EXCEPT ![c] = @ + 1]
  /\ UNCHANGED <<emitVars, busVars, sseClients, closed, since, queued>>

\* Mutant: the handler returns after its first event.
StreamWrittenOnce(c) ==
  /\ HandlerStep(c, "writing", "leaving")
  /\ UNCHANGED <<emitVars, busVars, sseClients, taken, closed, since, queued>>

\* The write and the flush end: the peer took the bytes, or the connection is
\* closed and their errors are ignored.
StreamWritten(c) ==
  /\ HandlerStep(c, "writing", "select")
  /\ UNCHANGED <<emitVars, busVars, sseClients, taken, closed, since, queued>>

\* The peer goes away at any time.
PeerCloses(c) ==
  /\ handlerPc[c] \notin {"none", "gone"}
  /\ ~closed[c]
  /\ closed' = [closed EXCEPT ![c] = TRUE]
  /\ UNCHANGED <<emitVars, busVars, sseClients, handlerPc, taken, since, queued>>

\* select takes either ready case, so an event may still be received and
\* written after the context is done.
StreamLeave(c) ==
  /\ closed[c]
  /\ HandlerStep(c, "select", "leaving")
  /\ UNCHANGED <<emitVars, busVars, sseClients, taken, closed, since, queued>>

ForgetClient(c) ==
  /\ HandlerStep(c, "leaving", "gone")
  /\ sseClients' = sseClients \ {c}
  /\ UNCHANGED <<emitVars, busVars, taken, closed, since, queued>>

\* Mutants: the deferred removal is missing, or does not take the lock.
RemoveSSEClientMissing(c) ==
  /\ HandlerStep(c, "leaving", "gone")
  /\ UNCHANGED <<emitVars, busVars, sseClients, taken, closed, since, queued>>

RemoveSSEClientUnlocked(c) == ForgetClient(c)

RemoveSSEClient(c) ==
  /\ sseMu = Nobody
  /\ ForgetClient(c)
-----------------------------------------------------------------------------
Emitting(e) ==
  \/ EmitInsert(e)
  \/ EmitFails(e)
  \/ Publish(e)
  \/ BroadcastLock(e)
  \/ \E c \in Clients : BroadcastSend(e, c)
  \/ BroadcastUnlock(e)

Handling(c) ==
  \/ StreamOpen(c)
  \/ AddSSEClient(c)
  \/ StreamTake(c)
  \/ StreamWritten(c)
  \/ PeerCloses(c)
  \/ StreamLeave(c)
  \/ RemoveSSEClient(c)

Next ==
  \/ SubscribeToEvents
  \/ \E e \in Events : Emitting(e)
  \/ \E c \in Clients : Handling(c)

Spec == Init /\ [][Next]_vars

(* A goroutine that can run does run.  Nothing obliges an adapter to emit, *)
(* a browser to connect or to leave, or - unless it is in Reading or has   *)
(* closed - a peer to read what is written to it.                          *)
Fairness ==
  /\ \A e \in Events :
       /\ WF_vars(Publish(e))
       /\ WF_vars(BroadcastLock(e))
       /\ WF_vars(\E c \in Clients : BroadcastSend(e, c))
       /\ WF_vars(BroadcastUnlock(e))
  /\ \A c \in Clients :
       /\ WF_vars(AddSSEClient(c))
       /\ WF_vars(StreamTake(c))
       /\ WF_vars(StreamLeave(c))
       /\ WF_vars(RemoveSSEClient(c))
       /\ WF_vars(StreamWritten(c) /\ (closed[c] \/ c \in Reading))

FairSpec == Spec /\ Fairness
-----------------------------------------------------------------------------
TypeOK ==
  /\ emitPc \in [Events -> EmitStates]
  /\ stored \subseteq Events
  /\ subscribed \in BOOLEAN
  /\ sseMu \in Events \cup {Nobody}
  /\ todo \in [Events -> SUBSET Clients]
  /\ sseClients \subseteq Clients
  /\ handlerPc \in [Clients -> HandlerStates]
  /\ queued \in [Clients -> Seq(Events)]
  /\ taken \in [Clients -> Nat]
  /\ \A c \in Clients : Backlog(c) \in 0 .. ChanCap
  /\ closed \in [Clients -> BOOLEAN]
  /\ ticket \in [Events -> Nat]
  /\ turns \in Nat
  /\ since \in [Clients -> Nat]

(* No browser is ever sent an event that the database does not hold: an    *)
(* event whose insert failed is not published, so whatever the live        *)
(* timeline shows can also be fetched (agent.go, Emit: Insert, then        *)
(* Publish).                                                               *)
StoredFirst == \A c \in Clients : Queued(c) \subseteq stored

(* Every connection gets its events in the one order in which the          *)
(* broadcasts took sseMu, and none twice: two browsers never disagree on   *)
(* the order of two events, however the emitting goroutines interleave.    *)
FeedInOrder ==
  \A c \in Clients : \A i, j \in 1 .. Len(queued[c]) :
    i < j => ticket[queued[c][i]] < ticket[queued[c][j]]

(* The broadcasts that c is owed: begun after it registered, and past it.  *)
Owed(c) == {e \in Events : ticket[e] > since[c] /\ c \notin todo[e]}

\* Those that are not among the events ever put into its channel.
Missed(c) == Owed(c) \ Queued(c)

(* However long it has been registered, a connection comes to miss a       *)
(* broadcast in one way only: the broadcast passes it while a whole        *)
(* channel of events lies there untaken.                                   *)
CompleteFeed ==
  [][\A c \in sseClients' : \A e \in Missed(c)' \ Missed(c) :
       c \in todo[e] /\ Backlog(c) = ChanCap]_vars

(* Once its handler has returned, nothing is put into a connection's       *)
(* channel any more, although broadcasts iterate over the clients while    *)
(* handlers come and go.                                                   *)
NothingAfterGone ==
  [][\A c \in Clients : handlerPc[c] = "gone" => queued'[c] = queued[c]]_vars

(* A capture never waits for a browser: once its event is handed to the    *)
(* subscriber, Emit returns, even when some peer stops reading for ever    *)
(* (the select with a default in broadcastSSE).                            *)
EmitReturns == \A e \in Events : emitPc[e] = "calling" ~> emitPc[e] = "returned"

(* What was queued for a browser that keeps reading reaches it, unless it  *)
(* goes away first.                                                        *)
ReaderIsServed ==
  \A c \in Reading : \A e \in Events :
    e \in Queued(c) ~> (e \in Received(c) \/ closed[c])

(* A connection whose peer went away is eventually forgotten, also when    *)
(* events keep coming: sseClients does not grow with every page reload.    *)
ClosedIsForgotten ==
  \A c \in Clients : closed[c] ~> [](handlerPc[c] = "gone" /\ c \notin sseClients)
-----------------------------------------------------------------------------
(* The pipeline implements the feed: tickets are ranks, and a viewer has   *)
(* seen what its handler has received.                                     *)
Feed == INSTANCE EventFeed WITH
  Viewers <- Clients,
  recorded <- stored,
  rank <- ticket,
  last <- turns,
  seen <- [c \in Clients |-> Received(c)],
  top <- [c \in Clients |->
            IF taken[c] = 0 THEN 0 ELSE ticket[queued[c][taken[c]]]]

ImplementsFeed == Feed!Spec
=============================================================================
