------------------------ MODULE EventPipelineProofs ------------------------
(***************************************************************************)
(* Proofs about EventPipeline, for any events, any connections and any     *)
(* channel capacity.  Everything rests on one inductive invariant, IInv:   *)
(* broadcasts are serialized by sseMu and numbered in that order, so what  *)
(* a channel holds is older than the broadcast that is still to visit it,  *)
(* and a broadcast visits registered connections only.                     *)
(***************************************************************************)
EXTENDS EventPipeline, FiniteSetTheorems, TLAPS

\* The stages of Emit, against the table.
Stages ==
  \A e \in Events :
    e \in stored <=> emitPc[e] \in {"stored", "calling", "sending", "returned"}

\* sseMu is held exactly by the Emit call that is sending, and its broadcast is
\* the latest one.
Mutex ==
  \A e \in Events :
    /\ ticket[e] <= turns
    /\ ticket[e] > 0 => emitPc[e] \in {"sending", "returned"}
    /\ emitPc[e] = "sending" <=> sseMu = e
    /\ emitPc[e] = "sending" => ticket[e] = turns /\ ticket[e] > 0
    /\ emitPc[e] # "sending" => todo[e] = {}

\* A connection is registered from AddSSEClient to RemoveSSEClient.
Registered ==
  sseClients = {c \in Clients : handlerPc[c] \in {"select", "writing", "leaving"}}

\* A broadcast has yet to visit registered connections only, and none of them
\* holds an event as new as its own.
Visits ==
  \A e \in Events : \A c \in todo[e] :
    /\ c \in sseClients
    /\ \A i \in 1 .. Len(queued[c]) : ticket[queued[c][i]] < ticket[e]

\* Whatever was queued had its turn.
Numbered ==
  \A c \in Clients : \A i \in 1 .. Len(queued[c]) : ticket[queued[c][i]] > 0

Order ==
  /\ Stages
  /\ Mutex
  /\ Registered
  /\ Visits
  /\ Numbered
  /\ FeedInOrder

IInv == TypeOK /\ Order
-----------------------------------------------------------------------------
(* The program starts in a state of the right types.                       *)
LEMMA TypeInit == Init => TypeOK
<1> SUFFICES ASSUME Init PROVE TypeOK
  OBVIOUS
<1>1. \A c \in Clients : Backlog(c) \in 0 .. ChanCap
  BY ChanCapAssumption DEF Init, Backlog
<1>2. queued \in [Clients -> Seq(Events)]
  <2>1. <<>> \in Seq(Events)
    OBVIOUS
  <2> QED
    BY <2>1 DEF Init
<1> QED
  BY <1>1, <1>2 DEF Init, TypeOK, EmitStates, HandlerStates

(* No step of any goroutine breaks the types.                              *)
LEMMA TypeStep == TypeOK /\ [Next]_vars => TypeOK'
<1> SUFFICES ASSUME TypeOK, [Next]_vars
             PROVE  TypeOK'
  OBVIOUS
<1> USE DEF TypeOK, EmitStates, HandlerStates, Backlog
<1>1. CASE UNCHANGED vars
  BY <1>1 DEF vars, emitVars, busVars, handlerVars
<1>2. CASE SubscribeToEvents
  BY <1>2 DEF SubscribeToEvents, busVars, handlerVars
<1>3. ASSUME NEW e \in Events, Emitting(e)
      PROVE  TypeOK'
  <2>1. CASE EmitInsert(e) \/ EmitFails(e) \/ Publish(e)
    BY <2>1 DEF EmitInsert, EmitFails, Publish, EmitStep, busVars, handlerVars
  <2>2. CASE BroadcastLock(e)
    BY <2>2 DEF BroadcastLock, BeginTurn, EmitStep, handlerVars
  <2>3. ASSUME NEW c \in Clients, BroadcastSend(e, c)
        PROVE  TypeOK'
    <3>1. queued' \in [Clients -> Seq(Events)]
      BY <2>3 DEF BroadcastSend, Send
    <3>2. \A d \in Clients : Len(queued'[d]) - taken'[d] \in 0 .. ChanCap
      BY <2>3, ChanCapAssumption DEF BroadcastSend, Send, handlerVars
    <3>3. todo' \in [Events -> SUBSET Clients]
      BY <2>3 DEF BroadcastSend
    <3> QED
      BY <2>3, <3>1, <3>2, <3>3 DEF BroadcastSend, emitVars, handlerVars
  <2>4. CASE BroadcastUnlock(e)
    BY <2>4 DEF BroadcastUnlock, EmitStep, handlerVars
  <2> QED
    BY <1>3, <2>1, <2>2, <2>3, <2>4 DEF Emitting
<1>4. ASSUME NEW c \in Clients, Handling(c)
      PROVE  TypeOK'
  <2>1. CASE StreamOpen(c) \/ StreamWritten(c) \/ StreamLeave(c)
    BY <2>1 DEF StreamOpen, StreamWritten, StreamLeave, HandlerStep, emitVars, busVars
  <2>5. CASE PeerCloses(c)
    BY <2>5 DEF PeerCloses, emitVars, busVars
  <2>2. CASE AddSSEClient(c)
    BY <2>2 DEF AddSSEClient, HandlerStep, emitVars, busVars
  <2>3. CASE StreamTake(c)
    <3>1. UNCHANGED <<emitVars, busVars>>
      BY <2>3 DEF StreamTake, HandlerStep
    <3>2. taken' \in [Clients -> Nat] /\ handlerPc' \in [Clients -> HandlerStates]
      BY <2>3 DEF StreamTake, HandlerStep
    <3>3. \A d \in Clients : Len(queued'[d]) - taken'[d] \in 0 .. ChanCap
      BY <2>3, ChanCapAssumption DEF StreamTake
    <3> QED
      BY <2>3, <3>1, <3>2, <3>3 DEF StreamTake, emitVars, busVars
  <2>4. CASE RemoveSSEClient(c)
    BY <2>4 DEF RemoveSSEClient, ForgetClient, HandlerStep, emitVars, busVars
  <2> QED
    BY <1>4, <2>1, <2>2, <2>3, <2>4, <2>5 DEF Handling
<1> QED
  BY <1>1, <1>2, <1>3, <1>4 DEF Next

(* Every variable keeps its type, and no channel ever holds more than      *)
(* ChanCap events, however broadcasts and handlers interleave.             *)
THEOREM TypeCorrect == Spec => []TypeOK
<1>1. Init => TypeOK
  BY TypeInit
<1>2. TypeOK /\ [Next]_vars => TypeOK'
  BY TypeStep
<1> QED
  BY <1>1, <1>2, PTL DEF Spec
-----------------------------------------------------------------------------
(* The invariant holds initially. *)
LEMMA InitInvariant == Init => IInv
<1> SUFFICES ASSUME Init
             PROVE  IInv
  OBVIOUS
<1>1. TypeOK
  BY TypeInit
<1>2. Stages /\ Mutex /\ Registered /\ Visits
  BY NobodyAssumption DEF Init, Stages, Mutex, Registered, Visits
<1>3. Numbered /\ FeedInOrder
  BY DEF Init, Numbered, FeedInOrder
<1> QED
  BY <1>1, <1>2, <1>3 DEF IInv, Order

(* An Emit call keeps it.                                                  *)
LEMMA EmittingInvariant ==
  ASSUME IInv, NEW e \in Events, Emitting(e)
  PROVE  Order'
<1>i. TypeOK /\ Stages /\ Mutex /\ Registered /\ Visits /\ Numbered
  BY DEF IInv, Order
<1>j. FeedInOrder
  BY DEF IInv, Order
<1> USE <1>i, <1>j
<1> DEFINE Ticket(c, i) == ticket[queued[c][i]]
<1>0. \A c \in Clients : \A i \in 1 .. Len(queued[c]) :
        /\ queued[c][i] \in Events
        /\ Ticket(c, i) \in Nat \ {0}
        /\ Ticket(c, i) <= turns
  BY DEF TypeOK, Numbered, Mutex
<1>1. CASE EmitInsert(e) \/ EmitFails(e) \/ Publish(e)
  <2>1. Stages'
    BY <1>1 DEF EmitInsert, EmitFails, Publish, EmitStep, Stages, TypeOK
  <2>2. Mutex'
    BY <1>1 DEF EmitInsert, EmitFails, Publish, EmitStep, Mutex, TypeOK,
                busVars, handlerVars
  <2>3. UNCHANGED <<busVars, handlerVars, queued>>
    BY <1>1 DEF EmitInsert, EmitFails, Publish
  <2>4. Registered' /\ Visits' /\ Numbered' /\ FeedInOrder'
    BY <2>3 DEF Registered, Visits, Numbered, FeedInOrder, busVars, handlerVars
  <2> QED
    BY <2>1, <2>2, <2>4 DEF Order
<1>2. CASE BroadcastLock(e)
  <2> USE <1>2 DEF BroadcastLock, BeginTurn, EmitStep, handlerVars
  <2>1. ticket[e] = 0 /\ sseMu = Nobody /\ emitPc[e] = "calling"
    <3>1. sseMu = Nobody /\ emitPc[e] = "calling"
      OBVIOUS
    <3>2. ticket[e] \in Nat /\ ~(ticket[e] > 0)
      BY <3>1 DEF Mutex, TypeOK
    <3> QED
      BY <3>1, <3>2
  <2>2. Stages'
    BY DEF Stages, TypeOK
  <2>3. Mutex'
    <3>1. \A f \in Events \ {e} :
            /\ emitPc'[f] = emitPc[f]
            /\ ticket'[f] = ticket[f]
            /\ todo'[f] = todo[f]
            /\ emitPc[f] # "sending"
      BY <2>1, NobodyAssumption DEF Mutex, TypeOK
    <3>2. emitPc'[e] = "sending" /\ ticket'[e] = turns + 1 /\ turns' = turns + 1
      BY DEF TypeOK
    <3>3. turns \in Nat /\ \A f \in Events : ticket[f] <= turns /\ ticket[f] \in Nat
      BY DEF Mutex, TypeOK
    <3> QED
      BY <3>1, <3>2, <3>3 DEF Mutex
  <2>4. \A c \in Clients : \A i \in 1 .. Len(queued[c]) :
          queued[c][i] # e /\ ticket'[queued'[c][i]] = Ticket(c, i)
    BY <1>0, <2>1 DEF TypeOK
  <2>5. Registered'
    BY DEF Registered
  <2>6. Visits'
    <3>1. \A f \in Events \ {e} : todo'[f] = {}
      BY <2>1, NobodyAssumption DEF Mutex, TypeOK
    <3>2. todo'[e] = sseClients /\ ticket'[e] = turns + 1
      BY DEF TypeOK
    <3> QED
      BY <1>0, <2>4, <3>1, <3>2 DEF Visits, TypeOK
  <2>7. Numbered' /\ FeedInOrder'
    BY <1>0, <2>4 DEF Numbered, FeedInOrder
  <2> QED
    BY <2>2, <2>3, <2>5, <2>6, <2>7 DEF Order
<1>3. ASSUME NEW c \in Clients, BroadcastSend(e, c)
      PROVE  Order'
  <2> USE <1>3 DEF BroadcastSend, handlerVars, emitVars
  <2>1. /\ c \in sseClients
        /\ emitPc[e] = "sending"
        /\ ticket[e] > 0
        /\ \A i \in 1 .. Len(queued[c]) : Ticket(c, i) < ticket[e]
    BY DEF Visits, Mutex
  <2>2. \A d \in Clients \ {c} : queued'[d] = queued[d]
    BY DEF Send, TypeOK
  <2>3. \/ queued'[c] = queued[c] /\ Backlog(c) >= ChanCap
        \/ queued'[c] = Append(queued[c], e)
    BY ChanCapAssumption DEF Send, TypeOK
  <2>4. /\ \A f \in Events : todo'[f] = IF f = e THEN todo[e] \ {c} ELSE todo[f]
        /\ \A f \in Events \ {e} : emitPc[f] # "sending"
    BY DEF TypeOK, Mutex
  <2>5. Stages' /\ Registered'
    BY DEF Stages, Registered
  <2>6. Mutex'
    BY <2>1, <2>4 DEF Mutex
  <2>7. Visits'
    BY <2>2, <2>4 DEF Visits, Mutex, TypeOK
  <2>8. Numbered' /\ FeedInOrder'
    <3>1. CASE queued'[c] = queued[c]
      BY <2>2, <3>1 DEF Numbered, FeedInOrder
    <3>2. CASE queued'[c] = Append(queued[c], e)
      <4>1. /\ Len(queued'[c]) = Len(queued[c]) + 1
            /\ queued'[c][Len(queued[c]) + 1] = e
            /\ \A i \in 1 .. Len(queued[c]) : queued'[c][i] = queued[c][i]
        BY <3>2 DEF TypeOK
      <4>2. Len(queued[c]) \in Nat
        BY DEF TypeOK
      <4>3. \A i \in 1 .. Len(queued'[c]) :
              i = Len(queued[c]) + 1 \/ i \in 1 .. Len(queued[c])
        BY <4>1, <4>2
      <4>4. \A i \in 1 .. Len(queued'[c]) : ticket'[queued'[c][i]] > 0
        BY <1>0, <2>1, <4>1, <4>3
      <4>5. \A i, j \in 1 .. Len(queued'[c]) :
              i < j => ticket'[queued'[c][i]] < ticket'[queued'[c][j]]
        <5>1. \A i, j \in 1 .. Len(queued[c]) : i < j => Ticket(c, i) < Ticket(c, j)
          BY DEF FeedInOrder
        <5>2. \A i \in 1 .. Len(queued[c]) : ~(Len(queued[c]) + 1 < i)
          BY <4>2
        <5>3. ASSUME NEW i \in 1 .. Len(queued[c]), NEW j \in 1 .. Len(queued[c]), i < j
              PROVE  ticket'[queued'[c][i]] < ticket'[queued'[c][j]]
          BY <2>1, <4>1, <5>1, <5>3
        <5>4. ASSUME NEW i \in 1 .. Len(queued[c])
              PROVE  ticket'[queued'[c][i]] < ticket'[queued'[c][Len(queued[c]) + 1]]
          BY <2>1, <4>1
        <5> QED
          BY <4>3, <5>2, <5>3, <5>4
      <4> QED
        BY <2>2, <4>4, <4>5 DEF Numbered, FeedInOrder
    <3> QED
      BY <2>3, <3>1, <3>2
  <2> QED
    BY <2>5, <2>6, <2>7, <2>8 DEF Order
<1>4. CASE BroadcastUnlock(e)
  <2> USE <1>4 DEF BroadcastUnlock, EmitStep, handlerVars
  <2>1. Stages' /\ Registered'
    BY DEF Stages, Registered, TypeOK
  <2>2. Mutex'
    BY NobodyAssumption DEF Mutex, TypeOK
  <2>3. Visits' /\ Numbered' /\ FeedInOrder'
    BY DEF Visits, Numbered, FeedInOrder
  <2> QED
    BY <2>1, <2>2, <2>3 DEF Order
<1> QED
  BY <1>1, <1>2, <1>3, <1>4 DEF Emitting

(* A connection's handler keeps it.                                        *)
LEMMA HandlingInvariant ==
  ASSUME IInv, NEW c \in Clients, Handling(c)
  PROVE  Order'
<1>i. TypeOK /\ Stages /\ Mutex /\ Registered /\ Visits /\ Numbered
  BY DEF IInv, Order
<1>j. FeedInOrder
  BY DEF IInv, Order
<1> USE <1>i, <1>j
<1>1. UNCHANGED <<emitVars, busVars, queued>>
  BY DEF Handling, StreamOpen, AddSSEClient, StreamTake, StreamWritten, PeerCloses,
         StreamLeave, RemoveSSEClient, ForgetClient
<1>2. Stages' /\ Mutex' /\ Numbered' /\ FeedInOrder'
  BY <1>1 DEF Stages, Mutex, Numbered, FeedInOrder, emitVars, busVars
<1>3. CASE \/ StreamOpen(c) \/ StreamTake(c) \/ StreamWritten(c)
           \/ PeerCloses(c) \/ StreamLeave(c)
  <2> USE <1>3 DEF StreamOpen, StreamTake, StreamWritten, PeerCloses, StreamLeave
  <2>1. UNCHANGED <<sseClients, since>>
    OBVIOUS
  <2>2. Registered'
    BY DEF Registered, HandlerStep, TypeOK
  <2>3. Visits'
    BY <1>1, <2>1 DEF Visits, busVars
  <2> QED
    BY <1>2, <2>2, <2>3 DEF Order
<1>4. CASE AddSSEClient(c)
  <2> USE <1>4 DEF AddSSEClient
  <2>1. Registered'
    BY DEF Registered, HandlerStep, TypeOK
  <2>2. Visits'
    BY <1>1 DEF Visits, busVars
  <2> QED
    BY <1>2, <2>1, <2>2 DEF Order
<1>5. CASE RemoveSSEClient(c)
  <2> USE <1>5 DEF RemoveSSEClient, ForgetClient
  <2>1. Registered'
    BY DEF Registered, HandlerStep, TypeOK
  <2>2. Visits'
    <3>1. \A e \in Events : todo[e] = {}
      BY NobodyAssumption DEF Mutex
    <3> QED
      BY <1>1, <3>1 DEF Visits, busVars
  <2> QED
    BY <1>2, <2>1, <2>2 DEF Order
<1> QED
  BY <1>3, <1>4, <1>5 DEF Handling

(* IInv is inductive.                                                      *)
LEMMA StepInvariant == IInv /\ [Next]_vars => IInv'
<1> SUFFICES ASSUME IInv, [Next]_vars
             PROVE  IInv'
  OBVIOUS
<1>1. TypeOK'
  BY TypeStep DEF IInv
<1>2. Order'
  <2>1. CASE UNCHANGED vars \/ SubscribeToEvents
    <3>1. UNCHANGED <<emitPc, stored, busVars, handlerVars, queued>>
      BY <2>1 DEF SubscribeToEvents, vars, emitVars
    <3>2. Stages' /\ Mutex' /\ Registered' /\ Visits' /\ Numbered' /\ FeedInOrder'
      BY <3>1 DEF IInv, Order, Stages, Mutex, Registered, Visits, Numbered,
                  FeedInOrder, busVars, handlerVars
    <3> QED
      BY <3>2 DEF Order
  <2>2. ASSUME NEW e \in Events, Emitting(e)
        PROVE  Order'
    BY <2>2, EmittingInvariant
  <2>3. ASSUME NEW c \in Clients, Handling(c)
        PROVE  Order'
    BY <2>3, HandlingInvariant
  <2> QED
    BY <2>1, <2>2, <2>3 DEF Next
<1> QED
  BY <1>1, <1>2 DEF IInv

(* IInv holds in every state the program reaches.                          *)
THEOREM Invariance == Spec => []IInv
<1> QED
  BY InitInvariant, StepInvariant, PTL DEF Spec
-----------------------------------------------------------------------------
(* The database holds whatever was put into a connection's channel: what   *)
(* was queued had its turn, and only a stored event gets one (Emit returns *)
(* the insert's error before it publishes).                                *)
THEOREM OnlyStoredIsSent == Spec => []StoredFirst
<1>1. IInv => StoredFirst
  <2> SUFFICES ASSUME IInv, NEW c \in Clients, NEW i \in 1 .. Len(queued[c])
               PROVE  queued[c][i] \in stored
    BY DEF StoredFirst, Queued
  <2>1. queued[c][i] \in Events /\ ticket[queued[c][i]] > 0
    BY DEF IInv, Order, TypeOK, Numbered
  <2> QED
    BY <2>1 DEF IInv, Order, Mutex, Stages
<1> QED
  BY <1>1, Invariance, PTL

(* All connections get the broadcast events in one order, without          *)
(* repetition, for any number of emitting goroutines and connections.      *)
THEOREM OneOrder == Spec => []FeedInOrder
<1>1. IInv => FeedInOrder
  BY DEF IInv, Order
<1> QED
  BY <1>1, Invariance, PTL

(* What is owed to c is what it was owed before.                           *)
LEMMA OwedUnchanged ==
  ASSUME NEW c \in Clients, todo' = todo, ticket' = ticket, since'[c] = since[c],
         queued' = queued
  PROVE  Missed(c)' = Missed(c)
BY DEF Missed, Owed, Queued

(* A connection comes to miss a broadcast only when the broadcast passes   *)
(* it with a whole channel of events untaken, whatever the capacity is and *)
(* however many events it was sent before (broadcastSSE, addSSEClient).    *)
THEOREM NothingMissed == Spec => CompleteFeed
<1>1. ASSUME IInv, Next, NEW c \in sseClients', NEW e \in Missed(c)' \ Missed(c)
      PROVE  c \in todo[e] /\ Backlog(c) = ChanCap
  <2>0. c \in Clients /\ e \in Events
    <3>1. TypeOK'
      BY <1>1, TypeStep DEF IInv
    <3> QED
      BY <1>1, <3>1 DEF TypeOK, Missed, Owed
  <2>1. CASE \E f \in Events : \E d \in Clients : BroadcastSend(f, d)
    <3>1. PICK f \in Events, d \in Clients : BroadcastSend(f, d)
      BY <2>1
    <3>2. /\ UNCHANGED <<ticket, since>>
          /\ d \in todo[f]
          /\ Send(f, d)
          /\ todo' = [todo EXCEPT ![f] = todo[f] \ {d}]
      BY <3>1 DEF BroadcastSend, handlerVars
    <3>3. queued'[c] = queued[c] \/ Queued(c) \subseteq Queued(c)'
      <4>1. CASE queued'[c] # queued[c]
        <5>1. queued'[c] = Append(queued[c], f) /\ queued[c] \in Seq(Events)
          BY <1>1, <2>0, <3>2, <4>1 DEF Send, IInv, TypeOK
        <5>2. /\ Len(queued[c]) \in Nat
              /\ Len(queued'[c]) = Len(queued[c]) + 1
              /\ \A i \in 1 .. Len(queued[c]) : queued'[c][i] = queued[c][i]
          BY <5>1
        <5> QED
          BY <5>2 DEF Queued
      <4> QED
        BY <4>1
    <3>4. Queued(c) \subseteq Queued(c)'
      BY <2>0, <3>3 DEF Queued
    <3>5. e = f /\ c = d
      <4>1. e \in Owed(c)' /\ e \notin Queued(c)'
        BY <1>1 DEF Missed
      <4>2. e \notin Owed(c)
        BY <1>1, <3>4, <4>1 DEF Missed
      <4>3. ticket[e] > since[c] /\ c \notin todo'[e]
        BY <3>2, <4>1 DEF Owed
      <4>4. c \in todo[e]
        BY <2>0, <4>2, <4>3 DEF Owed
      <4> QED
        BY <1>1, <2>0, <3>2, <4>3, <4>4 DEF IInv, TypeOK
    <3>6. ~(Backlog(c) < ChanCap)
      <4>1. SUFFICES ASSUME Backlog(c) < ChanCap
                     PROVE  FALSE
        OBVIOUS
      <4>2. queued'[c] = Append(queued[c], e) /\ queued[c] \in Seq(Events)
        BY <1>1, <2>0, <3>2, <3>5, <4>1 DEF Send, IInv, TypeOK
      <4>3. /\ Len(queued[c]) + 1 \in 1 .. Len(queued'[c])
            /\ queued'[c][Len(queued[c]) + 1] = e
        BY <4>2
      <4>4. e \in Queued(c)'
        BY <4>3 DEF Queued
      <4> QED
        BY <1>1, <4>4 DEF Missed
    <3> QED
      BY <1>1, <2>0, <3>2, <3>5, <3>6, ChanCapAssumption DEF IInv, TypeOK
  <2>2. ASSUME NEW f \in Events, BroadcastLock(f)
        PROVE  FALSE
    <3>1. /\ todo' = [todo EXCEPT ![f] = sseClients]
          /\ ticket' = [ticket EXCEPT ![f] = turns + 1]
          /\ UNCHANGED <<sseClients, since, queued>>
      BY <2>2 DEF BroadcastLock, BeginTurn, handlerVars
    <3>2. e \in Owed(c)' /\ e \notin Queued(c) /\ e \notin Owed(c)
      BY <1>1, <3>1 DEF Missed, Queued
    <3>3. e = f
      BY <1>1, <2>0, <3>1, <3>2 DEF Owed, IInv, TypeOK
    <3>4. c \in todo'[e]
      BY <1>1, <2>0, <3>1, <3>3 DEF IInv, TypeOK
    <3> QED
      BY <3>2, <3>4 DEF Owed
  <2>3. ASSUME AddSSEClient(c)
        PROVE  FALSE
    <3>1. since'[c] = turns /\ ticket' = ticket
      BY <1>1, <2>0, <2>3 DEF AddSSEClient, busVars, IInv, TypeOK
    <3>2. ~(ticket[e] > turns)
      BY <1>1, <2>0 DEF IInv, Order, Mutex, TypeOK
    <3> QED
      BY <1>1, <3>1, <3>2 DEF Missed, Owed
  <2>4. CASE /\ ~ \E f \in Events : \E d \in Clients : BroadcastSend(f, d)
             /\ ~ \E f \in Events : BroadcastLock(f)
             /\ ~ AddSSEClient(c)
    <3>1. UNCHANGED <<todo, ticket, queued>> /\ since'[c] = since[c]
      BY <1>1, <2>0, <2>4
      DEF Next, SubscribeToEvents, Emitting, EmitInsert, EmitFails, Publish,
          BroadcastUnlock, Handling, StreamOpen, AddSSEClient, StreamTake,
          StreamWritten, PeerCloses, StreamLeave, RemoveSSEClient, ForgetClient,
          busVars, handlerVars, IInv, TypeOK
    <3> QED
      BY <1>1, <2>0, <3>1, OwedUnchanged
  <2> QED
    BY <2>1, <2>2, <2>3, <2>4
<1>2. IInv /\ [Next]_vars =>
        [\A c \in sseClients' : \A e \in Missed(c)' \ Missed(c) :
           c \in todo[e] /\ Backlog(c) = ChanCap]_vars
  BY <1>1
<1> QED
  BY <1>2, Invariance, PTL DEF Spec, CompleteFeed

(* Nothing is put into the channel of a connection whose handler returned: *)
(* a broadcast visits registered connections only, as a handler cannot     *)
(* unregister while a broadcast holds sseMu.                               *)
THEOREM QuietAfterGone == Spec => NothingAfterGone
<1>1. IInv /\ [Next]_vars =>
        [\A c \in Clients : handlerPc[c] = "gone" => queued'[c] = queued[c]]_vars
  <2> SUFFICES ASSUME IInv, Next, NEW c \in Clients, handlerPc[c] = "gone"
               PROVE  queued'[c] = queued[c]
    OBVIOUS
  <2>1. ASSUME NEW e \in Events, NEW d \in Clients, BroadcastSend(e, d)
        PROVE  queued'[c] = queued[c]
    <3>1. d \in sseClients
      BY <2>1 DEF BroadcastSend, IInv, Order, Visits
    <3>2. c # d
      BY <3>1 DEF IInv, Order, Registered
    <3> QED
      BY <2>1, <3>2 DEF BroadcastSend, Send, IInv, TypeOK
  <2>2. CASE SubscribeToEvents
    BY <2>2 DEF SubscribeToEvents
  <2>3. ASSUME NEW e \in Events, Emitting(e)
        PROVE  queued'[c] = queued[c]
    BY <2>1, <2>3 DEF Emitting, EmitInsert, EmitFails, Publish, BroadcastLock,
                      BeginTurn, BroadcastUnlock
  <2>4. ASSUME NEW d \in Clients, Handling(d)
        PROVE  queued'[c] = queued[c]
    BY <2>4 DEF Handling, StreamOpen, AddSSEClient, StreamTake, StreamWritten,
                PeerCloses, StreamLeave, RemoveSSEClient, ForgetClient
  <2> QED
    BY <2>2, <2>3, <2>4 DEF Next
<1> QED
  BY <1>1, Invariance, PTL DEF Spec, NothingAfterGone

(* Only finitely many connections are registered, hence visited.           *)
FinitelyMany ==
  /\ IsFiniteSet(sseClients)
  /\ \A e \in Events : IsFiniteSet(todo[e])

\* What e's broadcast has left to visit only gets less.
Shrinks(e) ==
  \/ todo'[e] = todo[e]
  \/ Cardinality(todo'[e]) < Cardinality(todo[e])

(* A broadcast ends after one step for each connection registered when it  *)
(* took sseMu: nobody registers or leaves while the lock is held, and the  *)
(* connections still to be visited become fewer.  This is what EmitReturns *)
(* rests on (broadcastSSE).                                                *)
THEOREM BroadcastsShrink ==
  Spec => /\ []FinitelyMany
          /\ [][sseMu # Nobody =>
                  /\ sseClients' = sseClients
                  /\ \A e \in Events : Shrinks(e)]_vars
<1>1. Init => FinitelyMany
  BY FS_EmptySet DEF Init, FinitelyMany
<1>2. ASSUME IInv, FinitelyMany, NEW e \in Events, NEW c \in Clients, BroadcastSend(e, c)
      PROVE  /\ FinitelyMany' /\ sseClients' = sseClients
             /\ \A f \in Events : Shrinks(f)
  <2>1. /\ sseClients' = sseClients
        /\ todo' = [todo EXCEPT ![e] = todo[e] \ {c}]
        /\ c \in todo[e] /\ DOMAIN todo = Events
    BY <1>2 DEF BroadcastSend, handlerVars, IInv, TypeOK
  <2>2. /\ IsFiniteSet(todo[e] \ {c})
        /\ Cardinality(todo[e] \ {c}) = Cardinality(todo[e]) - 1
        /\ Cardinality(todo[e]) \in Nat
    BY <1>2, <2>1, FS_RemoveElement, FS_CardinalityType DEF FinitelyMany
  <2>3. FinitelyMany'
    BY <1>2, <2>1, <2>2 DEF FinitelyMany
  <2>4. \A f \in Events : Shrinks(f)
    BY <2>1, <2>2 DEF Shrinks
  <2> QED
    BY <2>1, <2>3, <2>4
<1>3. ASSUME IInv, FinitelyMany, NEW e \in Events, BroadcastLock(e)
      PROVE  FinitelyMany' /\ sseMu = Nobody
  BY <1>3 DEF BroadcastLock, BeginTurn, handlerVars, FinitelyMany, IInv, TypeOK
<1>4. ASSUME FinitelyMany, NEW c \in Clients, AddSSEClient(c) \/ RemoveSSEClient(c)
      PROVE  FinitelyMany' /\ sseMu = Nobody
  <2>1. IsFiniteSet(sseClients \cup {c}) /\ IsFiniteSet(sseClients \ {c})
    BY <1>4, FS_AddElement, FS_RemoveElement DEF FinitelyMany
  <2> QED
    BY <1>4, <2>1
    DEF AddSSEClient, RemoveSSEClient, ForgetClient, busVars, FinitelyMany
<1>5. ASSUME FinitelyMany, UNCHANGED <<sseClients, todo>>
      PROVE  /\ FinitelyMany' /\ sseClients' = sseClients
             /\ \A e \in Events : Shrinks(e)
  BY <1>5 DEF FinitelyMany, Shrinks
<1>6. IInv /\ FinitelyMany /\ [Next]_vars =>
        /\ FinitelyMany'
        /\ sseMu # Nobody => sseClients' = sseClients /\ \A e \in Events : Shrinks(e)
  <2> SUFFICES ASSUME IInv, FinitelyMany, [Next]_vars
               PROVE  /\ FinitelyMany'
                      /\ sseMu # Nobody =>
                           sseClients' = sseClients /\ \A e \in Events : Shrinks(e)
    OBVIOUS
  <2>1. CASE \E e \in Events : \E c \in Clients : BroadcastSend(e, c)
    BY <1>2, <2>1
  <2>2. CASE \/ \E e \in Events : BroadcastLock(e)
             \/ \E c \in Clients : AddSSEClient(c) \/ RemoveSSEClient(c)
    BY <1>3, <1>4, <2>2
  <2>3. CASE ~ \/ \E e \in Events : BroadcastLock(e)
               \/ \E c \in Clients : AddSSEClient(c) \/ RemoveSSEClient(c)
               \/ \E e \in Events : \E c \in Clients : BroadcastSend(e, c)
    <3>1. UNCHANGED <<sseClients, todo>>
      BY <2>3 DEF Next, SubscribeToEvents, Emitting, EmitInsert, EmitFails, Publish,
                  BroadcastUnlock, Handling, StreamOpen, StreamTake, StreamWritten,
                  PeerCloses, StreamLeave, vars, emitVars, busVars, handlerVars
    <3> QED
      BY <1>5, <3>1
  <2> QED
    BY <2>1, <2>2, <2>3
<1>7. IInv /\ FinitelyMany /\ [Next]_vars =>
        [sseMu # Nobody => sseClients' = sseClients /\ \A e \in Events : Shrinks(e)]_vars
  BY <1>6
<1>8. IInv /\ FinitelyMany /\ [Next]_vars => FinitelyMany'
  BY <1>6
<1> QED
  BY <1>1, <1>7, <1>8, Invariance, PTL DEF Spec
-----------------------------------------------------------------------------
(* The pipeline implements the feed.                                       *)

Top(c) == IF taken[c] = 0 THEN 0 ELSE ticket[queued[c][taken[c]]]

\* What a connection has received is there to be looked up.
LEMMA ReceivedInQueue ==
  ASSUME TypeOK, NEW c \in Clients
  PROVE  /\ taken[c] \in Nat
         /\ taken[c] <= Len(queued[c])
         /\ \A i \in 1 .. taken[c] : i \in 1 .. Len(queued[c]) /\ queued[c][i] \in Events
<1>1. taken[c] \in Nat /\ queued[c] \in Seq(Events) /\ Len(queued[c]) \in Nat
  BY DEF TypeOK
<1>2. taken[c] <= Len(queued[c])
  BY <1>1, ChanCapAssumption DEF TypeOK, Backlog
<1> QED
  BY <1>1, <1>2

\* A step that takes nothing shows nothing: sends append behind what was taken,
\* and the tickets of what was taken stay.
LEMMA ShownUnchanged ==
  ASSUME TypeOK, TypeOK', UNCHANGED taken,
         \A c \in Clients : \A i \in 1 .. taken[c] :
           /\ queued'[c][i] = queued[c][i]
           /\ ticket'[queued[c][i]] = ticket[queued[c][i]]
  PROVE  /\ [c \in Clients |-> Received(c)]' = [c \in Clients |-> Received(c)]
         /\ [c \in Clients |-> Top(c)]' = [c \in Clients |-> Top(c)]
<1>1. \A c \in Clients : Received(c)' = Received(c)
  BY DEF Received
<1>2. \A c \in Clients : Top(c)' = Top(c)
  <2> SUFFICES ASSUME NEW c \in Clients, taken[c] # 0
               PROVE  ticket'[queued'[c][taken[c]]] = ticket[queued[c][taken[c]]]
    BY DEF Top
  <2>1. taken[c] \in 1 .. taken[c]
    BY ReceivedInQueue
  <2> QED
    BY <2>1
<1> QED
  BY <1>1, <1>2

\* Receiving an event shows it, and it is newer than all the handler had before.
LEMMA TakeShows ==
  ASSUME IInv, IInv', NEW c \in Clients, StreamTake(c)
  PROVE  \E e \in Events :
           /\ ticket[e] > Top(c)
           /\ [d \in Clients |-> Received(d)]' =
                [[d \in Clients |-> Received(d)] EXCEPT ![c] = @ \cup {e}]
           /\ [d \in Clients |-> Top(d)]' =
                [[d \in Clients |-> Top(d)] EXCEPT ![c] = ticket[e]]
<1> DEFINE e == queued[c][taken[c] + 1]
<1>1. TypeOK /\ FeedInOrder /\ Numbered
  BY DEF IInv, Order
<1>2. /\ taken'[c] = taken[c] + 1
      /\ \A d \in Clients \ {c} : taken'[d] = taken[d]
      /\ UNCHANGED <<queued, ticket>>
  BY <1>1 DEF StreamTake, TypeOK, busVars
<1>3. taken[c] \in Nat /\ Len(queued[c]) \in Nat /\ taken[c] + 1 <= Len(queued[c])
  BY <1>1 DEF StreamTake, Backlog, TypeOK
<1>4. e \in Events
  BY <1>1, <1>3 DEF TypeOK
<1>5. ticket[e] > Top(c)
  <2>1. taken[c] + 1 \in 1 .. Len(queued[c])
    BY <1>3
  <2>2. CASE taken[c] = 0
    BY <1>1, <2>1, <2>2 DEF Top, Numbered
  <2>3. CASE taken[c] # 0
    <3>1. taken[c] \in 1 .. Len(queued[c]) /\ taken[c] < taken[c] + 1
      BY <1>3, <2>3
    <3>2. ticket[queued[c][taken[c]]] < ticket[e]
      BY <1>1, <2>1, <3>1 DEF FeedInOrder
    <3>3. ticket[queued[c][taken[c]]] \in Nat /\ ticket[e] \in Nat
      BY <1>1, <1>4, <3>1 DEF TypeOK
    <3> QED
      BY <2>3, <3>2, <3>3 DEF Top
  <2> QED
    BY <2>2, <2>3
<1>6. Received(c)' = Received(c) \cup {e}
  <2>1. \A i : i \in 1 .. taken'[c] <=> i \in 1 .. taken[c] \/ i = taken[c] + 1
    BY <1>2, <1>3
  <2> QED
    BY <1>2, <2>1 DEF Received
<1>7. Top(c)' = ticket[e]
  BY <1>2, <1>3 DEF Top
<1>8. \A d \in Clients \ {c} : Received(d)' = Received(d) /\ Top(d)' = Top(d)
  BY <1>2 DEF Received, Top
<1> QED
  BY <1>4, <1>5, <1>6, <1>7, <1>8

(* The live timeline keeps the promise of EventFeed: it shows a viewer     *)
(* recorded and announced events only, each at most once, and never an     *)
(* older one after a newer one.                                            *)
THEOREM Implementation == Spec => ImplementsFeed
<1>1. Init => Feed!Init
  BY DEF Init, Feed!Init, Received
<1>2. IInv /\ IInv' /\ [Next]_vars => [Feed!Next]_(Feed!vars)
  <2> SUFFICES ASSUME IInv, IInv', [Next]_vars
               PROVE  Feed!Next \/ UNCHANGED Feed!vars
    OBVIOUS
  <2>t. TypeOK /\ TypeOK' /\ Stages /\ Mutex /\ Numbered
    BY DEF IInv, Order
  <2>s. ASSUME UNCHANGED <<stored, ticket, turns, taken>>,
               \A c \in Clients : \A i \in 1 .. taken[c] : queued'[c][i] = queued[c][i]
        PROVE  UNCHANGED Feed!vars
    BY <2>t, <2>s, ShownUnchanged DEF Feed!vars, Top
  <2>1. CASE UNCHANGED vars \/ SubscribeToEvents
    BY <2>1, <2>s DEF SubscribeToEvents, vars, emitVars, busVars, handlerVars
  <2>2. ASSUME NEW e \in Events, Emitting(e)
        PROVE  Feed!Next \/ UNCHANGED Feed!vars
    <3>1. CASE EmitInsert(e)
      <4>1. e \notin stored
        BY <2>t, <3>1 DEF EmitInsert, EmitStep, Stages
      <4>2. UNCHANGED <<ticket, turns, taken, queued>>
        BY <3>1 DEF EmitInsert, busVars, handlerVars
      <4>3. Feed!Record(e)
        BY <2>t, <3>1, <4>1, <4>2, ShownUnchanged DEF EmitInsert, Feed!Record, Top
      <4> QED
        BY <4>3 DEF Feed!Next
    <3>2. CASE BroadcastLock(e)
      <4>1. e \in stored /\ ticket[e] = 0
        <5>1. emitPc[e] = "calling"
          BY <3>2 DEF BroadcastLock, BeginTurn, EmitStep
        <5>2. ticket[e] \in Nat /\ ~(ticket[e] > 0)
          BY <2>t, <5>1 DEF Mutex, TypeOK
        <5> QED
          BY <2>t, <5>1, <5>2 DEF Stages
      <4>2. /\ ticket' = [ticket EXCEPT ![e] = turns + 1]
            /\ turns' = turns + 1
            /\ UNCHANGED <<stored, taken, queued>>
        BY <3>2 DEF BroadcastLock, BeginTurn, handlerVars
      <4>3. \A c \in Clients : \A i \in 1 .. taken[c] :
              ticket'[queued[c][i]] = ticket[queued[c][i]]
        BY <2>t, <4>1, <4>2, ReceivedInQueue DEF Numbered, TypeOK
      <4>4. Feed!Announce(e)
        BY <2>t, <4>1, <4>2, <4>3, ShownUnchanged DEF Feed!Announce, Top
      <4> QED
        BY <4>4 DEF Feed!Next
    <3>3. ASSUME NEW c \in Clients, BroadcastSend(e, c)
          PROVE  UNCHANGED Feed!vars
      <4>1. \A d \in Clients : \A i \in 1 .. taken[d] : queued'[d][i] = queued[d][i]
        <5> SUFFICES ASSUME NEW d \in Clients, NEW i \in 1 .. taken[d]
                     PROVE  queued'[d][i] = queued[d][i]
          OBVIOUS
        <5>1. queued[d] \in Seq(Events) /\ i \in 1 .. Len(queued[d])
          BY <2>t, ReceivedInQueue DEF TypeOK
        <5>2. queued'[d] \in {queued[d], Append(queued[d], e)}
          BY <2>t, <3>3 DEF BroadcastSend, Send, TypeOK
        <5> QED
          BY <5>1, <5>2
      <4> QED
        BY <2>s, <3>3, <4>1 DEF BroadcastSend, emitVars, handlerVars
    <3>4. CASE EmitFails(e) \/ Publish(e) \/ BroadcastUnlock(e)
      BY <2>s, <3>4 DEF EmitFails, Publish, BroadcastUnlock, busVars, handlerVars
    <3> QED
      BY <2>2, <3>1, <3>2, <3>3, <3>4 DEF Emitting
  <2>3. ASSUME NEW c \in Clients, Handling(c)
        PROVE  Feed!Next \/ UNCHANGED Feed!vars
    <3>1. CASE StreamTake(c)
      <4>1. PICK e \in Events :
               /\ ticket[e] > Top(c)
               /\ [d \in Clients |-> Received(d)]' =
                    [[d \in Clients |-> Received(d)] EXCEPT ![c] = @ \cup {e}]
               /\ [d \in Clients |-> Top(d)]' =
                    [[d \in Clients |-> Top(d)] EXCEPT ![c] = ticket[e]]
        BY <3>1, TakeShows
      <4>2. UNCHANGED <<stored, ticket, turns>>
        BY <3>1 DEF StreamTake, emitVars, busVars
      <4>3. Feed!Show(c, e)
        BY <4>1, <4>2 DEF Feed!Show, Top
      <4> QED
        BY <4>3 DEF Feed!Next
    <3>2. CASE \/ StreamOpen(c) \/ AddSSEClient(c) \/ StreamWritten(c)
               \/ PeerCloses(c) \/ StreamLeave(c) \/ RemoveSSEClient(c)
      BY <2>s, <3>2 DEF StreamOpen, AddSSEClient, StreamWritten, PeerCloses,
                        StreamLeave, RemoveSSEClient, ForgetClient, emitVars, busVars
    <3> QED
      BY <2>3, <3>1, <3>2 DEF Handling
  <2> QED
    BY <2>1, <2>2, <2>3 DEF Next
<1> QED
  BY <1>1, <1>2, Invariance, PTL DEF Spec, ImplementsFeed, Feed!Spec
=============================================================================
