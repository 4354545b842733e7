-------------------------- MODULE RecordingProofs --------------------------
(***************************************************************************)
(* Proofs about Recording, for any number of start and stop requests, any  *)
(* names and any number of restarts.  Two facts carry them: a request that *)
(* has not been answered has no row yet, and the only way from no          *)
(* recording to some is through requests that were already being handled.  *)
(***************************************************************************)
EXTENDS Recording, FiniteSetTheorems, TLAPS

\* The scenario of an unanswered start request has no row yet.
Pending == \A s \in Starts : startPc[s] # "done" => status[s] = "absent"

\* What a stop request found stays in the table.
Targets ==
  \A t \in Stops :
    stopPc[t] \in {"found", "counted"} => status[target[t]] # "absent"

InFlightBound == Cardinality(InFlight) <= MaxInFlight

\* Once something is being recorded no request passes the check any more, so the
\* requests that may still add a recording were in flight before it.
Reserved == (RecordingNow \cup InFlight) \ blind
Room == RecordingNow \ blind # {} => Cardinality(Reserved) <= MaxInFlight

IInv ==
  /\ TypeOK
  /\ Pending
  /\ Targets
  /\ UniqueNames
  /\ InFlightBound
  /\ Room
-----------------------------------------------------------------------------
(* A subset of the start requests has a number of elements, and a subset   *)
(* of it has no more.                                                      *)
LEMMA Counting ==
  ASSUME NEW S \in SUBSET Starts
  PROVE  /\ IsFiniteSet(S)
         /\ Cardinality(S) \in Nat
         /\ \A T \in SUBSET S : Cardinality(T) \in Nat /\ Cardinality(T) <= Cardinality(S)
<1>1. IsFiniteSet(S)
  BY StartsAssumption, FS_Subset
<1> QED
  BY <1>1, FS_Subset, FS_CardinalityType

(* The program starts in a state of the right types.                       *)
LEMMA TypeInit == Init => TypeOK
BY MaxRestartsAssumption DEF Init, TypeOK, StartStates, Answers, StopStates, EmitStates

(* No handler, no Emit call and no restart breaks the types.               *)
LEMMA TypeStep == TypeOK /\ [Next]_vars => TypeOK'
<1> SUFFICES ASSUME TypeOK, [Next]_vars
             PROVE  TypeOK'
  OBVIOUS
<1> USE DEF TypeOK, StartStates, Answers, StopStates, EmitStates
<1>1. CASE UNCHANGED vars
  BY <1>1 DEF vars, scenarioVars, startVars, stopVars, emitVars
<1>2. ASSUME NEW s \in Starts, Starting(s)
      PROVE  TypeOK'
  <2>1. CASE StartCheckActive(s) \/ StartCheckActiveFails(s) \/ StartCheckName(s)
    BY <2>1 DEF StartCheckActive, StartCheckActiveFails, StartCheckName, Proceed, Answer,
                UnchangedByStart, scenarioVars, stopVars, emitVars
  <2>2. CASE StartInsert(s) \/ StartInsertFails(s)
    BY <2>2 DEF StartInsert, StartInsertFails, InsertScenario, Answer,
                UnchangedByStart, scenarioVars, stopVars, emitVars
  <2>3. CASE AgentStartRecording(s)
    BY <2>3 DEF AgentStartRecording, InsertScenario, Answer, scenarioVars, stopVars, emitVars
  <2> QED
    BY <1>2, <2>1, <2>2, <2>3 DEF Starting
<1>3. ASSUME NEW t \in Stops, Stopping(t)
      PROVE  TypeOK'
  <2>1. CASE StopFind(t) \/ StopFindNone(t) \/ StopUpdateFails(t)
    BY <2>1 DEF StopFind, StopFindNone, StopUpdateFails, StopStep, RecordingNow,
                UnchangedByStop, scenarioVars, startVars, emitVars
  <2>2. CASE StopCount(t)
    <3>1. Cardinality({e \in Events : events[e] = target[t]}) \in Nat
      BY EventsAssumption, FS_Subset, FS_CardinalityType
    <3>2. counted' \in [Stops -> Nat]
      BY <2>2, <3>1 DEF StopCount
    <3> QED
      BY <2>2, <3>2 DEF StopCount, StopStep, UnchangedByStop, scenarioVars, startVars, emitVars
  <2>3. CASE StopUpdate(t)
    BY <2>3 DEF StopUpdate, StopStep, UnchangedByStop, startVars, emitVars
  <2> QED
    BY <1>3, <2>1, <2>2, <2>3 DEF Stopping
<1>4. ASSUME NEW e \in Events, EmitTag(e) \/ EmitInsert(e)
      PROVE  TypeOK'
  BY <1>4 DEF EmitTag, EmitInsert, RecordingNow, scenarioVars, startVars, stopVars
<1>5. CASE Restart
  BY <1>5, MaxRestartsAssumption DEF Restart, Lost, InFlight, scenarioVars
<1> QED
  BY <1>1, <1>2, <1>3, <1>4, <1>5 DEF Next

(* Every variable keeps its type, and a start request has an answer        *)
(* exactly when its handler is done.                                       *)
THEOREM TypeCorrect == Spec => []TypeOK
<1> QED
  BY TypeInit, TypeStep, PTL DEF Spec
-----------------------------------------------------------------------------
(* The invariant holds initially.                                          *)
LEMMA InitInvariant == Init => IInv
<1> SUFFICES ASSUME Init
             PROVE  IInv
  OBVIOUS
<1>1. TypeOK
  BY TypeInit
<1>2. Pending /\ Targets /\ UniqueNames
  BY DEF Init, Pending, Targets, UniqueNames
<1>3. InFlight = {} /\ RecordingNow = {}
  BY DEF Init, InFlight, RecordingNow
<1>4. InFlightBound /\ Room
  BY <1>3, FS_EmptySet, MaxInFlightAssumption DEF InFlightBound, Room
<1> QED
  BY <1>1, <1>2, <1>4 DEF IInv

(* The bounds survive a step that adds nobody to those in flight, and to   *)
(* those that record only who was in flight before it.                     *)
LEMMA BoundsKept ==
  ASSUME IInv, TypeOK', UNCHANGED blind,
         InFlight' \subseteq InFlight,
         RecordingNow' \subseteq RecordingNow \cup InFlight
  PROVE  InFlightBound' /\ Room'
<1>1. InFlight \in SUBSET Starts /\ Reserved \in SUBSET Starts
  BY DEF InFlight, Reserved, RecordingNow
<1>2. InFlightBound'
  <2>1. /\ Cardinality(InFlight) \in Nat /\ Cardinality(InFlight') \in Nat
        /\ Cardinality(InFlight') <= Cardinality(InFlight)
    BY <1>1, Counting
  <2> QED
    BY <2>1, MaxInFlightAssumption DEF IInv, InFlightBound
<1>3. Room'
  <2> SUFFICES Cardinality(Reserved') <= MaxInFlight
    BY DEF Room
  <2>1. CASE RecordingNow \ blind # {}
    <3>1. Reserved' \subseteq Reserved
      BY DEF Reserved
    <3>2. /\ Cardinality(Reserved) \in Nat /\ Cardinality(Reserved') \in Nat
          /\ Cardinality(Reserved') <= Cardinality(Reserved)
      BY <1>1, <3>1, Counting
    <3> QED
      BY <2>1, <3>2, MaxInFlightAssumption DEF IInv, Room
  <2>2. CASE RecordingNow \ blind = {}
    <3>1. Reserved' \subseteq InFlight
      BY <2>2 DEF Reserved
    <3>2. /\ Cardinality(InFlight) \in Nat /\ Cardinality(Reserved') \in Nat
          /\ Cardinality(Reserved') <= Cardinality(InFlight)
      BY <1>1, <3>1, Counting
    <3> QED
      BY <3>2, MaxInFlightAssumption DEF IInv, InFlightBound
  <2> QED
    BY <2>1, <2>2
<1> QED
  BY <1>2, <1>3

(* Letting one more request go on takes a free place.                      *)
LEMMA OneMoreInFlight ==
  ASSUME TypeOK, NEW s \in Starts, Cardinality(InFlight) < MaxInFlight,
         Proceed(s, "idle", "checked")
  PROVE  InFlight' = InFlight \cup {s} /\ InFlightBound'
<1>1. InFlight' = InFlight \cup {s}
  BY DEF Proceed, InFlight, TypeOK
<1>2. InFlight \in SUBSET Starts
  BY DEF InFlight
<1>3. IsFiniteSet(InFlight) /\ Cardinality(InFlight) \in Nat
  BY <1>2, Counting
<1>4. Cardinality(InFlight \cup {s}) <= Cardinality(InFlight) + 1
  <2>1. Cardinality(InFlight \cup {s}) =
          IF s \in InFlight THEN Cardinality(InFlight) ELSE Cardinality(InFlight) + 1
    BY <1>3, FS_AddElement
  <2> QED
    BY <1>3, <2>1
<1>5. Cardinality(InFlight \cup {s}) \in Nat
  BY <1>3, FS_AddElement, FS_CardinalityType
<1> QED
  BY <1>1, <1>3, <1>4, <1>5, MaxInFlightAssumption DEF InFlightBound

(* A start request keeps the invariant.                                    *)
LEMMA StartingInvariant ==
  ASSUME IInv, TypeOK', NEW s \in Starts, Starting(s)
  PROVE  IInv'
<1>i. TypeOK /\ Pending /\ Targets /\ UniqueNames
  BY DEF IInv
<1> USE <1>i
<1>t. UNCHANGED stopVars
  BY DEF Starting, StartCheckActive, StartCheckActiveFails, StartCheckName, StartInsert,
         StartInsertFails, AgentStartRecording, UnchangedByStart
<1>1. CASE StartCheckActive(s) \/ StartCheckName(s) \/ StartInsertFails(s)
  <2> USE <1>1 DEF StartCheckActive, StartCheckName, StartInsertFails, Proceed, Answer,
                   scenarioVars
  <2>1. UNCHANGED <<status, blind>> /\ RecordingNow' = RecordingNow
    BY DEF RecordingNow
  <2>2. Pending' /\ Targets' /\ UniqueNames'
    BY <1>t, <2>1 DEF Pending, Targets, UniqueNames, stopVars, TypeOK
  <2>3. CASE InFlight' \subseteq InFlight
    BY <2>1, <2>2, <2>3, BoundsKept DEF IInv
  <2>4. CASE ~(InFlight' \subseteq InFlight)
    <3>1. startPc[s] = "idle" /\ StartCheckActive(s)
      BY <2>4 DEF InFlight, TypeOK
    <3>2. RecordingNow = {} /\ Proceed(s, "idle", "checked")
      BY <2>4, <3>1 DEF InFlight, TypeOK
    <3>3. InFlightBound'
      BY <3>1, <3>2, OneMoreInFlight
    <3>4. Room'
      BY <2>1, <3>2 DEF Room
    <3> QED
      BY <2>2, <3>3, <3>4 DEF IInv
  <2> QED
    BY <2>3, <2>4
<1>2. CASE StartCheckActiveFails(s)
  <2> USE <1>2 DEF StartCheckActiveFails, scenarioVars
  <2>1. UNCHANGED status /\ RecordingNow' = RecordingNow
    BY DEF RecordingNow
  <2>2. Pending' /\ Targets' /\ UniqueNames'
    BY <1>t, <2>1 DEF Pending, Targets, UniqueNames, stopVars, TypeOK, Proceed
  <2>3. InFlight' = InFlight \cup {s} /\ InFlightBound'
    BY OneMoreInFlight
  <2>4. Room'
    <3>1. s \notin RecordingNow
      BY DEF Pending, RecordingNow, Proceed
    <3>2. Reserved' \subseteq Reserved /\ RecordingNow' \ blind' = RecordingNow \ blind
      BY <2>1, <2>3, <3>1 DEF Reserved
    <3>3. Reserved \in SUBSET Starts
      BY DEF Reserved, RecordingNow, InFlight
    <3>4. /\ Cardinality(Reserved) \in Nat /\ Cardinality(Reserved') \in Nat
          /\ Cardinality(Reserved') <= Cardinality(Reserved)
      BY <3>2, <3>3, Counting
    <3> QED
      BY <3>2, <3>4, MaxInFlightAssumption DEF IInv, Room
  <2> QED
    BY <2>2, <2>3, <2>4 DEF IInv
<1>3. CASE StartInsert(s)
  <2> USE <1>3 DEF StartInsert, Answer
  <2>1. InFlight' \subseteq InFlight /\ UNCHANGED blind /\ s \in InFlight
    BY DEF InFlight, TypeOK
  <2>2. CASE Insertable(s)
    <3>1. status' = [status EXCEPT ![s] = "recording"] /\ ~NameTaken(NameOf[s])
      BY <2>2 DEF InsertScenario, Insertable
    <3>2. RecordingNow' \subseteq RecordingNow \cup InFlight
      BY <2>1, <3>1 DEF RecordingNow, TypeOK
    <3>3. Pending' /\ Targets'
      BY <1>t, <3>1 DEF Pending, Targets, stopVars, TypeOK
    <3>4. UniqueNames'
      BY <3>1 DEF UniqueNames, NameTaken, TypeOK
    <3> QED
      BY <2>1, <3>2, <3>3, <3>4, BoundsKept DEF IInv
  <2>3. CASE ~Insertable(s)
    <3>1. UNCHANGED status /\ RecordingNow' = RecordingNow
      BY <2>3 DEF scenarioVars, RecordingNow
    <3>2. Pending' /\ Targets' /\ UniqueNames'
      BY <1>t, <3>1 DEF Pending, Targets, UniqueNames, stopVars, TypeOK
    <3> QED
      BY <2>1, <3>1, <3>2, BoundsKept DEF IInv
  <2> QED
    BY <2>2, <2>3
<1>4. CASE AgentStartRecording(s)
  <2>1. /\ UNCHANGED <<status, blind>>
        /\ startPc' = [startPc EXCEPT ![s] = "done"]
    BY <1>4 DEF AgentStartRecording, NameQueryErr, Answer, scenarioVars
  <2>2. Pending' /\ Targets' /\ UniqueNames'
    BY <1>t, <2>1 DEF Pending, Targets, UniqueNames, stopVars, TypeOK
  <2>3. InFlight' \subseteq InFlight /\ RecordingNow' = RecordingNow
    BY <2>1 DEF InFlight, RecordingNow, TypeOK
  <2> QED
    BY <2>1, <2>2, <2>3, BoundsKept DEF IInv
<1> QED
  BY <1>1, <1>2, <1>3, <1>4 DEF Starting

(* A stop request keeps the invariant.                                     *)
LEMMA StoppingInvariant ==
  ASSUME IInv, TypeOK', NEW t \in Stops, Stopping(t)
  PROVE  IInv'
<1>i. TypeOK /\ Pending /\ Targets /\ UniqueNames
  BY DEF IInv
<1> USE <1>i
<1>1. UNCHANGED startVars
  BY DEF Stopping, StopFind, StopFindNone, StopCount, StopUpdate, StopUpdateFails,
         UnchangedByStop
<1>2. CASE StopFind(t) \/ StopFindNone(t) \/ StopCount(t) \/ StopUpdateFails(t)
  <2> USE <1>2 DEF StopFind, StopFindNone, StopCount, StopUpdateFails, StopStep, scenarioVars
  <2>1. UNCHANGED status
    OBVIOUS
  <2>2. Pending' /\ UniqueNames'
    BY <1>1, <2>1 DEF Pending, UniqueNames, startVars
  <2>3. Targets'
    BY <2>1 DEF Targets, RecordingNow, TypeOK
  <2>4. RecordingNow' = RecordingNow /\ InFlight' = InFlight /\ UNCHANGED blind
    BY <1>1, <2>1 DEF RecordingNow, InFlight, startVars
  <2> QED
    BY <2>2, <2>3, <2>4, BoundsKept DEF IInv
<1>3. CASE StopUpdate(t)
  <2>1. /\ stopPc[t] = "counted" /\ stopPc' = [stopPc EXCEPT ![t] = "done"]
        /\ status' = [status EXCEPT ![target[t]] = "completed"]
        /\ UNCHANGED target
    BY <1>3 DEF StopUpdate, StopStep
  <2>2. target[t] \in Starts /\ status[target[t]] # "absent"
    BY <2>1 DEF TypeOK, Targets
  <2>3. \A s \in Starts : status'[s] = "absent" <=> status[s] = "absent"
    BY <2>1, <2>2 DEF TypeOK
  <2>4. Pending' /\ UniqueNames'
    BY <1>1, <2>3 DEF Pending, UniqueNames, startVars
  <2>5. Targets'
    BY <2>1, <2>3 DEF Targets, TypeOK
  <2>6. RecordingNow' \subseteq RecordingNow /\ InFlight' = InFlight /\ UNCHANGED blind
    BY <1>1, <2>1 DEF RecordingNow, InFlight, startVars, TypeOK
  <2> QED
    BY <2>4, <2>5, <2>6, BoundsKept DEF IInv
<1> QED
  BY <1>2, <1>3 DEF Stopping

(* IInv is inductive.                                                      *)
LEMMA StepInvariant == IInv /\ [Next]_vars => IInv'
<1> SUFFICES ASSUME IInv, [Next]_vars
             PROVE  IInv'
  OBVIOUS
<1>t. TypeOK'
  BY TypeStep DEF IInv
<1>1. CASE UNCHANGED vars \/ \E e \in Events : EmitTag(e) \/ EmitInsert(e)
  <2>1. UNCHANGED <<scenarioVars, startVars, stopVars>>
    BY <1>1 DEF EmitTag, EmitInsert, vars
  <2>2. Pending' /\ Targets' /\ UniqueNames'
    BY <2>1 DEF IInv, Pending, Targets, UniqueNames, scenarioVars, startVars, stopVars
  <2>3. RecordingNow' = RecordingNow /\ InFlight' = InFlight /\ UNCHANGED blind
    BY <2>1 DEF RecordingNow, InFlight, scenarioVars, startVars
  <2> QED
    BY <1>t, <2>2, <2>3, BoundsKept DEF IInv
<1>2. ASSUME NEW s \in Starts, Starting(s)
      PROVE  IInv'
  BY <1>t, <1>2, StartingInvariant
<1>3. ASSUME NEW t \in Stops, Stopping(t)
      PROVE  IInv'
  BY <1>t, <1>3, StoppingInvariant
<1>4. CASE Restart
  <2>1. /\ UNCHANGED <<status, blind, target>>
        /\ startPc' = [s \in Starts |-> Lost(startPc, s)]
        /\ stopPc' = [t \in Stops |-> Lost(stopPc, t)]
    BY <1>4 DEF Restart, scenarioVars
  <2>2. Pending' /\ Targets' /\ UniqueNames'
    BY <2>1 DEF IInv, Pending, Targets, UniqueNames, Lost, TypeOK
  <2>3. RecordingNow' = RecordingNow /\ InFlight' \subseteq InFlight
    BY <2>1 DEF RecordingNow, InFlight, Lost
  <2> QED
    BY <1>t, <2>1, <2>2, <2>3, BoundsKept DEF IInv
<1> QED
  BY <1>1, <1>2, <1>3, <1>4 DEF Next

(* IInv holds in every state the program reaches.                          *)
THEOREM Invariance == Spec => []IInv
<1> QED
  BY InitInvariant, StepInvariant, PTL DEF Spec
-----------------------------------------------------------------------------
(* Two scenarios never share a name, however start requests overlap and    *)
(* whatever queries fail: the constraint of the table is what holds, the   *)
(* look-up before it is not needed for it.                                 *)
THEOREM NamesAreUnique == Spec => []UniqueNames
<1>1. IInv => UniqueNames
  BY DEF IInv
<1> QED
  BY <1>1, Invariance, PTL

(* No more recordings are open than start requests are handled at a time,  *)
(* leaving aside requests whose check failed.                              *)
THEOREM ActiveRecordingsBounded == Spec => []ActiveBound
<1>1. IInv => ActiveBound
  <2> SUFFICES ASSUME IInv
               PROVE  Cardinality(RecordingNow \ blind) <= MaxInFlight
    BY DEF ActiveBound
  <2>1. CASE RecordingNow \ blind = {}
    BY <2>1, FS_EmptySet, MaxInFlightAssumption
  <2>2. CASE RecordingNow \ blind # {}
    <3>1. Reserved \in SUBSET Starts /\ RecordingNow \ blind \subseteq Reserved
      BY DEF Reserved, RecordingNow, InFlight
    <3>2. /\ Cardinality(Reserved) \in Nat /\ Cardinality(RecordingNow \ blind) \in Nat
          /\ Cardinality(RecordingNow \ blind) <= Cardinality(Reserved)
      BY <3>1, Counting
    <3> QED
      BY <2>2, <3>2, MaxInFlightAssumption DEF IInv, Room
  <2> QED
    BY <2>1, <2>2
<1> QED
  BY <1>1, Invariance, PTL

(* A scenario that was stopped stays stopped: the INSERT of a start        *)
(* request is the only statement that writes 'recording', and it adds a    *)
(* row.                                                                    *)
THEOREM StoppedStaysStopped == Spec => StoppedForGood
<1>1. IInv /\ [Next]_vars =>
        [\A s \in Starts : status[s] = "completed" => status'[s] = "completed"]_vars
  <2> SUFFICES ASSUME IInv, Next, NEW s \in Starts, status[s] = "completed"
               PROVE  status'[s] = "completed"
    OBVIOUS
  <2>i. TypeOK /\ Pending
    BY DEF IInv
  <2>1. ASSUME NEW u \in Starts, Starting(u)
        PROVE  status'[s] = "completed"
    <3>1. CASE StartInsert(u)
      <4>1. u # s
        BY <2>i, <3>1 DEF StartInsert, Pending
      <4> QED
        BY <2>i, <3>1, <4>1 DEF StartInsert, InsertScenario, scenarioVars, TypeOK
    <3>2. CASE AgentStartRecording(u)
      BY <3>2 DEF AgentStartRecording, NameQueryErr, scenarioVars
    <3>3. CASE \/ StartCheckActive(u) \/ StartCheckActiveFails(u)
               \/ StartCheckName(u) \/ StartInsertFails(u)
      BY <3>3 DEF StartCheckActive, StartCheckActiveFails, StartCheckName,
                  StartInsertFails, scenarioVars
    <3> QED
      BY <2>1, <3>1, <3>2, <3>3 DEF Starting
  <2>2. ASSUME NEW t \in Stops, Stopping(t)
        PROVE  status'[s] = "completed"
    BY <2>i, <2>2 DEF Stopping, StopFind, StopFindNone, StopCount, StopUpdate,
                      StopUpdateFails, scenarioVars, TypeOK
  <2>3. CASE Restart \/ \E e \in Events : EmitTag(e) \/ EmitInsert(e)
    BY <2>3 DEF Restart, EmitTag, EmitInsert, scenarioVars
  <2> QED
    BY <2>1, <2>2, <2>3 DEF Next
<1> QED
  BY <1>1, Invariance, PTL DEF Spec, StoppedForGood
=============================================================================
