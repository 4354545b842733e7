----------------------------- MODULE Recording -----------------------------
(***************************************************************************)
(* Scenario recording: the handlers of POST /api/scenarios/start and       *)
(* /stop, the agent's own StartRecording, and the tagging of events in     *)
(* agentSink.Emit.  The handlers keep no lock and no transaction over      *)
(* their queries, so every query is a step; the truth about recordings is  *)
(* kept twice, in the status column of the scenarios table (which the      *)
(* handlers use) and in Agent.activeRecording (which the sink uses).       *)
(*                                                                         *)
(* The scenarios table has UNIQUE (name) and a foreign key to              *)
(* config_snapshots; the connection is opened with _foreign_keys=on.  The  *)
(* handlers and StartRecording write the empty config_snapshot_id, here    *)
(* Blank, and nothing outside the tests ever inserts a snapshot: Snapshots *)
(* is what the database file holds when the agent opens it, {} for a file  *)
(* that this code created.                                                 *)
(***************************************************************************)
EXTENDS Naturals, FiniteSets

CONSTANTS Starts,      \* start requests; the scenario each inserts has a fresh id
          Stops,       \* stop requests
          Events,      \* Emit calls
          NameOf,      \* NameOf[s]: the name start request s asks for
          Snapshots,   \* the rows of config_snapshots
          Blank,       \* the empty config_snapshot_id
          MaxInFlight, \* how many start requests are handled at a time
          MaxRestarts, \* bound on restarts of the agent
          None         \* no scenario

ASSUME StartsAssumption == IsFiniteSet(Starts) /\ None \notin Starts
ASSUME EventsAssumption == IsFiniteSet(Events)
ASSUME MaxInFlightAssumption == MaxInFlight \in Nat \ {0}
ASSUME MaxRestartsAssumption == MaxRestarts \in Nat

VARIABLES
  status,          \* status[s]: the row of s in scenarios, "absent" for none
  eventCount,      \* the column event_count
  events,          \* events[e]: what the row of e holds as scenario_id
  activeRecording, \* Agent.activeRecording
  startPc,         \* where the handler of each start request is
  answer,          \* how it was answered
  stopPc,          \* where the handler of each stop request is
  target,          \* target[t]: the scenario that stop request t found
  counted,         \* counted[t]: the events it counted
  emitPc,          \* where each Emit call is
  tag,             \* tag[e]: the scenario Emit put on the event
  restarts,        \* how often the agent was restarted
  blind,           \* history: starts whose query for an active recording failed
  during           \* history: during[e] = the scenarios recording when Emit read
                   \* the tag of e

scenarioVars == <<status, eventCount>>
startVars == <<startPc, answer, blind>>
stopVars == <<stopPc, target, counted>>
emitVars == <<events, emitPc, tag, during>>
vars == <<scenarioVars, startVars, stopVars, emitVars, activeRecording, restarts>>

StartStates == {"idle", "checked", "cleared", "done"}
\* The code answers 500 storage_error to both a refused and a failed INSERT.
Answers == {"none", "created", "conflict", "refused", "failed", "lost"}
StopStates == {"idle", "found", "counted", "done"}
EmitStates == {"idle", "tagged", "done"}

RecordingNow == {s \in Starts : status[s] = "recording"}
InFlight == {s \in Starts : startPc[s] \in {"checked", "cleared"}}
NameTaken(n) == \E s \in Starts : status[s] # "absent" /\ NameOf[s] = n

Init ==
  /\ status = [s \in Starts |-> "absent"]
  /\ eventCount = [s \in Starts |-> 0]
  /\ events = [e \in Events |-> None]
  /\ activeRecording = None
  /\ startPc = [s \in Starts |-> "idle"]
  /\ answer = [s \in Starts |-> "none"]
  /\ stopPc = [t \in Stops |-> "idle"]
  /\ target = [t \in Stops |-> None]
  /\ counted = [t \in Stops |-> 0]
  /\ emitPc = [e \in Events |-> "idle"]
  /\ tag = [e \in Events |-> None]
  /\ restarts = 0
  /\ blind = {}
  /\ during = [e \in Events |-> {}]

-----------------------------------------------------------------------------
(* handleStartRecording                                                    *)

Answer(s, a) ==
  /\ startPc' = [startPc EXCEPT ![s] = "done"]
  /\ answer' = [answer EXCEPT ![s] = a]

Proceed(s, from, to) ==
  /\ startPc[s] = from
  /\ startPc' = [startPc EXCEPT ![s] = to]
  /\ UNCHANGED answer

UnchangedByStart == UNCHANGED <<stopVars, emitVars, activeRecording, restarts>>

\* Mutant: the handler goes on without looking for an active recording.
StartCheckActiveSkipped(s) ==
  /\ Cardinality(InFlight) < MaxInFlight
  /\ Proceed(s, "idle", "checked")
  /\ UNCHANGED <<scenarioVars, blind>>
  /\ UnchangedByStart

\* GetActiveRecording: no row of status 'recording' lets the request go on.
StartCheckActive(s) ==
  /\ Cardinality(InFlight) < MaxInFlight
  /\ IF RecordingNow = {}
     THEN Proceed(s, "idle", "checked")
     ELSE startPc[s] = "idle" /\ Answer(s, "conflict")
  /\ UNCHANGED <<scenarioVars, blind>>
  /\ UnchangedByStart

\* The query fails; its error is discarded and the nil scenario taken for none.
StartCheckActiveFails(s) ==
  /\ Cardinality(InFlight) < MaxInFlight
  /\ Proceed(s, "idle", "checked")
  /\ blind' = blind \cup {s}
  /\ UNCHANGED scenarioVars
  /\ UnchangedByStart

\* GetByName: also here a failing query, like no row, lets the request go on.
StartCheckName(s) ==
  /\ \/ Proceed(s, "checked", "cleared")
     \/ /\ startPc[s] = "checked"
        /\ NameTaken(NameOf[s])
        /\ Answer(s, "conflict")
  /\ UNCHANGED <<scenarioVars, blind>>
  /\ UnchangedByStart

\* Mutant: the table has no UNIQUE (name).
InsertableAnyName(s) == Blank \in Snapshots

\* The constraints of the table: the name is new and the snapshot exists.
Insertable(s) == ~NameTaken(NameOf[s]) /\ Blank \in Snapshots

InsertScenario(s) ==
  /\ Insertable(s)
  /\ status' = [status EXCEPT ![s] = "recording"]
  /\ UNCHANGED eventCount

\* Mutant: a name in use resumes its scenario (INSERT ... ON CONFLICT DO UPDATE).
StartInsertResumes(s) ==
  /\ startPc[s] = "cleared"
  /\ \E u \in Starts :
       /\ NameOf[u] = NameOf[s]
       /\ u # s => status[u] # "absent"
       /\ status' = [status EXCEPT ![u] = "recording"]
  /\ Answer(s, "created")
  /\ UNCHANGED <<eventCount, blind>>
  /\ UnchangedByStart

StartInsert(s) ==
  /\ startPc[s] = "cleared"
  /\ IF Insertable(s)
     THEN InsertScenario(s) /\ Answer(s, "created")
     ELSE Answer(s, "refused") /\ UNCHANGED scenarioVars
  /\ UNCHANGED blind
  /\ UnchangedByStart

\* The database is busy or closed, or the client of the request is gone.
StartInsertFails(s) ==
  /\ startPc[s] = "cleared"
  /\ Answer(s, "failed")
  /\ UNCHANGED <<scenarioVars, blind>>
  /\ UnchangedByStart
-----------------------------------------------------------------------------
(* Agent.StartRecording, the entry point that would set activeRecording.   *)
(* GetByName reports an absent name as the error sql.ErrNoRows, which      *)
(* StartRecording returns, so its INSERT is never reached.                 *)

NameQueryErr(n) == ~NameTaken(n)

AgentStartRecording(s) ==
  /\ startPc[s] = "idle"
  /\ IF \/ activeRecording # None
        \/ NameQueryErr(NameOf[s])
        \/ NameTaken(NameOf[s])
        \/ ~Insertable(s)
     THEN /\ Answer(s, "conflict")
          /\ UNCHANGED <<scenarioVars, activeRecording>>
     ELSE /\ InsertScenario(s)
          /\ Answer(s, "created")
          /\ activeRecording' = s
  /\ UNCHANGED <<blind, stopVars, emitVars, restarts>>
-----------------------------------------------------------------------------
(* handleStopRecording                                                     *)

StopStep(t, from, to) ==
  /\ stopPc[t] = from
  /\ stopPc' = [stopPc EXCEPT ![t] = to]

UnchangedByStop == UNCHANGED <<startVars, emitVars, activeRecording, restarts>>

\* GetActiveRecording takes one row of status 'recording', whichever comes first.
StopFind(t) ==
  /\ StopStep(t, "idle", "found")
  /\ \E s \in RecordingNow : target' = [target EXCEPT ![t] = s]
  /\ UNCHANGED <<scenarioVars, counted>>
  /\ UnchangedByStop

\* Mutant: the handler goes on with no active recording.
StopFindNoneUnchecked(t) ==
  /\ StopStep(t, "idle", "found")
  /\ UNCHANGED <<scenarioVars, target, counted>>
  /\ UnchangedByStop

\* No row, or the query failed: 404.
StopFindNone(t) ==
  /\ StopStep(t, "idle", "done")
  /\ UNCHANGED <<scenarioVars, target, counted>>
  /\ UnchangedByStop

\* ListByScenario; its error is discarded and leaves nothing to count.
StopCount(t) ==
  /\ StopStep(t, "found", "counted")
  /\ \E n \in {0, Cardinality({e \in Events : events[e] = target[t]})} :
       counted' = [counted EXCEPT ![t] = n]
  /\ UNCHANGED <<scenarioVars, target>>
  /\ UnchangedByStop

\* UpdateStatus by id, whatever the status is by now.
StopUpdate(t) ==
  /\ StopStep(t, "counted", "done")
  /\ status' = [status EXCEPT ![target[t]] = "completed"]
  /\ eventCount' = [eventCount EXCEPT ![target[t]] = counted[t]]
  /\ UNCHANGED <<target, counted>>
  /\ UnchangedByStop

\* The UPDATE fails: 500, and the scenario stays in recording.
StopUpdateFails(t) ==
  /\ StopStep(t, "counted", "done")
  /\ UNCHANGED <<scenarioVars, target, counted>>
  /\ UnchangedByStop
-----------------------------------------------------------------------------
(* agentSink.Emit: the tag is read under the agent's lock, and inserted    *)
(* with the event afterwards.  No adapter presets a scenario.              *)

EmitTag(e) ==
  /\ emitPc[e] = "idle"
  /\ emitPc' = [emitPc EXCEPT ![e] = "tagged"]
  /\ tag' = [tag EXCEPT ![e] = activeRecording]
  /\ during' = [during EXCEPT ![e] = RecordingNow]
  /\ UNCHANGED <<scenarioVars, startVars, stopVars, events, activeRecording, restarts>>

EmitInsert(e) ==
  /\ emitPc[e] = "tagged"
  /\ emitPc' = [emitPc EXCEPT ![e] = "done"]
  /\ events' = [events EXCEPT ![e] = tag[e]]
  /\ UNCHANGED <<scenarioVars, startVars, stopVars, tag, during, activeRecording, restarts>>
-----------------------------------------------------------------------------
(* The agent goes down, with every request and Emit call in it, and comes  *)
(* up again: the tables stay, activeRecording is lost.  New does not look  *)
(* into the table for a recording that is still open.                      *)

Lost(pc, x) == IF pc[x] = "idle" THEN "idle" ELSE "done"

Restart ==
  /\ restarts < MaxRestarts
  /\ restarts' = restarts + 1
  /\ activeRecording' = None
  /\ startPc' = [s \in Starts |-> Lost(startPc, s)]
  /\ answer' = [s \in Starts |-> IF s \in InFlight THEN "lost" ELSE answer[s]]
  /\ stopPc' = [t \in Stops |-> Lost(stopPc, t)]
  /\ emitPc' = [e \in Events |-> Lost(emitPc, e)]
  /\ UNCHANGED <<scenarioVars, blind, target, counted, events, tag, during>>
-----------------------------------------------------------------------------
Starting(s) ==
  \/ StartCheckActive(s)
  \/ StartCheckActiveFails(s)
  \/ StartCheckName(s)
  \/ StartInsert(s)
  \/ StartInsertFails(s)
  \/ AgentStartRecording(s)

Stopping(t) ==
  \/ StopFind(t)
  \/ StopFindNone(t)
  \/ StopCount(t)
  \/ StopUpdate(t)
  \/ StopUpdateFails(t)

Next ==
  \/ \E s \in Starts : Starting(s)
  \/ \E t \in Stops : Stopping(t)
  \/ \E e \in Events : EmitTag(e) \/ EmitInsert(e)
  \/ Restart

Spec == Init /\ [][Next]_vars
-----------------------------------------------------------------------------
TypeOK ==
  /\ status \in [Starts -> {"absent", "recording", "completed"}]
  /\ eventCount \in [Starts -> Nat]
  /\ events \in [Events -> Starts \cup {None}]
  /\ activeRecording \in Starts \cup {None}
  /\ startPc \in [Starts -> StartStates]
  /\ answer \in [Starts -> Answers]
  /\ \A s \in Starts : answer[s] # "none" <=> startPc[s] = "done"
  /\ stopPc \in [Stops -> StopStates]
  /\ target \in [Stops -> Starts \cup {None}]
  /\ \A t \in Stops : stopPc[t] \in {"found", "counted"} => target[t] \in Starts
  /\ counted \in [Stops -> Nat]
  /\ emitPc \in [Events -> EmitStates]
  /\ tag \in [Events -> Starts \cup {None}]
  /\ restarts \in 0 .. MaxRestarts
  /\ blind \subseteq Starts
  /\ during \in [Events -> SUBSET Starts]

(* No two scenarios have one name, although the handler looks the name up  *)
(* and inserts it in separate statements and takes a failed look-up for a  *)
(* free name: two requests that race for a name cannot both win.           *)
UniqueNames ==
  \A s, u \in Starts :
    /\ status[s] # "absent"
    /\ status[u] # "absent"
    /\ NameOf[s] = NameOf[u]
    => s = u

(* "Check if already recording" (handlers.go) bounds the recordings that   *)
(* are open at a time by the number of start requests handled at a time,   *)
(* not by one - leaving aside requests whose check itself failed - across  *)
(* restarts too.  With requests one at a time there is one at most.        *)
ActiveBound == Cardinality(RecordingNow \ blind) <= MaxInFlight

(* A stopped recording is never taken up again, whatever requests overlap  *)
(* and however often the agent restarts: the scenario a replay or an       *)
(* export found completed stays so (replay.go and export.go test the       *)
(* status once, at their start).                                           *)
StoppedForGood ==
  [][\A s \in Starts : status[s] = "completed" => status'[s] = "completed"]_vars

(* A start request that found no recording and a free name is answered     *)
(* with a scenario, as scripts/e2e-test.js expects (201): as long as the   *)
(* database works, the INSERT is refused only for a name that another      *)
(* request took in between.                                                *)
StartSucceeds ==
  \A s \in Starts :
    answer[s] = "refused" =>
      \E u \in Starts \ {s} : status[u] # "absent" /\ NameOf[u] = NameOf[s]

(* docs/cli.md, localcloud record: "All events captured while recording is *)
(* active are tagged with the scenario ID."  An event is captured during s *)
(* when s is recording both as Emit reads the tag and as it inserts.       *)
CapturedIsTagged ==
  [][\A e \in Events :
       /\ emitPc[e] = "tagged"
       /\ emitPc'[e] = "done"
       /\ restarts' = restarts
       /\ during[e] \cap RecordingNow # {}
       => events'[e] # None]_vars
=============================================================================
