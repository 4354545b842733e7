------------------------------- MODULE Replay -------------------------------
(***************************************************************************)
(* Replaying a scenario: POST /api/scenarios/{id}/replay, which runs       *)
(* replay.Execute on the handler's goroutine under the request's context.  *)
(* The client may go away at any time, which cancels that context for      *)
(* good: the query under way and all later ones fail, the request to the   *)
(* target fails, and the loop over the plan is left.  Several replays of   *)
(* the scenario may run at a time, while events of the scenario are still  *)
(* being inserted: a capture reads its tag before it inserts, so a row can *)
(* appear after the recording was stopped.                                 *)
(*                                                                         *)
(* Entries are the HTTP requests of the scenario that are replayable, in   *)
(* the order of their timestamps; other events never get into a plan.      *)
(***************************************************************************)
EXTENDS Naturals, FiniteSets

CONSTANTS NumEntries, \* how many replayable requests the scenario can hold
          Unsafe,     \* those with a method other than GET, HEAD and OPTIONS
          Runs        \* replay requests

Entries == 1 .. NumEntries

ASSUME NumEntriesAssumption == NumEntries \in Nat
ASSUME UnsafeAssumption == Unsafe \subseteq Entries

VARIABLES
  recording, \* the scenario's status is 'recording'
  rows,      \* the entries among the scenario's events
  pc,        \* pc[r]: where the Execute of run r is
  canceled,  \* canceled[r]: the context of its request is done
  skip,      \* skip[r]: its option SkipUnsafe
  confirm,   \* confirm[r]: its option ConfirmUnsafe
  plan,      \* plan[r]: the entries of its plan
  rest,      \* rest[r]: those the loop has not come to yet
  current,   \* current[r]: the entry it executes
  result,    \* result[r]: the counters of its Result
  row,       \* row[r]: its row in replay_runs
  sent,      \* history: sent[r] = the entries sent to the target
  matched    \* history: matched[r] = those answered with the original status

scenarioVars == <<recording, rows>>
optionVars == <<skip, confirm>>
loopVars == <<rest, current, result, sent, matched>>
vars == <<scenarioVars, optionVars, loopVars, pc, canceled, plan, row>>

States == {"idle", "admitted", "planned", "looping", "executing", "reporting", "done"}
Counters == [passed : Nat, failed : Nat, skipped : Nat]
Rows == [status : {"none", "running", "passed", "failed"}, requestCount : Nat,
         passed : Nat, failed : Nat]

Zero == [passed |-> 0, failed |-> 0, skipped |-> 0]
NoRow == [status |-> "none", requestCount |-> 0, passed |-> 0, failed |-> 0]

Init ==
  /\ recording = TRUE
  /\ rows = {}
  /\ pc = [r \in Runs |-> "idle"]
  /\ canceled = [r \in Runs |-> FALSE]
  /\ skip = [r \in Runs |-> FALSE]
  /\ confirm = [r \in Runs |-> FALSE]
  /\ plan = [r \in Runs |-> {}]
  /\ rest = [r \in Runs |-> {}]
  /\ current = [r \in Runs |-> 0]
  /\ result = [r \in Runs |-> Zero]
  /\ row = [r \in Runs |-> NoRow]
  /\ sent = [r \in Runs |-> {}]
  /\ matched = [r \in Runs |-> {}]

-----------------------------------------------------------------------------
(* The scenario                                                            *)

InsertEvent(e) ==
  /\ e \notin rows
  /\ rows' = rows \cup {e}
  /\ UNCHANGED <<recording, optionVars, loopVars, pc, canceled, plan, row>>

StopRecording ==
  /\ recording
  /\ recording' = FALSE
  /\ UNCHANGED <<rows, optionVars, loopVars, pc, canceled, plan, row>>

-----------------------------------------------------------------------------
(* Execute, up to the insertion of the run                                 *)

Step(r, from, to) ==
  /\ pc[r] = from
  /\ pc' = [pc EXCEPT ![r] = to]

\* The scenario is looked up and is not being recorded.
Admit(r, s, c) ==
  /\ ~recording
  /\ Step(r, "idle", "admitted")
  /\ skip' = [skip EXCEPT ![r] = s]
  /\ confirm' = [confirm EXCEPT ![r] = c]
  /\ UNCHANGED <<scenarioVars, loopVars, canceled, plan, row>>

\* Mutant: without an option only the first entry decides.
ConsentedFirst(r, p) ==
  skip[r] \/ confirm[r] \/ \E e \in p : e \notin Unsafe /\ \A f \in p : e <= f

Consented(r, p) == skip[r] \/ confirm[r] \/ p \cap Unsafe = {}

MakePlan(r) ==
  /\ ~canceled[r]
  /\ rows # {}
  /\ Consented(r, rows)
  /\ Step(r, "admitted", "planned")
  /\ plan' = [plan EXCEPT ![r] = rows]
  /\ rest' = [rest EXCEPT ![r] = rows]
  /\ UNCHANGED <<scenarioVars, optionVars, canceled, row, current, result, sent, matched>>

InsertRun(r) ==
  /\ ~canceled[r]
  /\ Step(r, "planned", "looping")
  /\ row' = [row EXCEPT ![r] = [status |-> "running", requestCount |-> Cardinality(plan[r]),
                                passed |-> 0, failed |-> 0]]
  /\ UNCHANGED <<scenarioVars, optionVars, loopVars, canceled, plan>>

\* The scenario does not exist or is being recorded, the plan is empty or not
\* consented to, or a query fails: 400, and no run is stored.
Refuse(r) ==
  /\ \/ Step(r, "idle", "done")
     \/ Step(r, "admitted", "done")
     \/ Step(r, "planned", "done")
  /\ UNCHANGED <<scenarioVars, optionVars, loopVars, canceled, plan, row>>

-----------------------------------------------------------------------------
(* The loop over the plan                                                  *)

IsNext(r, e) == e \in rest[r] /\ \A f \in rest[r] : e <= f

Count(r, field) == result' = [result EXCEPT ![r][field] = @ + 1]

Skip(r) ==
  /\ ~canceled[r]
  /\ skip[r]
  /\ \E e \in Unsafe :
       /\ IsNext(r, e)
       /\ rest' = [rest EXCEPT ![r] = @ \ {e}]
  /\ Step(r, "looping", "looping")
  /\ Count(r, "skipped")
  /\ UNCHANGED <<scenarioVars, optionVars, canceled, plan, row, current, sent, matched>>

Send(r) ==
  /\ ~canceled[r]
  /\ \E e \in Entries :
       /\ IsNext(r, e)
       /\ e \in Unsafe => ~skip[r]
       /\ rest' = [rest EXCEPT ![r] = @ \ {e}]
       /\ current' = [current EXCEPT ![r] = e]
       /\ sent' = [sent EXCEPT ![r] = @ \cup {e}]
  /\ Step(r, "looping", "executing")
  /\ UNCHANGED <<scenarioVars, optionVars, canceled, plan, row, result, matched>>

Match(r) ==
  /\ Step(r, "executing", "looping")
  /\ Count(r, "passed")
  /\ matched' = [matched EXCEPT ![r] = @ \cup {current[r]}]
  /\ UNCHANGED <<scenarioVars, optionVars, canceled, plan, row, rest, current, sent>>

\* Another status.
Mismatch(r) ==
  /\ Step(r, "executing", "looping")
  /\ Count(r, "failed")
  /\ UNCHANGED <<scenarioVars, optionVars, canceled, plan, row, rest, current, sent, matched>>

\* Mutant: the client has no timeout, so only the context ends a request.
NoAnswerButCanceled(r) ==
  /\ canceled[r]
  /\ Mismatch(r)

\* The connection fails, the context is done, or 30 seconds are over.
NoAnswer(r) == Mismatch(r)

LeaveLoop(r) ==
  /\ rest[r] = {} \/ canceled[r]
  /\ Step(r, "looping", "reporting")
  /\ UNCHANGED <<scenarioVars, optionVars, loopVars, canceled, plan, row>>

-----------------------------------------------------------------------------
(* The end of the run                                                      *)

\* Mutant: a run that skipped entries is reported as 'partial'.
WriteVerdictPartial(r) ==
  row' = [row EXCEPT ![r] = [@ EXCEPT !.status =
                               IF result[r].skipped > 0 THEN "partial" ELSE "passed"]]

WriteVerdict(r) ==
  row' = [row EXCEPT ![r] = [status |-> IF result[r].failed > 0 THEN "failed" ELSE "passed",
                             requestCount |-> @.requestCount,
                             passed |-> result[r].passed,
                             failed |-> result[r].failed]]

\* Mutant: the row is updated under a context of its own.
ReportDetached(r) ==
  /\ Step(r, "reporting", "done")
  /\ WriteVerdict(r)
  /\ UNCHANGED <<scenarioVars, optionVars, loopVars, canceled, plan>>

Report(r) ==
  /\ ~canceled[r]
  /\ Step(r, "reporting", "done")
  /\ WriteVerdict(r)
  /\ UNCHANGED <<scenarioVars, optionVars, loopVars, canceled, plan>>

\* UpdateStatus fails, as it does whenever the context is done: the error is
\* logged and the row says 'running' for ever.
ReportFails(r) ==
  /\ Step(r, "reporting", "done")
  /\ UNCHANGED <<scenarioVars, optionVars, loopVars, canceled, plan, row>>

\* The client goes away (Ctrl+C in the CLI, a closed tab).
ClientLeaves(r) ==
  /\ pc[r] \notin {"idle", "done"}
  /\ ~canceled[r]
  /\ canceled' = [canceled EXCEPT ![r] = TRUE]
  /\ UNCHANGED <<scenarioVars, optionVars, loopVars, pc, plan, row>>

\* The agent is killed; when it comes up again nothing looks at the open rows.
Killed ==
  /\ pc' = [r \in Runs |-> IF pc[r] = "idle" THEN "idle" ELSE "done"]
  /\ UNCHANGED <<scenarioVars, optionVars, loopVars, canceled, plan, row>>
-----------------------------------------------------------------------------
Preparing(r) ==
  \/ MakePlan(r)
  \/ InsertRun(r)
  \/ Refuse(r)

Executing(r) ==
  \/ Skip(r)
  \/ Send(r)
  \/ Match(r)
  \/ Mismatch(r)
  \/ NoAnswer(r)
  \/ LeaveLoop(r)
  \/ Report(r)
  \/ ReportFails(r)

Next ==
  \/ \E e \in Entries : InsertEvent(e)
  \/ StopRecording
  \/ \E r \in Runs, s, c \in BOOLEAN : Admit(r, s, c)
  \/ \E r \in Runs : Preparing(r) \/ Executing(r) \/ ClientLeaves(r)
  \/ Killed

Spec == Init /\ [][Next]_vars

(* The handler's goroutine runs, and a request to the target ends: at the  *)
(* latest the client's timeout ends it.  The target need not answer.       *)
Fairness ==
  \A r \in Runs :
    /\ WF_vars(Skip(r) \/ Send(r) \/ LeaveLoop(r))
    /\ WF_vars(NoAnswer(r))
    /\ WF_vars(Report(r) \/ ReportFails(r))

FairSpec == Spec /\ Fairness
-----------------------------------------------------------------------------
TypeOK ==
  /\ recording \in BOOLEAN
  /\ rows \subseteq Entries
  /\ pc \in [Runs -> States]
  /\ canceled \in [Runs -> BOOLEAN]
  /\ skip \in [Runs -> BOOLEAN]
  /\ confirm \in [Runs -> BOOLEAN]
  /\ plan \in [Runs -> SUBSET Entries]
  /\ rest \in [Runs -> SUBSET Entries]
  /\ current \in [Runs -> Entries \cup {0}]
  /\ result \in [Runs -> Counters]
  /\ row \in [Runs -> Rows]
  /\ sent \in [Runs -> SUBSET Entries]
  /\ matched \in [Runs -> SUBSET Entries]

(* A request that can change the target is sent only when the user         *)
(* confirmed it and did not ask to skip such requests, although the        *)
(* scenario can gain events while the replay is prepared and runs: the     *)
(* plan that was consented to is the plan that is executed.                *)
ConsentedOnly ==
  \A r \in Runs : sent[r] \cap Unsafe # {} => confirm[r] /\ ~skip[r]

(* A verdict speaks about the whole plan, although a client that leaves    *)
(* breaks the loop off: the stored counters and the skipped entries add up *)
(* to the number of requests, and 'passed' means that every entry that was *)
(* not to be skipped was sent and answered with its original status.       *)
VerdictIsEarned ==
  \A r \in Runs : row[r].status \in {"passed", "failed"} =>
    /\ row[r].passed + row[r].failed + result[r].skipped = row[r].requestCount
    /\ row[r].status = "passed" =>
         \A e \in plan[r] : e \in matched[r] \/ (skip[r] /\ e \in Unsafe)

(* A replay that began ends, whatever the target does: it may never        *)
(* answer, and the client may leave or stay.                               *)
ReplayEnds == \A r \in Runs : pc[r] = "looping" ~> pc[r] = "done"
=============================================================================
