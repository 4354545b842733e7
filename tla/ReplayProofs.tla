---------------------------- MODULE ReplayProofs ----------------------------
(***************************************************************************)
(* Proofs about Replay, for any number of entries and of replays.  Two     *)
(* arguments: the plan that was consented to is the one that is executed,  *)
(* and at every point of the loop the counters account for what it has     *)
(* passed, so that only a loop that came to its end leads to a verdict.    *)
(***************************************************************************)
EXTENDS Replay, FiniteSetTheorems, TLAPS

\* Before the plan is made there is nothing to execute and nothing to report.
Blank(r) ==
  /\ sent[r] = {}
  /\ matched[r] = {}
  /\ result[r] = Zero
  /\ row[r] = NoRow

Beginning(r) ==
  /\ pc[r] \in {"idle", "admitted"} => plan[r] = {} /\ rest[r] = {} /\ Blank(r)
  /\ pc[r] = "planned" => rest[r] = plan[r] /\ Blank(r)

\* Nobody is asked twice: plan, options and consent stay together.
Consent(r) ==
  /\ plan[r] \cap Unsafe # {} => skip[r] \/ confirm[r]
  /\ sent[r] \subseteq plan[r]
  /\ rest[r] \subseteq plan[r]
  /\ sent[r] \cap Unsafe # {} => ~skip[r]

\* What the loop has counted so far, the entry under way not included.
Counted(r) == result[r].passed + result[r].failed + result[r].skipped
UnderWay(r) == IF pc[r] = "executing" THEN 1 ELSE 0

Running(r) == pc[r] \in {"looping", "executing", "reporting"}

\* The counters account for every entry behind the loop.
Accounting(r) == Running(r) =>
  /\ row[r].status = "running"
  /\ row[r].requestCount = Cardinality(plan[r])
  /\ Counted(r) + UnderWay(r) + Cardinality(rest[r]) = Cardinality(plan[r])

Matches(r, e) == e \in matched[r] \/ (skip[r] /\ e \in Unsafe)

\* As long as nothing failed, every entry behind the loop matched or was skipped.
NoFailure(r) == Running(r) /\ result[r].failed = 0 =>
  \A e \in plan[r] \ rest[r] : Matches(r, e) \/ (pc[r] = "executing" /\ e = current[r])

\* The loop is left at its end, or because the client is gone.
Ending(r) ==
  /\ pc[r] = "executing" => current[r] \in Entries
  /\ pc[r] = "reporting" => rest[r] = {} \/ canceled[r]
  /\ row[r].status \in {"passed", "failed"} => pc[r] = "done"

Verdict(r) == row[r].status \in {"passed", "failed"} =>
  /\ row[r].passed + row[r].failed + result[r].skipped = row[r].requestCount
  /\ row[r].status = "passed" => \A e \in plan[r] : Matches(r, e)

Good(r) ==
  /\ Beginning(r)
  /\ Consent(r)
  /\ Accounting(r)
  /\ NoFailure(r)
  /\ Ending(r)
  /\ Verdict(r)

IInv == TypeOK /\ \A r \in Runs : Good(r)

\* The step does not concern run q, but that its client may leave.
Same(q) ==
  /\ pc'[q] = pc[q]
  /\ canceled[q] => canceled'[q]
  /\ skip'[q] = skip[q]
  /\ confirm'[q] = confirm[q]
  /\ plan'[q] = plan[q]
  /\ rest'[q] = rest[q]
  /\ current'[q] = current[q]
  /\ result'[q] = result[q]
  /\ row'[q] = row[q]
  /\ sent'[q] = sent[q]
  /\ matched'[q] = matched[q]
-----------------------------------------------------------------------------
(* The entries of a scenario are finitely many.                            *)
LEMMA Finite ==
  ASSUME NEW S \in SUBSET Entries
  PROVE  IsFiniteSet(S) /\ Cardinality(S) \in Nat
<1>1. IsFiniteSet(Entries)
  BY NumEntriesAssumption, FS_Interval DEF Entries
<1> QED
  BY <1>1, FS_Subset, FS_CardinalityType

(* Taking an entry out of the rest leaves one less.                        *)
LEMMA OneLess ==
  ASSUME NEW S \in SUBSET Entries, NEW e \in S
  PROVE  Cardinality(S) = Cardinality(S \ {e}) + 1
<1>1. IsFiniteSet(S)
  BY Finite
<1>2. Cardinality(S \ {e}) = Cardinality(S) - 1
  BY <1>1, FS_RemoveElement
<1> QED
  BY <1>1, <1>2, FS_CardinalityType

(* Counting one entry more leaves natural numbers.                         *)
LEMMA CountTyped ==
  ASSUME NEW r \in Runs, NEW field \in {"passed", "failed", "skipped"},
         result \in [Runs -> Counters],
         Count(r, field)
  PROVE  result' \in [Runs -> Counters]
<1> DEFINE new == [result[r] EXCEPT ![field] = @ + 1]
<1>1. result[r] \in Counters
  OBVIOUS
<1>2. new \in Counters
  <2>1. CASE field = "passed"
    BY <1>1, <2>1 DEF Counters
  <2>2. CASE field = "failed"
    BY <1>1, <2>2 DEF Counters
  <2>3. CASE field = "skipped"
    BY <1>1, <2>3 DEF Counters
  <2> QED
    BY <2>1, <2>2, <2>3
<1>3. result' = [result EXCEPT ![r] = new]
  BY DEF Count
<1> HIDE DEF new
<1> QED
  BY <1>2, <1>3

(* Before any request nothing is planned, counted or stored.               *)
LEMMA InitInvariant == Init => IInv
<1> SUFFICES ASSUME Init
             PROVE  IInv
  OBVIOUS
<1>1. TypeOK
  BY DEF Init, TypeOK, States, Counters, Rows, Zero, NoRow
<1>2. ASSUME NEW r \in Runs
      PROVE  Good(r)
  BY DEF Init, Good, Beginning, Blank, Consent, Accounting, NoFailure, Ending, Verdict,
         Running, NoRow
<1> QED
  BY <1>1, <1>2 DEF IInv

(* Every step keeps the types.                                             *)
LEMMA TypeStep == IInv /\ [Next]_vars => TypeOK'
<1> SUFFICES ASSUME IInv, [Next]_vars
             PROVE  TypeOK'
  OBVIOUS
<1> TypeOK
  BY DEF IInv
<1> USE DEF TypeOK, States, scenarioVars, optionVars, loopVars
<1>1. CASE UNCHANGED vars
  BY <1>1 DEF vars
<1>2. ASSUME NEW e \in Entries, InsertEvent(e)
      PROVE  TypeOK'
  BY <1>2 DEF InsertEvent
<1>3. CASE StopRecording
  BY <1>3 DEF StopRecording
<1>4. ASSUME NEW r \in Runs, NEW s \in BOOLEAN, NEW c \in BOOLEAN, Admit(r, s, c)
      PROVE  TypeOK'
  BY <1>4 DEF Admit, Step
<1>5. ASSUME NEW r \in Runs, Preparing(r)
      PROVE  TypeOK'
  <2>1. CASE MakePlan(r) \/ Refuse(r)
    BY <2>1 DEF MakePlan, Refuse, Step
  <2>2. CASE InsertRun(r)
    <3>1. Cardinality(plan[r]) \in Nat
      BY Finite
    <3> QED
      BY <2>2, <3>1 DEF InsertRun, Step, Rows
  <2> QED
    BY <1>5, <2>1, <2>2 DEF Preparing
<1>6. ASSUME NEW r \in Runs, Executing(r)
      PROVE  TypeOK'
  <2>1. CASE Skip(r)
    <3>1. result' \in [Runs -> Counters]
      BY <2>1, CountTyped DEF Skip
    <3>2. rest' \in [Runs -> SUBSET Entries]
      BY <2>1 DEF Skip
    <3> QED
      BY <2>1, <3>1, <3>2 DEF Skip, Step
  <2>2. CASE Send(r)
    <3>1. PICK e \in Entries : /\ rest' = [rest EXCEPT ![r] = @ \ {e}]
                              /\ current' = [current EXCEPT ![r] = e]
                              /\ sent' = [sent EXCEPT ![r] = @ \cup {e}]
      BY <2>2 DEF Send
    <3>2. /\ rest' \in [Runs -> SUBSET Entries]
          /\ current' \in [Runs -> Entries \cup {0}]
          /\ sent' \in [Runs -> SUBSET Entries]
      BY <3>1
    <3> QED
      BY <2>2, <3>2 DEF Send, Step
  <2>6. CASE LeaveLoop(r) \/ ReportFails(r)
    BY <2>6 DEF LeaveLoop, ReportFails, Step
  <2>3. CASE Match(r)
    <3>1. current[r] \in Entries
      BY <2>3 DEF Match, Step, IInv, Good, Ending
    <3>2. matched' \in [Runs -> SUBSET Entries]
      BY <2>3, <3>1 DEF Match
    <3>3. result' \in [Runs -> Counters]
      BY <2>3, CountTyped DEF Match
    <3> QED
      BY <2>3, <3>2, <3>3 DEF Match, Step
  <2>4. CASE Mismatch(r) \/ NoAnswer(r)
    <3>1. result' \in [Runs -> Counters]
      BY <2>4, CountTyped DEF NoAnswer, Mismatch
    <3> QED
      BY <2>4, <3>1 DEF NoAnswer, Mismatch, Step
  <2>5. CASE Report(r)
    <3> DEFINE new == [status |-> IF result[r].failed > 0 THEN "failed" ELSE "passed",
                       requestCount |-> row[r].requestCount,
                       passed |-> result[r].passed,
                       failed |-> result[r].failed]
    <3>1. row' = [row EXCEPT ![r] = new]
      BY <2>5 DEF Report, WriteVerdict
    <3>2. new \in Rows
      BY DEF Rows, Counters
    <3>3. row' \in [Runs -> Rows]
      BY <3>1, <3>2
    <3> QED
      BY <2>5, <3>3 DEF Report, Step
  <2> QED
    BY <1>6, <2>1, <2>2, <2>3, <2>4, <2>5, <2>6 DEF Executing
<1>7. ASSUME NEW r \in Runs, ClientLeaves(r)
      PROVE  TypeOK'
  BY <1>7 DEF ClientLeaves
<1>8. CASE Killed
  BY <1>8 DEF Killed
<1> QED
  BY <1>1, <1>2, <1>3, <1>4, <1>5, <1>6, <1>7, <1>8 DEF Next

(* A run that a step does not concern stays as it is.                      *)
LEMMA Frame ==
  ASSUME NEW q \in Runs, Good(q), Same(q)
  PROVE  Good(q)'
<1> USE DEF Same
<1>1. Beginning(q)' /\ Consent(q)'
  BY DEF Good, Beginning, Blank, Consent
<1>2. Accounting(q)'
  BY DEF Good, Accounting, Running, Counted, UnderWay
<1>3. NoFailure(q)'
  BY DEF Good, NoFailure, Running, Matches
<1>4. Ending(q)' /\ Verdict(q)'
  BY DEF Good, Ending, Verdict, Matches
<1> QED
  BY <1>1, <1>2, <1>3, <1>4 DEF Good

(* The counters of a run are natural numbers.                              *)
LEMMA Numbers ==
  ASSUME TypeOK, NEW r \in Runs
  PROVE  /\ result[r].passed \in Nat
         /\ result[r].failed \in Nat
         /\ result[r].skipped \in Nat
         /\ Cardinality(rest[r]) \in Nat
         /\ Cardinality(plan[r]) \in Nat
<1>1. result[r] \in Counters /\ rest[r] \subseteq Entries /\ plan[r] \subseteq Entries
  BY DEF TypeOK
<1> QED
  BY <1>1, Finite DEF Counters

(* Up to the insertion of its row, a run has a plan at most.               *)
LEMMA PreparingStep ==
  ASSUME IInv, NEW r \in Runs, Preparing(r)
  PROVE  Good(r)'
<1> TypeOK /\ Good(r)
  BY DEF IInv
<1> USE DEF scenarioVars, optionVars, loopVars, Step
<1>1. CASE MakePlan(r)
  <2>1. plan'[r] = rows /\ rest'[r] = rows /\ pc'[r] = "planned" /\ Beginning(r)
    BY <1>1 DEF MakePlan, TypeOK, Good
  <2>2. Blank(r)' /\ row[r] = NoRow
    BY <1>1, <2>1 DEF MakePlan, Good, Beginning, Blank
  <2>3. Beginning(r)'
    BY <2>1, <2>2 DEF Beginning
  <2>4. Consent(r)'
    BY <1>1, <2>1, <2>2 DEF MakePlan, Consented, Consent, Blank
  <2>5. Accounting(r)' /\ NoFailure(r)'
    BY <2>1 DEF Accounting, NoFailure, Running
  <2>6. Ending(r)' /\ Verdict(r)'
    BY <2>1, <2>2 DEF Ending, Verdict, Blank, NoRow
  <2> QED
    BY <2>3, <2>4, <2>5, <2>6 DEF Good
<1>2. CASE InsertRun(r)
  <2>1. /\ pc[r] = "planned" /\ pc'[r] = "looping"
        /\ row'[r] = [status |-> "running", requestCount |-> Cardinality(plan[r]),
                      passed |-> 0, failed |-> 0]
        /\ UNCHANGED <<plan, rest, result, sent, matched, skip, confirm, current>>
    BY <1>2 DEF InsertRun, TypeOK
  <2>2. rest[r] = plan[r] /\ Blank(r)
    BY <2>1 DEF Good, Beginning
  <2>3. Beginning(r)' /\ Consent(r)'
    BY <2>1 DEF Beginning, Consent, Good
  <2>4. Accounting(r)'
    <3>1. Cardinality(rest[r]) \in Nat
      BY Finite DEF TypeOK
    <3>2. Counted(r) = 0
      BY <2>2 DEF Counted, Blank, Zero
    <3> QED
      BY <2>1, <2>2, <3>1, <3>2 DEF Accounting, Counted, UnderWay
  <2>5. NoFailure(r)' /\ Ending(r)' /\ Verdict(r)'
    BY <2>1, <2>2 DEF NoFailure, Ending, Verdict
  <2> QED
    BY <2>3, <2>4, <2>5 DEF Good
<1>3. CASE Refuse(r)
  <2>1. /\ pc[r] \in {"idle", "admitted", "planned"} /\ pc'[r] = "done"
        /\ UNCHANGED <<plan, rest, result, row, sent, matched, skip, confirm>>
    BY <1>3 DEF Refuse, TypeOK
  <2>2. row[r] = NoRow
    BY <2>1 DEF Good, Beginning, Blank
  <2>3. Beginning(r)' /\ Consent(r)'
    BY <2>1 DEF Beginning, Consent, Good
  <2>4. Accounting(r)' /\ NoFailure(r)' /\ Ending(r)' /\ Verdict(r)'
    BY <2>1, <2>2 DEF Accounting, NoFailure, Running, Ending, Verdict, NoRow
  <2> QED
    BY <2>3, <2>4 DEF Good
<1> QED
  BY <1>1, <1>2, <1>3 DEF Preparing

(* The loop counts one entry for every entry it takes out of the rest.     *)
LEMMA LoopStep ==
  ASSUME IInv, NEW r \in Runs, Skip(r) \/ Send(r)
  PROVE  Good(r)'
<1> TypeOK /\ Good(r)
  BY DEF IInv
<1> USE DEF scenarioVars, optionVars, loopVars, Step
<1>1. PICK e \in Entries : /\ IsNext(r, e)
                           /\ e \in Unsafe => Skip(r) \/ ~skip[r]
                           /\ rest' = [rest EXCEPT ![r] = @ \ {e}]
                           /\ Skip(r) => e \in Unsafe
                           /\ ~Skip(r) => /\ current' = [current EXCEPT ![r] = e]
                                          /\ sent' = [sent EXCEPT ![r] = @ \cup {e}]
  BY UnsafeAssumption DEF Skip, Send
<1>2. /\ pc[r] = "looping" /\ rest'[r] = rest[r] \ {e} /\ e \in rest[r]
      /\ UNCHANGED <<plan, row, matched, skip, confirm>>
  BY <1>1 DEF Skip, Send, IsNext, TypeOK
<1>3. /\ Cardinality(rest[r]) = Cardinality(rest'[r]) + 1
      /\ Cardinality(rest'[r]) \in Nat
      /\ Cardinality(plan[r]) \in Nat
  BY <1>2, OneLess, Finite DEF TypeOK
<1>4. CASE Skip(r)
  <2>1. skip[r] /\ pc'[r] = "looping" /\ UNCHANGED sent
    BY <1>4 DEF Skip, TypeOK
  <2>2. /\ result'[r].skipped = result[r].skipped + 1
        /\ result'[r].passed = result[r].passed
        /\ result'[r].failed = result[r].failed
    BY <1>4 DEF Skip, Count, TypeOK, Counters
  <2>3. Beginning(r)' /\ Consent(r)'
    BY <1>2, <2>1 DEF Beginning, Consent, Good
  <2>4. Accounting(r)'
    <3>1. Counted(r)' = Counted(r) + 1 /\ Counted(r) \in Nat
      BY <2>2, Numbers DEF Counted
    <3>2. UnderWay(r) = 0 /\ UnderWay(r)' = 0
      BY <1>2, <2>1 DEF UnderWay
    <3> QED
      BY <1>2, <1>3, <2>1, <3>1, <3>2 DEF Good, Accounting, Running
  <2>5. NoFailure(r)'
    BY <1>1, <1>2, <1>4, <2>1, <2>2 DEF Good, NoFailure, Running, Matches
  <2>6. Ending(r)' /\ Verdict(r)'
    BY <1>2, <2>1 DEF Good, Ending, Verdict
  <2> QED
    BY <2>3, <2>4, <2>5, <2>6 DEF Good
<1>5. CASE Send(r) /\ ~Skip(r)
  <2>1. /\ pc'[r] = "executing"
        /\ current'[r] = e
        /\ sent'[r] = sent[r] \cup {e}
        /\ UNCHANGED result
    BY <1>1, <1>5 DEF Send, TypeOK
  <2>2. Beginning(r)'
    BY <2>1 DEF Beginning
  <2>3. Consent(r)'
    BY <1>1, <1>2, <1>5, <2>1 DEF Consent, Good
  <2>4. Accounting(r)'
    <3>1. Counted(r)' = Counted(r) /\ Counted(r) \in Nat
      BY <2>1, Numbers DEF Counted
    <3>2. UnderWay(r) = 0 /\ UnderWay(r)' = 1
      BY <1>2, <2>1 DEF UnderWay
    <3> QED
      BY <1>2, <1>3, <2>1, <3>1, <3>2 DEF Good, Accounting, Running
  <2>5. NoFailure(r)'
    BY <1>2, <2>1 DEF Good, NoFailure, Running, Matches
  <2>6. Ending(r)' /\ Verdict(r)'
    BY <1>2, <2>1 DEF Good, Ending, Verdict
  <2> QED
    BY <2>2, <2>3, <2>4, <2>5, <2>6 DEF Good
<1> QED
  BY <1>4, <1>5

(* The outcome of the request under way moves into the counters.           *)
LEMMA OutcomeStep ==
  ASSUME IInv, NEW r \in Runs, Match(r) \/ Mismatch(r)
  PROVE  Good(r)'
<1> TypeOK /\ Good(r)
  BY DEF IInv
<1> USE DEF scenarioVars, optionVars, loopVars, Step
<1>1. /\ pc[r] = "executing" /\ pc'[r] = "looping"
      /\ UNCHANGED <<plan, rest, row, sent, skip, confirm>>
      /\ result'[r].skipped = result[r].skipped
  BY DEF Match, Mismatch, Count, TypeOK, Counters
<1>2. /\ result'[r].passed + result'[r].failed = result[r].passed + result[r].failed + 1
      /\ result'[r].passed \in Nat /\ result'[r].failed \in Nat
      /\ result'[r].failed = 0 =>
           result[r].failed = 0 /\ matched'[r] = matched[r] \cup {current[r]}
  <2>1. result[r] \in Counters
    BY DEF TypeOK
  <2>2. CASE Match(r)
    <3>1. /\ result'[r].passed = result[r].passed + 1
          /\ result'[r].failed = result[r].failed
          /\ matched'[r] = matched[r] \cup {current[r]}
      BY <2>1, <2>2 DEF Match, Count, TypeOK, Counters
    <3> QED
      BY <3>1, Numbers
  <2>3. CASE Mismatch(r)
    <3>1. /\ result'[r].passed = result[r].passed
          /\ result'[r].failed = result[r].failed + 1
      BY <2>1, <2>3 DEF Mismatch, Count, TypeOK, Counters
    <3> QED
      BY <3>1, Numbers
  <2> QED
    BY <2>2, <2>3
<1>3. Beginning(r)' /\ Consent(r)'
  BY <1>1 DEF Beginning, Consent, Good
<1>4. Accounting(r)'
  <2>1. Cardinality(rest[r]) \in Nat /\ Cardinality(plan[r]) \in Nat
    BY Finite DEF TypeOK
  <2> QED
    BY <1>1, <1>2, <2>1 DEF Good, Accounting, Running, Counted, UnderWay, TypeOK,
                            Counters
<1>5. NoFailure(r)'
  BY <1>1, <1>2 DEF Good, NoFailure, Running, Matches
<1>6. Ending(r)' /\ Verdict(r)'
  BY <1>1 DEF Good, Ending, Verdict
<1> QED
  BY <1>3, <1>4, <1>5, <1>6 DEF Good

(* A verdict is written only for a client that stayed, hence for a loop    *)
(* that came to its end.                                                   *)
LEMMA EndStep ==
  ASSUME IInv, NEW r \in Runs, LeaveLoop(r) \/ Report(r) \/ ReportFails(r)
  PROVE  Good(r)'
<1> TypeOK /\ Good(r)
  BY DEF IInv
<1> USE DEF scenarioVars, optionVars, loopVars, Step
<1>1. UNCHANGED <<plan, rest, result, sent, matched, skip, confirm, canceled, current>>
  BY DEF LeaveLoop, Report, ReportFails
<1>2. CASE LeaveLoop(r)
  <2>1. /\ pc[r] = "looping" /\ pc'[r] = "reporting" /\ UNCHANGED row
        /\ rest[r] = {} \/ canceled[r]
    BY <1>2 DEF LeaveLoop, TypeOK
  <2>2. Beginning(r)' /\ Consent(r)'
    BY <1>1, <2>1 DEF Beginning, Consent, Good
  <2>3. Accounting(r)' /\ NoFailure(r)'
    BY <1>1, <2>1 DEF Good, Accounting, NoFailure, Running, Counted, UnderWay, Matches
  <2>4. Ending(r)' /\ Verdict(r)'
    BY <1>1, <2>1 DEF Good, Ending, Verdict
  <2> QED
    BY <2>2, <2>3, <2>4 DEF Good
<1>3. CASE Report(r)
  <2>1. /\ pc[r] = "reporting" /\ pc'[r] = "done" /\ ~canceled[r]
        /\ row'[r] = [status |-> IF result[r].failed > 0 THEN "failed" ELSE "passed",
                      requestCount |-> row[r].requestCount,
                      passed |-> result[r].passed, failed |-> result[r].failed]
    BY <1>3 DEF Report, WriteVerdict, TypeOK
  <2>2. rest[r] = {}
    BY <2>1 DEF Good, Ending
  <2>3. Beginning(r)' /\ Consent(r)'
    BY <1>1, <2>1 DEF Beginning, Consent, Good
  <2>4. Accounting(r)' /\ NoFailure(r)' /\ Ending(r)'
    BY <2>1 DEF Accounting, NoFailure, Running, Ending
  <2>5. result[r].passed + result[r].failed + result[r].skipped = row[r].requestCount
    <3>1. Cardinality(rest[r]) = 0
      BY <2>2, FS_EmptySet
    <3> QED
      BY <2>1, <3>1 DEF Good, Accounting, Running, Counted, UnderWay, TypeOK, Counters
  <2>6. ASSUME ~(result[r].failed > 0), NEW e \in plan[r]
        PROVE  Matches(r, e)
    BY <2>1, <2>2, <2>6 DEF Good, NoFailure, Running, TypeOK, Counters
  <2>7. Verdict(r)'
    BY <1>1, <2>1, <2>5, <2>6 DEF Verdict, Matches
  <2> QED
    BY <2>3, <2>4, <2>7 DEF Good
<1>4. CASE ReportFails(r)
  <2>1. pc[r] = "reporting" /\ pc'[r] = "done" /\ UNCHANGED row
    BY <1>4 DEF ReportFails, TypeOK
  <2>2. Beginning(r)' /\ Consent(r)'
    BY <1>1, <2>1 DEF Beginning, Consent, Good
  <2>3. Accounting(r)' /\ NoFailure(r)' /\ Ending(r)' /\ Verdict(r)'
    BY <1>1, <2>1 DEF Good, Accounting, NoFailure, Running, Ending, Verdict
  <2> QED
    BY <2>2, <2>3 DEF Good
<1> QED
  BY <1>2, <1>3, <1>4

(* Only Admit and the steps of a run concern it, and each concerns one.    *)
LEMMA Others ==
  ASSUME IInv, NEW r \in Runs, NEW q \in Runs, q # r,
         (\E s, c \in BOOLEAN : Admit(r, s, c)) \/ Preparing(r) \/ Executing(r)
  PROVE  Same(q)
<1> TypeOK
  BY DEF IInv
<1> USE DEF scenarioVars, optionVars, loopVars, Step, Same, TypeOK
<1>1. CASE \E s, c \in BOOLEAN : Admit(r, s, c)
  BY <1>1 DEF Admit
<1>2. CASE Preparing(r)
  BY <1>2 DEF Preparing, MakePlan, InsertRun, Refuse
<1>3. CASE Skip(r) \/ Send(r) \/ LeaveLoop(r)
  BY <1>3 DEF Skip, Send, LeaveLoop, Count
<1>4. CASE Match(r) \/ Mismatch(r)
  BY <1>4 DEF Match, Mismatch, Count
<1>5. CASE Report(r) \/ ReportFails(r)
  BY <1>5 DEF Report, WriteVerdict, ReportFails
<1> QED
  BY <1>1, <1>2, <1>3, <1>4, <1>5 DEF Executing, NoAnswer

(* Every run is kept good by every step.                                   *)
LEMMA GoodStep == IInv /\ [Next]_vars => \A q \in Runs : Good(q)'
<1> SUFFICES ASSUME IInv, [Next]_vars, NEW q \in Runs
             PROVE  Good(q)'
  OBVIOUS
<1> TypeOK /\ Good(q)
  BY DEF IInv
<1> USE DEF scenarioVars, optionVars, loopVars
<1>1. CASE \/ \E e \in Entries : InsertEvent(e)
           \/ StopRecording
           \/ UNCHANGED vars
  <2>1. Same(q)
    BY <1>1 DEF Same, InsertEvent, StopRecording, vars
  <2> QED
    BY <2>1, Frame
<1>2. ASSUME NEW r \in Runs, ClientLeaves(r)
      PROVE  Good(q)'
  <2>1. Same(q)
    BY <1>2 DEF Same, ClientLeaves, TypeOK
  <2> QED
    BY <2>1, Frame
<1>3. ASSUME NEW s \in BOOLEAN, NEW c \in BOOLEAN, Admit(q, s, c)
      PROVE  Good(q)'
  <2>1. /\ pc[q] = "idle" /\ pc'[q] = "admitted"
        /\ UNCHANGED <<plan, rest, result, row, sent, matched>>
    BY <1>3 DEF Admit, Step, TypeOK
  <2>2. plan[q] = {} /\ rest[q] = {} /\ Blank(q)
    BY <2>1 DEF Good, Beginning
  <2> QED
    BY <2>1, <2>2 DEF Good, Beginning, Blank, Consent, Accounting, NoFailure, Running,
                      Ending, Verdict, NoRow
<1>4. CASE Killed
  <2>1. /\ pc'[q] = IF pc[q] = "idle" THEN "idle" ELSE "done"
        /\ UNCHANGED <<plan, rest, result, row, sent, matched, skip, confirm>>
    BY <1>4 DEF Killed
  <2>2. Beginning(q)' /\ Consent(q)'
    BY <2>1 DEF Good, Beginning, Blank, Consent
  <2>3. Accounting(q)' /\ NoFailure(q)' /\ Ending(q)' /\ Verdict(q)'
    BY <2>1 DEF Good, Accounting, NoFailure, Running, Ending, Verdict, Matches
  <2> QED
    BY <2>2, <2>3 DEF Good
<1>5. CASE Preparing(q) \/ Executing(q)
  BY <1>5, PreparingStep, LoopStep, OutcomeStep, EndStep DEF Executing, NoAnswer
<1>6. ASSUME NEW r \in Runs, r # q,
             (\E s, c \in BOOLEAN : Admit(r, s, c)) \/ Preparing(r) \/ Executing(r)
      PROVE  Good(q)'
  <2>1. Same(q)
    BY <1>6, Others
  <2> QED
    BY <2>1, Frame
<1> QED
  BY <1>1, <1>2, <1>3, <1>4, <1>5, <1>6 DEF Next

(* The inductive invariant holds of every behaviour.                       *)
THEOREM Invariance == Spec => []IInv
<1>1. IInv /\ [Next]_vars => IInv'
  BY TypeStep, GoodStep DEF IInv
<1> QED
  BY InitInvariant, <1>1, PTL DEF Spec

(* Every variable keeps its type: the counters are natural numbers and a   *)
(* stored status is one the table's CHECK admits.                          *)
THEOREM TypeCorrect == Spec => []TypeOK
<1>1. IInv => TypeOK
  BY DEF IInv
<1> QED
  BY Invariance, <1>1, PTL

(* No unsafe request is sent without its confirmation, however many        *)
(* replays run and whatever is inserted meanwhile.                         *)
THEOREM NothingUnconfirmed == Spec => []ConsentedOnly
<1>1. IInv => ConsentedOnly
  BY DEF IInv, Good, Consent, ConsentedOnly
<1> QED
  BY Invariance, <1>1, PTL

(* A stored verdict covers the whole plan, wherever clients leave.         *)
THEOREM VerdictsAreEarned == Spec => []VerdictIsEarned
<1>1. IInv => VerdictIsEarned
  BY DEF IInv, Good, Verdict, Matches, VerdictIsEarned
<1> QED
  BY Invariance, <1>1, PTL

-----------------------------------------------------------------------------
(* How far a run is from its end: for each entry the loop has not come to, *)
(* a request and its answer; before that the steps up to the loop.         *)
Weight == [idle |-> 2 * NumEntries + 6, admitted |-> 2 * NumEntries + 5, planned |-> 4,
           executing |-> 3, looping |-> 2, reporting |-> 1]

Work(r) == IF pc[r] = "done" THEN 0 ELSE Weight[pc[r]] + 2 * Cardinality(rest[r])

(* A run is nearer to its end, or where it was.                            *)
Nearer(r) == Work(r)' < Work(r) \/ (pc'[r] = pc[r] /\ rest'[r] = rest[r])

(* No set of entries has more than there are.                              *)
LEMMA AtMostAll ==
  ASSUME NEW S \in SUBSET Entries
  PROVE  Cardinality(S) \in 0 .. NumEntries
<1>1. /\ IsFiniteSet(1 .. NumEntries)
      /\ Cardinality(1 .. NumEntries) = IF 1 > NumEntries THEN 0 ELSE NumEntries - 1 + 1
  BY NumEntriesAssumption, FS_Interval
<1>2. (IF 1 > NumEntries THEN 0 ELSE NumEntries - 1 + 1) = NumEntries
  BY NumEntriesAssumption
<1>3. IsFiniteSet(Entries) /\ Cardinality(Entries) = NumEntries
  BY <1>1, <1>2 DEF Entries
<1>4. Cardinality(S) \in Nat /\ Cardinality(S) <= NumEntries
  BY <1>3, Finite, FS_Subset
<1> QED
  BY <1>4, NumEntriesAssumption

(* A step of the run itself brings it nearer to its end.                   *)
LEMMA StepIsNearer ==
  ASSUME IInv, IInv', NEW r \in Runs,
         (\E s, c \in BOOLEAN : Admit(r, s, c)) \/ Preparing(r) \/ Executing(r)
  PROVE  Work(r)' < Work(r)
<1> USE DEF Step
<1>1. /\ pc \in [Runs -> States] /\ NumEntries \in Nat
      /\ rest \in [Runs -> SUBSET Entries]
      /\ Cardinality(rest[r]) \in 0 .. NumEntries
      /\ Cardinality(rest'[r]) \in 0 .. NumEntries
  <2>1. rest[r] \in SUBSET Entries /\ rest'[r] \in SUBSET Entries
    BY DEF IInv, TypeOK
  <2>2. /\ Cardinality(rest[r]) \in 0 .. NumEntries
        /\ Cardinality(rest'[r]) \in 0 .. NumEntries
    BY <2>1, AtMostAll
  <2> QED
    BY <2>2, NumEntriesAssumption DEF IInv, TypeOK
<1>2. CASE \E s, c \in BOOLEAN : Admit(r, s, c)
  <2>1. pc[r] = "idle" /\ pc'[r] = "admitted" /\ rest' = rest
    BY <1>1, <1>2 DEF Admit, loopVars
  <2> QED
    BY <1>1, <2>1 DEF Work, Weight
<1>3. CASE MakePlan(r)
  <2>1. pc[r] = "admitted" /\ pc'[r] = "planned"
    BY <1>1, <1>3 DEF MakePlan
  <2>2. Cardinality(rest[r]) >= 0 /\ Cardinality(rest'[r]) <= NumEntries
    BY <1>1
  <2> QED
    BY <1>1, <2>1, <2>2 DEF Work, Weight
<1>4. CASE InsertRun(r)
  <2>1. pc[r] = "planned" /\ pc'[r] = "looping" /\ rest' = rest
    BY <1>1, <1>4 DEF InsertRun, loopVars
  <2> QED
    BY <1>1, <2>1 DEF Work, Weight
<1>5. CASE Refuse(r)
  <2>1. pc[r] \in {"idle", "admitted", "planned"} /\ pc'[r] = "done"
    BY <1>1, <1>5 DEF Refuse
  <2> QED
    BY <1>1, <2>1 DEF Work, Weight
<1>6. CASE Skip(r) \/ Send(r)
  <2>1. PICK e \in rest[r] : rest'[r] = rest[r] \ {e}
    BY <1>1, <1>6 DEF Skip, Send, IsNext
  <2>2. Cardinality(rest[r]) = Cardinality(rest'[r]) + 1
    BY <1>1, <2>1, OneLess
  <2>3. pc[r] = "looping" /\ pc'[r] \in {"looping", "executing"}
    BY <1>1, <1>6 DEF Skip, Send
  <2> QED
    BY <1>1, <2>2, <2>3 DEF Work, Weight
<1>7. CASE Match(r) \/ Mismatch(r)
  <2>1. pc[r] = "executing" /\ pc'[r] = "looping" /\ rest' = rest
    BY <1>1, <1>7 DEF Match, Mismatch
  <2> QED
    BY <1>1, <2>1 DEF Work, Weight
<1>8. CASE LeaveLoop(r)
  <2>1. pc[r] = "looping" /\ pc'[r] = "reporting" /\ rest' = rest
    BY <1>1, <1>8 DEF LeaveLoop, loopVars
  <2> QED
    BY <1>1, <2>1 DEF Work, Weight
<1>9. CASE Report(r) \/ ReportFails(r)
  <2>1. pc[r] = "reporting" /\ pc'[r] = "done"
    BY <1>1, <1>9 DEF Report, ReportFails
  <2> QED
    BY <1>1, <2>1 DEF Work, Weight
<1> QED
  BY <1>2, <1>3, <1>4, <1>5, <1>6, <1>7, <1>8, <1>9 DEF Preparing, Executing, NoAnswer

(* What is done elsewhere leaves the run where it was, or ends it.         *)
LEMMA OthersAreNoFurther ==
  ASSUME IInv, IInv', [Next]_vars, NEW r \in Runs
  PROVE  Nearer(r)
<1>1. CASE \/ \E e \in Entries : InsertEvent(e)
           \/ StopRecording
           \/ UNCHANGED vars
           \/ \E q \in Runs : ClientLeaves(q)
  BY <1>1 DEF Nearer, InsertEvent, StopRecording, ClientLeaves, vars, loopVars
<1>2. ASSUME NEW q \in Runs,
             (\E s, c \in BOOLEAN : Admit(q, s, c)) \/ Preparing(q) \/ Executing(q)
      PROVE  Nearer(r)
  <2>1. CASE q = r
    BY <1>2, <2>1, StepIsNearer DEF Nearer
  <2>2. CASE q # r
    <3>1. pc'[r] = pc[r] /\ rest'[r] = rest[r]
      BY <1>2, <2>2 DEF IInv, TypeOK, Admit, Preparing, MakePlan, InsertRun, Refuse, Executing,
         Skip, Send, Match, Mismatch, NoAnswer, LeaveLoop, Report, ReportFails, Step, loopVars
    <3> QED
      BY <3>1 DEF Nearer
  <2> QED
    BY <2>1, <2>2
<1>3. CASE Killed
  <2>1. CASE pc[r] \in {"idle", "done"}
    BY <1>3, <2>1 DEF Nearer, Killed, loopVars
  <2>2. CASE pc[r] \notin {"idle", "done"}
    <3>1. pc'[r] = "done" /\ pc[r] \in States /\ rest[r] \in SUBSET Entries
      BY <1>3, <2>2 DEF Killed, IInv, TypeOK
    <3>2. Cardinality(rest[r]) \in 0 .. NumEntries
      BY <3>1, AtMostAll
    <3> QED
      BY <2>2, <3>1, <3>2, NumEntriesAssumption DEF Nearer, Work, Weight, States
  <2> QED
    BY <2>1, <2>2
<1> QED
  BY <1>1, <1>2, <1>3 DEF Next

(* A replay takes at most two steps for each entry and six more, whatever  *)
(* the other replays, the recording, the clients and the agent do: every   *)
(* step of its own lowers its work, and no step of another raises it.      *)
(* This is what ReplayEnds rests on (the loop in replay.Execute).          *)
THEOREM ReplaysAdvance ==
  Spec => /\ []\A r \in Runs : Work(r) \in 0 .. 2 * NumEntries + 6
          /\ [][\A r \in Runs : Nearer(r)]_vars
<1>1. IInv => \A r \in Runs : Work(r) \in 0 .. 2 * NumEntries + 6
  <2> SUFFICES ASSUME IInv, NEW r \in Runs
               PROVE  Work(r) \in 0 .. 2 * NumEntries + 6
    OBVIOUS
  <2>1. pc[r] \in States /\ rest[r] \in SUBSET Entries
    BY DEF IInv, TypeOK
  <2>2. Cardinality(rest[r]) \in 0 .. NumEntries
    BY <2>1, AtMostAll
  <2>3. CASE pc[r] \in {"idle", "admitted"}
    <3>1. rest[r] = {}
      BY <2>3 DEF IInv, Good, Beginning
    <3>2. Cardinality(rest[r]) = 0
      BY <3>1, FS_EmptySet
    <3> QED
      BY <2>3, <3>2, NumEntriesAssumption DEF Work, Weight
  <2>4. CASE pc[r] \notin {"idle", "admitted"}
    BY <2>1, <2>2, <2>4, NumEntriesAssumption DEF Work, Weight, States
  <2> QED
    BY <2>3, <2>4
<1>2. IInv /\ IInv' /\ [Next]_vars => \A r \in Runs : Nearer(r)
  BY OthersAreNoFurther
<1> QED
  BY <1>1, <1>2, Invariance, PTL DEF Spec
=============================================================================
