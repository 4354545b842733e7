---------------------------- MODULE AuditPoller ----------------------------
(***************************************************************************)
(* The PostgreSQL adapter.  A trigger on each captured table copies every  *)
(* inserted row into an audit table; once a second the adapter selects the *)
(* first audit rows that are not marked as processed, emits an event for   *)
(* each, and marks with one UPDATE those whose event was stored.           *)
(*                                                                         *)
(* The audit table belongs to the application's database: it fills while   *)
(* the agent is down, and its rows become visible in the order of the      *)
(* commits, which need not be the order of their ids.  Everything between  *)
(* the SELECT and the UPDATE may fail or be cut short by the end of the    *)
(* run, so that a row's event may be stored more than once.                *)
(***************************************************************************)
EXTENDS AdapterHost

CONSTANTS
  NumRows,      \* audit rows are named by their ids
  NumTables,    \* the captured tables in the order of the configuration
  Table,        \* Table[r]: the table audit row r comes from
  BatchLimit,   \* rows a poll selects
  MaxLostMarks  \* bound: UPDATEs that fail while the agent runs

AuditRows == 1 .. NumRows
Tables == 1 .. NumTables

ASSUME AuditSizes ==
  /\ NumRows \in Nat
  /\ NumTables \in Nat
  /\ BatchLimit \in Nat \ {0}
  /\ MaxLostMarks \in Nat
ASSUME TableAssumption == Table \in [AuditRows -> Tables]

VARIABLES
  triggers,   \* tables that have the trigger
  committed,  \* rows of the audit table that are visible
  marked,     \* those with processed = TRUE
  auditPc,    \* the adapter's goroutine
  batch,      \* rows of the SELECT's result that are still to be read
  emitted,    \* processedIDs: rows of this batch whose event was stored
  copies,     \* copies[r]: events stored for row r, over all runs
  lostMarks   \* UPDATEs that failed while the agent ran

auditVars == <<triggers, committed, marked, auditPc, batch, emitted, copies, lostMarks>>

AuditStates == {"none", "waiting", "reading", "marking", "ended"}

AuditTypeOK ==
  /\ triggers \subseteq Tables
  /\ committed \subseteq AuditRows
  /\ marked \subseteq committed
  /\ auditPc \in AuditStates
  /\ batch \subseteq committed
  /\ emitted \subseteq committed
  /\ auditPc # "reading" => batch = {}
  /\ copies \in [AuditRows -> Nat]
  /\ lostMarks \in Nat

AuditInit ==
  /\ triggers = {}
  /\ committed = {}
  /\ marked = {}
  /\ auditPc = "none"
  /\ batch = {}
  /\ emitted = {}
  /\ copies = [r \in AuditRows |-> 0]
  /\ lostMarks = 0

\* In the order of the ids, which no index of commits can replace.
FirstOf(S) == {r \in S : Cardinality({s \in S : s < r}) < BatchLimit}

-----------------------------------------------------------------------------
(* The application.                                                        *)

\* A transaction that inserted into a captured table commits.
Insert(r) ==
  /\ Table[r] \in triggers
  /\ r \notin committed
  /\ committed' = committed \cup {r}
  /\ UNCHANGED <<triggers, marked, auditPc, batch, emitted, copies, lostMarks>>

-----------------------------------------------------------------------------
(* The adapter.                                                            *)

\* Start: the triggers are created one table after the other, and the first failure
\* leaves the rest without; it is logged and the poll begins all the same.
StartAudit ==
  /\ life = "up"
  /\ auditPc = "none"
  /\ \E k \in 0 .. NumTables : triggers' = triggers \cup 1 .. k
  /\ auditPc' = "waiting"
  /\ UNCHANGED <<committed, marked, batch, emitted, copies, lostMarks>>

\* The database does not answer: the agent runs on without the adapter.
AuditUnreachable ==
  /\ life = "up"
  /\ auditPc = "none"
  /\ auditPc' = "ended"
  /\ UNCHANGED <<triggers, committed, marked, batch, emitted, copies, lostMarks>>

\* Mutant: the place of the last marked row is kept instead of a mark per row.
SelectBeyondMark ==
  /\ life = "up"
  /\ auditPc = "waiting"
  /\ \E r \in committed : \A m \in marked : m < r
  /\ batch' = FirstOf({r \in committed : \A m \in marked : m < r})
  /\ emitted' = {}
  /\ auditPc' = "reading"
  /\ UNCHANGED <<triggers, committed, marked, copies, lostMarks>>

\* A SELECT that fails or finds nothing leaves everything as it was.
SelectRows ==
  /\ life = "up"
  /\ auditPc = "waiting"
  /\ committed \ marked # {}
  /\ batch' = FirstOf(committed \ marked)
  /\ emitted' = {}
  /\ auditPc' = "reading"
  /\ UNCHANGED <<triggers, committed, marked, copies, lostMarks>>

\* The rows come in the order of their ids.
Reads(r) ==
  /\ life = "up"
  /\ auditPc = "reading"
  /\ r \in batch
  /\ \A s \in batch : r <= s
  /\ batch' = batch \ {r}

StoreRow(r) ==
  /\ Reads(r)
  /\ copies' = [copies EXCEPT ![r] = @ + 1]
  /\ emitted' = emitted \cup {r}
  /\ UNCHANGED <<triggers, committed, marked, auditPc, lostMarks>>

\* Mutant: a row that was skipped is marked with the others.
SkipRowButMark(r) ==
  /\ Reads(r)
  /\ emitted' = emitted \cup {r}
  /\ UNCHANGED <<triggers, committed, marked, auditPc, copies, lostMarks>>

\* The row does not scan, or its event is not stored: the next row is tried.
SkipRow(r) ==
  /\ Reads(r)
  /\ UNCHANGED <<triggers, committed, marked, auditPc, emitted, copies, lostMarks>>

\* Mutant: the rest of the result is kept.
EndOfRowsKeepingRest ==
  /\ life = "up"
  /\ auditPc = "reading"
  /\ auditPc' = IF emitted = {} THEN "waiting" ELSE "marking"
  /\ UNCHANGED <<triggers, committed, marked, batch, emitted, copies, lostMarks>>

\* The result is exhausted, or the connection ends it early (rows.Err is not asked).
EndOfRows ==
  /\ life = "up"
  /\ auditPc = "reading"
  /\ batch' = {}
  /\ auditPc' = IF emitted = {} THEN "waiting" ELSE "marking"
  /\ UNCHANGED <<triggers, committed, marked, emitted, copies, lostMarks>>

\* Mutant: the list of ids is rebuilt per row, and only the last one is marked.
MarkLastRow ==
  /\ life = "up"
  /\ auditPc = "marking"
  /\ marked' = marked \cup {r \in emitted : \A s \in emitted : s <= r}
  /\ emitted' = {}
  /\ auditPc' = "waiting"
  /\ UNCHANGED <<triggers, committed, batch, copies, lostMarks>>

MarkRows ==
  /\ life = "up"
  /\ auditPc = "marking"
  /\ marked' = marked \cup emitted
  /\ emitted' = {}
  /\ auditPc' = "waiting"
  /\ UNCHANGED <<triggers, committed, batch, copies, lostMarks>>

\* The UPDATE fails, which is logged.  One that was applied and reported as failed has
\* the effect of MarkRows.
MarkFails ==
  /\ life = "up"
  /\ auditPc = "marking"
  /\ lostMarks < MaxLostMarks
  /\ lostMarks' = lostMarks + 1
  /\ emitted' = {}
  /\ auditPc' = "waiting"
  /\ UNCHANGED <<triggers, committed, marked, batch, copies>>

\* With the context ended the result set ends, every Emit and the UPDATE fail, and
\* the goroutine returns.
AuditEnds ==
  /\ life = "stopping"
  /\ auditPc \in {"waiting", "reading", "marking"}
  /\ auditPc' = "ended"
  /\ batch' = {}
  /\ UNCHANGED <<triggers, committed, marked, emitted, copies, lostMarks>>

\* The audit table survives the agent.
AuditForgotten ==
  /\ auditPc' = "none"
  /\ batch' = {}
  /\ emitted' = {}
  /\ UNCHANGED <<triggers, committed, marked, copies, lostMarks>>

AuditPolls ==
  \/ SelectRows
  \/ \E r \in AuditRows : StoreRow(r) \/ SkipRow(r)
  \/ EndOfRows
  \/ MarkRows
  \/ MarkFails

AuditStep ==
  \/ \E r \in AuditRows : Insert(r)
  \/ StartAudit
  \/ AuditUnreachable
  \/ AuditPolls
  \/ AuditEnds

\* The adapter in an agent that runs, stops and is killed.
AuditNext ==
  \/ AuditStep /\ UNCHANGED hostVars
  \/ (Up \/ CtrlC) /\ UNCHANGED auditVars
  \/ Gone /\ AuditForgotten

AuditSpec == HostInit /\ AuditInit /\ [][AuditNext]_<<hostVars, auditVars>>

-----------------------------------------------------------------------------
\* What a row was promised when it was inserted.
Promise == INSTANCE Delivery WITH
  Items <- AuditRows, offered <- committed, settled <- marked, stored <- copies

(* The audit table and the marks are an at-least-once delivery: a row is   *)
(* marked only when its event is stored, and never stored again after      *)
(* that, whatever fails and whenever the agent goes away.                  *)
ImplementsDelivery == Promise!Spec

(* Duplicates are accounted for: one event per row, and one more for each  *)
(* UPDATE that failed and each run that ended meanwhile.                   *)
DuplicatesHaveACause == \A r \in AuditRows : copies[r] <= 1 + lostMarks + Over

(* Every visible row is stored in the end, in whatever order the rows      *)
(* became visible and however many wait, if a run lasts.                   *)
EveryRowStored ==
  \A r \in AuditRows :
    r \in committed ~> copies[r] > 0 \/ auditPc \in {"none", "ended"}
=============================================================================
