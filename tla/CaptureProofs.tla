--------------------------- MODULE CaptureProofs ---------------------------
(***************************************************************************)
(* Proofs about RedisMonitor and about Capture: each adapter behaves in    *)
(* the agent as it does alone, so what is proved of it holds of the        *)
(* composition.                                                            *)
(***************************************************************************)
EXTENDS Capture, PollerProofs

\* A command is recorded before any that is still under way was executed.
RecordedBefore ==
  \A c \in Commands :
    recorded[c] > 0 => c <= Len(executed) /\ \A d \in lines : c < d

\* The connection did not bring the line of c, and brings none of a later command.
Lost(c) ==
  /\ monitorPc # "reading"
  /\ \A d \in Commands : d >= c => d \notin lines /\ recorded[d] = 0

\* What was executed since Redis took MONITOR is under way, was dealt with, or is lost.
WatchedIsSeen ==
  \A c \in watched + 1 .. Len(executed) :
    c \in lines \/ recorded[c] > 0 \/ c \in unrecorded \/ ~IsRelevant(c) \/ Lost(c)

MonitorInv == MonitorTypeOK /\ RecordedBefore /\ WatchedIsSeen

-----------------------------------------------------------------------------
(* Nothing was executed and nothing is recorded at first.                  *)
LEMMA MonitorInitInvariant == MonitorInit => MonitorInv
BY NumCommandsAssumption
   DEF MonitorInit, MonitorInv, MonitorTypeOK, MonitorStates, RecordedBefore,
       WatchedIsSeen, Commands

(* A step that leaves a command as it is leaves it relevant or not.        *)
LEMMA RelevanceKept ==
  ASSUME NEW c, executed'[c] = executed[c]
  PROVE  IsRelevant(c)' <=> IsRelevant(c)
BY DEF IsRelevant

(* Whatever Redis executes comes after everything that is under way.       *)
LEMMA ExecuteInvariant ==
  ASSUME MonitorInv, NEW s \in Shapes, Execute(s)
  PROVE  MonitorInv'
<1> USE DEF MonitorInv, Execute
<1> DEFINE n == Len(executed)
<1>1. /\ n \in Nat
      /\ executed' \in Seq(Shapes)
      /\ Len(executed') = n + 1
      /\ \A c \in 1 .. n : executed'[c] = executed[c]
      /\ watched \in 0 .. n
      /\ lines \subseteq 1 .. n
  BY DEF MonitorTypeOK
<1>2. lines \subseteq lines' /\ lines' \subseteq lines \cup {n + 1}
  OBVIOUS
<1>3. MonitorTypeOK'
  <2>1. n + 1 <= NumCommands
    BY <1>1, NumCommandsAssumption
  <2>2. watched' \in 0 .. n + 1
    BY <1>1
  <2>3. lines' \subseteq 1 .. n + 1
    <3> SUFFICES ASSUME NEW d \in lines'
                 PROVE  d \in 1 .. n + 1
      OBVIOUS
    <3> QED
      BY <1>1, <1>2
  <2>4. unrecorded' \subseteq 1 .. n + 1
    BY <1>1 DEF MonitorTypeOK
  <2>5. monitorPc' \notin {"reading", "draining"} => lines' = {}
    BY DEF MonitorTypeOK
  <2> QED
    BY <1>1, <2>1, <2>2, <2>3, <2>4, <2>5 DEF MonitorTypeOK
<1>4. RecordedBefore'
  BY <1>1, <1>2 DEF RecordedBefore, Commands
<1>5. WatchedIsSeen'
  <2> SUFFICES ASSUME NEW c \in watched + 1 .. n + 1
               PROVE  (c \in lines \/ recorded[c] > 0 \/ c \in unrecorded
                         \/ ~IsRelevant(c) \/ Lost(c))'
    BY <1>1 DEF WatchedIsSeen
  <2>1. CASE c = n + 1 /\ monitorPc = "reading"
    BY <2>1
  <2>2. CASE c = n + 1 /\ monitorPc # "reading"
    <3>1. monitorPc' # "reading" /\ lines' = lines /\ recorded' = recorded
      BY <2>2
    <3>2. \A d \in Commands : d >= n + 1 => d \notin lines /\ recorded[d] = 0
      BY <1>1 DEF MonitorTypeOK, RecordedBefore, Commands
    <3> QED
      BY <2>2, <3>1, <3>2 DEF Lost
  <2>3. CASE c # n + 1
    <3>1. c \in watched + 1 .. n /\ c \in 1 .. n
      BY <1>1, <2>3
    <3>2. IsRelevant(c)' <=> IsRelevant(c)
      BY <1>1, <3>1, RelevanceKept
    <3>3. Lost(c) => Lost(c)'
      BY <1>2 DEF Lost
    <3>4. c \in lines \/ recorded[c] > 0 \/ c \in unrecorded \/ ~IsRelevant(c) \/ Lost(c)
      BY <3>1 DEF WatchedIsSeen
    <3> QED
      BY <1>2, <3>2, <3>3, <3>4
  <2> QED
    BY <2>1, <2>2, <2>3
<1> QED
  BY <1>3, <1>4, <1>5

(* Each line is dealt with in its turn.                                    *)
LEMMA ReadInvariant ==
  ASSUME MonitorInv, NEW c \in Commands, SkipLine(c) \/ RecordLine(c) \/ DropLine(c)
  PROVE  MonitorInv'
<1> USE DEF MonitorInv
<1>1. /\ c \in lines
      /\ \A d \in lines : c <= d
      /\ lines' = lines \ {c}
      /\ UNCHANGED <<executed, monitorPc, watched>>
  BY DEF SkipLine, RecordLine, DropLine, ReadsLine
<1>2. lines \subseteq 1 .. Len(executed) /\ Len(executed) \in Nat
  BY DEF MonitorTypeOK
<1>3. /\ recorded' \in [Commands -> Nat]
      /\ \A d \in Commands \ {c} : recorded'[d] = recorded[d]
      /\ recorded'[c] >= recorded[c]
      /\ recorded'[c] > 0 \/ c \in unrecorded' \/ ~IsRelevant(c)
  BY DEF SkipLine, RecordLine, DropLine, MonitorTypeOK
<1>4. unrecorded \subseteq unrecorded' /\ unrecorded' \subseteq 1 .. Len(executed)
  BY <1>1, <1>2 DEF SkipLine, RecordLine, DropLine, MonitorTypeOK
<1>5. MonitorTypeOK'
  BY <1>1, <1>3, <1>4 DEF MonitorTypeOK
<1>6. RecordedBefore'
  <2>1. c <= Len(executed) /\ \A d \in lines \ {c} : c < d
    BY <1>1, <1>2
  <2>2. \A d \in Commands \ {c} : recorded'[d] > 0 =>
           d <= Len(executed) /\ \A e \in lines \ {c} : d < e
    BY <1>3 DEF RecordedBefore
  <2> QED
    BY <1>1, <2>1, <2>2 DEF RecordedBefore
<1>7. WatchedIsSeen'
  <2> SUFFICES ASSUME NEW d \in watched + 1 .. Len(executed)
               PROVE  (d \in lines \/ recorded[d] > 0 \/ d \in unrecorded
                         \/ ~IsRelevant(d) \/ Lost(d))'
    BY <1>1 DEF WatchedIsSeen
  <2>1. d \in Commands
    BY NumCommandsAssumption DEF MonitorTypeOK, Commands
  <2>2. d \in lines \/ recorded[d] > 0 \/ d \in unrecorded \/ ~IsRelevant(d) \/ Lost(d)
    BY DEF WatchedIsSeen
  <2>3. IsRelevant(d)' <=> IsRelevant(d)
    BY <1>1, RelevanceKept
  <2>4. Lost(d) => Lost(d)'
    <3> SUFFICES ASSUME Lost(d), NEW e \in Commands, e >= d
                 PROVE  e \notin lines' /\ recorded'[e] = 0
      BY <1>1 DEF Lost
    <3>1. e \notin lines /\ recorded[e] = 0
      BY DEF Lost
    <3>2. e # c
      BY <1>1, <3>1
    <3> QED
      BY <1>1, <1>3, <3>1, <3>2
  <2>5. CASE d = c
    BY <1>3, <2>3, <2>5
  <2>6. CASE d # c
    BY <1>1, <1>3, <1>4, <2>1, <2>2, <2>3, <2>4, <2>6
  <2> QED
    BY <2>5, <2>6
<1> QED
  BY <1>5, <1>6, <1>7

(* The adapter begins with no line, and what ends it or its connection     *)
(* loses lines only.                                                       *)
LEMMA ConnectionInvariant ==
  ASSUME MonitorInv,
         \/ Watch \/ MonitorCloses \/ StartMonitor \/ MonitorUnreachable
         \/ \E c \in Commands : LineTooLong(c)
         \/ EndOfLines \/ MonitorEnds \/ MonitorForgotten
         \/ UNCHANGED monitorVars
  PROVE  MonitorInv'
<1> USE DEF MonitorInv
<1>1. CASE UNCHANGED monitorVars
  BY <1>1 DEF monitorVars, MonitorTypeOK, RecordedBefore, WatchedIsSeen, IsRelevant, Lost
<1>2. CASE Watch
  <2> USE <1>2 DEF Watch
  <2>1. MonitorTypeOK'
    BY DEF MonitorTypeOK, MonitorStates
  <2>2. RecordedBefore' /\ WatchedIsSeen'
    BY DEF MonitorTypeOK, RecordedBefore, WatchedIsSeen
  <2> QED
    BY <2>1, <2>2
<1>3. CASE ~(UNCHANGED monitorVars \/ Watch)
  <2>1. /\ UNCHANGED <<executed, watched, recorded, unrecorded>>
        /\ monitorPc' \in MonitorStates \ {"reading"}
        /\ monitorPc' # "draining" => lines' = {}
    BY <1>3 DEF StartMonitor, MonitorUnreachable, EndOfLines, MonitorCloses, LineTooLong,
                MonitorEnds, MonitorForgotten, MonitorTypeOK, MonitorStates
  <2>2. /\ lines' \subseteq lines
        /\ \E last \in Nat : \A c \in lines : c \in lines' <=> c <= last
    <3>1. lines \subseteq 1 .. Len(executed) /\ Len(executed) \in Nat
      BY DEF MonitorTypeOK
    <3>2. CASE MonitorCloses
      <4>1. PICK last \in 0 .. Len(executed) : lines' = {c \in lines : c <= last}
        BY <3>2 DEF MonitorCloses
      <4>2. last \in Nat
        BY <3>1
      <4>3. lines' \subseteq lines /\ \A c \in lines : c \in lines' <=> c <= last
        BY <4>1
      <4> QED
        BY <4>2, <4>3
    <3>3. CASE lines' = {}
      <4>1. \A c \in lines : ~(c <= 0)
        BY <3>1
      <4> QED
        BY <3>3, <4>1
    <3>4. lines' = {} \/ MonitorCloses
      BY <1>3 DEF StartMonitor, MonitorUnreachable, EndOfLines, LineTooLong,
                  MonitorEnds, MonitorForgotten, MonitorTypeOK
    <3> QED
      BY <3>2, <3>3, <3>4
  <2>3. MonitorTypeOK'
    BY <2>1, <2>2 DEF MonitorTypeOK
  <2>4. RecordedBefore'
    BY <2>1, <2>2 DEF RecordedBefore
  <2>5. WatchedIsSeen'
    <3> SUFFICES ASSUME NEW c \in watched + 1 .. Len(executed)
                 PROVE  (c \in lines \/ recorded[c] > 0 \/ c \in unrecorded
                           \/ ~IsRelevant(c) \/ Lost(c))'
      BY <2>1 DEF WatchedIsSeen
    <3>1. IsRelevant(c)' <=> IsRelevant(c)
      BY <2>1, RelevanceKept
    <3>2. Lost(c) => Lost(c)'
      BY <2>1, <2>2 DEF Lost
    <3>3. c \in lines \ lines' => Lost(c)'
      <4> SUFFICES ASSUME c \in lines, c \notin lines', NEW d \in Commands, d >= c
                   PROVE  d \notin lines' /\ recorded'[d] = 0
        BY <2>1 DEF Lost
      <4>1. d \notin lines'
        BY <2>2 DEF Commands, MonitorTypeOK
      <4>2. recorded[d] \in Nat /\ ~(recorded[d] > 0)
        BY DEF RecordedBefore, MonitorTypeOK, Commands
      <4> QED
        BY <2>1, <4>1, <4>2
    <3>4. c \in lines \/ recorded[c] > 0 \/ c \in unrecorded \/ ~IsRelevant(c) \/ Lost(c)
      BY DEF WatchedIsSeen
    <3> QED
      BY <2>1, <3>1, <3>2, <3>3, <3>4
  <2> QED
    BY <2>3, <2>4, <2>5
<1> QED
  BY <1>1, <1>2, <1>3

(* The monitor's inductive invariant holds of every behaviour.             *)
THEOREM MonitorInvariance == MonitorSpec => []MonitorInv
<1>1. MonitorInv /\ [MonitorNext]_<<hostVars, monitorVars>> => MonitorInv'
  BY ExecuteInvariant, ReadInvariant, ConnectionInvariant
     DEF MonitorNext, MonitorStep, MonitorReads
<1> QED
  BY MonitorInitInvariant, <1>1, PTL DEF MonitorSpec

(* The events of the queues tell their history, in order and once.         *)
THEOREM QueueHistoryIsInOrder == MonitorSpec => QueueHistoryInOrder
<1>1. MonitorInv /\ [MonitorNext]_<<hostVars, monitorVars>>
        => [\A c \in Commands : RecordedInTurn(c)]_<<hostVars, monitorVars>>
  <2> SUFFICES ASSUME MonitorInv, MonitorNext, NEW c \in Commands,
                      recorded'[c] # recorded[c]
               PROVE  recorded[c] = 0 /\ \A d \in Commands : d > c => recorded[d] = 0
    BY DEF RecordedInTurn
  <2>1. PICK d \in Commands : RecordLine(d)
    BY DEF MonitorNext, MonitorStep, MonitorReads, Execute, Watch, MonitorCloses,
           StartMonitor, MonitorUnreachable, SkipLine, DropLine, LineTooLong,
           EndOfLines, MonitorEnds, MonitorForgotten, monitorVars
  <2>2. d = c /\ c \in lines
    BY <2>1 DEF RecordLine, ReadsLine, MonitorInv, MonitorTypeOK
  <2>3. \A e \in Commands : recorded[e] \in Nat /\ (recorded[e] > 0 => e < c)
    BY <2>2 DEF MonitorInv, MonitorTypeOK, RecordedBefore
  <2> QED
    BY <2>3 DEF Commands
<1> QED
  BY MonitorInvariance, <1>1, PTL DEF MonitorSpec, QueueHistoryInOrder

(* Of what Redis writes in quotes, the parser gets back every name of      *)
(* which Redis writes no byte in letters.                                  *)
LEMMA PlainNamesAreRead ==
  ASSUME NEW name, \A i \in DOMAIN name : name[i] \notin DOMAIN Escapes
  PROVE  Parsed(name) = name
<1>1. ASSUME NEW b, b \notin DOMAIN Escapes
      PROVE  Unescaped(Written(b)) = <<b>>
  <2>1. CASE b \in {Backslash, Quote}
    <3>1. Written(b) = <<Backslash, b>>
      BY <1>1, <2>1, EscapesAssumption DEF Written
    <3> QED
      BY <3>1 DEF Unescaped
  <2>2. CASE b \notin {Backslash, Quote}
    <3>1. Written(b) = <<b>>
      BY <1>1, <2>2 DEF Written
    <3> QED
      BY <2>2, <3>1 DEF Unescaped
  <2> QED
    BY <2>1, <2>2
<1>2. [i \in DOMAIN name |-> Unescaped(Written(name[i]))] = [i \in DOMAIN name |-> <<name[i]>>]
  BY <1>1
<1> QED
  BY <1>2 DEF Parsed

(* What a connection records of the queues has no hole but those of the    *)
(* sink and of the filter: the end of the connection alone is missing.     *)
THEOREM HistoryIsWhole == MonitorSpec => []HistoryHasNoHole
<1>1. ASSUME MonitorInv
      PROVE  HistoryHasNoHole
  <2> SUFFICES ASSUME NEW c \in watched + 1 .. Len(executed),
                      TouchesQueue(c), recorded[c] = 0,
                      c \notin lines \cup unrecorded, ~Overlooked(c)
               PROVE  monitorPc # "reading" /\ \A d \in Commands : d > c => recorded[d] = 0
    BY DEF HistoryHasNoHole
  <2>1. IsRelevant(c)
    BY PlainNamesAreRead DEF Overlooked, IsRelevant
  <2>2. Lost(c)
    BY <1>1, <2>1 DEF MonitorInv, WatchedIsSeen
  <2>3. c \in Int
    BY <1>1 DEF MonitorInv, MonitorTypeOK
  <2> QED
    BY <2>2, <2>3 DEF Lost, Commands
<1> QED
  BY MonitorInvariance, <1>1, PTL

-----------------------------------------------------------------------------
(* A step of the composition is a step of each adapter, or none of it.     *)
LEMMA StepOfEach ==
  [Next]_vars =>
    /\ [AuditNext]_<<hostVars, auditVars>>
    /\ [MailNext]_<<hostVars, mailVars>>
    /\ [MonitorNext]_<<hostVars, monitorVars>>
<1> SUFFICES ASSUME [Next]_vars
             PROVE  /\ [AuditNext]_<<hostVars, auditVars>>
                    /\ [MailNext]_<<hostVars, mailVars>>
                    /\ [MonitorNext]_<<hostVars, monitorVars>>
  OBVIOUS
<1>1. CASE UNCHANGED vars
  BY <1>1 DEF vars
<1>2. CASE Environment
  BY <1>2 DEF Environment, AuditNext, AuditStep, MailNext, MailStep, MonitorNext,
              MonitorStep
<1>3. CASE Adapters
  BY <1>3 DEF Adapters, AuditNext, AuditStep, MailNext, MailStep, MonitorNext,
              MonitorStep
<1>4. CASE Agent
  BY <1>4 DEF Agent, AuditNext, MailNext, MonitorNext
<1> QED
  BY <1>1, <1>2, <1>3, <1>4 DEF Next

(* The composition is an agent with the database's adapter ...             *)
THEOREM CaptureHasAudit == Spec => AuditSpec
BY StepOfEach, PTL DEF Spec, Init, AuditSpec

(* ... one with the mail adapter ...                                       *)
THEOREM CaptureHasMail == Spec => MailSpec
BY StepOfEach, PTL DEF Spec, Init, MailSpec

(* ... and one with the Redis adapter.                                     *)
THEOREM CaptureHasMonitor == Spec => MonitorSpec
BY StepOfEach, PTL DEF Spec, Init, MonitorSpec

(* Every variable keeps its type.                                          *)
THEOREM CaptureTypes == Spec => []TypeOK
<1>1. Init => setup \in Setups
  BY DEF Init
<1>2. setup \in Setups /\ [Next]_vars => (setup \in Setups)'
  BY DEF Next, Environment, Adapters, Agent, vars
<1>3. AuditInv => HostTypeOK /\ AuditTypeOK
  BY DEF AuditInv
<1>4. MailInv => MailTypeOK
  BY DEF MailInv
<1>5. MonitorInv => MonitorTypeOK
  BY DEF MonitorInv
<1>6. HostTypeOK /\ AuditTypeOK /\ MailTypeOK /\ MonitorTypeOK /\ setup \in Setups
        => TypeOK
  BY DEF TypeOK
<1> QED
  BY CaptureHasAudit, CaptureHasMail, CaptureHasMonitor, AuditInvariance,
     MailInvariance, MonitorInvariance, <1>1, <1>2, <1>3, <1>4, <1>5, <1>6, PTL DEF Spec

(* Audit rows are delivered at least once, with a cause for each duplicate.*)
THEOREM CaptureDelivers == Spec => ImplementsDelivery /\ []DuplicatesHaveACause
BY CaptureHasAudit, AuditDelivers, DuplicatesAreAccountedFor, PTL

(* Messages are recorded at most once, with a reason for each miss.        *)
THEOREM CaptureMails == Spec => []NoMailTwice /\ []MissedForAReason
BY CaptureHasMail, MailsAreRecordedOnce, MissesAreExcused, PTL

(* Commands are recorded once and in order, and of those that the adapter  *)
(* recognises a connection misses only the last.                           *)
THEOREM CaptureMonitors == Spec => QueueHistoryInOrder /\ []HistoryHasNoHole
BY CaptureHasMonitor, QueueHistoryIsInOrder, HistoryIsWhole, PTL
=============================================================================
