---------------------------- MODULE RedisMonitor ----------------------------
(***************************************************************************)
(* The Redis adapter.  It opens one connection, sends MONITOR, and from    *)
(* then on Redis (external) writes a line for every command it executes.   *)
(* One goroutine reads the lines in turn and emits an event for those that *)
(* push to or pop from a configured queue.  When the connection or the     *)
(* reader ends nothing opens another one before the agent's next run.      *)
(*                                                                         *)
(* Commands are named by the order in which Redis executes them, so the    *)
(* lines under way are a set that is read from its least element.          *)
(***************************************************************************)
EXTENDS AdapterHost, Sequences

LOCAL INSTANCE SequencesExt

CONSTANTS
  NumCommands,  \* bound: commands executed
  Shapes,       \* what a command may be: [verb, keys, long], the names of its keys in
                \* their order, and whether its line exceeds the reader's buffer
  Escapes,      \* for a byte that Redis does not print, the letters it writes instead
  Queues        \* the configured queues, names like those of the keys

Commands == 1 .. NumCommands

\* A name is a sequence of bytes, of which two need care in a quoted text.
Backslash == "backslash"
Quote == "quote"

ASSUME NumCommandsAssumption == NumCommands \in Nat
ASSUME EscapesAssumption == DOMAIN Escapes \cap {Backslash, Quote} = {}

\* The verbs of the adapter's filter, and all by which Redis pushes or pops.
QueueVerbs == {"LPUSH", "RPUSH", "LPOP", "RPOP", "BRPOP", "BLPOP"}
MoveVerbs == QueueVerbs \cup {"LPUSHX", "RPUSHX", "RPOPLPUSH", "BRPOPLPUSH", "LMOVE",
                             "BLMOVE", "LMPOP", "BLMPOP"}

VARIABLES
  executed,   \* the commands Redis executed
  monitorPc,  \* the adapter's goroutine and its connection
  watched,    \* how many were executed before Redis began to write lines
  lines,      \* commands whose line is under way
  recorded,   \* recorded[c]: events stored for command c, over all runs
  unrecorded  \* commands whose event the sink did not store

monitorVars == <<executed, monitorPc, watched, lines, recorded, unrecorded>>

MonitorStates == {"none", "asked", "reading", "draining", "ended"}

MonitorTypeOK ==
  /\ executed \in Seq(Shapes)
  /\ Len(executed) <= NumCommands
  /\ monitorPc \in MonitorStates
  /\ watched \in 0 .. Len(executed)
  /\ lines \subseteq 1 .. Len(executed)
  /\ monitorPc \notin {"reading", "draining"} => lines = {}
  /\ recorded \in [Commands -> Nat]
  /\ unrecorded \subseteq 1 .. Len(executed)

MonitorInit ==
  /\ executed = <<>>
  /\ monitorPc = "none"
  /\ watched = 0
  /\ lines = {}
  /\ recorded = [c \in Commands |-> 0]
  /\ unrecorded = {}

-----------------------------------------------------------------------------
(* Redis.                                                                  *)

Execute(s) ==
  /\ Len(executed) < NumCommands
  /\ executed' = Append(executed, s)
  /\ lines' = IF monitorPc = "reading" THEN lines \cup {Len(executed) + 1} ELSE lines
  /\ UNCHANGED <<monitorPc, watched, recorded, unrecorded>>

\* It has taken the MONITOR command.
Watch ==
  /\ monitorPc = "asked"
  /\ monitorPc' = "reading"
  /\ watched' = Len(executed)
  /\ UNCHANGED <<executed, lines, recorded, unrecorded>>

\* It closes the connection, also on a reader that is too slow: some of the last lines
\* do not arrive.
MonitorCloses ==
  /\ monitorPc \in {"asked", "reading"}
  /\ monitorPc' = "draining"
  /\ \E last \in 0 .. Len(executed) : lines' = {c \in lines : c <= last}
  /\ UNCHANGED <<executed, watched, recorded, unrecorded>>

-----------------------------------------------------------------------------
(* The adapter.                                                            *)

\* Start returns when MONITOR was sent.
StartMonitor ==
  /\ life = "up"
  /\ monitorPc = "none"
  /\ monitorPc' = "asked"
  /\ UNCHANGED <<executed, watched, lines, recorded, unrecorded>>

\* Redis does not answer: the agent runs on without the adapter.
MonitorUnreachable ==
  /\ life = "up"
  /\ monitorPc = "none"
  /\ monitorPc' = "ended"
  /\ UNCHANGED <<executed, watched, lines, recorded, unrecorded>>

\* Redis writes a name in quotes: a byte that it does not print as a backslash and
\* letters ("\n", "\xe9"), a backslash or a quote behind a backslash.
Written(b) ==
  CASE b \in {Backslash, Quote} -> <<Backslash, b>>
    [] b \in DOMAIN Escapes -> <<Backslash>> \o Escapes[b]
    [] OTHER -> <<b>>

\* The parser drops a backslash and keeps what follows it, whatever it stands for.
Unescaped(text) == IF Head(text) = Backslash THEN Tail(text) ELSE text

\* The name that the parser gets; bytes that each give themselves give the name.
Parsed(name) ==
  LET read == [i \in DOMAIN name |-> Unescaped(Written(name[i]))]
  IN  IF read = [i \in DOMAIN name |-> <<name[i]>>] THEN name ELSE FlattenSeq(read)

\* Only the first key is looked at.
IsRelevant(c) ==
  /\ executed[c].verb \in QueueVerbs
  /\ Parsed(executed[c].keys[1]) \in Queues

\* Mutant: each line is handled by a goroutine of its own.
ReadsAny(c) ==
  /\ life = "up"
  /\ c \in lines
  /\ ~executed[c].long
  /\ lines' = lines \ {c}

ReadsLine(c) ==
  /\ life = "up"
  /\ c \in lines
  /\ \A d \in lines : c <= d
  /\ ~executed[c].long
  /\ lines' = lines \ {c}

\* A line that does not parse, another verb, or another key.
SkipLine(c) ==
  /\ ReadsLine(c)
  /\ ~IsRelevant(c)
  /\ UNCHANGED <<executed, monitorPc, watched, recorded, unrecorded>>

RecordLine(c) ==
  /\ ReadsLine(c)
  /\ IsRelevant(c)
  /\ recorded' = [recorded EXCEPT ![c] = @ + 1]
  /\ UNCHANGED <<executed, monitorPc, watched, unrecorded>>

\* The event is not stored: it is logged, and the next line is read.
DropLine(c) ==
  /\ ReadsLine(c)
  /\ IsRelevant(c)
  /\ unrecorded' = unrecorded \cup {c}
  /\ UNCHANGED <<executed, monitorPc, watched, recorded>>

\* Mutant: the reader skips a line that is too long, and reads on.
LineTooLongSkipped(c) ==
  /\ c \in lines
  /\ \A d \in lines : c <= d
  /\ executed[c].long
  /\ lines' = lines \ {c}
  /\ UNCHANGED <<executed, monitorPc, watched, recorded, unrecorded>>

\* The scanner gives up on a line that exceeds its buffer, and the goroutine returns.
LineTooLong(c) ==
  /\ c \in lines
  /\ \A d \in lines : c <= d
  /\ executed[c].long
  /\ monitorPc' = "ended"
  /\ lines' = {}
  /\ UNCHANGED <<executed, watched, recorded, unrecorded>>

EndOfLines ==
  /\ monitorPc = "draining"
  /\ lines = {}
  /\ monitorPc' = "ended"
  /\ UNCHANGED <<executed, watched, lines, recorded, unrecorded>>

\* Stop closes the connection; a line read meanwhile finds the context ended.
MonitorEnds ==
  /\ life = "stopping"
  /\ monitorPc \in {"asked", "reading", "draining"}
  /\ monitorPc' = "ended"
  /\ lines' = {}
  /\ UNCHANGED <<executed, watched, recorded, unrecorded>>

MonitorForgotten ==
  /\ monitorPc' = "none"
  /\ lines' = {}
  /\ UNCHANGED <<executed, watched, recorded, unrecorded>>

MonitorReads ==
  \/ \E c \in Commands : SkipLine(c) \/ RecordLine(c) \/ DropLine(c) \/ LineTooLong(c)
  \/ EndOfLines

MonitorStep ==
  \/ \E s \in Shapes : Execute(s)
  \/ Watch
  \/ MonitorCloses
  \/ StartMonitor
  \/ MonitorUnreachable
  \/ MonitorReads
  \/ MonitorEnds

\* The adapter in an agent that runs, stops and is killed.
MonitorNext ==
  \/ MonitorStep /\ UNCHANGED hostVars
  \/ (Up \/ CtrlC) /\ UNCHANGED monitorVars
  \/ Gone /\ MonitorForgotten

MonitorSpec == HostInit /\ MonitorInit /\ [][MonitorNext]_<<hostVars, monitorVars>>

-----------------------------------------------------------------------------
\* It pushes to or pops from a configured queue, by whatever command.
TouchesQueue(c) ==
  /\ executed[c].verb \in MoveVerbs
  /\ \E i \in DOMAIN executed[c].keys : executed[c].keys[i] \in Queues

\* The adapter does not take it for one: it knows six verbs, looks at the first key,
\* and does not get back a name with a byte that Redis writes in letters.
Overlooked(c) ==
  LET key == executed[c].keys[1]
  IN  \/ executed[c].verb \notin QueueVerbs
      \/ key \notin Queues
      \/ \E i \in DOMAIN key : key[i] \in DOMAIN Escapes

\* c is recorded now, for the first time and after no later command.
RecordedInTurn(c) ==
  recorded'[c] # recorded[c] =>
    recorded[c] = 0 /\ \A d \in Commands : d > c => recorded[d] = 0

(* The events of the queues tell their history: each command is recorded   *)
(* at most once, in the order in which Redis executed them, over all runs  *)
(* of the agent and whatever the connection loses.                         *)
QueueHistoryInOrder == [][\A c \in Commands : RecordedInTurn(c)]_<<hostVars, monitorVars>>

(* What a connection records of the queues may end early but has no hole   *)
(* that the code does not account for: of the commands on a configured     *)
(* queue that Redis executed since it took MONITOR, each is recorded, is   *)
(* under way, was refused by the sink, or is of a kind the adapter does    *)
(* not recognise - or it was lost with the connection, and then nothing    *)
(* after it was recorded.                                                  *)
HistoryHasNoHole ==
  \A c \in watched + 1 .. Len(executed) :
    TouchesQueue(c) /\ recorded[c] = 0 =>
      \/ c \in lines \cup unrecorded
      \/ Overlooked(c)
      \/ monitorPc # "reading" /\ \A d \in Commands : d > c => recorded[d] = 0
=============================================================================
