------------------------------ MODULE Capture ------------------------------
(***************************************************************************)
(* The three service adapters in one agent: they share its life, and       *)
(* nothing else.  Each keeps its promise across restarts by other means:   *)
(* the audit table remembers what was stored; the watermark over the       *)
(* messages starts from the present; the monitor sees what is executed     *)
(* while it is connected.                                                  *)
(***************************************************************************)
EXTENDS AuditPoller, MailPoller, RedisMonitor

CONSTANT
  Setups  \* the services an agent may be configured with, with bounds on what the
          \* application does: [services, rows, mails, time, commands]

VARIABLE setup

vars == <<hostVars, auditVars, mailVars, monitorVars, setup>>

TypeOK == HostTypeOK /\ AuditTypeOK /\ MailTypeOK /\ MonitorTypeOK /\ setup \in Setups

Init == HostInit /\ AuditInit /\ MailInit /\ MonitorInit /\ setup \in Setups

Bounded ==
  /\ Cardinality(committed') <= setup.rows
  /\ Len(inbox') <= setup.mails
  /\ clock' <= setup.time
  /\ Len(executed') <= setup.commands

Environment ==
  /\ \/ /\ \E r \in AuditRows : Insert(r)
        /\ UNCHANGED <<hostVars, mailVars, monitorVars, setup>>
     \/ /\ Tick \/ \E m \in Mails, t \in 1 .. clock : List(m, t)
        /\ UNCHANGED <<hostVars, auditVars, monitorVars, setup>>
     \/ /\ (\E s \in Shapes : Execute(s)) \/ Watch \/ MonitorCloses
        /\ UNCHANGED <<hostVars, auditVars, mailVars, setup>>
  /\ Bounded

\* cmdUp registers an adapter for each service of a type that has one.
Adapters ==
  \/ /\ \/ "postgres" \in setup.services /\ (StartAudit \/ AuditUnreachable)
        \/ AuditPolls \/ AuditEnds
     /\ UNCHANGED <<hostVars, mailVars, monitorVars, setup>>
  \/ /\ \/ "mailpit" \in setup.services /\ StartMail
        \/ MailPolls \/ MailEnds
     /\ UNCHANGED <<hostVars, auditVars, monitorVars, setup>>
  \/ /\ \/ "redis" \in setup.services /\ (StartMonitor \/ MonitorUnreachable)
        \/ MonitorReads \/ MonitorEnds
     /\ UNCHANGED <<hostVars, auditVars, mailVars, setup>>

Agent ==
  \/ (Up \/ CtrlC) /\ UNCHANGED <<auditVars, mailVars, monitorVars, setup>>
  \/ Gone /\ AuditForgotten /\ MailForgotten /\ MonitorForgotten /\ UNCHANGED setup

Next == Environment \/ Adapters \/ Agent

\* The adapters poll again and again, and what fails at one poll works at a later one:
\* a SELECT or a fetch that is answered, an event that is stored.  A goroutine whose
\* context ended returns.
Fairness ==
  /\ WF_vars(SelectRows /\ UNCHANGED <<hostVars, mailVars, monitorVars, setup>>)
  /\ \A r \in AuditRows : SF_vars(StoreRow(r) /\ UNCHANGED <<hostVars, mailVars, monitorVars, setup>>)
  /\ WF_vars(EndOfRows /\ UNCHANGED <<hostVars, mailVars, monitorVars, setup>>)
  /\ WF_vars((MarkRows \/ MarkFails \/ AuditEnds) /\ UNCHANGED <<hostVars, mailVars, monitorVars, setup>>)
  /\ WF_vars((MailPolls \/ MailEnds) /\ UNCHANGED <<hostVars, auditVars, monitorVars, setup>>)

Spec == Init /\ [][Next]_vars /\ Fairness
=============================================================================
