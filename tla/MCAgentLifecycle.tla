-------------------------- MODULE MCAgentLifecycle --------------------------
(* The instances of AgentLifecycle that TLC checks: a monitor and a poller *)
(* as adapters, exchanges through the first proxy only, one API request    *)
(* and one event stream.                                                   *)
EXTENDS AgentLifecycle

MCVia == [x \in Exchanges |-> 1]
=============================================================================
