---------------------------- MODULE AdapterHost ----------------------------
(***************************************************************************)
(* The agent as its adapters see it: a run of the agent begins, its        *)
(* context ends when Ctrl+C is pressed, and the process is gone, either    *)
(* after its adapters stopped or killed at any point.  What an adapter     *)
(* keeps in memory goes with the process.  How the agent starts and stops  *)
(* its parts is the subject of AgentLifecycle.                             *)
(***************************************************************************)
EXTENDS Integers, FiniteSets

CONSTANT MaxRuns  \* bound: runs of the agent

ASSUME MaxRunsAssumption == MaxRuns \in Nat

VARIABLES
  life,  \* the process: "down", "up", or "stopping" once its context has ended
  runs   \* runs begun so far

hostVars == <<life, runs>>

LifeStates == {"down", "up", "stopping"}

HostTypeOK ==
  /\ life \in LifeStates
  /\ runs \in Nat
  /\ life # "down" => runs > 0

HostInit ==
  /\ life = "down"
  /\ runs = 0

Up ==
  /\ life = "down"
  /\ runs < MaxRuns
  /\ life' = "up"
  /\ runs' = runs + 1

\* The context of the signal is the parent of every adapter's context.
CtrlC ==
  /\ life = "up"
  /\ life' = "stopping"
  /\ UNCHANGED runs

\* cmdUp returns when every adapter's Stop has, and a kill waits for nobody.
Gone ==
  /\ life # "down"
  /\ life' = "down"
  /\ UNCHANGED runs

\* The runs that are over: each may have broken off whatever was under way.
Over == IF life = "down" THEN runs ELSE runs - 1
=============================================================================
