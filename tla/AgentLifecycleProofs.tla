------------------------ MODULE AgentLifecycleProofs ------------------------
(***************************************************************************)
(* Proofs about AgentLifecycle, for any numbers of adapters and proxies    *)
(* and any requests.  The invariant follows cmdUp through its shutdown:    *)
(* what the main goroutine has already waited for stays at rest.           *)
(***************************************************************************)
EXTENDS AgentLifecycle, TLAPS

\* The stages of the shutdown after the proxies, and after the adapters.
ProxiesDone == pc \in {"stopAdapters", "drain", "close", "return", "exited"}
AdaptersDone == pc \in {"drain", "close", "return", "exited"}
ServerDone == pc \in {"close", "return", "exited"}

\* The proxies that cmdUp has waited for are stopped, and a stopped proxy serves
\* nothing.
ProxiesRest ==
  /\ \A p \in Proxies :
       ProxiesDone \/ (pc = "stopProxies" /\ p < at) => proxy[p] = "stopped"
  /\ \A p \in Proxies : proxy[p] = "stopped" => ~Serving(p)

\* The goroutines of the adapters that Stop has waited for have ended.
AdaptersRest ==
  \A a \in Adapters :
    AdaptersDone \/ (pc = "stopAdapters" /\ a > at) => ~Running(a)

\* After Shutdown found the server no connection is accepted any more.
ServerRests ==
  /\ inShutdown => AdaptersDone /\ server # "accepting"
  /\ inShutdown /\ ServerDone => ~Busy

ClosedLast == db = "closed" => pc \in {"return", "exited"}

IInv ==
  /\ TypeOK
  /\ ProxiesRest
  /\ AdaptersRest
  /\ ServerRests
  /\ ClosedLast
-----------------------------------------------------------------------------
(* cmdUp begins with everything down.                                      *)
LEMMA InitInvariant == Init => IInv
<1> SUFFICES ASSUME Init
             PROVE  IInv
  OBVIOUS
<1>1. IndexOK
  BY NumAssumption DEF Init, IndexOK
<1>2. TypeOK
  BY <1>1 DEF Init, TypeOK, MainStates, AdapterStates, ServerStates, ProxyStates
<1>3. ProxiesRest /\ AdaptersRest /\ ServerRests /\ ClosedLast
  BY DEF Init, ProxiesRest, AdaptersRest, ServerRests, ClosedLast, ProxiesDone,
         AdaptersDone, ServerDone, Serving, Running
<1> QED
  BY <1>2, <1>3 DEF IInv

(* The steps of the main goroutine while it starts, and the signal.        *)
LEMMA StartingInvariant ==
  ASSUME IInv, Starting \/ StartFails \/ CtrlC \/ AwaitSignal
  PROVE  IInv'
<1> USE NumAssumption DEF IInv, Main, mainVars, adapterVars, serverVars, proxyVars
<1>1. TypeOK'
  <2>1. IndexOK'
    BY DEF TypeOK, IndexOK, Starting, OpenDatabase, StartAdapter, Listen, StartProxy,
           StartFails, CtrlC, AwaitSignal, Adapters, Proxies
  <2> USE <2>1 DEF TypeOK, MainStates, AdapterStates, ServerStates, ProxyStates
  <2>2. CASE OpenDatabase \/ StartAdapter
    BY <2>2 DEF OpenDatabase, StartAdapter
  <2>3. CASE Listen \/ StartProxy
    BY <2>3 DEF Listen, StartProxy
  <2>4. CASE StartFails \/ CtrlC \/ AwaitSignal
    BY <2>4 DEF StartFails, CtrlC, AwaitSignal
  <2> QED
    BY <2>2, <2>3, <2>4 DEF Starting
<1>2. ProxiesRest'
  BY DEF TypeOK, IndexOK, ProxiesRest, ProxiesDone, Serving, Proxies, Starting,
         OpenDatabase, StartAdapter, Listen, StartProxy, StartFails, CtrlC, AwaitSignal
<1>3. AdaptersRest'
  BY DEF TypeOK, IndexOK, AdaptersRest, AdaptersDone, Running, Starting, OpenDatabase,
         StartAdapter, Listen, StartProxy, StartFails, CtrlC, AwaitSignal
<1>4. ServerRests' /\ ClosedLast'
  BY DEF TypeOK, ServerRests, ClosedLast, AdaptersDone, ServerDone, Busy, Starting,
         OpenDatabase, StartAdapter, Listen, StartProxy, StartFails, CtrlC, AwaitSignal
<1> QED
  BY <1>1, <1>2, <1>3, <1>4

(* The steps of the main goroutine while it stops.                         *)
LEMMA StoppingInvariant ==
  ASSUME IInv, Stopping
  PROVE  IInv'
<1> USE NumAssumption DEF IInv, Main, mainVars, adapterVars, serverVars, proxyVars
<1>1. CASE AwaitSignal
  BY <1>1, StartingInvariant
<1>2. CASE CloseProxy \/ JoinProxy \/ ProxiesStopped
  <2>1. TypeOK'
    <3>1. IndexOK'
      BY <1>2 DEF TypeOK, IndexOK, CloseProxy, JoinProxy, ProxiesStopped, Proxies
    <3> QED
      BY <1>2, <3>1
      DEF TypeOK, MainStates, ProxyStates, CloseProxy, JoinProxy, ProxiesStopped
  <2>2. ProxiesRest'
    BY <1>2 DEF TypeOK, IndexOK, ProxiesRest, ProxiesDone, Serving, Proxies, CloseProxy,
                JoinProxy, ProxiesStopped
  <2>3. AdaptersRest' /\ ServerRests' /\ ClosedLast'
    BY <1>2 DEF TypeOK, IndexOK, AdaptersRest, ServerRests, ClosedLast, AdaptersDone,
                ServerDone,
                Running, Busy, Adapters, CloseProxy, JoinProxy, ProxiesStopped
  <2> QED
    BY <2>1, <2>2, <2>3
<1>3. CASE TellAdapter \/ JoinAdapter
  <2>1. TypeOK'
    <3>1. IndexOK'
      BY <1>3 DEF TypeOK, IndexOK, TellAdapter, JoinAdapter, Adapters
    <3> QED
      BY <1>3, <3>1 DEF TypeOK, MainStates, TellAdapter, JoinAdapter
  <2>2. ProxiesRest' /\ ServerRests' /\ ClosedLast'
    BY <1>3 DEF ProxiesRest, ServerRests, ClosedLast, ProxiesDone, AdaptersDone,
                ServerDone, Serving, Busy, TellAdapter, JoinAdapter
  <2>3. AdaptersRest'
    BY <1>3 DEF TypeOK, IndexOK, AdaptersRest, AdaptersDone, Running, Adapters,
                TellAdapter, JoinAdapter
  <2> QED
    BY <2>1, <2>2, <2>3
<1>4. CASE ShutdownServer \/ DrainServer \/ CloseDatabase \/ Return
  <2>1. TypeOK'
    <3>1. IndexOK'
      BY <1>4 DEF TypeOK, IndexOK, ShutdownServer, DrainServer, CloseDatabase, Return
    <3> QED
      BY <1>4, <3>1 DEF TypeOK, MainStates, ServerStates, ShutdownServer, DrainServer,
                        CloseDatabase, Return
  <2>2. ProxiesRest' /\ AdaptersRest'
    BY <1>4 DEF TypeOK, IndexOK, ProxiesRest, AdaptersRest, ProxiesDone, AdaptersDone,
                Serving,
                Running, Adapters, ShutdownServer, DrainServer, CloseDatabase, Return
  <2>3. ServerRests' /\ ClosedLast'
    BY <1>4 DEF TypeOK, ServerRests, ClosedLast, AdaptersDone, ServerDone, Busy,
                ShutdownServer, DrainServer, CloseDatabase, Return
  <2> QED
    BY <2>1, <2>2, <2>3
<1> QED
  BY <1>1, <1>2, <1>3, <1>4 DEF Stopping

(* The steps of the other goroutines.                                      *)
LEMMA RunningInvariant ==
  ASSUME IInv,
         \/ \E a \in Adapters : AdapterRuns(a)
         \/ AssignServer
         \/ BeginServing
         \/ \E c \in Conns : Handling(c)
         \/ \E x \in Exchanges : Proxying(x)
  PROVE  IInv'
<1> USE DEF IInv, Alive, mainVars, adapterVars, serverVars, proxyVars
<1>1. ASSUME NEW a \in Adapters, AdapterRuns(a)
      PROVE  IInv'
  <2> USE <1>1 DEF AdapterRuns, AdapterEmits, AdapterEmitted, AdapterEnds, MonitorLoses,
                   AdapterStep
  <2>1. TypeOK'
    BY DEF TypeOK, IndexOK, AdapterStates
  <2>2. ProxiesRest' /\ ServerRests' /\ ClosedLast'
    BY DEF ProxiesRest, ServerRests, ClosedLast, ProxiesDone, AdaptersDone, ServerDone,
           Serving, Busy
  <2>3. AdaptersRest'
    BY DEF TypeOK, AdaptersRest, AdaptersDone, Running
  <2> QED
    BY <2>1, <2>2, <2>3
<1>2. CASE AssignServer \/ BeginServing
  <2> USE <1>2 DEF AssignServer, BeginServing, ServerStep
  <2>1. TypeOK'
    BY DEF TypeOK, IndexOK, ServerStates
  <2>2. ProxiesRest' /\ AdaptersRest' /\ ServerRests' /\ ClosedLast'
    BY DEF ProxiesRest, AdaptersRest, ServerRests, ClosedLast, ProxiesDone,
           AdaptersDone, ServerDone, Serving, Running, Busy
  <2> QED
    BY <2>1, <2>2
<1>3. ASSUME NEW c \in Conns, Handling(c)
      PROVE  IInv'
  <2> USE <1>3 DEF Handling, RequestArrives, RequestEnds, RequestStep
  <2>1. TypeOK'
    BY DEF TypeOK, IndexOK
  <2>2. ProxiesRest' /\ AdaptersRest' /\ ClosedLast'
    BY DEF ProxiesRest, AdaptersRest, ClosedLast, ProxiesDone, AdaptersDone, Serving,
           Running
  <2>3. ServerRests'
    BY DEF TypeOK, ServerRests, AdaptersDone, ServerDone, Busy
  <2> QED
    BY <2>1, <2>2, <2>3
<1>4. ASSUME NEW x \in Exchanges, Proxying(x)
      PROVE  IInv'
  <2> USE <1>4 DEF Proxying, ExchangeBegins, ExchangeFails, CaptureResponse,
                   ExchangeEnds, EmitEnds, ProxyStep
  <2>1. TypeOK'
    BY DEF TypeOK, IndexOK
  <2>2. ProxiesRest'
    BY ViaAssumption DEF TypeOK, ProxiesRest, ProxiesDone, Serving
  <2>3. AdaptersRest' /\ ServerRests' /\ ClosedLast'
    BY DEF AdaptersRest, ServerRests, ClosedLast, AdaptersDone, ServerDone, Running,
           Busy
  <2> QED
    BY <2>1, <2>2, <2>3
<1> QED
  BY <1>1, <1>2, <1>3, <1>4

(* What has been waited for stays at rest, whatever the goroutines do.     *)
THEOREM Invariance == Spec => []IInv
<1>1. IInv /\ [Next]_vars => IInv'
  <2> SUFFICES ASSUME IInv, [Next]_vars
               PROVE  IInv'
    OBVIOUS
  <2>1. CASE UNCHANGED vars
    BY <2>1
    DEF IInv, TypeOK, IndexOK, ProxiesRest, AdaptersRest, ServerRests, ClosedLast,
        ProxiesDone, AdaptersDone, ServerDone, Serving, Running, Busy, vars, mainVars,
        adapterVars, serverVars, proxyVars
  <2>2. CASE Next
    BY <2>2, StartingInvariant, StoppingInvariant, RunningInvariant DEF Next
  <2> QED
    BY <2>1, <2>2
<1> QED
  BY <1>1, InitInvariant, PTL DEF Spec

(* Each part of the program stays in the states its code knows; the loops  *)
(* over adapters and proxies stay within their slices.                     *)
THEOREM TypeCorrect == Spec => []TypeOK
BY Invariance, PTL DEF IInv

(* When the database is closed, every adapter, every proxy handler and, if *)
(* Shutdown found the server, every API handler has come to rest.          *)
THEOREM RestAtClose == Spec => []NothingRunsAtClose
<1>1. IInv => NothingRunsAtClose
  BY DEF IInv, NothingRunsAtClose, ClosedLast, ProxiesRest, AdaptersRest, ServerRests,
         ProxiesDone, AdaptersDone, ServerDone
<1> QED
  BY <1>1, Invariance, PTL
-----------------------------------------------------------------------------
(* How much cmdUp still has to do: one step for each adapter and proxy it  *)
(* starts, two for each it stops, and a few more.                          *)

Told(a) == IF a \in Adapters /\ told[a] THEN 1 ELSE 0
Closed(p) == IF p \in Proxies /\ proxy[p] = "closing" THEN 1 ELSE 0

Total == 8 + 3 * NumAdapters + 3 * NumProxies

Left ==
  CASE pc = "open" -> Total
    [] pc = "adapters" -> Total - at
    [] pc = "proxies" -> 7 + 2 * NumAdapters + 3 * NumProxies - at
    [] pc = "stopProxies" -> 7 + 2 * NumAdapters + 2 * NumProxies - 2 * at - Closed(at)
    [] pc = "stopAdapters" -> 4 + 2 * at - Told(at)
    [] pc = "drain" -> 3
    [] pc = "close" -> 2
    [] pc = "return" -> 1
    [] OTHER -> 0

(* What remains is bounded by the whole.                                   *)
LEMMA LeftBounded == IInv => Left \in 0 .. Total
<1> SUFFICES ASSUME IInv
             PROVE  Left \in 0 .. Total
  OBVIOUS
<1>1. pc \in MainStates /\ IndexOK /\ NumAdapters \in Nat /\ NumProxies \in Nat
  BY NumAssumption DEF IInv, TypeOK
<1>2. Told(at) \in 0 .. 1 /\ Closed(at) \in 0 .. 1
  BY DEF Told, Closed
<1>3. at = 0 => Told(at) = 0
  BY DEF Told, Adapters
<1>4. at = NumProxies + 1 => Closed(at) = 0
  BY <1>1 DEF Closed, Proxies
<1>5. CASE pc \in {"open", "adapters", "proxies"}
  BY <1>1, <1>5 DEF Left, Total, IndexOK
<1>6. CASE pc = "stopProxies"
  BY <1>1, <1>2, <1>4, <1>6 DEF Left, Total, IndexOK
<1>7. CASE pc = "stopAdapters"
  BY <1>1, <1>2, <1>3, <1>7 DEF Left, Total, IndexOK
<1>8. CASE pc \in {"drain", "close", "return", "exited", "failed"}
  BY <1>1, <1>8 DEF Left, Total
<1> QED
  BY <1>1, <1>5, <1>6, <1>7, <1>8 DEF MainStates

(* Each step of cmdUp leaves it less to do.                                *)
LEMMA MainAdvances ==
  ASSUME IInv, Starting \/ StartFails \/ Stopping
  PROVE  Left' < Left
<1> USE DEF Main, mainVars, adapterVars, proxyVars
<1>1. /\ IndexOK /\ NumAdapters \in Nat /\ NumProxies \in Nat
      /\ told \in [Adapters -> BOOLEAN] /\ proxy \in [Proxies -> ProxyStates]
  BY NumAssumption DEF IInv, TypeOK
<1>2. Told(at) \in 0 .. 1 /\ Closed(at) \in 0 .. 1
  BY DEF Told, Closed
<1>3. Told(at)' \in 0 .. 1 /\ Closed(at)' \in 0 .. 1
  BY DEF Told, Closed
<1>4. CASE Starting
  BY <1>1, <1>4 DEF Left, Total, IndexOK, Starting, OpenDatabase, StartAdapter, Listen,
                    StartProxy
<1>5. CASE StartFails
  BY <1>1, <1>5 DEF Left, Total, IndexOK, StartFails
<1>6. CASE AwaitSignal
  BY <1>1, <1>3, <1>6 DEF Left, IndexOK, AwaitSignal
<1>7. CASE CloseProxy
  <2>1. Closed(at) = 0 /\ Closed(at)' = 1
    BY <1>1, <1>7 DEF Closed, CloseProxy
  <2> QED
    BY <1>1, <1>7, <2>1 DEF Left, IndexOK, CloseProxy
<1>8. CASE JoinProxy
  BY <1>1, <1>2, <1>3, <1>8 DEF Left, IndexOK, JoinProxy
<1>9. CASE ProxiesStopped
  <2>1. Closed(at) = 0
    BY <1>1, <1>9 DEF Closed, Proxies, IndexOK, ProxiesStopped
  <2> QED
    BY <1>1, <1>3, <1>9, <2>1 DEF Left, IndexOK, ProxiesStopped
<1>10. CASE TellAdapter
  <2>1. Told(at) = 0 /\ Told(at)' = 1
    BY <1>1, <1>10 DEF Told, TellAdapter
  <2> QED
    BY <1>1, <1>10, <2>1 DEF Left, IndexOK, TellAdapter
<1>11. CASE JoinAdapter
  BY <1>1, <1>2, <1>3, <1>11 DEF Left, IndexOK, JoinAdapter
<1>12. CASE ShutdownServer
  <2>1. Told(at) = 0
    BY <1>12 DEF Told, Adapters, ShutdownServer
  <2> QED
    BY <1>12, <2>1 DEF Left, ShutdownServer
<1>13. CASE DrainServer \/ CloseDatabase \/ Return
  BY <1>13 DEF Left, DrainServer, CloseDatabase, Return
<1> QED
  BY <1>4, <1>5, <1>6, <1>7, <1>8, <1>9, <1>10, <1>11, <1>12, <1>13 DEF Stopping

(* From start to exit cmdUp takes at most three steps for each adapter and *)
(* proxy and eight more, and nothing that runs beside it sends it back:    *)
(* what StopsUnlessHeld rests on (cmdUp, Agent.Stop, Proxy.Stop).          *)
THEOREM UpAdvances ==
  Spec => /\ [](Left \in 0 .. Total)
          /\ [][Left' < Left \/ UNCHANGED <<pc, at, told, proxy>>]_vars
<1>1. IInv /\ [Next]_vars => [Left' < Left \/ UNCHANGED <<pc, at, told, proxy>>]_vars
  <2> SUFFICES ASSUME IInv, Next
               PROVE  Left' < Left \/ UNCHANGED <<pc, at, told, proxy>>
    OBVIOUS
  <2>1. CASE Starting \/ StartFails \/ Stopping
    BY <2>1, MainAdvances
  <2>2. CASE ~(Starting \/ StartFails \/ Stopping)
    BY <2>2 DEF Next, CtrlC, AdapterRuns, AdapterEmits, AdapterEmitted, AdapterEnds,
                MonitorLoses, AdapterStep, AssignServer, BeginServing, ServerStep,
                Handling, RequestArrives, RequestEnds, RequestStep, Proxying,
                ExchangeBegins, ExchangeFails, CaptureResponse, ExchangeEnds, EmitEnds,
                ProxyStep, mainVars, adapterVars, serverVars, proxyVars
  <2> QED
    BY <2>1, <2>2
<1> QED
  BY <1>1, LeftBounded, Invariance, PTL DEF Spec
=============================================================================
