--------------------------- MODULE AgentLifecycle ---------------------------
(***************************************************************************)
(* The life of one `localcloud up`: the main goroutine starts the agent    *)
(* (database, adapters, Studio server) and the proxies, waits for Ctrl+C,  *)
(* and stops everything again, while the goroutines it started run: one    *)
(* per adapter, the server's accept loop, a handler per API request or     *)
(* stream, a handler per proxied exchange and an Emit per captured         *)
(* response.                                                               *)
(*                                                                         *)
(* The signal's context is the parent of the adapters' contexts, so Ctrl+C *)
(* reaches their goroutines before Stop does.  signal.NotifyContext keeps  *)
(* catching signals until cmdUp returns: a second Ctrl+C has no effect.    *)
(*                                                                         *)
(* What the goroutines do with an event is the subject of EventPipeline;   *)
(* here an Emit only uses the database.                                    *)
(***************************************************************************)
EXTENDS Integers

CONSTANTS
  NumAdapters,  \* adapters are numbered in the order of registration
  Monitors,     \* those that block in a read from a connection (redis)
  NumProxies,
  Exchanges,    \* requests an application sends through a proxy
  Via,          \* Via[x]: the proxy of exchange x
  Requests,     \* API requests that have arrived completely and end by themselves
  Streams       \* requests of the event stream, which end when the browser leaves

Adapters == 1 .. NumAdapters
Proxies == 1 .. NumProxies
Conns == Requests \cup Streams

ASSUME NumAssumption == NumAdapters \in Nat /\ NumProxies \in Nat
ASSUME ViaAssumption == Via \in [Exchanges -> Proxies]
ASSUME MonitorsAssumption == Monitors \subseteq Adapters

VARIABLES
  pc,         \* where cmdUp is
  at,         \* the adapter or proxy its loop has reached
  signalled,  \* Ctrl+C was pressed
  db,         \* the database handle
  adapter,    \* adapter[a]: its goroutine
  told,       \* told[a]: Stop cancelled its context and closed its connection
  server,     \* the goroutine that runs Server.Serve
  inShutdown, \* http.Server.Shutdown was called on the Studio server
  request,    \* request[c]: the handler of an API request or stream
  proxy,      \* proxy[p]: the proxy's listener
  exchange,   \* exchange[x]: the handler of a proxied exchange
  emit        \* emit[x]: the goroutine that emits its event

mainVars == <<pc, at>>
adapterVars == <<adapter, told>>
serverVars == <<server, inShutdown, request>>
proxyVars == <<proxy, exchange, emit>>
vars == <<mainVars, signalled, db, adapterVars, serverVars, proxyVars>>

MainStates == {"open", "adapters", "proxies", "stopProxies", "stopAdapters", "drain",
               "close", "return", "exited", "failed"}
AdapterStates == {"none", "waiting", "emitting", "ended"}
ServerStates == {"none", "spawned", "assigned", "accepting", "ended"}
ProxyStates == {"none", "serving", "closing", "stopped"}

Init ==
  /\ pc = "open"
  /\ at = 1
  /\ signalled = FALSE
  /\ db = "none"
  /\ adapter = [a \in Adapters |-> "none"]
  /\ told = [a \in Adapters |-> FALSE]
  /\ server = "none"
  /\ inShutdown = FALSE
  /\ request = [c \in Conns |-> "none"]
  /\ proxy = [p \in Proxies |-> "none"]
  /\ exchange = [x \in Exchanges |-> "none"]
  /\ emit = [x \in Exchanges |-> "none"]

\* When cmdUp has returned, the process is gone with every goroutine in it.
Alive == pc \notin {"exited", "failed"}

Running(a) == adapter[a] \in {"waiting", "emitting"}
Serving(p) == \E x \in Exchanges : Via[x] = p /\ exchange[x] \in {"proxying", "copying"}
Busy == \E c \in Conns : request[c] = "active"

-----------------------------------------------------------------------------
(* cmdUp and Agent.Start.  An adapter that fails to start is skipped; any  *)
(* other failure makes cmdUp return as it is.                              *)

Main(from, to, i) ==
  /\ pc = from
  /\ pc' = to
  /\ at' = i

OpenDatabase ==
  /\ Main("open", "adapters", 1)
  /\ db' = "open"
  /\ UNCHANGED <<signalled, adapterVars, serverVars, proxyVars>>

StartAdapter ==
  /\ at \in Adapters
  /\ Main("adapters", "adapters", at + 1)
  /\ \/ adapter' = [adapter EXCEPT ![at] = "waiting"]
     \/ UNCHANGED adapter
  /\ UNCHANGED <<signalled, db, told, serverVars, proxyVars>>

Listen ==
  /\ at > NumAdapters
  /\ Main("adapters", "proxies", 1)
  /\ server' = "spawned"
  /\ UNCHANGED <<signalled, db, adapterVars, inShutdown, request, proxyVars>>

StartProxy ==
  /\ at \in Proxies
  /\ Main("proxies", "proxies", at + 1)
  /\ proxy' = [proxy EXCEPT ![at] = "serving"]
  /\ UNCHANGED <<signalled, db, adapterVars, serverVars, exchange, emit>>

\* The database does not open, or the port of the Studio or of a proxy is taken.
StartFails ==
  /\ \/ pc = "open"
     \/ pc = "adapters" /\ at > NumAdapters
     \/ pc = "proxies" /\ at \in Proxies
  /\ Main(pc, "failed", at)
  /\ UNCHANGED <<signalled, db, adapterVars, serverVars, proxyVars>>

CtrlC ==
  /\ Alive
  /\ ~signalled
  /\ signalled' = TRUE
  /\ UNCHANGED <<mainVars, db, adapterVars, serverVars, proxyVars>>

AwaitSignal ==
  /\ signalled
  /\ at > NumProxies
  /\ Main("proxies", "stopProxies", 1)
  /\ UNCHANGED <<signalled, db, adapterVars, serverVars, proxyVars>>

-----------------------------------------------------------------------------
(* Proxy.Stop: http.Server.Shutdown closes the listener and waits for the  *)
(* handlers, not for the goroutines that emit what they captured.          *)

CloseProxy ==
  /\ pc = "stopProxies"
  /\ at \in Proxies
  /\ proxy[at] = "serving"
  /\ proxy' = [proxy EXCEPT ![at] = "closing"]
  /\ UNCHANGED <<mainVars, signalled, db, adapterVars, serverVars, exchange, emit>>

JoinProxy ==
  /\ at \in Proxies
  /\ proxy[at] = "closing"
  /\ ~Serving(at)
  /\ Main("stopProxies", "stopProxies", at + 1)
  /\ proxy' = [proxy EXCEPT ![at] = "stopped"]
  /\ UNCHANGED <<signalled, db, adapterVars, serverVars, exchange, emit>>

\* Mutant: the loop over the adapters begins one past the last.
ProxiesStoppedOffByOne ==
  /\ at > NumProxies
  /\ Main("stopProxies", "stopAdapters", NumAdapters + 1)
  /\ UNCHANGED <<signalled, db, adapterVars, serverVars, proxyVars>>

\* The adapters are stopped in reverse order.
ProxiesStopped ==
  /\ at > NumProxies
  /\ Main("stopProxies", "stopAdapters", NumAdapters)
  /\ UNCHANGED <<signalled, db, adapterVars, serverVars, proxyVars>>

-----------------------------------------------------------------------------
(* Agent.Stop                                                              *)

TellAdapter ==
  /\ pc = "stopAdapters"
  /\ at \in Adapters
  /\ ~told[at]
  /\ told' = [told EXCEPT ![at] = TRUE]
  /\ UNCHANGED <<mainVars, signalled, db, adapter, serverVars, proxyVars>>

\* Mutant: Stop returns without waiting for the adapter's goroutine.
LeaveAdapter ==
  /\ at \in Adapters
  /\ told[at]
  /\ Main("stopAdapters", "stopAdapters", at - 1)
  /\ UNCHANGED <<signalled, db, adapterVars, serverVars, proxyVars>>

JoinAdapter ==
  /\ at \in Adapters
  /\ told[at]
  /\ ~Running(at)
  /\ Main("stopAdapters", "stopAdapters", at - 1)
  /\ UNCHANGED <<signalled, db, adapterVars, serverVars, proxyVars>>

\* Server.Shutdown returns at once when Serve has not yet set s.server; else it
\* ends the accept loop and waits for the handlers, without a time limit.
ShutdownServer ==
  /\ at = 0
  /\ IF server = "spawned"
     THEN Main("stopAdapters", "close", 0) /\ UNCHANGED <<server, inShutdown>>
     ELSE /\ Main("stopAdapters", "drain", 0)
          /\ inShutdown' = TRUE
          /\ server' = IF server = "accepting" THEN "ended" ELSE server
  /\ UNCHANGED <<signalled, db, adapterVars, request, proxyVars>>

DrainServer ==
  /\ ~Busy
  /\ Main("drain", "close", 0)
  /\ UNCHANGED <<signalled, db, adapterVars, serverVars, proxyVars>>

CloseDatabase ==
  /\ Main("close", "return", 0)
  /\ db' = "closed"
  /\ UNCHANGED <<signalled, adapterVars, serverVars, proxyVars>>

Return ==
  /\ Main("return", "exited", 0)
  /\ UNCHANGED <<signalled, db, adapterVars, serverVars, proxyVars>>

-----------------------------------------------------------------------------
(* An adapter's goroutine: it waits for its source, or is in Emit.  The    *)
(* select between the tick and the context takes either when both are      *)
(* ready, so an Emit may still begin after the context has ended.          *)

AdapterStep(a, from, to) ==
  /\ Alive
  /\ adapter[a] = from
  /\ adapter' = [adapter EXCEPT ![a] = to]
  /\ UNCHANGED <<mainVars, signalled, db, told, serverVars, proxyVars>>

AdapterEmits(a) == AdapterStep(a, "waiting", "emitting")

\* The event is stored, or the insert fails; the goroutine goes on either way.
AdapterEmitted(a) == AdapterStep(a, "emitting", "waiting")

\* Mutant: Stop ends the context but leaves the connection open.
AdapterEndsByContext(a) ==
  /\ a \notin Monitors
  /\ signalled \/ told[a]
  /\ AdapterStep(a, "waiting", "ended")

\* A poller sees its context; a monitor is woken only by the closed connection.
AdapterEnds(a) ==
  /\ told[a] \/ (signalled /\ a \notin Monitors)
  /\ AdapterStep(a, "waiting", "ended")

\* The other side closes the connection or sends a line too long for the scanner,
\* or a line arrives after the context has ended.
MonitorLoses(a) ==
  /\ a \in Monitors
  /\ AdapterStep(a, "waiting", "ended")

-----------------------------------------------------------------------------
(* The goroutine of Server.Serve and the handlers of its connections       *)

ServerStep(from, to) ==
  /\ Alive
  /\ server = from
  /\ server' = to
  /\ UNCHANGED <<mainVars, signalled, db, adapterVars, inShutdown, request, proxyVars>>

AssignServer == ServerStep("spawned", "assigned")

\* http.Server.Serve refuses to begin after Shutdown.
BeginServing == ServerStep("assigned", IF inShutdown THEN "ended" ELSE "accepting")

RequestStep(c, from, to) ==
  /\ Alive
  /\ request[c] = from
  /\ request' = [request EXCEPT ![c] = to]
  /\ UNCHANGED <<mainVars, signalled, db, adapterVars, server, inShutdown, proxyVars>>

RequestArrives(c) ==
  /\ server = "accepting"
  /\ RequestStep(c, "none", "active")

\* A request is answered; a stream ends when its browser leaves, and only then.
RequestEnds(c) == RequestStep(c, "active", "done")

-----------------------------------------------------------------------------
(* The proxies' handlers and the Emit goroutines of captureResponse        *)

ProxyStep(x, from, to) ==
  /\ Alive
  /\ exchange[x] = from
  /\ exchange' = [exchange EXCEPT ![x] = to]
  /\ UNCHANGED <<mainVars, signalled, db, adapterVars, serverVars, proxy>>

ExchangeBegins(x) ==
  /\ proxy[Via[x]] = "serving"
  /\ ProxyStep(x, "none", "proxying")
  /\ UNCHANGED emit

\* The target cannot be reached: 502, and nothing is captured.
ExchangeFails(x) ==
  /\ ProxyStep(x, "proxying", "done")
  /\ UNCHANGED emit

\* The target answers, however late; the event is emitted beside the copying.
CaptureResponse(x) ==
  /\ ProxyStep(x, "proxying", "copying")
  /\ emit' = [emit EXCEPT ![x] = "emitting"]

ExchangeEnds(x) ==
  /\ ProxyStep(x, "copying", "done")
  /\ UNCHANGED emit

\* The insert succeeds only while the database is open.
EmitEnds(x) ==
  /\ Alive
  /\ emit[x] = "emitting"
  /\ \E end \in IF db = "open" THEN {"stored", "lost"} ELSE {"lost"} :
       emit' = [emit EXCEPT ![x] = end]
  /\ UNCHANGED <<mainVars, signalled, db, adapterVars, serverVars, proxy, exchange>>
-----------------------------------------------------------------------------
Starting ==
  \/ OpenDatabase
  \/ StartAdapter
  \/ Listen
  \/ StartProxy

Stopping ==
  \/ AwaitSignal
  \/ CloseProxy
  \/ JoinProxy
  \/ ProxiesStopped
  \/ TellAdapter
  \/ JoinAdapter
  \/ ShutdownServer
  \/ DrainServer
  \/ CloseDatabase
  \/ Return

AdapterRuns(a) ==
  \/ AdapterEmits(a)
  \/ AdapterEmitted(a)
  \/ AdapterEnds(a)
  \/ MonitorLoses(a)

Handling(c) ==
  \/ RequestArrives(c)
  \/ RequestEnds(c)

Proxying(x) ==
  \/ ExchangeBegins(x)
  \/ ExchangeFails(x)
  \/ CaptureResponse(x)
  \/ ExchangeEnds(x)
  \/ EmitEnds(x)

Next ==
  \/ Starting
  \/ StartFails
  \/ CtrlC
  \/ Stopping
  \/ \E a \in Adapters : AdapterRuns(a)
  \/ AssignServer
  \/ BeginServing
  \/ \E c \in Conns : Handling(c)
  \/ \E x \in Exchanges : Proxying(x)

Spec == Init /\ [][Next]_vars

(* Every goroutine that can run does run; a request other than a stream is *)
(* answered.  Nothing obliges a browser to leave its stream, or the target *)
(* of a proxy, which has no timeout, to answer and to end its response.  A *)
(* poller whose context has ended and whose ticks keep coming takes the    *)
(* context some time: select chooses at random.                            *)
Fairness ==
  /\ WF_vars(Starting)
  /\ WF_vars(Stopping)
  /\ WF_vars(AssignServer)
  /\ WF_vars(BeginServing)
  /\ \A a \in Adapters :
       /\ WF_vars(AdapterEmitted(a))
       /\ SF_vars(AdapterEnds(a))
  /\ \A c \in Requests : WF_vars(RequestEnds(c))
  /\ \A x \in Exchanges : WF_vars(EmitEnds(x))

FairSpec == Spec /\ Fairness
-----------------------------------------------------------------------------
\* The loops over adapters and proxies stay within their slices.
IndexOK ==
  /\ at \in Int
  /\ pc \in {"open", "adapters"} => at \in 1 .. NumAdapters + 1
  /\ pc \in {"proxies", "stopProxies"} => at \in 1 .. NumProxies + 1
  /\ pc = "stopAdapters" => at \in 0 .. NumAdapters

TypeOK ==
  /\ pc \in MainStates
  /\ IndexOK
  /\ signalled \in BOOLEAN
  /\ db \in {"none", "open", "closed"}
  /\ adapter \in [Adapters -> AdapterStates]
  /\ told \in [Adapters -> BOOLEAN]
  /\ server \in ServerStates
  /\ inShutdown \in BOOLEAN
  /\ request \in [Conns -> {"none", "active", "done"}]
  /\ proxy \in [Proxies -> ProxyStates]
  /\ exchange \in [Exchanges -> {"none", "proxying", "copying", "done"}]
  /\ emit \in [Exchanges -> {"none", "emitting", "stored", "lost"}]

(* When Stop closes the database, everything that uses it has come to rest *)
(* but the Emit goroutines of captureResponse: no adapter is in its loop,  *)
(* no proxy handler can capture another response, and no API request is    *)
(* being handled, provided Shutdown found the server (agent.go, Stop:      *)
(* adapters, context, API, database, in this order).                       *)
NothingRunsAtClose ==
  db = "closed" =>
    /\ \A a \in Adapters : ~Running(a)
    /\ \A p \in Proxies : proxy[p] = "stopped" /\ ~Serving(p)
    /\ inShutdown => ~Busy

(* Ctrl+C ends the program, wherever start-up or the adapters' goroutines  *)
(* are when it comes, unless a browser stays on its stream or a target     *)
(* leaves an exchange that a proxy passed to it open for ever.             *)
StopsUnlessHeld ==
  signalled ~>
    \/ ~Alive
    \/ \E c \in Streams : [](request[c] = "active")
    \/ \E x \in Exchanges : [](exchange[x] \in {"proxying", "copying"})

(* docs/cli.md, localcloud up: "The agent runs in the foreground.  Press   *)
(* `Ctrl+C` to stop."                                                      *)
CtrlCStops == signalled ~> ~Alive

(* server.go: "The http.Server is created synchronously so that Shutdown   *)
(* is safe to call from another goroutine immediately after Serve is       *)
(* invoked": once Shutdown has returned, no request is being handled.      *)
ShutdownIsSafe == pc \in {"close", "return"} => ~Busy
=============================================================================
