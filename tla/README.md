# LocalCloud: TLA+ models, model checks and proofs

LocalCloud is a Go program that runs next to a developer's docker-compose stack. It captures what
the stack does (HTTP requests through a proxy, PostgreSQL rows through an audit table, Redis
commands through MONITOR, mails through Mailpit), stores the events in SQLite, shows them live in
a browser (Studio), groups them into recorded *scenarios*, replays those, and injects faults.

This directory holds TLA+ models of its core, the TLC configurations that check them on small
instances, and TLAPS proofs of the main properties for instances of any size. Paths below are
relative to `src/internal/`, those of Studio to `src/`.

    tlc -workers 2 -config MCEventPipeline.cfg MCEventPipeline.tla     # a check
    tlapm EventPipelineProofs.tla                                      # a proof

## Inventory

| Part | State | Operations | What makes it correct |
|---|---|---|---|
| Event pipeline: `agent/agent.go` (`agentSink`), `eventbus/bus.go`, stream half of `api/server.go` | events table; bus subscribers; `sseClients` and one channel per connection | `Emit`, `Publish`, `broadcastSSE`, `handleEventStream`, `addSSEClient`, `removeSSEClient` | stored before shown; one order for all browsers; no loss while a browser's channel has room; a browser can never hold up a capture; connections are forgotten |
| Fault rules: `fault/engine.go`, `fault/matcher.go`, handlers, `FaultRuleRepository` | table `fault_rules` | create, toggle, delete, `Check` | limits hold under concurrent requests; a rule out of service stops |
| Scenario recording: handlers, `agent/recording.go`, `ScenarioRepository` | table `scenarios`; `Agent.activeRecording` | start, stop, tagging in `Emit` | one recording at a time; names unique; a finished scenario stays finished; captured events are tagged |
| Agent lifecycle: `agent/agent.go`, `cli/cmd_up.go`, `Server.Serve/Shutdown` | status, database handle, adapters, listener, contexts | `Start`, `Stop`, `cmdUp` | what was started is stopped, nothing emits into a closed database, Ctrl+C ends the program |
| Replay: `replay/replay.go`, `ReplayRunRepository` | table `replay_runs` | `Plan`, `Execute` | unsafe requests only when confirmed; the row tells what happened |
| PostgreSQL adapter | audit table's `processed` column; trigger per table | start, poll: select, emit, mark | every audited row becomes an event, at least once, with a cause for each duplicate |
| Mailpit adapter | `lastSeenTime`, `lastSeenID`, in memory only | poll: fetch, emit | no mail twice; none missed without a reason |
| Redis adapter | connection, reader goroutine, status | monitor, stop | commands on the queues are recorded once, in their order, with no hole while the connection lasts; stop returns |
| Capture proxy: `proxy/proxy.go` | listener; one goroutine per captured response | `Start`, `Stop`, `captureResponse` | captures do not delay the application and are not lost at shutdown |
| Event listing: `handleListEvents`, `ListByTimestamp` | (none) | page by cursor | a walk over the pages meets every event |
| Export, redaction: `scenario/export.go`, `redaction/redaction.go` | (none) | scan, redact | an export called safe holds no known secret |
| Storage: `storage/*.go` | SQLite file | statements, migrations | constraints as declared |
| Config, compose driver, CLI | (none after start-up) | parse, run, one request per command | - |
| Studio: `studio/src` | query cache, event source | prepend, reconnect, refetch | the page shows what the API holds, or will when it is opened again |
| Demo application, scripts | external | - | - |

**Interaction.** Adapters and the proxy call `agentSink.Emit` on their own goroutines, through the
`EventSink` interface. `Emit` reads the agent's recording, writes the events table and calls the
bus, which calls its one subscriber, the API server, *synchronously* on the emitting goroutine;
the server puts the event into a channel per browser, and the browser's handler goroutine takes
it out. The API handlers share the database with the sink and with each other, one goroutine per
request, without transactions. The CLI commands other than `up` are HTTP clients of that API.

**What is hard here.** (1) The synchronous chain from an adapter down to the browsers' channels.
(2) Handlers made of several SQL statements, each atomic, together not. (3) State kept twice (the
`scenarios` table and `Agent.activeRecording`). (4) Errors that are discarded, so that failure
reads as absence. (5) Shutdown with goroutines and streams still open. (6) Pollers with
watermarks and marks that fail separately from what they track, in a process that may be killed
at any point. (7) Studio's list, written by a stream and by requests that know nothing of each
other. `PROJECT.json` lists each hazard at its line with the properties that cover it.

## Modules

| Module | Models | Used by |
|---|---|---|
| `EventFeed` | abstract: what viewers are promised | `EventPipeline`, `Studio` (refinement) |
| `EventPipeline` | sink, bus, broadcast, stream handlers | `MCEventPipeline`, `EventPipelineProofs` |
| `FaultRules` | rules, handlers, `Engine.Check` | `MCFaultRules`, `FaultRulesProofs` |
| `Recording` | start/stop handlers, tagging, restart | `MCRecording`, `RecordingProofs` |
| `AgentLifecycle` | `cmdUp`, `Agent.Start`/`Stop`, proxies, server, the goroutines they start | `MCAgentLifecycle`, `AgentLifecycleProofs` |
| `Replay` | `replay.Execute` under a request that may be cancelled | `MCReplay`, `ReplayProofs` |
| `AdapterHost` | the agent as its adapters see it: runs that begin, stop, are killed | the three adapters |
| `Delivery` | abstract: an at-least-once delivery | `AuditPoller` (refinement) |
| `AuditPoller` | the PostgreSQL adapter, the audit table and its triggers | `Capture`, `PollerProofs` |
| `MailPoller` | the Mailpit adapter and Mailpit's list | `Capture`, `PollerProofs` |
| `RedisMonitor` | the Redis adapter and the lines Redis writes | `Capture`, `CaptureProofs` |
| `Capture` | the three adapters in one agent | `MCCapture`, `CaptureProofs` |
| `EventPages` | the events table, `GET /api/events` and a client that reads all pages | `Studio`, `StudioProofs` |
| `Studio` | the timeline page: live stream, cached list, requests | `MCStudio`, `StudioProofs` |

### EventPipeline and EventFeed

One `Emit` call per event and one handler per connection, each with a program counter. A step is
what the code does between two points where another goroutine can be seen: validate and insert,
`Publish` reading the subscribers, taking `sseMu`, one send of the loop over `sseClients`,
releasing `sseMu`; for a handler: flushing the headers, `addSSEClient`, the receive in `select`,
the end of the write, the context's end, `removeSSEClient`. The select with a `default` in
`broadcastSSE` is `Send`: append when there is room, else drop. The map's unspecified order is a
choice of the next connection. A connection's channel is kept with its past (`queued`, of which
the first `taken` were received), so what a browser was sent is state. `ticket`, `turns` and
`since` are history: the order in which broadcasts took the lock, and when a connection joined.

`EventFeed` says it without channels and locks: events are recorded, some recorded events are
announced and thereby ranked, a viewer is shown announced events in the order of rank.
`ImplementsFeed` is that specification under the mapping in `EventPipeline`.

Left out: what an event contains; that `json.Marshal` of an event could fail (its fields always
marshal); the scenario tag, which is `Recording`'s subject. Several subscribers on the bus: the
program has one.

### FaultRules

Each `Check` is three steps - list, match, count - and any handler or other request may act
between them; time passes between any two. The match fields are a relation `Fits`, the limit,
expiry, order by creation time and the failures (list fails, count fails, rule deleted before it
is counted) are kept. `Apply` (delay, status, abort) changes no state of the program.
`Engine.Check` has no caller under `src/internal`: the requests model the proxy it was written
for. `seed`, `applied`, `lost`, `late` are history.

### Recording

A start request is two look-ups and an insert, a stop request a look-up, a count and an update;
look-ups may fail, and the handlers take failure for absence. The table's UNIQUE name and foreign
key decide the insert: `Snapshots` is what `config_snapshots` holds, which for a database made by
this code is nothing. The properties of what happens after an insert are checked with a database
that does hold the row. `Agent.StartRecording` is modelled as an action although nothing calls it,
because it is the only code that would set `activeRecording`; its name check makes it fail for
every new name, so it never does.

### AgentLifecycle

`pc` and `at` are the main goroutine: where `cmdUp` is and which adapter or proxy its loop has
reached. Every other variable is a set of goroutines it started: an adapter waits for its source
or is in `Emit`; a proxied exchange is with the target, then its response is copied while `emit`
is the goroutine `captureResponse` started for the event; a request is being handled; the
server's goroutine is created (`spawned`), has stored `s.server` (`assigned`), accepts. Two kinds
of adapters differ in what ends them. A poller (PostgreSQL, Mailpit) sees its context, which is a
child of the signal's, so it may end at Ctrl+C, long before `Stop` comes to it. A monitor (Redis)
is blocked in a read, so it ends when `Stop` closes its connection - or when Redis does.

A failing start is one action (`StartFails`): `cmdUp` returns and the process ends with whatever
runs, so the model stops there. An `Emit` here only uses the database; what it does with an event
is `EventPipeline`'s subject. A poller's tick with several rows is one or more emits. Not
modelled: what comes before the database is opened (configuration, `docker compose up`), and the
closing of idle connections by `http.Server.Shutdown`.

### Replay

One `Execute` per replay request: the look-up of the scenario (`Admit`), the plan and the consent
(`MakePlan`: one query reads all rows, and the plan made of them is never read again), the
insertion of the run's row, the loop, the update of the row. `canceled` is the request's context,
checked where the code checks it: at the head of the loop and, inside `database/sql`, by every
statement. So a run whose client left keeps a row that says 'running': `Report` needs a live
context, and `ReportFails` is all that is left. Rows may be added to the scenario at any time,
also after it was completed, because `Emit` reads the recording before it inserts. A scenario
holds events only when the sink has tagged them, which by findings 2 and 3 does not happen today;
`Replay` models the code that replays what the sink tags. `sent` and `matched` are history.

### Capture: AdapterHost, AuditPoller, MailPoller, RedisMonitor

`AdapterHost` is the life of the process: a run begins (`Up`), its context ends (`CtrlC`), and the
process goes (`Gone`), after its adapters stopped or killed at any point. Each adapter's module
adds its source, its goroutine and what it stored; `Gone` takes what it kept in memory. `Capture`
puts the three into one agent, as `cmdUp` does; they share `life` and nothing else.

`AuditPoller`: `committed` and `marked` are the audit table, which survives the agent and fills
while it is down. Ids are given at the insert and become visible at the commit, so `Insert` takes
rows in any order. `StartAudit` sets the triggers up table after table and may fail at any of
them: the code warns that it "will retry" (`adapters/postgres/adapter.go:78`), but nothing does
before the next run. A poll is `SelectRows`, one `StoreRow` or `SkipRow` per row, `EndOfRows` and
`MarkRows` or `MarkFails`. `Delivery` says it without batches and failures: what is offered may be
stored again and again until it is settled, only what was stored is settled, and nothing is stored
after that. `copies` is history over all runs.

`MailPoller`: Mailpit stamps a message when it accepts it and lists it up to `MaxDelay` later, so
stamps may be shared and may run against the order of listing. `Fetch` takes the newest
`FetchLimit` messages, `IsOldest` walks them from the oldest, `IsNew` is the comparison with the
watermark, `SeeMail` moves it whether or not the event is stored. `MissedForAReason` names all
that may be lost: what was there before the run (`since`), failed inserts, a message overtaken by
another with the same or a later stamp, and messages that a fetch does not reach.

`RedisMonitor`: commands are named by the order of their execution; `lines` are those whose line
is between Redis and the reader, empty but while a connection is there. Redis may close it, which
loses the last of them; a line over the scanner's 64 KiB ends the goroutine (`LineTooLong`).
A name is a sequence of bytes. Redis writes it in quotes (`Written`, external: `\"`, `\\`, and
`\n` or `\xe9` for a byte it does not print) and `parseQuotedStrings` reads it back (`Parsed`),
dropping each backslash and keeping what follows, so `\"` comes back right and `\xe9` as `xe9`.
`IsRelevant` is the adapter's filter on what was parsed: six verbs, and the first key. `TouchesQueue`
is what Redis means by it: any command that pushes or pops (`MoveVerbs`), any of its keys. What lies
between the two is `Overlooked`: `LMOVE` and the like, a queue named second in a `BRPOP`, a name
with an escaped byte. `HistoryHasNoHole` states these as the exceptions they are. The last is
wider than the comment at `adapters/redis/adapter.go:115`, which promises events "for configured
queue commands": a configured queue with a letter beyond ASCII in its name is never recorded, and
nothing says so.

### Studio and EventPages

`EventPages` is the table as `GET /api/events` shows it. Rows carry a stamp that need not follow
their order; a page is the newest first, and the next takes what is *strictly* older than the
last. A client that walks the pages sends back either the number it was given or the whole
`nextCursor` text ("stamp:id"), which `int64Query` takes for no cursor at all, so it begins again
without an error (`api/server.go:183`, `:380`). One that always sends the whole text never comes to
the last page, and `WalkSkipsOnlyTies`, which is about walks that end, says nothing of it; Studio
itself never asks for a second page.

`Studio` is the browser: `stream` and `wire` the `EventSource` with what it has not handled,
`copy` and `items` the cached list with its origin, `fetch` and `answer` the request for it.
`Answer` is the moment the server reads the table, so that a response under way can be older than
what the stream puts in front meanwhile. The list's rules (fresh for five seconds, dropped after
five minutes unused, one request at a time, one retry) are those of the query library as
`queryClient` configures it. An empty table is answered with `items: null`; putting an event in
front of null throws inside the `try` that is meant for parse errors (`sse.ts:34`), so on an empty
timeline nothing appears live before the list is fetched again (`PutInFront` with `copy = "null"`).
A list that only the stream has written counts as fresh (`copy = "stream"`): opening the page then
shows it alone until it ages. `missed`, `overwritten`, `heard` and `asked` are history.

The tab is a viewer of the same abstract `EventFeed` that `EventPipeline` implements: across all
its connections it handles events in their order and none twice. The agent's side is reduced to
one `Broadcast` per event and one connection, which is what `EventFeed` shows to be enough.

## Runs

| Run | Shows | Bounds |
|---|---|---|
| `pipeline` | with three emits and two browsers, one free to stop reading: stored first (`StoredFirst`), one order without duplicates (`FeedInOrder`), a registered browser misses an event only when it is broadcast while the browser has a whole channel untaken, however much it was sent before (`CompleteFeed`), nothing sent after the handler has gone (`NothingAfterGone`), every emit ends (`EmitReturns`), a reader gets what was queued (`ReaderIsServed`), a closed connection is forgotten (`ClosedIsForgotten`), and the feed is implemented (`ImplementsFeed`) | 3 events, 2 connections, channel of 2: full while one broadcast is still to come |
| `fault_rules` | a limited rule is applied at most N - 1 times beyond its limit plus once per uncounted hit (`HitLimit`); a rule out of service at most once per request in flight (`LateHits`) | 2 rules, 2 requests, clock to 2, three applications: one more than the bound allows for |
| `fault_limit` | **violated**: `MaxHitsRespected`, the documented limit | same |
| `recording` | names stay unique (`UniqueNames`); open recordings are bounded by the requests handled at a time (`ActiveBound`); a stopped scenario stays stopped (`StoppedForGood`) | 4 starts, two with one name, two at a time; 2 stops, 1 event, 1 restart |
| `recording_shipped` | **violated**: `StartSucceeds`; on a database made by this code every start is refused | same, no snapshot |
| `recording_tags` | **violated**: `CapturedIsTagged`; an event captured during a recording is stored without its scenario | same, one snapshot |
| `lifecycle` | when the database is closed, the adapters and proxies are at rest, and the API handlers too if `Shutdown` found the server (`NothingRunsAtClose`; otherwise finding 5); Ctrl+C at any point ends the program unless a browser stays on its stream or a target leaves an exchange open (`StopsUnlessHeld`) | a monitor and a poller, 2 proxies, 1 exchange, 1 request, 1 stream |
| `lifecycle_ctrl_c` | **violated**: `CtrlCStops`; an open event stream holds up the shutdown for ever | 1 proxy, no exchange |
| `lifecycle_serve` | **violated**: `ShutdownIsSafe`; `Shutdown` before `Serve` has stored its server does nothing, and the server serves afterwards | same |
| `replay` | only confirmed unsafe requests are sent (`ConsentedOnly`); a stored verdict is about the whole plan (`VerdictIsEarned`); a replay ends (`ReplayEnds`) | 4 entries, safe and unsafe in turn, 1 run |
| `capture` | audit rows are delivered at least once (`ImplementsDelivery`) with a cause for each duplicate (`DuplicatesHaveACause`), and each in the end (`EveryRowStored`); no message twice (`NoMailTwice`), none missed without a reason (`MissedForAReason`), each passed in the end (`EveryMailSeen`); queue commands once and in order over all runs (`QueueHistoryInOrder`), and what a connection records of the queues has no hole but for events the sink refused and the kinds of command the adapter overlooks (`HistoryHasNoHole`) | 2 runs of the agent; setups: 3 rows in batches of 2 and one failing UPDATE; 3 messages, fetches of 2, clock to 3; 3 commands of seven shapes on three queues; a row and a message in one agent |
| `studio` | the tab handles events in order and once (`ImplementsFeed`); none is listed more than twice (`TwiceAtMost`); what the list lacks has a cause (`HolesHaveACause`); the stream comes back (`StreamComesBack`); whoever returns to the page finds every event (`ReturningHeals`); a walk over all pages skips only events that share a page's last millisecond (`WalkSkipsOnlyTies`) | setups: 2 events with a page for both and with a page for one, and a user who moves about; 3 events and a user who stays; 4 events of 3 stamps read in pages of 2 |

Deadlock checking is off in all runs: events, connections and requests are each used once, and
when they are used up the instance has finished; the lifecycle ends with the process.

*Why the bounds are enough.* The pipeline's order and loss arguments involve one or two
broadcasts and one connection, and a third event meets a full channel. A limit is exceeded by two
requests that list before either counts. The recording races need two requests in one window; a
third and fourth name leave room for more recordings than the bound allows. The shutdown's
loops have a first, a last and an adapter of either kind; a second proxy is one without an
exchange. Four entries put a safe and an unsafe one both before and after every point at which a
client can leave; replays share only the scenario's rows, so one is enough. Three rows in batches
of two make a batch that is full with a row left behind, which may have the lowest id; two runs
are one that was broken off and one that follows. Three messages, two per fetch, are one crowded
out and two that overtake each other. Of the Redis commands one only reads, one moves
between lists, one has a line that is too long, one names its queue second, one names a queue with a
quote, one a queue with a byte that Redis does not print. Each adapter's setup leaves the other services
out, because they share nothing but the process, which the proof `StepOfEach` shows; one setup has
two services all the same. Two events are enough for one to come before and one after the SELECT
of a response. The proofs then remove these bounds for every safety property of the passing runs.

*Fairness* (`FairSpec` of `EventPipeline`, weak, per goroutine): a goroutine that can run does
run (the Go scheduler, and `sync.Mutex`, whose starvation mode hands the lock to the oldest
waiter, here needed only as weak fairness because there are finitely many broadcasts). A write
to a browser ends only for connections in `Reading` or once the connection is closed. No fairness
is assumed for adapters emitting, browsers connecting or closing, or the server subscribing.

`AgentLifecycle` assumes the same of its goroutines, and that an API request which has arrived is
answered. It is strong for `AdapterEnds`: a poller's `select` may take a tick although the context
has ended, and Go chooses at random, so not for ever. Nothing obliges a browser to leave its
stream, or the target of a proxy, which has no timeout, to answer or to end its response.
`Replay` assumes that the handler's goroutine runs and that a request to the target comes to an
end without an answer, which the client's 30 seconds give; nothing is assumed about answers or
about the client.

`Capture` assumes that the adapters' tickers fire: a SELECT that finds rows is answered, a result
comes to its end, a mark succeeds or fails. Fairness is strong for storing a row (`StoreRow`): an
insert that fails is tried again at a later poll, and not for ever in vain; failing UPDATEs are
bounded by `MaxLostMarks`. Nothing is assumed of Redis or of the application, and both liveness
properties speak of a run that lasts. `Studio` assumes that timers fire and that handlers run, and
strongly that attempts to connect and requests succeed in the end. `Visits` is an assumption about
the user, not about the program: `ReturningHeals` is about one who keeps coming back.

## Findings

1. `fault_limit`: `maxHits` can be exceeded by concurrent requests (`fault/engine.go:38`).
2. `recording_shipped`: no recording can be started through the API, because the foreign key to
   `config_snapshots` is never satisfied (`api/handlers.go:47`).
3. `recording_tags`: events are not tagged with a recording started through the API
   (`agent/agent.go:213`).
4. `lifecycle_ctrl_c`: with a Studio tab open Ctrl+C does not end the program
   (`cli/cmd_up.go:178`): `Shutdown` waits for the event stream without a limit, and further
   signals are caught until `cmdUp` returns.
5. `lifecycle_serve`: `Server.Shutdown` does nothing when it comes before the goroutine of
   `Server.Serve` has stored its server (`api/server.go:109`).

## Proofs

`TypeCorrect` in each proof module proves `TypeOK`; `Invariance` proves the inductive `IInv`;
the properties follow from it. Assumed are only the modules' named ASSUMEs about the constants.

**EventPipelineProofs.** `FeedInOrder` is not inductive. `IInv` adds: stages
(a broadcast's event is stored; only the holder of `sseMu` is in its loop), what a broadcast still
has to visit is registered (`Registered`) and what it visited is behind it (`Visits`), tickets are
distinct and at most `turns` (`Numbered`), and whatever is queued is older than the broadcast
under way. From it: `OnlyStoredIsSent`, `OneOrder`, `NothingMissed`, `QuietAfterGone` and
`Implementation`, the refinement, for any set of events and connections and any capacity.
`NothingMissed` is about steps: only a broadcast that leaves a connection behind can make it miss
something, and of these only a send that found the channel full.
`BroadcastsShrink` gives the variant behind `EmitReturns`: while `sseMu` is held nobody registers or
leaves, and the finitely many connections still to be visited become fewer.

**FaultRulesProofs.** `hits[r] + lost[r] = seed[r] + applied[r]` (`Accounting`) counts; a request
that listed a rule as open listed it when hits were below the limit, so the applications made
plus the requests that still hold such a copy are bounded (`Bounds`). This gives `HitsAreLimited`
and `LateHitsAreFew` for any rules, limits and number of requests. `LimitHoldsWithoutConcurrency`
marks the boundary of finding 1: with at most one request at a time `MaxHitsRespected` is a
theorem.

**RecordingProofs.** A request not yet answered has no row (`Pending`), a stop's target has one
(`Targets`), and once something is recorded nobody passes the check any more, so all who may add
a recording were in flight before (`Room`). This gives `NamesAreUnique`,
`ActiveRecordingsBounded` and `StoppedStaysStopped` for any requests and any restarts.

**AgentLifecycleProofs.** What a loop of the shutdown has passed stays at rest: the proxies before
`at`, the adapters after it (no adapter is started any more), and then the API handlers, because
nothing is accepted once `Shutdown` has ended the accept loop. `IInv` says this for every point of
the shutdown. It gives `RestAtClose` for any number of adapters, proxies, exchanges and requests.
`UpAdvances` counts what `cmdUp` has left to do: at most three steps for each adapter and proxy and
eight more, lowered by each of its steps and raised by nothing that runs beside it.

**ReplayProofs.** Everything `IInv` says is said of one run (`Good`), and a step of another run
leaves it alone (`Frame`, `Others`). For one run: the plan is the one consented to (`Consent`); at
every point of the loop the counters, the entry under way and the rest add up to the plan
(`Accounting`); while nothing failed, every entry behind the loop matched or was skipped
(`NoFailure`); the loop is left at its end or by a cancelled context (`Ending`), and a cancelled
context writes no verdict. This gives `NothingUnconfirmed` and `VerdictsAreEarned` for any
scenario and any number of replays. `ReplaysAdvance` is the variant behind `ReplayEnds`: at most two
steps per entry and six more, whatever happens beside the replay.

**PollerProofs, the audit table.** An account per row (`Accounted`): a row that is neither marked
nor about to be has at most one event for each UPDATE that failed and each run that is over; a row
that is, one more. With `Rounds` (a row is still to be read, stored in this round, or marked) and `StoredFirst`
this gives `DuplicatesAreAccountedFor` and `AuditDelivers`, the refinement of `Delivery`, for any
number of rows, tables, runs and any batch size.

**PollerProofs, the mails.** `MissedForAReason` is not inductive, because it says nothing of a
response under way. `Fetched` does: a listed message that the response does not hold is behind the
watermark, crowded out, or came to be listed after all of it (`Places`: the order of listing).
`Times` keeps the watermark between the start of the run and the clock. This gives
`MailsAreRecordedOnce` and `MissesAreExcused` for any messages, stamps and limits.

**CaptureProofs.** First the monitor: a recorded command precedes every line under way
(`RecordedBefore`), and what was executed since Redis took MONITOR is under way, was dealt with, or
was lost with all that comes after it (`WatchedIsSeen`, `Lost`). A name without an escaped byte is
read as it was written (`PlainNamesAreRead`). From these `QueueHistoryIsInOrder` and
`HistoryIsWhole`, for any commands, names, queues and runs. Then the composition: a step of `Capture` is a step of each adapter or leaves it alone
(`StepOfEach`), so `CaptureHasAudit`, `CaptureHasMail` and `CaptureHasMonitor`, and what is proved
of an adapter holds in an agent with all of them (`CaptureDelivers`, `CaptureMails`,
`CaptureMonitors`).

**StudioProofs.** `WalkSkipsOnlyTies` needs `Walked`: what a walk has not met lies ahead of its
cursor, because a full page's last event is the oldest it lists. The list needs an account of every
broadcast event (`Accounted`: handled, under way, missed, or stored before the last request was
answered), what an answer leaves out (`Answered`: nothing, unless it is a whole page), and that
nothing is handled twice or out of turn (`Distinct`, `InTurn`). The hard case is an event that the
handler cuts off a full list: nothing appears three times in it (`ListedTwice`), so a list of two
pages has at least a page of different events (`CountedTwice`, an injection into the events and
two turns), and these crowd the event out. A repetition is an event the stream brought, which it
does not bring again. From the invariant: `StudioTypes` (the list stays within two pages),
`ListedTwiceAtMost`, `HolesAreExplained`, `WalksMissOnlyTies`, and `TabImplementsFeed`, the
refinement of `EventFeed` with the place among the broadcasts as rank, for any events, pages of any
size, any capacity of the connection and any number of breaks. `SetupsAssumption` says no more than
that a page holds at least one event; the code's is 100.

*Model-checked only:* liveness (`EmitReturns`, `ReaderIsServed`, `ClosedIsForgotten`,
`StopsUnlessHeld`, `ReplayEnds`, `EveryRowStored`, `EveryMailSeen`, `StreamComesBack`,
`ReturningHeals`), which is beyond the prover, and the five violations. For the first, the fourth
and the fifth the proofs give the variant that decreases; that its steps are taken is fairness, and
TLC's.

## Plan

What could follow: `EventPipeline` and `Studio` composed,
instead of both against `EventFeed`; the proxy's building of an event from an exchange, with its
size limits; `Redaction` as a function against a reference definition.

## Not modelled

Listed per component in `PROJECT.json`. In short:

- Configuration (`config/config.go`, `cli/cmd_init.go`, `cli/cmd_doctor.go`), the compose driver
  and the CLI's other commands: parsing, process I/O, one request per command; no state worth a
  model. The demo application and the scripts are not part of the program.
- Redaction and scenario export: functions of strings and of stored rows, without state.
- What an event says of a row, a mail, a command or an exchange: the properties are about which
  events are stored, how often and in which order, not about their wording.
- The proxy's building of an event; `Status` and `Wait` of the agent; Studio's other pages, each
  of which shows one request's answer.
- A table without a trigger and a connection nobody reopens are steps of `AuditPoller` and
  `RedisMonitor`; that they stay so until the next run is what the code does, and no property
  promises otherwise.

SQLite is taken as atomic per statement, as its serialised mode and `busy_timeout` make it.
