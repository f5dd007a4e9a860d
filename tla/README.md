# Formal models of go_apm_server

TLA+ models of the server's concurrent core and of its browser front end, checked with TLC on small instances
and, where stated, proved with TLAPS for every value of the constants.

    tlc -config ProcessorDrop.cfg MCProcessor.tla      # every .cfg names its module below
    tlapm ProcessorProofs.tla

## 1. Inventory

go_apm_server receives OTLP telemetry over gRPC and HTTP, batches it in memory,
stores it in one SQLite file per day, forwards it to other OTLP endpoints and
streams it to browsers.

```
 gRPC / HTTP receivers --Push--> Processor --Insert--> SQLite partitions <-- retention
                                    |                        ^
                                    | go OnFlush(event)      | queries
                                    +--> Hub ==ws==> browser | (REST, hub statistics)
                                    +--> Forwarder --http--> endpoints
                                              \--files--> dead letter queue
```

| Component (source) | State | Operations | Interacts by | What is hard | What makes it correct |
|---|---|---|---|---|---|
| Batch processor (`internal/processor/processor.go`) | 4 bounded channels, 4 batches owned by the worker, `stopCh`, `onFlush` | `Push*`, `SetOnFlush`, `Stop`, worker: receive, tick, drain, flush | channels, `store.Insert*`, spawned callbacks | many callers and one worker; `select` at random; shutdown by two signals; failed inserts; drops | nothing lost, repeated or reordered between acceptance and store; bounded memory; drained before exit; acknowledged means accepted; fan-out at most once |
| Circuit breaker (`internal/exporter/circuit_breaker.go`) | state, failCount, lastFailure | `Allow`, `Success`, `Failure` | shared by two goroutines per endpoint, lock released while sending | answers that come in another state than the one that granted the request | closed exactly below the threshold; no trial before `openDuration`; recovers |
| Forwarder, DLQ, OTLP client (`internal/exporter/*.go`) | 3 channels, the batch in hand, the directory of files, breakers, `ctx` | `Forward*`, broadcast to every endpoint, save, scan and resend, `Stop` | channels, HTTP, the file system shared by worker and retry workers | lost answers, crashes, disk errors, file visible before it is written, head-of-line blocking | at-least-once per endpoint; duplicates only where unavoidable; drains after recovery; `Stop` returns |
| WebSocket hub (`internal/api/ws_hub.go`, `handler.go`) | client set under a RWMutex, send buffers, unbuffered `register`/`unregister` | connect, subscribe, broadcast, ping, evict, leave | channels, lock, connection close | closing a channel others send on; unregistering from inside a broadcast; capacity | no panic, no deadlock, capacity, everybody who leaves is cleaned up |
| Receivers (`internal/receiver/*.go`) | servers | one handler per signal, `Start`, `Stop` | `Push*` | rejected counts, exemplars, shutdown timeout | what is reported equals what happened |
| Partitions (`internal/storage/sqlite.go`) | map of open handles, one file per day | `getDB`, `Insert*`, `Close`, `DeleteOldPartitions`, cleanup | RWMutex, files, SQLite connections | handle used after close, file removed after unlock, several transactions per batch, local against UTC days | stored data stays readable until its retention ends |
| Queries (`internal/storage/sqlite.go`) | none | merge over all partitions | snapshot of handles | traces over two days, pagination, totals, percentiles | same answer as one database |
| Retention (`retention.go`) | two tickers | hourly deletion of rows and files, of exemplars | the store | runs against inserts, queries and the shutdown | deletes all that is old and nothing else |
| Lifecycle (`cmd/server/main.go`) | - | start and stop order | all of the above | callbacks not awaited, forwarder stopped before the last flush | nothing acknowledged is lost by a clean stop |
| Browser connection (`web/src/lib/websocket.ts`, `hooks/useWebSocket.tsx`) | socket, status, timer, delay, listeners, one or two managers (StrictMode) | connect, disconnect, reconnect, subscribe, unsubscribe, send | WebSocket events, timers, React effects | events of an old socket, timers left over, effects that run twice | one connection or attempt, true status, subscriptions follow the page |
| Pages that fetch (`web/src/pages/{Dashboard,ServiceDetail,Exemplars,Settings,TraceDetail}.tsx`, `lib/request-state.ts`) | data, loading, refreshing, error, selection, pause buffer | navigate, retry, poll, receive, pause | REST, pushed statistics | requests are not cancelled; late answers; pushes out of order; clock skew and broken parent links in traces | what is shown belongs to what was asked; no panel contradicts the state; the waterfall shows every span |
| Trace list (`pages/Traces.tsx`, `components/traces/TraceList.tsx`) | list, offset, hasMore, flags, sort order, observer | fetch, scroll, filter, sort, receive | REST, pushed traces, IntersectionObserver | pages and fetches cross; the observer is attached by one callback and detached by another | pages fit together, scrolling ends, stable order |
| Log list (`pages/Logs.tsx`, hub) | form, search parameters, stream switch, logs | poll, search, stream, filter | REST, the hub's log subscription | handlers of an older render, subscription across reconnections | a stream misses nothing, polling converges |

Not modelled, and why: pdata conversion (pure field copying), configuration (read
once; its values are constants here), REST parsing and JSON, schema and record
types, layout and charts, the old static page (not served), the load and seed tools.
`BackfillSpanSemanticColumns` is not modelled either, as nothing calls it. Of the
parts that are modelled, these are missing: the receivers' second push and shutdown,
the statistics queries, the retention of exemplars (it deletes rows of one more table
by the same test) and the order of `main`'s stops (section 5).

The hazards of each part, with the lines where they bite and the properties that
watch over them, are listed in `PROJECT.json`.

## 2. Modules

| Module | Models | Runs |
|---|---|---|
| `Processor` | processor.go; receivers as callers; Insert as a nondeterministic loss; `main`'s `SetOnFlush`, `Stop` | `MCProcessor`: `ProcessorDrop`, `ProcessorLive` |
| `ProcessorProofs` | proofs about it | - |
| `Breaker` | the breaker as a value with functions for its methods | through the next two |
| `CircuitBreaker` | one breaker with any number of concurrent callers | `MCCircuitBreaker`: `CircuitBreaker` |
| `Forwarder` | exporter.go with dlq.go and otlp_client.go, `EXTENDS Breaker` | `MCForwarder`: `ForwarderSafety`, `ForwarderLive`, `ForwarderLoss` |
| `ForwarderProofs` | proofs about `CircuitBreaker` and `Forwarder` | - |
| `Hub` | ws_hub.go and `HandleWebSocket` | `MCHub`: `Hub` |
| `HubProofs` | proofs about it | - |
| `Link` | abstract: what a user of the WebSocket manager may rely on | through the next ones |
| `WSManager` | websocket.ts, the provider, `useWSChannel`, and the server's side of a subscription | `MCWSManager`: `WSManager` |
| `WSManagerProofs` | proofs about it, the refinement of `Link` included | - |
| `Pages` | the pages that fetch, over `Link` | `MCPages`: `Pages` |
| `TraceDetail` | `Pages` with the tree, the timeline and the selection of TraceDetail.tsx | the same run |
| `PagesProofs` | proofs about both, the completeness of every waterfall included | - |
| `Sorting` | JavaScript's stable `sort` | through `Traces` |
| `QueryMerge` | QueryTraces and QueryLogs over the daily partitions, pure | through `Traces` |
| `Partitions` | NewSQLite, getDB, the inserts, Close, DeleteOldPartitions and its worker, the loops of the queries | `MCPartitions`: `Partitions` |
| `PartitionsProofs` | proofs about it | - |
| `Traces` | Traces.tsx and TraceList.tsx | `MCTraces`: `Traces` |
| `TracesProofs` | proofs about it | - |
| `Logs` | Logs.tsx over `Link`, with `useWSMessage` and its pause, the hub's log subscriptions and the answer of QueryLogs | `MCLogs`: `Logs` |
| `LogsProofs` | proofs about it | - |

Operators introduced by a comment "Mutated X" are deliberately wrong variants of
the definition X that follows. Nothing refers to them; putting one in the place
of X must make the property it is meant for fail, which shows that the property
depends on that piece of the code.

### Processor

The four channels and batches are functions of the signal, numbered in the order
in which `drainAndFlush` and `flush` go through them (1 spans, 2 metrics, 3 logs,
4 exemplars). A record is its arrival number. One action is one step between two
points where another goroutine can be observed: one send of `Push*` (`Enqueue`,
`DropRecord`, `GiveUp`), one receive (`Receive`), one record or one end of a drain
loop (`Drain`, `DrainNext`), one signal of a flush (`Insert`), and the end of a
flush, which spawns the callback (`EndFlush`, then `OnFlush` in any order). A flush
with nothing to write is not a step. `Tick` therefore requires a non-empty batch.

`InsertLoss` is all the model needs of the store: a successful `Insert` loses
nothing, a failing one any part of the batch (one transaction per day, in map
order), and one under a cancelled context everything. `handed`, `lost`, `atQuit`
and the like are history variables: no guard reads them.

`Stop` and `Cancel` may come at any moment, also while callers are in the middle of
a `Push`. `main` only cancels the context when it returns, but `Start` promises to
react to it.

### Breaker, CircuitBreaker

Each method holds the mutex from beginning to end, so it is one atomic function on
`[state, failCount, waited]`. `waited` abstracts `time.Since(lastFailure) >
openDuration`: `Failure` resets it, `Wait` sets it at any later time. `failCount`
stops at the threshold, with which alone it is compared. `CircuitBreaker` remembers
for each caller the state in which its request was granted. A `Reader` is a caller that
opens a file between `Allow` and its request, as the retry worker does: when the file
cannot be read nothing is reported (`Vanish`), and a breaker that was half-open for it
stays so. `Recovers` needs a caller that is no reader, the worker with its batches: a
directory of unreadable files alone never closes a breaker. Its variables and the
definitions every module has (`GateInit`, `GateNext` ...) have names of their own, so
that `ForwarderProofs` can extend it and `Forwarder` alike.

### Forwarder

A batch is a number and a signal. The worker's record says where it is in the
broadcast (`try`, `sending`, `create`, `write`) and at which endpoint; each endpoint's
retry worker has its own record. The directories of an endpoint are the set of its
files, one per batch; `Oldest` is the file whose name comes first, as names begin with
the time of saving and `ReadDir` sorts them. `Create` and `Write` are two steps because
`os.WriteFile` is: the file is listed before it has its content, and the retry
worker takes no lock. `Outcomes` says what a request can lead to: accepted or not,
reported as success or error, with an accepted request possibly reported as an error
(timeout, lost answer); a partially read file carries an empty or cut-off request,
which an endpoint may answer with success. `Crash` keeps only the files; `SaveFails`
is a disk error, as is `DeleteFails`: `processDLQ` ignores the error of `Delete` and
goes on, so the file stays and its batch, already accepted, is sent again at the next
tick. `RemoveByHand` is the operator's deletion described in the exporter
guide. A read error is modelled where the file is gone (`Read` passes over it); of a
file that stays unreadable the code does the same at every tick. `Flip` lets an endpoint go down and come back at any time.

Every batch given up is recorded in `gone` with the reason, so `AtLeastOnce` says
that the listed places are the only ones where a batch can end without being
accepted. Batches accepted without the sender learning it are recorded in `unsure`,
those whose file could not be deleted in `undeleted`; `DuplicatesExplained` says that
only these are accepted twice. `Drains` names the batches that may wait for ever: the
ones with a file of a refused batch before theirs in the scan (`BehindPoison`).

### Hub

`todo[b]` is the set of clients a broadcast goroutine still has to visit while it
holds the read lock; the hub's `Add` and `Remove` need `LockFree`; and a new
broadcast cannot start while the hub waits for the write lock (Go's RWMutex). `hub`
holds the client received from `register` or `unregister` until the critical section
runs. Reader, writer and connection of every client are explicit, so the wind-down
of a refused or evicted client can be followed to the end. Messages are counted, not
told apart; all of `dashboard`, `traces` and `logs` are one channel of subscriptions
(the filter of a log subscription is in `Logs`).

### Link, WSManager

`Link` has one variable, the status, and three actions: a lost connection is retried,
opens, or is lost. It promises that a lost connection is always tried again. Pages
see the connection only through it, so `Pages` and `Logs` take `Link` in place of
the whole manager; `WSManager` is shown to implement it (`LinkSpec == TheLink!Spec`,
`TheLink == INSTANCE Link WITH link <- mstatus["kept"]`: the status of the provider's
manager is the status of the link).

`WSManager` keeps the two managers that StrictMode's rehearsal leaves in a
development build, their sockets with the browser's `readyState`, the timer and its
delay. Sockets are numbered; an event of a socket acts on whatever the manager holds
at that moment, as the handlers' `this.ws` does. `Commit` runs the effects of
`useWSChannel`. The server has one client per connection, with its subscriptions and
the messages still on the wire; `Evict` and `Crash` end connections from its side.
In a development build the rehearsal's manager also reports to the provider, whose
status may then be wrong for good; `SubscriptionFollowsPage` promises the
subscription to production builds only (that a page that has gone is not subscribed,
to both).

### Pages, TraceDetail

One page is mounted in a behaviour; all five share the shape of their requests, and
what they do differently (the key in the URL, the flags they set, the idea of having
data they give to `getAsyncViewState`, whether they poll) is in the definitions named
after them. An answer is a version of the server's data, so a late one can be told
from a fresh one. On the Dashboard, `Ingest` starts the goroutine of `BroadcastFlush`
that first reads (`ReadStats`) and then sends (`Broadcast`), in any order with others;
`paused` and `buffer` are those of `useWSMessage`. `last` says how the last request
ended and is a history variable.

`TraceDetail` adds the spans. Its operators follow the memos of the component: the
nodes by id, the roots (no parent, or an unknown one), the traversal, and the
timeline with its clamps. A stable sort by start time is an insertion sort over the
positions of the spans (`Nodes`), so that a span sent twice keeps both its places. A
parent counts only when it is given and known (`HasNode`), as `parent_id &&
nodesMap.has` says, so a span without an id has no children. The traversal goes down
level by level (`Traverse`); there are at most as many levels as spans. Spans in a
cycle of parent links have no root above them and no row; `RowsComplete` is about all
others. `IsTrace` is what is assumed of a trace: it is not empty, its times are
integers, and spans with the same id are identical.

### Partitions

A file is known by its date and by the generation of its inode: `os.Remove` takes the
name away (`files[d] = 0`), a handle or a transaction keeps the inode it began with
(`disk[d][g]`), and opening the date again makes a new one. `dbs` is the map under the
lock; every handle has an id of its own, and `Usable` says that a handle taken earlier
has not been closed since. One action lies between two points at which the lock is
free or the database is called: an insert is `InsertCall`, then for each day in the
random order of the map `GetDB`, `Begin`, `Commit`; a pass of the retention is
`DeleteRows` for each handle of its snapshot, `ListFiles`, and `Forget` and `Remove`
for each old file; a query visits the handles of its snapshot one by one. A handle
closed under an insert ends the whole batch (`BeginFails`), as an error at any other
point does (`InsertFails`). `Crash` ends the process at any point; `NewSQLite` then
opens today's database and those it finds, and ignores errors of the latter.

Days are those of the local time zone when records are sorted into files, and of UTC
when the retention asks whether a file is old; `Offset` is the difference. Rows of
spans, metrics and logs are one kind. The separate removal of the `-wal` and `-shm`
files is part of `Remove`. `committed`, `broke`, `unopened` and the fields `missing` of
the query and `had` and `kept` of the pass are history: no guard reads them.

### QueryMerge, Traces

`QueryMerge` states QueryTraces and QueryLogs as functions of the rows of every
partition, and next to them what one database would answer. Distinct start times are
assumed, and each span is on one day. `Traces` takes the answer of one database
(`Page`); `MergeExact` says what the partitions change about it.

In `Traces` every request in flight keeps the filter, offset and number of stored
traces of its start, and may land in any order with the answer of any moment of its
flight. The observer is a Boolean recomputed by `Commit`: React calls the ref
callback when it or its element is new, and the callback returns without attaching
while a request is loading. `CommitFilter` is the commit in which the cleanup of the
fetching effect disconnects after that. All filters of the form are one.

### Logs

Two logs, a service name and a trace id are enough to tell the form, the banner, the
URL and the server's filter apart. Handlers and the closures of timers keep the
values of the render they belong to. Commands travel to the hub on the connection
and die with it; the hub handles them (`Handle`) and sends logs in two steps, as
`IsSubscribed` and the filter are looked at apart (`Visited`, `Push`). `Answer` collects,
newest first, the logs stored so far that match the request (`Matching`) and keeps
`LIMIT` of them, as QueryLogs does (100 where the page asks for no limit, 200 at most);
the page never sets an offset.

`paused` and `held` are the pause of the provider and the buffer of the page's
`useWSMessage`: `Receive` gives a message to the handler (`Shown`), or while paused to the
buffer, and drops it when that has `PAUSE_CAP` messages; `TogglePause` replays the buffer
into the list; leaving the page forgets the buffer, while the pause itself lasts.
`spilled` is history: what a stream had to bring and the full buffer dropped. In
`Traces` the pause is part of a message's way: the inbox may keep it for ever, or it
may be lost.

## 3. Runs

| Config | Instance | Shows |
|---|---|---|
| `ProcessorDrop` | 2 callers, 2 signals, queue 1, batch 2, 3 records, calls of up to 2, `DropOnFull` | `FIFO`, `DrainedAtQuit`, `Accounted`, `FanOutOnce` |
| `ProcessorLive` | 1 caller, 2 signals, 2 records, blocking, fair | `AckedIsAccepted`: a nil answer means accepted; the ticker hands over partial batches, callbacks run, `Stop` and `Push` return |
| `CircuitBreaker` | 3 callers, 2 of them readers, threshold 3, fair | `ClosedIffBelowThreshold`, `TrialOnlyAfterWait`, `Recovers` |
| `ForwarderSafety` | 2 endpoints, 2 signals, the first endpoint takes one of them and has no DLQ, 2 batches, one of them refused by every endpoint, 1 fault (crash, failed save, failed deletion, file removed by hand), threshold 1 | `AtLeastOnce` across endpoints, `DuplicatesExplained` |
| `ForwarderLive` | 1 endpoint with DLQ, 2 signals, 2 batches of which the first is always refused, threshold 2, fair, no faults | `Drains`, `StopReturns` |
| `ForwarderLoss` | 1 endpoint, no faults | violated: a file read before it is written is deleted |
| `Hub` | 2 clients, 1 place, 2 broadcasters and the ping, buffer 1, 3 broadcasts, fair | `NoPanic`, `Removed`, `WindsDown` |
| `WSManager` | 3 sockets, with and without StrictMode, evictions, crashes, fair | `OneAttempt`, `StatusSound`, the refinement `LinkSpec`, `SubscriptionFollowsPage` |
| `Pages` | 5 pages, 2 keys, 2 requests in flight, data of 3 versions, pause buffer 1, fair; all trees of 4 spans, of 3 spans with one sent twice or one without an id, and pairs of spans over all small clocks | `StaleExplained`, `PanelsExplained`, `FreshInTheEnd`; `RowsComplete`, `BarsExact`, `SelectionBelongs` |
| `Traces` | pages of 2, live cap 3, 4 traces, 2 filters, 1 push, 2 requests, fair; all layouts of 6 spans of 4 traces on 2 days | `PagesExact`, `FlagsSound`, `SortedView`, `ScrollEnds`; `MergeExact` |
| `Logs` | 2 logs, a service and a trace id to ask for or not, 2 acts of the user, list of 2, pause buffer 1, answers of 1, a link that fails, fair | `StreamSound`, `PollingConverges` |
| `Partitions` | days of two ticks, local time half a day behind UTC, retention of one day, a day and a half of time, records on time or two days late, 1 batch of up to 2 days, 2 openings per date, 1 fault (crash, disk error, database that does not open) | `KeptForRetention`, `QueryComplete`, `FailuresExplained`, `OldFilesGo` |

Bounds. Capacities of 1 make every channel full and empty within a few steps;
a batch size of 2 distinguishes a partial batch from a full one; 3 records let a
call be split between acceptance and drop while another caller's record is in the
other signal. Three callers give the breaker a late success and a late failure next
to a trial, and a threshold of 3 lets them reach it together; in the forwarder,
where the breaker only matters through what it refuses, thresholds of 1 and 2 make
opening, trial, second opening and recovery happen with two batches. Two batches let
one be in the worker's hands while the other is on file or being resent; one fault
at any point covers each crash window. In `ForwarderLive` the refused batch comes first,
so the other one is delivered, or left behind it on file, by turns. Two clients for one place make a refusal
happen while the other is evicted; three broadcasts fill a buffer, evict, and evict
again. Three sockets (a closed one is used again) let an old socket's events meet a
new one's while both managers of a rehearsal have their own. Two requests in flight land in both orders; a third
would cross one of them in a way two already do. Four traces make two full pages and
an empty third. Of two logs an answer of one is cut, a pause buffer of one drops the
second, and a list of two is full. The second field of the form stays empty: it does to
the requests what the service does, and nothing to a stream. Two ticks to a day and two days of lateness let a file become old
while its own batch is being inserted and its rows are still young; two openings per
date let retention take the first handle and an insert the second; with ticks this long
no record goes so early that it needs the `Slack` of `Expired`, which matters for the
theorem, where `Offset` and the length of a day are any; with one fault the
store is restarted at any point once. `MaxPush`, `MaxRecords`, `MaxBatches`, `MaxFaults`, `MaxCasts`,
`MaxTime`, `MaxOpens`, `MaxActs` (acts of user and server; the ends of streams and of
pauses are not counted), `MaxWire`, `MaxFlights`, `MaxVersion`, `MaxPushes`, `MaxTraces`, and `MaxRows`
(a longer list sends no new query) are bounds of the models; the other
constants are parameters of the code.

Deadlock checking is off except in `CircuitBreaker` and `WSManager`, which never stop:
in the other models the bounded input ends and the goroutines
may rightly have nothing left to do. What must not hang is stated as liveness.

Fairness. Goroutines are scheduled and requests end (the HTTP client of the server
has a timeout): weak fairness of their steps. A `select` picks among ready cases at
random, and blocked senders are served in order: strong fairness of each case, which
is what makes `SeeStop`, `WorkerExit` and `RetryExit` happen although batches and
ticks keep coming. Tickers fire and time passes. In the browser, socket events and
timers are delivered, intervals fire, and requests are answered or fail in the end
(axios has no timeout, the connection has one). Liveness of the browser is stated
for the time after failures: `Settle` may end them (`calm`), and the formulas say
`<>[]calm => ...`. Nothing else is fair: callers, users, connections, failures,
recoveries, `Stop`, the context and the pause button are free; only in `ScrollEnds` the user
goes on scrolling.

### Divergences found

One run shows the code doing something else than a document of the repository says;
the lines are quoted in `PROJECT.json`: a batch lost between worker and retry worker
(`ForwarderLoss`).

More became clear while the models were written. The models contain them, their
properties allow for them by name, and no run is spent on showing them:

- Processor: with `DropOnFull` dropped records are acknowledged, where
  `docs/otel-gaps/otel-gaps-tasks.md:23` asks for a partial success; records of a
  failed insert are still fanned out (`processor.go:198`).
- Breaker: a late success closes an open breaker without a probe
  (`circuit_breaker.go:70`); the comment at line 59 speaks of one trial, and `Granted`
  is true for every caller of a half-open breaker.
- Forwarder: `Stop` leaves batches in the channels (`exporter.go:227`); a file the
  endpoint always refuses blocks all behind it (`exporter.go:179`); one that cannot be
  deleted is sent again at every tick (`exporter.go:183`).
- Queries: a trace over two days takes a place in both days' answers, so it may
  displace another, appear on two pages at different positions, and is counted twice
  in the total; its duration is that of its longest part. The comment at
  `sqlite.go:500` only promises the earliest start and the merged number of spans,
  which also fails when one part is beyond the limit of its day. `GetStats` appends
  the time series of the partitions in the order of a Go map.
- Hub: a client that unsubscribes between `IsSubscribed` and the look at its filter
  gets unfiltered logs (`ws_hub.go:214`).
- Pages: data of another key stays on the screen when the request for the new key
  fails or is answered first (ServiceDetail, TraceDetail); the error panel of
  Exemplars can never appear; the replay of the pause buffer may overwrite fresher
  polled data, and the buffer drops the newest messages beyond 1000
  (`useWebSocket.tsx:62`), where `docs/ui_improvements/phase4_proposals.md:41` has the
  data of a pause collected and shown at its end.
- Traces: a new filter while the offset is 0 disconnects the observer and nothing
  attaches it again, so scrolling does nothing until a fetch or a page changes one of
  its dependencies (`Traces.tsx:189`; the case `Unobserved` of `ScrollEnds`); a
  refresh that overlaps a further page leaves a gap, a failed refresh resets the
  offset and later pages repeat rows; pushes ignore the filter and repeat traces;
  pushes cut the list to 200 rows, further pages let it grow beyond.
- Store: west of UTC a file is removed up to the offset before its day is "completely
  before the threshold day" (`sqlite.go:1120`), by which the retention of its last
  hours is shortened (`Slack` in `Expired`); late records are removed with the file of
  their date although their own retention has hardly begun; an insert that meets this
  removal also loses the young days of its batch (`BeginFails`); a query that meets it
  fails as a whole; a database that could not be opened at the start is left out of
  all answers without an error until a record of its day arrives (`sqlite.go:90`).
- Logs: after a reconnection the button still says that the page streams, but nothing
  subscribes on the new connection (`Logs.tsx:64`), so no log arrives, where
  `docs/websocket-stream/websocket-stream-prd.md:157` asks for the stream to recover;
  handlers capture the search parameters of an older render; a stream that is
  paused for more than 1000 messages has a hole (`spilled`); leaving the page
  while it streams leaves the subscription in place; a late answer overwrites
  streamed rows; the links from ServiceDetail to `/traces?service=` and
  `/logs?service=` have no effect on the lists.

## 4. Proofs

Proved for every number of signals, callers, endpoints, requests, logs and spans, and
every capacity, threshold and bound, from the named assumptions on the constants alone:
the `ASSUME` of each module. TLC evaluates them in every run. Each model below has a
theorem for every safety property its runs check; they follow from an inductive
invariant that TLC checked before it was proved.

`ProcessorProofs`: `ProcessorTypeCorrect`, `ProcessorFIFO`, `ProcessorBounded`,
`ProcessorDrainedAtQuit`. `TypeOK /\ FIFO` is inductive once three facts about
sequences are stated as lemmas (`AppendAtEnd`, `MoveAcross`, `HandOver`): the three
ways a record moves along `handed \o batch \o queue`. `Bounded` and `DrainedAtQuit`
are not inductive. They need `IInv`, which adds where the worker is (a flush has
emptied the batches of the signals before `stage`; draining and exiting only happen
after `Stop` or `Cancel`) and what it has collected (`atQuit[s]` is at most what is
in store and batch for every signal already drained). The step that matters is
`DrainNext`: the channel is empty, so by `FIFO` everything accepted is in store or
batch.

`ProcessorAccounted`, `ProcessorFansOutOnce` and, without `DropOnFull`,
`ProcessorAckedIsAccepted` are about callers and callbacks. `Accounts` is inductive: `Accounted` needs
`OwnRecords` (what a call still has to send is its own, without repetition, and in
no other call and no channel) for the step that moves a record from a call to a
channel or to `dropped`, and `AcceptedOnce` says that the channels share no record
and repeat none. `FanOutOnce` then follows step by step with the help of `FIFO`:
what waits in a batch is what a channel accepted and the store has not seen
(`BatchIsNew`), so `Insert` adds to the event only records that no other event has.

`ForwarderProofs`, one breaker (`CircuitBreaker`):
`BreakerTypeCorrect`, `ThresholdHolds`, `TrialsWait`, for any number of callers. The
invariant adds that `failCount` is the number of failures reported in a row;
`MethodsKeepThreshold` says once what each method preserves, whatever request it
answers. Every step of the forwarder calls one of these methods on the breakers it
touches (`StepsCallMethods`), so `ForwarderBreakersSound` follows for all of them.

`ForwarderProofs`, the forwarder: `ForwarderTypeCorrect`, `ForwarderAtLeastOnce`,
`ForwarderDuplicates`, `ForwarderOneSender`, for any endpoints, subscriptions and faults.
`AtLeastOnce` becomes inductive (`SafeInv`) with two facts about what is going on at
the moment: the file the worker is writing is in the directory or accounted for
(`WriteHasPlace`), and a file the retry worker read as a whole and is about to delete
has been accepted (`DeletesDelivered`). `DuplicatesExplained` needs to know who may
still send a batch (`OnceInv`): batches in the channels are new (`Fresh`), only what
was taken from one is anywhere else (`OnlyTaken`), and per endpoint (`Clean`) a batch is
never both still to be sent by the worker and kept in a file or a retry list, which is
`OneSender`; if the endpoint has accepted a batch that somebody may still send, then
it did so without the sender learning it, or its file could not be deleted (`Excused`).
The one exception is the file being deleted, which is why a crash and a failed deletion
at that point are named in the property.

`HubProofs`: `HubTypeCorrect`, `HubNeverPanics`. `NoPanic` is not inductive: that a
broadcast does not send to a closed channel needs `VisitedIsOpen` (what is listed or
still to be visited is open, since `Remove` needs the lock the broadcast holds), and
that a channel is not closed twice needs `AddedOnce` (only a client that is listed is
removed, and none is added twice).

`WSManagerProofs`: `WSManagerTypeCorrect`, `OneAttemptHolds`, `StatusSoundHolds`,
`ImplementsLink`. `OneAttempt` depends on what each status means for socket and timer
(`StatusMeaning`), on which of the two managers may still act (`Roles`) and on the
provider's manager being the one that is used (`Provided`). `ImplementsLink` is the
safety half of the refinement, `Init => Abstract!Init` and every step a step of
`Link` or a stutter; its liveness half is checked by the run.

`PartitionsProofs`: `PartitionsTypeCorrect`, `PartitionsKeep`, `PartitionsAnswer`,
`PartitionsBreakOldDaysOnly`, `PartitionsOldFilesGo`, for any time zone, retention,
lateness and number of crashes. The one idea is that the code has no lock around
files, so nearly every fact holds "or the day is old" (`Old`): a handle has the file
of its name (`Handles`), a transaction writes to it (`Tx`), a handle in a snapshot is
usable (`Visiting`), and what retention forgets and removes is old (`Pass`). `StillOld`
says that what is old stays old, and `OldExpired` that the records of an old day are
expired, which is where local and UTC days meet and `Slack` comes from. A query is
complete because each record it lacks is in a database it still visits, or expired.

`PagesProofs`, the pages: `PagesTypeCorrect`, `PagesPanelsExplained`,
`PagesStaleExplained`, for any number of requests in flight and any order of answers.
`IInv == TypeOK /\ Waits /\ Youngest` relates what is shown to the requests under way:
a loading page has a request to wait for, and so has one without data and without an
error (`Waits`); the youngest request asks for what the page is asked for, and what is
shown at rest answers it unless `last` says otherwise (`Youngest`). `DInv` adds for
`TraceDetail` that what is shown of a trace was asked for by its key and that the
selected span is one of it (`AsksForKeys`, `Selects`), which gives
`DetailSelectionBelongs`; `DetailImplementsPages` shows that `TraceDetail` implements
`Pages`, steps of the selection and the filter being stutters.

`PagesProofs`, the waterfall: `EveryWaterfallComplete` and `EveryBarExact` are about any
sequence of spans that `IsTrace`, and `DetailRowsComplete` and `DetailBarsExact` follow.
The rows are defined by recursive functions, and the library's induction theorems
cannot be used (they take an operator), so each induction is a least counterexample:
the least number for which a function of the required kind does not exist, or at which
it goes wrong. Sorting yields every chosen node as often as it was chosen, by start
time (`SortsBy`, `ByStart`); flattening puts blocks one after the other (`Blocks`).
A `Tree` is a sequence of rows with the root first, in which every other row has its
parent above it one level up, all between them are deeper, and siblings stand by start
time. A root over the trees of its children is a tree and the trees of the roots are
a forest (`Planted`), level by level (`TraversesBy`). That no span is missing follows
from the parent chain that leads up to a root; that a chain is never cut off by the
number of levels, from counting the different spans on it; that no span is shown
twice, from the least row where that would happen.

`LogsProofs`: `LogsTypeCorrect`, `LogsStreamSound`, and `AnswerExact`: the answer holds
matching logs only, each once, newest first and at most `LIMIT`, and one that matches is
left out only for `LIMIT` newer ones, for any number of logs. That the uncut answer is
all that matches is shown by the least counterexample again (`MatchingExact`). The
invariant is `TypeOK /\ SubscriptionTracks /\
StreamComplete /\ Linked /\ DueInForce`; the two named parts of `StreamSound` are
inductive once it is said that nothing is on the wire and nobody subscribed without a
connection (`Linked`), and that logs are due only to a stream that is in force and
asks for their service (`DueInForce`). `ShownKeeps` is what the handler does to the list:
one that is not full afterwards has all it had and all that came.

`TracesProofs`, the list: `TracesTypeCorrect`, `TracesFlagsSound`, `TracesPagesExact` and
`TracesSortedView`, for any page size, number of pages, pushes and requests in flight.
`PagesExact` is not inductive, since it says nothing of what is still to land. `IInv`
adds that a fetch nothing has crossed is the only request, asks for what the filter
asks for now and was sent when the server had what it has (`FetchesFirst`), and that an
exact list ends where the next page begins, and the only request there may be is for
that page (`FetchesNext`). With that, a page that lands fits: `PageFits` says that a
page cut behind a first part of an answer makes a longer first part, and the whole
answer if the page is short. `NewestAnswer` says what the answer is: the matching traces,
each once, newest first. `SortedView` holds of every list of traces (`RowsSorted`): the
positions are strictly ordered by rank and then by place (`PrecedenceOrders`), in a
finite ordered set the number of elements below one is a bijection with 0, 1, 2 ...
(`RanksInOrder`), so `StableOrder` is a permutation that follows the order, and among
equals it keeps the places (`SameAmongEquals`).

`TracesProofs`, the merge: `LogsMerged` and `TracesMerged` are about any finite number
of days and any spans and logs on them, each on one day and no two of one start
(`Parts`). A row's rank is the number of newer rows (`NewerRanks`), so `Newest` lists
each row at its rank (`NewestByRank`) and LIMIT keeps those of small rank
(`RowsOfLimited`). A row is among the newest of its day if it is among the newest of
all (`PartsSuffice`), and rows that have the newest m of all give the same first m
(`NewestDecided`), which is `LogsMerged`. For traces, one of a single day has the same
summary in its day, after the merge and in one database (`WholeSummaries`,
`AskedMerged`). The parts of the others can displace it, in its day and after the merge,
by no more places than there are such traces (`CostOfTraces`), since each of them has
one row in either. `TracesMergeExact` is then `MergeExact` for every page size and
number of traces; that the list only asks for pages, and stands at one the answer
has, is the invariant `OffsetsArePages`.

The type invariants, `Bounded`, `OneSender` and `BreakersSound` are only proved: the
theorems hold for every value of the constants, and no run repeats them.

Only model-checked: liveness, and with it the liveness half of `LinkSpec`, since
fairness and ENABLED are out of the prover's reach.

## 5. Plan

1. `Receivers`: the handlers over `Processor`, both protocols, the two pushes of the
   metric handlers, reported against actual rejections.
2. `Lifecycle`: `main`'s order of stops over processor, forwarder and store, with the
   receivers' shutdown timeout and the callbacks nobody waits for.
3. An abstract store, of records that disappear only when their retention ends, that
   `Partitions` implements; the retention of exemplars.
4. The statistics queries over several days against one database, the percentile
   index.
5. Refinement: `Processor` implements an ordered pipe per signal; `CircuitBreaker`
   implements a gate that is open below the threshold.
