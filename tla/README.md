# Earthworm in TLA+

Earthworm watches the heartbeats (node leases) of a Kubernetes cluster. An
*agent* on every node reads kernel events from eBPF probes and posts them to a
*server*; the server also receives heartbeats, stores both, looks for anomalies
and pushes everything it learns to *dashboards* over WebSockets. This directory
holds TLA+ models of the parts whose correctness depends on the order of
events, the TLC runs that check them on small instances, and TLAPS proofs for
the instances TLC cannot reach.

All paths below are relative to `src/`, the root of the repository.

## 1. The system

| Component | State | Operations | Talks to |
|---|---|---|---|
| WebSocket hub, `src/server/ws.go` | registered clients, a bounded broadcast channel, one bounded channel per client | `Run`, six `Broadcast*` functions, `ServeWS` with a writer and a reader goroutine per connection | every handler calls `Broadcast*`; browsers |
| Heartbeat ingestion, `main.go`, `store.go`, `redis_store.go`, `anomaly.go`, `alert.go` in `src/server/` | heartbeats (a slice, or Redis sorted sets and "latest" keys) | `heartbeatHandler`, the live loop of `main`, `Evaluate`, `Dispatch`, webhook posts | store, hub, webhook receiver |
| Kernel event ingestion, `ebpfEventsHandler`, `prediction.go`, `network_topology.go` | stored events, predictions, connection map | save, broadcast, `Analyze`, `Record`, `Connections` | agent, store, hub |
| Causal chains, `causal_chain.go` | saved chains | `OnNotReady` | store, hub; no caller in the program |
| Replay and queries, `replay.go`, `getHeartbeatsHandler` | none of its own | `Query` | store, dashboards |
| Agent pipeline, `src/agent/main.go`, `probe_manager.go` | bounded event channel, drop counter, batch | `ProcessRawEvent`, `forwardEvents`, `sendBatch`, shutdown | kernel, server |
| Cgroup resolver, `src/agent/cgroup_resolver.go` | cgroup-to-pod cache | `Resolve`, `UpdateCache`, `StartRefresh`, `refresh` | kubelet, `/proc` |
| Event codecs, `src/agent/event.go`, `extended_event.go`, `src/ebpf/headers` | none | (un)marshal binary records | kernel |
| BPF loader, `src/agent/loader_linux.go` | collections and links | `Load`, `Close` | kernel |
| eBPF probes, `src/ebpf/*.c` | in-flight maps, ring buffers | entry and exit probes | kernel, agent |
| Cluster simulation and watchers, `src/kubernetes/` | simulated nodes; watch channels | `Run`, `StartMonitoring`, lease watch | Kubernetes API |
| Dashboard live stream, `src/heartbeat-visualizer/src/hooks/useWebSocket.ts`, `useLiveEvents.ts`, an effect of `HeartbeatChart.tsx` | sockets and timers, `lastMessage`, a buffer, lists shown | connect, retry, switch cluster, receive, render, flush, dismiss | hub; the user |
| Dashboard data and views, same directory | manifest, file index, step of the animation | `useHeartbeatData`, `useEbpfData`, fetches, drawing | static files |
| Evaluation runner, generators, deployment | none | command-line tools, Helm, Terraform | |

What is hard here: goroutines that meet on bounded channels (hub, agent), a
store that is not transactional and whose client retries (ingestion), posts
that time out while the server works on them or before they reach it (agent),
caches refreshed while
they are read (resolver), and reconnecting, batching clients (dashboard).
What makes the modelled parts correct is stated in section 3, property by
property; section 6 says why other parts are left out.
`PROJECT.json` lists the hazards with the line where each one bites.

## 2. Modules

| Module | Models | Uses |
|---|---|---|
| `Feed` | what the hub promises: a log, and for each dashboard a gap-free window of it | |
| `Hub` | `ws.go`, one action per channel operation and socket call | instantiates `Feed` |
| `Hub_proofs` | theorems about `Hub` | extends `Hub`, `TLAPS` |
| `Ingest` | a heartbeat's way through the server, on either store | |
| `Ingest_proofs` | theorems about `Ingest` | extends `Ingest`, `TLAPS` |
| `Agent` | the agent's pipeline and the server handler at its end | |
| `Agent_proofs` | theorems about `Agent` | extends `Agent`, `TLAPS` |
| `Kernel` | kernel events in the server: save, broadcast, `Analyze`, `Record`, and the topology reader | |
| `Kernel_proofs` | theorems about `Kernel` | extends `Kernel`, `TLAPS` |
| `Dashboard` | the connection and the live data of the browser | |
| `Dashboard_proofs` | theorems about `Dashboard` | extends `Dashboard`, `TLAPS` |
| `Resolver` | the agent's cgroup cache against a node whose containers, processes, pids and inodes change during the walk over `/proc` | |
| `Resolver_proofs` | theorems about `Resolver` | extends `Resolver`, `TLAPS` |
| `Records` | the binary records: C structs, the agent's codecs, `ProcessRawEvent`'s checks, `Enrich`, the flags the probes set | |
| `Simulation` | the cluster simulation, tick by tick, and the files it writes | |
| `Simulation_proofs` | theorems about `Simulation` | extends `Simulation`, `TLAPS` |
| `Replay` | a client that pages through `GET /api/replay` while events arrive and time passes | |
| `Replay_proofs` | theorems about `Replay` | extends `Replay`, `TLAPS` |
| `MC*` | values and symmetry for TLC | extends the module it is named after |

How state and actions correspond to the code, line by line, is the `map` of
`PROJECT.json`. In short:

* `Hub`. `broadcast`, `send[c]` and `clients` are the Go channel, buffers and
  map; `msg` and `todo` are the local state of `Run`'s loop while it fans a
  message out, so clients may disconnect between two sends of one fan-out.
  `reader[c]` and `writer[c]` are the program counters of the two goroutines of
  `ServeWS`; `closes[c]` counts `close(c.send)`. The rendezvous on the
  unbuffered `register` and `unregister` channels is one step of `Run`.
  Upgrading and the peer leaving are the environment's.
* `Ingest`. `pc[r]` follows one request through `Save`, `BroadcastHeartbeat`,
  `Evaluate`, `Dispatch` and the webhook goroutine. On Redis, `Save` is cut where
  another client's command can run, where the connection can break, and where
  go-redis sends the pipeline again. `sets`, `setNo` and `prev` are
  observers: which request wrote the latest key when, and what the node's last
  answered heartbeat was. Both ways a heartbeat arrives share the actions;
  the simulation's loop (a `Tick`) ignores the error of `Save`, a handler does
  not.
* `Agent`. `call[e]` is `ProcessRawEvent` on one event; the forwarder's
  `select`, its synchronous post, the shutdown flush and `main`'s five-second
  wait are actions of their own. `requests` holds what the server still has to
  do for posts it received, because a handler runs on when the client gave up;
  `late` are batches the client gave up on that are still on the wire, which
  the server may get behind later ones, or never. `givenUp` is an observer.
* `Kernel`. `pc[p]` is the position of one `ebpfEventsHandler` in its loop and
  `next[p]` the event it is at; an event is named by post and position. `lock`
  is the topology's `RWMutex`, held from the look-up of a new connection to the
  end of its broadcast; the engine's lock covers one append and is not a state.
  The detectors are operators on a sequence of events; `Window` is what the
  handler gives them. `Agent`'s `requests` are the posts of this module, with
  everything but the save left out.
* `Dashboard`. A *line* is one `connect` closure with its current socket or
  retry timer; switching cluster makes a new one while the refs (`wsRef`,
  `timerRef`, `failures`) and `lastMessage` are shared. A setState is visible at
  the next `Render`, and effects run between two renders, as React 18 does
  outside of StrictMode.

* `Resolver`. `pc` is the position of the refresh goroutine; between any two of
  its system calls (kubelet list, `ReadDir`, the read of `/proc/<pid>/cgroup`,
  the `stat` of the path it named) a container or process may start, fork, exit
  or be removed, and its pid or inode be taken over. `steady`, `recent` and
  `recentNew` are observers of what was true while a cache was built.
* `Records`. A record is the value of each field and the bytes it was put in,
  as the C compiler lays the struct out (alignment and padding computed) or as
  the codec does. Reading bytes that are not exactly one field's gives `Garbled`.
* `Simulation`. A tick is three actions, as in `tick`: health, scenarios,
  leases. `applyScenarios` has one step for each turn of its loops, because a turn
  reads what earlier turns wrote: `sc` is the scenario, `di` the drained node it
  looks at. Random draws are choices. Times are thirds of a second, in which a burst's leases fall exactly.
* `Replay`. A request takes the store, the clock and the query, as `Query` does;
  `results` and `pages` are observers of what the requests saw. A result is any
  order of the events found that `sort.Slice` may give them: by time, ties as the
  store lists them while the list is short, and the same list always alike.

The modules meet where the code does: the `feed`s of `Ingest` and `Kernel`
enter `Hub` as calls of `Broadcast*`, the events that `Records` forwards are
what `Agent` puts on its channel and `Kernel` and `Replay` store, and `Hub`'s `received`
is what `Dashboard` gets as `arrived` while its socket is open. `Hub` shows
that such a call returns, whatever dashboards do, so the other models take a
broadcast as one step.

Definitions under *Seeded faults*, commented *Fault* or named `Fault...` contain
one plausible bug each. No specification uses them. Replacing the original by the
variant must break the property named in `PROJECT.json` ("mutants"), which shows
that the property depends on that piece of code.

## 3. What is checked

Bounds are constants of the modules; each is named in its comment as a bound.

| Run | Question | Bounds |
|---|---|---|
| `hub` | `NeverPanics`: no channel closed twice or written after close. `GapFree`: each dashboard gets consecutive messages from the one at which it joined. `DropsOnlyLaggards`: only a reader more than a buffer behind is cut off. `ImplementsFeed`: refinement of `Feed`. `NobodyWaits`: the hub returns to its `select` and callers get out. `EndedIsReleased`: goroutines and the entry of an ended connection go. `PromptCatchesUp`: a dashboard that reads is up to date again and again, or is dropped. | 1 prompt connection and 1 that may stall for ever, 1 caller with 3 messages, both capacities 1 |
| `ingest` | What alerts really mean (`AlertsAreOvertakings`, `MemoryNeverAlerts`). `ToldIsStored`: what a dashboard saw, and what the latest key names, is in the store. An alert follows its heartbeat, nothing is repeated. | 2 posts and 1 tick of one node, timestamps 0..2, warning 0, critical 1, one pipeline re-sent; both stores; posts symmetric |
| `ingest_silence` | finding 1 | as `ingest` |
| `agent` | `EventsAreAccounted`: accepted events are those of finished posts, the batch and the channel, and drops are counted. `StoredOnceInOrder`: posts may fail, time out, overlap and arrive late, and still the server stores an event at most once, and behind a later one only if the client gave up on it. A clean exit is clean. `NothingHangs`: every shutdown ends; events move. | 3 well-formed events and 1 malformed, channel 2, batch 2, 1 other worker |
| `kernel` | Dashboards see an event only once it is stored, and its prediction and connection after it; a failed save costs one event; predictions kept and shown agree; a connection is announced once and before anyone can list it; every post and reader gets past the lock. | 2 posts with one of 5 batches of up to 3 events, 1 reader, 2 connections, latencies 0..3; both stores |
| `dashboard` | A live message is lost only if the next one replaced it before a render; the chart gets a heartbeat once; toasts go only when dismissed; until a switch the indicator is true; `StreamSettles`: retries end and buffers drain. | 3 messages of 3 types, 2 retries, 1 switch, 1 broken connection, 2 dismissals, list capped at 2 |
| `dashboard_switch` | finding 2 | as `dashboard`, with the real 5 retries |
| `resolver` | `NamesAreRecent`: an id resolves only to a container that owned it since the walk behind the cache began. `SteadyIsFound`: the walk misses no listed container that kept one process. `Converges`: once the node settles, the cache is right. `CancelEnds`: a cancelled refresh ends. | 2 containers, 2 inodes, 2 pids, 1 fork, 1 failed refresh |
| `records` | `DecodingIsExact`: a whole record of any type, as C or the codec lays it out, arrives with every field in its place and under the names the server looks for; a truncated or misdescribed one is rejected and never read past its end. `FlagsAreConsistent`: the flags set in the kernel agree with the values next to them. | every type 0..8, values at and just past each threshold, the default and the actual one, lengths at and next to each check, payload lengths off by one |
| `records_clock` | finding 3 | as `records` |
| `simulation` | `QuietWhileDown`: a node that is down renews nothing, and leases go forward in time. `DrainsAreReplaced`: each drained node is drained once and gets one replacement, in time. `OutputIsComplete`: each lease and event is in exactly the file of its window, and events match leases, outages and replacements. | 3 nodes, one of them stable, 8 s, windows of 2 s, one outage of 1 or 2 s, 2 overlapping deployments that drain 3 nodes |
| `replay` | `RepeatsAreExplained`, `NothingIsSkipped`, `PagesAreInOrder`: an event is repeated, skipped or out of order only if an earlier (or equally old) one came into the range, or left it, between two requests, or a result too long for a stable sort was sorted again. | 5 events, 2 of one time, 1 of another node; 32 queries; 3 moments; pages of 1 or 2; stable up to 3; both stores |

Why these bounds are enough to be interesting: a capacity of 1 already gives a
full channel, an eviction and a blocked caller, and two messages more than the
capacity give an eviction in the middle of a fan-out; two connections give
interference between one's eviction and the other's delivery. In `Ingest` an
alert needs two requests of one node, and the third allows an unrelated
overwrite or an error in between; three times are enough for earlier, later and
past both thresholds. Nodes share nothing, so one suffices. In `Agent` three
events overflow a channel of two, fill a batch and leave a remainder, whose post
may overtake that batch. In
`Kernel` two batches bring the same new connection at the same time, after and
before other events, and one of them holds a trend. In
`Dashboard` three messages exceed the cap by one, and fit a replaced message
between two kept ones. In `Resolver` two containers on two inodes and two pids
make every pid and inode change hands within one walk. In `Simulation`
the run is long enough for a drain to wait for its stagger, for both deployments
to compete for one node, and for a replacement to be silent after its burst, which
ends 5.33 s after the start at the earliest, and renew at the end. In `Replay` four
events of the node make a result longer than the stable limit, and three
moments let events slide out of retention between pages. `Hub` with one caller
leaves out two callers that compete for the queue; the safety properties are
proved for any number (section 4).

Deadlock is checked in `records` and `records_clock` only: the other models stop
when their bounded inputs are used up, and the code's waits are covered by the
liveness properties.

### Fairness

Only steps the runtime must take are fair.

* `Hub`: goroutines that can run do run, and Go's `select` chooses at random
  among ready cases, so `Run` is weakly fair per kind of case. Senders blocked on a
  channel are served in order, which gives `Enqueue` strong fairness. The
  writer is *not* fair while its peer is up and does not read (`Stalled`):
  `ws.go` sets no write deadline. So the properties of a single connection are
  stated for peers that keep reading or have gone.
* `Agent`: the forwarder's `select`, the end of a post (the client's 10 s
  timeout) and of `main`'s wait (5 s). Nothing about the network, the server, the
  producers or the other workers.
* `Kernel`: handlers that can go on do, saves and broadcasts return (`Hub`), and
  a waiting reader or writer of Go's `RWMutex` gets in before those that come
  after the current holder, hence strong fairness.
* `Dashboard`: the browser ends every attempt to open or close a socket and
  runs timers, renders and effects; animation frames are fair, which holds
  while the tab is visible. Nothing about the network, the user or the lease
  animation.
* `Resolver`: the refresh goroutine goes on, the ticker ticks and the kubelet's
  statuses catch up with the runtime. The loop's `select` chooses at random
  between a tick and a cancelled context, so `Shutdown` is strongly fair. No
  container, process or failure is.
* `Ingest`, `Records`, `Simulation` and `Replay` state safety only.

## 4. What is proved

TLAPS checks the following for every value of the constants: any number of
connections, callers, requests, kernel events, posts, queries, containers and
inodes (any sets at all, finite or not), any number of pids, messages, retries,
cluster switches, simulated nodes and rolling deployments, any capacities above
zero and any thresholds, page sizes and durations.

**`Hub_proofs`**, from `HubAssumption` (capacities are positive, `NoMsg` is no
message). The invariants of section 3 are not inductive: that no channel is
closed twice depends on who is registered, and that received messages are
consecutive depends on the buffers in between. `IInv` adds

* `Holding`: when `Run` and each goroutine hold a message, and when not;
* `Registry`: for every position of a reader, whether its client is registered
  and how often its channel was closed;
* `Window`, `Content`: received, in the writer's hand, and buffered are
  together the stretch of the log from where the connection joined, up to the end
  of the log for a registered client that the current fan-out is past;
* `Ordered`: each caller's messages are in the log and in the queue in the order
  of its calls, which `Feed` requires of what is published.

`Inductive` proves `Spec => []IInv`; `TypeCorrect`, `HubNeverPanics` and
`FeedHasNoGap` follow from it, `OnlyLaggardsAreDropped` proves the action
property (a full buffer plus the message on its way is a lag beyond the
buffer), and `HubImplementsFeed` proves the refinement: each action maps to a
step of `Feed` or a stutter.

**`Ingest_proofs`**, from `IngestAssumption` (times and thresholds are natural
numbers; nothing relates the two thresholds, as nothing in `config.go` does).
`IInv` adds, for every request, what is stored at each position (`StoredAt`),
that SETs are numbered in the order they took effect (`RankedAt`,
`RanksDiffer`), that the latest key was written by the request of highest rank
(`LatestHasSource`), and what the feed holds (`FeedAgrees`). From it follow
`OnlyOvertakingsAlert`, `MemoryStoreNeverAlerts`, `ToldIsInStore`,
`FeedIsOrdered` and `TypeCorrect`. The maximum of a set of
times, which `MemoryStore.GetLatestByNode` computes, is shown to exist by
well-founded induction on the naturals (`BiggestExists`).

**`Resolver_proofs`**, from `ResolverAssumption` (the bounds are natural
numbers, `None` is no container). `NamesAreRecent` speaks of the cache, which a
walk builds entry by entry while the node changes; `IInv` adds

* `Recent`: the pairs the running walk has found, and those that hold now, held
  since it began; so did, for the walk before, the pairs of the cache;
* `Live`: a process keeps its container's directory, and one that lives since
  `ReadDir` is alive;
* `Found`: once the walk is past such a process, its container is in the new map,
  or is about to be, because the path of its directory was just read.

`ResolvedNamesAreRecent` follows from `Recent`, and the action property
`SteadyContainersAreFound` from `Found` at a swap, when nothing is left to walk.

**`Agent_proofs`**, from `AgentAssumption` (capacities are positive, malformed
events are events). That events are accounted for says nothing of what the server
still works on, or is yet to get, after the client gave up on a post, so
`StoredOnceInOrder` is not inductive. `IInv` adds

* `Control`: what the forwarder has in hand at each of its positions, and that
  `main` leaves gracefully only after it stopped;
* `Counted`: an event enters the channel during its one call, so the order of the
  channel (`Precedes`) is an order of events;
* `Sources`: all that the server has seen are events of posts that finished, or
  of a batch that arrived; what is late on the wire was given up on;
* `Apart`: an event is in one place, on the wire or at the server, or in none;
* `InOrder`: a request holds its events in channel order; the one whose answer
  the agent waits for follows what is stored, and whatever is left of any other
  was given up on.

`EveryEventIsAccounted`, `StoredOnce`, `ExitIsClean` and `TypeCorrect` follow.

**`Kernel_proofs`**, from `KernelAssumption` (a batch is a sequence of events,
`Free` is no post). Any number of handlers run the loop of `ebpfEventsHandler` at
once, so `IInv` speaks of each event through the position of *its* handler
(`Reached`): what store, feed, predictions and map must hold of the event at
hand (`AtHand`), of those before it (`Handled`), and conversely what a published
message says of its event (`Messages`). `Predictions` and `Map` tie the engine's
slice and the topology's map to the feed; `Map` says that whoever announces a
connection holds the lock, which is why nobody lists it earlier.
`ShownAfterStored`, `FailuresAreContained`, `PredictionsAgree`,
`ListedOnceAnnounced` and `TypeCorrect` follow. The detectors stay opaque:
the proofs hold for whatever set of patterns `Analyze` finds in an event.

**`Dashboard_proofs`**, from `DashboardAssumption` (the bounds are natural
numbers, the live list holds at least one). The properties speak of messages that
were rendered *or still will be*, and the newest of these may yet be replaced, so
no step can be argued from them. `IInv` states them of what was rendered
(`Rendered`) instead: `LiveList`, `Chart` and `Toasts`, with `Stages` (how far
the render, each effect and the buffer have got) and `Split`, which says that the
rest is the one message waiting for the next render. `OneLine` carries
`StatusIsTrue`. `IndicatorIsTrue`, `NothingElseIsLost`, `AppendedOnce`,
`AlertsStay` and `TypeCorrect` follow. Filtering and cutting a list
(`Only`, `LastOnes`) are recursive functions; the first section proves what they
keep, in what order, and how they act on an appended message. The
library's induction theorems cannot be instantiated here, so `ByAppending`
argues with the *set* of lengths at which a claim fails, which has a smallest
member because the naturals are well-founded (`SmallestExists`).

**`Replay_proofs`**, from `ReplayAssumption` (an id names one event, times and ids
are integers, the default page has a size above zero). The properties compare
requests; `IInv` says what the result of one request is (`Listed`: stored events,
each once, by time, ties as in the store when it is short), that equal results are
sorted equally (`SameAgain`), and that page n was cut from the n-th result
(`Asked`). `RepeatsExplained` rests on `NotPushedBack`: when all that is not later
than an event e in one result is in the other too, and ties kept their order, e
stands in the first no further back than in the second. So an event of page i, when
nothing came in ahead of it, still stands before the cut of any page after i.
`NothingSkipped` looks at the first request at which e was not beyond the end of
its page, which exists because the naturals are well-founded (`SmallestExists`): e
is on that page, or something ahead of it went. `PagesInOrder` follows from
`Listed`.

**`Simulation_proofs`**, from `SimulationAssumption` (counts and durations are
natural numbers, intervals and outages take at least a second). Neither property
is inductive: that a drained node gets its replacement *when it is due* depends
on how far the loop of `applyScenarios` has come, and that a node renewed nothing
in an outage on what its clock and last lease were before. `IInv` adds

* `Numbered`: nodes are named by their position, so a replacement's name is new;
* `Healthy`: for each node, leases go forward up to the last one, none lies in an
  outage, every outage of a ready node is over, and before this second's lease
  pass none has a lease of it;
* `Drainage`: a drained node is down with cause "drain", which nothing undoes, and
  had no lease since; its replacement, if it has one, began when it was due;
  if it has none, it is not due yet, or the loop will still look at it (`OnTime`);
* `Counted`, `Loop`, `Whole`: a node was added for each replacement; where the
  loop stands between ticks; due times are on ticks, so none is stepped over.

`SilentWhileDown` and `ReplacedOnTime` follow. What a step does to one node is
proved once per handler (`FallIllKeeps`, `RecoverKeeps`, `DrainedKeeps`,
`RenewKeeps`, `BurstIs`), what it leaves of the records of drained nodes once for
all (`Evolves`, `StaysDown`, `StaysReplaced`). `FilesCoverTime` proves of the file
numbers what `OutputIsComplete` needs of them: every time has a file, and lies in
its window.

TLC agrees on the instances of section 3: the `IInv` of each of the last five
modules holds in every state of its run (with one more message in `Dashboard`,
with event positions up to 3 in `Kernel`, where the proof quantifies over all, and
with `Whole` as divisibility in `Simulation`).

Only model-checked: everything under fairness, because TLAPS has no `ENABLED`
(`NobodyWaits`, `EndedIsReleased`, `PromptCatchesUp`, `NothingHangs`,
`AllAnswered`, `StreamSettles`, `Converges`, `CancelEnds`), all of `Records`, whose
properties are about what its folds over fields and bytes compute, and
`OutputIsComplete` of `Simulation`, which counts what a fold has put into files
(only the choice of the file, `FilesCoverTime`, is proved): each would need an
induction over data.

## 5. Findings

Each is a run that TLC must find violated.

1. `ingest_silence`: the handler saves a heartbeat before it looks for the last
   one, and so compares it with itself: on the default store no silence ever
   raises an alert. `MemoryStoreNeverAlerts` proves it for all inputs.
2. `dashboard_switch`: after a cluster switch the old socket's close event is
   handled as if current. It reconnects to the old cluster, streams it into
   the new view, and its failures can use up the retries of the new connection.
3. `records_clock`: the probes stamp records with the time since boot and the
   agent reads it as time since 1970, so no event of a real probe falls into the
   window of an alert or of a replay.

Other places where code and documents disagree, met while modelling (paths of
documents are below `.kiro/specs/`, of server files below `src/server/`):

* Heartbeats: `heartbeat:latest:<node>` is the one *written* last, not the most
  recent (`redis_store.go:51`; `earthworm-improvements/design.md:378`).
* Kernel events: a single event posted to `/api/ebpf/events` is refused, because
  the fallback decodes the error text and not the body (`main.go:52`). `Analyze`
  is given one event at a time (`main.go:68`), so patterns that need a window are
  never found (`ebpf-kernel-observability/requirements.md:105`). Nothing calls
  `Expire`, so connections are never removed
  (`ebpf-advanced-probes/requirements.md:130`). `LastSeen` of a connection is
  that of the event handled last and may go back (`network_topology.go:51`).
* Agent: a batch that could not be delivered is dropped (`src/agent/main.go:149`;
  `ebpf-agent-real-kernel/requirements.md:80`).
* Dashboard: of two messages that arrive before a render only the second is ever
  shown (`useWebSocket.ts:53`; `data-ingestion-freeze-fix/tasks.md:83`).
* Resolver: an empty list of containers and a failed refresh keep the old cache,
  so the last container to go stays known.
* Records: the VFS and DNS probes look their threshold up in an array map
  (`src/ebpf/vfs_probe.c:42`, `dns_probe.c:72`), where key 0 is always found and is
  0 until somebody writes it. Nobody does: the agent parses the settings and does
  not push them (`src/agent/config.go:34`; `ebpf-advanced-probes/design.md:395`).
  So the defaults of 100 ms and 5 s (`ebpf-advanced-probes/requirements.md:55`,
  `:86`) never apply, and every read, write or DNS answer that took any time is
  flagged as slow or timed out. `DecodingIsExact` states what the code does.
  `ValidateFlags` does not hold of a retransmission or reset on a slow
  connection. The exit code is shifted by 8, so a kubelet killed by a signal is
  not a critical exit. The cgroup probe always writes no memory pressure, the OOM
  probe only kills, the DNS probe response code 0, and an unanswered query
  submits no record. A DNS payload is 272 bytes from C and 268 from Go; both
  are accepted.
* Simulation: the burst of a replacement writes leases up to 3.3 s ahead, which
  may fall into an outage, or after a drain, that begins meanwhile, against
  `realistic-data-and-visualizations/design.md:419` and `:443`. A rolling deployment drains
  the first Ready nodes, those of `kube-system`. A drain that had to wait
  catches up without its stagger. `NotReadyCount` misses outages shorter than
  two intervals and drained nodes, and counts nodes that were never down: any whose
  interval (`simulation.go:424`: base, drift and a jitter without bound) came out
  long enough, and at a base of 1 s a replacement that paused after its burst.
  `OutputIsComplete` says of every such gap which of the two it is. `ValidateConfig` sets no default for
  `StaggerInterval` and `ReplacementDelay`. `network_partition` scenarios do
  nothing. The points of a file are grouped by node, not chronological.
* Replay: "no duplicates or gaps across pages"
  (`ebpf-kernel-observability/tasks.md:70`) holds only for a store and a range
  that do not change. Late events repeat what was shown; retention, and a `from`
  that was left out, move on with every request and skip events; `sort.Slice` is
  not stable above 12 events. `replay` shows that there are no other causes.

## 6. Not modelled, and why

* Data: payloads, the lengths of timeouts, confidence values, formats. Timestamps
  are small numbers. Key expiry (7 days) and the kernel events attached to an
  alert change no step of `Ingest`; the keys of `Replay` outlive its retention.
  A DNS timeout is counted in microseconds in `Records`, because TLC's integers
  have 32 bits.
* TCP: a socket delivers a prefix of what was written; `Hub`'s `WriteLost` and
  `WriteFails` are its failures. Backoff delays are "later", so the 30 s cap,
  which five retries never reach, is not modelled.
* Crash and restart of the server: the memory store and the hub keep nothing;
  Redis is a separate process. An agent killed by the system is `Exit` without
  `graceful`.
* `CausalChainBuilder`, `Expire`, `RecordOutcome`, `AnalyzeFromStore`,
  `UpdateCache` and `IsAllowedComm` are not called by the program.
* The overflow of `(page-1)*pageSize` for huge query values: `Replay` has
  positive pages of its own reader. A failed request changes nothing. The
  other queries read the store once.
* In-flight maps of the probes between entry and exit: their eviction is the
  kernel's, not in the repository. The loader attaches and detaches once, in
  sequence, through a library.
* `useHeartbeatData` plays recorded files back and never meets the live data;
  its stale fetches are listed as a hazard. Views are pure rendering.
* Watchers of the cluster, evaluation runner, generators, configuration and
  deployment: wrappers around library calls, or sequential tools whose state does
  not change in an order someone could get wrong.

## 7. Plan

Done, in order of importance: `Feed` and `Hub` (everything passes through the
hub), `Ingest`, `Agent`, `Dashboard`, `Kernel`, `Resolver`, `Records`,
`Simulation`, `Replay`, and the proofs of all of them but `Records`.

Next:

1. Abstract counterparts worth stating, and proving refined: a lossy FIFO for
   `Agent`, an append-only registry for `Kernel`'s topology.
2. `HeartbeatData`: the dashboard's animation with its fetches, timers and
   cluster switches.
3. `LeaseData`: validation and grouping in `parseLeases.ts` and the binning of
   the views, each against a reference definition.
