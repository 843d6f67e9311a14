# A TLA+ model of the hot-reloading GIS MCP server

This directory holds TLA+ specifications of the concurrent and stateful parts
of this repository, TLC configurations that check them on small instances, and
proofs, which the TLAPS proof system checks, that hold for every size: about
the hot-reload core, the file events, the serving loop, the SSE transport, the
client library, the result store, the map tools, the agent's tools and the
routing core.  Paths
below are relative to the repository root, except that file names such as
`PluginRuntime.tla` are files of this directory.

## 1. The system

An LLM host talks to a C++ MCP server.  The server loads its tools, prompts and
resources from shared libraries in a plugin directory and replaces them while
it runs.  The plugins answer with GIS and routing libraries; a C++ client
library, with a retrieval layer that picks tools, is the other end of the
protocol.

| Component | State it keeps | Operations | Interacts with |
|---|---|---|---|
| Plugin hot-reload core (`mcp_server/src/runtime/PluginRuntime.cpp`, `loader/`) | active plugins, generation, published registry, staging history and directories | Initialize, Reload, Remove, Shutdown, Stage, garbage collection, Snapshot | plugin files, request handlers (shared_ptr snapshots), notifications |
| Plugin file events (`PluginRuntime.cpp`, `PluginWatcher.cpp`) | pending events with deadlines, inotify queue | QueueFileEvent, EventLoop, Reconcile, StartWatching, StopWatching | kernel, deployer, Reload and Remove |
| Server loop (`mcp_server/src/server/Server.cpp`, `main.cpp`) | notification queue, stop flags, transport pointer | Connect, WriterLoop, SendNotification, Stop, SIGINT handler | transport, plugins that notify |
| SSE transport (`mcp_server/src/transport/SseTransport.cpp`) | incoming and outgoing queues, three flags | Read, Write, POST handler, event streams, Start, Stop | server loop, HTTP library and its thread pool |
| Stdio transport | none | Read, Write | server loop |
| MCP client (`mcp_client/src/mcp_client.cpp`) | response queue, connection flags, pipes | connect, disconnect, calls, reader thread | server process |
| Tool manager and agent integration (`mcp_client/src/mcp_tool_manager.cpp`, `mcp_agent_integration.cpp`) | two tool caches, availability | initialize, callTool, refresh, shutdown | MCP client |
| RAG retrieval (`mcp_client/src/rag/`) | embedding cache, vector index | get, put, index, retrieve | embedding service |
| GIS result store (`gis/results/`) | entries, LRU list, byte count | Put, Get, Erase, posts and reads over HTTP | plugins that publish results, whoever has a URL |
| Response caches and providers (`gis/cache/`, `gis/providers/`) | cached responses, tokens of the limiter | fetch with cache, limit and retry | map services, Redis |
| Server plugins (`mcp_server/plugins/`) | the providers they were configured with | geocode, search, route, publication of results | providers, result store, routing |
| GIS engines (`gis/core/`) | none | geometry, transformation | GDAL |
| Routing (`routing/`) | current and previous network | build, publish, rollback, route, match | HTTP service, plugin |
| Harness integration (`integrations/`) | none of its own | TypeScript extensions | the host program |

What is hard to get right, and therefore modelled first:

* an update races with requests that hold a registry, with other updates, with
  the deployer rewriting the very file that is being copied, and with Shutdown;
* file events are merged, delayed, dropped by an overflowing kernel queue and
  replaced by a rescan, while the event thread can be stopped anywhere;
* main, a writer thread and any number of notifying threads share one output,
  and SIGINT runs `Stop` on whatever main was doing;
* event streams come and go over two flags and one queue that belong to the
  transport rather than to a stream;
* responses of the server, late, missing or mixed with notifications, are taken
  from one queue by several callers, over several connections;
* results expire and are evicted while posts, their timeouts and reads go on;
* one tool call crosses a cache, a limiter, a retrying client and a publisher,
  and what an agent chose from one answer is applied to another;
* the agent's lists, its index and the index file each keep something of an
  earlier state, while calls run and the host refreshes or shuts down;
* three search algorithms, with limits, ties and one-way streets, must find the
  same routes.

`PROJECT.json` lists these hazards one by one with the line where each bites.

## 2. Modules

| Module | Models |
|---|---|
| `PluginCatalog` | what a library declares, the coherence checks of PluginRegistry::Build, the lists a client can ask for |
| `PluginRuntime` | the hot-reload core |
| `HotRegistry` | what the core promises its readers: the abstract specification |
| `PluginRuntimeProofs` | theorems about `PluginRuntime`: its staging, what it serves, what it keeps |
| `PluginEvents` | the way from a file event to an update |
| `PluginEventsProofs` | theorems about `PluginEvents` |
| `McpServer` | the serving loop over stdio |
| `McpServerProofs` | theorems about `McpServer` |
| `SseTransport` | the SSE transport between the serving loop and its clients |
| `SseTransportProofs` | theorems about `SseTransport` |
| `McpClient` | the client library over stdio |
| `McpClientProofs` | theorems about `McpClient` |
| `AgentTools` | tool manager, agent integration and retrieval on top of the client library |
| `AgentToolsProofs` | theorems about `AgentTools` |
| `ResultStore` | the result service with its publishers |
| `BoundedStore` | what the store promises: the abstract specification |
| `ResultStoreProofs` | theorems about `ResultStore` |
| `MapServices` | a tool call of the map-services plugin over its chain of HTTP clients |
| `RoadNetwork` | how ways become a searchable network, and the reference the searches are compared with |
| `Routing` | published networks, the three searches, routes between coordinates, map matching |
| `GisProofs` | theorems about `MapServices` and `Routing` |
| `MC...` | constants for TLC; `McpServer`, `SseTransport` and `McpClient` need none and run themselves |

`PluginRuntime` and `PluginEvents` share `PluginCatalog` and look at the same
operations from two sides: in `PluginRuntime` an update is eight steps and may
be asked for at any time; in `PluginEvents` it is two steps (hash, then the
rest) and what matters is which updates are asked for and when.  `McpServer`
and `SseTransport` meet at `transport_->Read` and `transport_->Write`: the
first treats a write as one step, the second the caller as a thread that reads,
maybe answers, and may be interrupted.  `AgentTools` takes from `McpClient`
that a call returns an answer, an error or a timeout; `MapServices` takes from
`ResultStore` that a publication succeeds or fails.

### PluginRuntime

A LoadedPlugin together with its staged copy is a record of its staging number,
source path, recorded hash and copied content.  Ownership by shared_ptr is
membership: `Held` is the set of plugins some owner refers to, and the weak
pointers of the staging history have expired for all others.  `update_mutex_`
is not a variable: the variable `stage` says where its holder stands, and is
"idle" when nobody holds it.

| Action | Code |
|---|---|
| `DetectChange`, `SkipPath` | ReloadLocked up to the comparison of hashes |
| `StageCopy`, `StageSeal` | Stage: copy, second hash, rename |
| `LoadCandidate`, `RejectCandidate`, `PublishCandidate` | LoadedPlugin::Load, Build, publication |
| `SilenceRetired`, `NotifyCapabilityChanges`, `CollectGarbage` | the tail of ReloadLocked and RemoveLocked, in that order |
| `RemovePlugin`, `ShutdownPublish`, `ShutdownClear` | Remove, Shutdown |
| `TakeSnapshot`, `ReleaseSnapshot` | a request handler of `main.cpp` |
| `ListCapability` | the client, asking again after list_changed |
| `DiskWrite`, `DiskDelete` | the deployer |

Abstractions: the hash, the copy and the scan of Initialize each read a file in
one instant (a file written in place passes through contents that do not load);
the capability text a client lists is a set of entries; the active map, the
generation and the registry are assigned in one step, because everybody else
reads the first two only under `update_mutex_`; the notifications of one update
are one step.  The early failures of Initialize, `metadata.json`, Status, and
I/O errors other than a source that vanishes are left out.

### PluginEvents

Deadlines are ticks left.  `Tick` lets time pass for all pending entries; an
entry may be overdue by at most MaxLag ticks, which bounds how late the event
thread is.  The kernel queue holds Capacity events and then one overflow mark.
`erasedRead` becomes true when the event thread wakes and the entry it waits
for has been erased by StopWatching: wait_until has the deadline by reference
(PluginRuntime.cpp:228) and reads it again, whether it was notified or the time
is up; what happens then is undefined, so the thread looks again or goes to a
state of its own.  There is at most one subdirectory.  It may be made, moved
away or removed; the watcher looks for libraries in none of these cases.  A walk for
the watches that throws (AddTree, PluginWatcher.cpp:66) leaves StartWatching
through main, or the watcher thread through Handle: nobody catches it, and
`Terminate` is the end of the process.  That the watch of the directory itself
fails is the other half of `StartFails`.  The branch for platforms without
inotify is not modelled.

### McpServer

Main's Connect, the writer's loop statement by statement (test of the loop,
lock, predicate, blocking, taking, second lock, write), senders in three steps
and Stop in five.  `writer_running_` and the stop token are one variable since
they are set one after the other and tested together; spurious wake-ups are
left out, which only makes lost notifications matter.  Requests carry no data.
Several senders may be inside SendNotification although the callback in
`main.cpp` lets one in at a time; the checked properties hold all the same.
Connect catches parse errors only: `RequestThrows` is a request whose handling
throws anything else, as an unknown method with an id that is no number does
(Server.cpp:305), and ends the process.
What the request handlers compute is not modelled, nor ConnectAsync, which
nothing calls.

### SseTransport

A worker of the HTTP library's pool is free, in a POST, or bound to an event
stream until that stream ends.  Each provider call is three steps: endpoint or
ping, the wait for a message with its pop, and the write.  The two stores of
`terminate` and of a new connection are separate steps, since streams
interleave.  Before each call the library looks whether the client is there
(`mcp_server/include/httplib.h:4692`); this exit bypasses `terminate`.  A
listening socket may fail at any time.  A transport that no longer runs when
Stop is called returns at once with its thread still joinable
(SseTransport.cpp:129-136): main is "unjoined", and the destructor ends the
process.  The worker's loop is that of `httplib.h` as well.  Sessions,
keep-alive connections and the contents of messages are left out.  Time spent
in the 200 ms wait is not modelled: the wait always ends.

### McpClient

Whole messages travel through unbounded pipes.  `connected_` and `running_` are
one variable because they are set and cleared together; one thread connects and
disconnects.  The test of the descriptor and the write are one step.  The
server answers in order, may send notifications, may be slow, may answer an
error without id, may fail to start and may die.  disconnect waits for the server
after a SIGTERM without a limit (mcp_client.cpp:559-564); `KillServer` assumes
that the server ends, as that of this repository does, which handles SIGINT
only.  The SSE variant of the client is not modelled.

### AgentTools

One thread of the host initializes, refreshes and shuts down, statement group
by statement group: DropRetriever, EmptyManager, DropManager, Disconnect,
DropClient and ClearCache are those of shutdown.  Each caller asks for the
relevant tools, picks one (that is the language model) and calls it:
CheckAvailable, CheckTool, Execute, Send and Receive are the checks of callTool
and executeTool in their order, each against the list it reads, with every
mutex released in between.  Whoever is inside of an object that is destroyed is
stranded (`Strand`), and the process ends when he goes on; so may be whoever is
about to enter it and has the pointer already.  That the call waits for its
answer is no use of the manager any more, only of the client.  Without
retrieval a question waits for the mutex too (Ask, AnswerAll).  `locked` says
that `tool_cache_mutex_` is held over an indexing pass.  A tool is a name with
a version, so that an index or a cache can be out of date.  Similarity is
floating point: retrieval returns any non-empty set of at most TopK indexed
tools.  The process may be killed anywhere and starts again with the index file
it left, whole or torn.  Two facts of the code that the model takes over: the
retry loop of callTool never has anything to retry, because executeTool returns
failures as values; and the tool manager's notification handler waits for a
method "tools_changed" while the server sends
`notifications/tools/list_changed`, so the handler never runs.

### ResultStore

A Put is PutBegin, one RemoveLocked a step (`ExpireOne`, `EvictOne`) and
PutDone, with `owner` holding the mutex in between; Get is one step.  Around it,
`Publish`, `Reject`, `Announce` and `TimeOut` are a publisher's POST, the routes
of result_server.cpp and CURLOPT_TIMEOUT_MS: the worker goes on after the
publisher gave up.  `before` is a history variable: while a Put is under way
the abstract store still has what was live when it began.  In `BoundedStore`
the state is the live results and which of them was used after which, a Put
keeps the most recently used that leave room and as many of them as it can, and
expiry is immediate.

### MapServices

The variable `call` is the program counter and the local state of the one call
that is handled; the plugin is called from one thread.  Hit, Miss and Send are
the decorators from the outside in: cache, limiter, retries.  A token of the
limiter pays for a request and all its retries; a refusal by the limiter is
outside the retrying client and is not retried.  Answers are classified by what
the layers do with them: a 2xx is cached even when its body reports a failure.
Resolve is the first half of search_nearby_by_place; `seen` is the list of
candidates the agent was last shown.  A reply that asks which candidate is
meant says what the request behind it took, as a success does (`Described`).
Configurations are those Initialize may find.  Facts of the code the model
takes over: an automatic route that the local network refuses does not fall
back to the online provider; the limit statuses of the routing engine become
NotFound; when publication of a small result was asked for and fails, the call
fails though the result would fit inline; a large result without a publisher is
reported as retryable; with Redis a Put that is lost lets an older list come
back.

### RoadNetwork and Routing

Coordinates are points of an integer grid, and the sum of the differences
stands for the great-circle distance: a metric too, and exact.  Ways are fully
located.  `RoadNetwork` holds the pure algorithms as operators: the splitting
of ways, the arrays of the graph, EdgeSource, the nearest segments; at its end
the reference, `LeastCosts`, computed from the ways without any of them.
`Routing` is the store, the networks it may publish (built once, of each map),
and one reader: BeginRoute snaps, NextPair takes the next pair of candidates,
Expand, DiscardStale, EndSearch and EndAtLimit are the loop of the three
searches on the work arrays `search`, with the queue a set because the code's
queue orders by cost and then by node.  The map matcher runs over the same
steps: BeginMatch refuses a trace of more than MaxObservations and one with an
observation near no road, NextObservation takes the pairs of two layers,
NextPair and the search give each pair its transition, A* by distance with the
limit of the request, and `Scored` keeps the better predecessor; a transition
whose search met the limit is skipped and noted in `skipped`.  The second run
over the selected transitions (map_matcher.cpp:134-145), which only makes their
geometry, is left out. Only tests publish a second network or roll back; the
model allows both at any time.

Infinite stands for the infinity of the work arrays and is a constant: no cost
of an instance may reach it, which `Represented` would refute.  Three
assumptions say what the maps and the arrays made of them are.
`GridAssumption` and `WayAssumption` give positions and ways their types.
`GraphAssumption` says of the arrays what CsrGraph::Validate tests (`Validate`)
and that no edge is shorter than its ends are apart and only an edge of no
length takes no time (`Measured`), as distances and durations of
topology_builder.cpp:101-104 are.

The spatial index measures in a plane of 111320 m per degree
(spatial_index.cpp:17-24), the builder on a sphere of about 111195 m.  Stretch is
that ratio, so a candidate may be further along its edge than the edge is long,
and EdgeFraction clamps it (`Travelled`).  The instance makes it 4/3, for one
candidate in four to be clamped instead of one in a thousand.

All arithmetic is exact.  What the code has for rounding only is left out: the
tolerance of 1e-9 for stale entries (router.cpp:133) and the margin of 1.000001
on the fastest pace (router.cpp:79).  What it has no margin for is left out with
it: csr_builder.cpp:88-89 stores lengths and durations as float, and the
estimate of A* by distance is the haversine itself (router.cpp:79-86), so an
edge that was rounded down is shorter than its ends are apart.  `Measured`, and
with it what `RouteShortest`, `ExpandsOnce` and `MatchLikeliest` say of A*, holds
for the code up to that rounding.

## 3. What the runs show

All instances are small sets of model values.  CHECK_DEADLOCK is off where the
system rightly stops (a stopped server, a client that has made all its calls).

| Run | Instance | Shows |
|---|---|---|
| `runtime_conflicts` | 2 paths, 3 libraries two of which clash with the first by name or by tool, 1 request, 2 candidates, removals may fail | type invariant; every registry anybody can hold is coherent; recorded hashes are true; a generation number means one catalog; nothing is served after Shutdown; the core implements `HotRegistry` |
| `runtime_progress` | 1 path, two versions and a torn file, 4 candidates, Retain 1, 1 request, fairness | collection deletes nothing in use, forgets no directory and keeps no more than the bound; retired plugins cannot notify and are unloaded in the end; a client that lists again is up to date |
| `events_updates` | 2 paths, one of them in a subdirectory, 3 edits, renames, edits before the watch, scans that fail, kernel queue of 1, fairness | once quiet, what is served is what is on disk, overflow or not, where each path has a plugin of its own (`OffersApart`) and but for four named cases; this comes about; StopWatching returns, unless the process ended or the thread went on with an erased entry |
| `server_output` | 2 senders, 2 requests, 3 notifications, SIGINT, fairness | each message written once and in order; notifications are written or the server stops |
| `sse_streams` | 2 clients, 2 workers, a POST, a response and a notification, SIGINT, failing socket, fairness | no message twice; per-client order; accepted POSTs are read; Stop returns unless SIGINT caught main with a mutex |
| `client_faults` | 2 callers, 3 requests, 1 notification, 2 connections, slow and dying server, fairness | lag bounded by timeouts, notifications and other callers; calls and disconnect return |
| `results_service` | 2 publishers, 2 workers, 3 kinds of posts, room for 2 results or 3 bytes | list, map and byte count agree; limits hold within a Put too; no acceptable result is refused for want of room; the store implements `BoundedStore` |
| `map_calls` | 3 configurations, 2 candidates of a place, 2 attempts, bucket of 1, cache of 2 entries for 1 tick, fairness | what the provider sees is bounded, retries included; the candidate an agent chose is the one used; failures of a provider that recovered are no longer reported |
| `agent_calls` | 1 caller, 2 tools, a server update that withdraws one and changes the other, TopK 1, 2 cached embeddings, kills, fairness | only listed tools are sent; what is retrieved can be called; the index follows the list after a full pass; calls return |
| `routing_routes` | 2 maps of 4 ways, 6 pairs of coordinates, 5 traces, 3 algorithms, 2 metrics, limits 3 and 20, fairness | all searches find a cheapest path and answers are cheapest routes; lines can be driven; no node is expanded twice; matched traces are likeliest among the choices that need no skipped transition; requests are answered |

Bounds.  Two paths are enough for a conflict, and the checks compare pairs of
plugins only.  Two candidates replace a plugin once; four, on one path, are the
fewest that exceed Retain plus one request plus the one just retired.  One
request that may hold any past registry sees what two would, since requests do
not interact.  Three edits and a queue of one event overflow and still leave an
edit after the rescan.  `server_output` has one more notification than senders,
so that one sender queues twice.  In `sse_streams` one client can receive two
messages, which is what its order is about.  In `client_faults` three requests
let one caller lag by two.  MAX_PARSER_ERRORS is 2 instead of 50: only reaching
it matters.  In `results_service` a post of two bytes evicts two results of one
byte, and a third size is refused; two publishers and two workers let a post
time out while another is stored and announced.  In `map_calls` three kinds of
requests compete for two entries, and a second attempt exists; the bucket of one
token is the smallest the constructor takes.  In `agent_calls` a query and two
versions of two tools compete for two cached embeddings; a second caller adds
nothing that the properties, which speak of each caller, could tell, except to
the mutex, which one host thread holds against them.  The maps of
`routing_routes` have a one-way street across, one digitised against the
traffic, a closed ring, two nodes at one point and a road nothing leads to;
limit 3 is met by some searches, also of the matcher, limit 20 by none.  One
trace is longer than MaxObservations; a layer has up to two candidates, so that
a predecessor is chosen.

Fairness.  Every FairSpec assumes that a thread that can take a step eventually
does (weak fairness), which is what the operating system's scheduler gives, and
that time passes.  `AgentTools` asks strong fairness of a caller's step, since
the mutex it waits for is free again and again but not always: the host may
index in a loop, and the assumption is that the mutex does not starve a waiting
thread for ever.  Nothing is assumed of actors outside: deployers need not
edit, nobody need stop or send, the server process owes the client no answer,
SSE clients need not hang up, providers and the embedding service need not
recover.  Two environment assumptions are made and named: requests end
(`ReleaseSnapshot`) and a file being written in place is closed
(`FinishWrite`).  In `PluginRuntime` a client lists what it was told has
changed.

### Disagreements between code and documents

| Run | Property | What happens |
|---|---|---|
| `server_stop` | `StopReturns` | Stop sets its flags and notifies without `output_mutex_`; a writer between its predicate and its blocking misses both and the join never ends. |
| `rag_fallback` | `FallsBack` | docs/rag-mcp-guide.md:13 says that all tools are returned when the service is not available; the retriever catches the failure and returns none, and so it does with an empty index (tool_retriever.cpp:178-181, 211-214). |

### Further configurations

These are kept beside the runs.  They pass:

| Configuration | Checks |
|---|---|
| `PluginEvents_basics.cfg` | `TypeOK`, and `StoppedIsQuiet`: nothing is pending after StopWatching |
| `ResultStore_basics.cfg`, `SseTransport_basics.cfg`, `MapServices_basics.cfg`, `AgentTools_basics.cfg`, `Routing_basics.cfg` | `TypeOK` of each (`RoutingTypeOK`); for MapServices also `MetaTrue`: attempts and cacheHit of a success tell the truth |
| `McpClient_basics.cfg` | `TypeOK`, and `AnswersGivenOnce`: no answer is given to two calls |
| `PluginRuntime_settles.cfg` | `ListingsSettle`: a client that lists again ends with the current lists |

TLC reports each property below violated (with `-continue` where a
configuration has several); the comment of the property says what it expects:

| Configuration | Property and what the code does |
|---|---|
| `PluginRuntime_leftovers.cfg` | `FailedCandidatesCleaned`: a source that vanishes during staging leaves its temporary directory |
| `PluginEvents_rename.cfg` | `NewPathServed`: a rename is debounced at the new path and waits longer at the old one; the new path is rejected as a duplicate name and never tried again |
| `PluginEvents_thread.cfg` | `RescanRecovers`: a rescan whose walk throws is not repeated; `StopErasesNothingInUse`: StopWatching erases the entry being waited for |
| `PluginEvents_subdirectory.cfg` | `SubdirectoriesServed`: files in a new directory before its watch are missed; `MovedWithdrawn`: a directory moved away is ignored (PluginWatcher.cpp:107-112), and its plugins are served on |
| `PluginEvents_rescan_grace.cfg` | `WithdrawnAfterGrace`: a rescan ignores the grace period |
| `McpServer_stopping.cfg` | `TransportProtected`: the writer uses a transport that Stop has reset; `WriterDrains`: the writer ends with notifications queued |
| `SseTransport_gone.cfg` | `PostsNeedConnection`: when the only client hangs up, the HTTP library ends the stream without calling `terminate`; the flags stay set, POSTs are accepted, and messages are kept for whoever connects next |
| `McpClient_answers.cfg` | `OwnAnswer`: after a timeout the next call gets the late answer; `QueueHoldsResponses`: a list_changed of the server is queued as a response; `HostSurvives`: writing to a dead server raises SIGPIPE |
| `MapServices_stale.cfg` | `RetryAsksProvider`: a retryable failure that came with HTTP 200 is cached and answers the retries until its TTL has passed (against docs/deepseek-harness-gis-integration-plan.md:425-434); `PickAlwaysHonoured`: the index of a candidate is applied to whatever list the second call gets (against the schema text at MapServicesPlugin.cpp:53) |
| `AgentTools_changes.cfg` | `NeverCrashes`: shutdown destroys the manager, the client or the retriever under a running call; `RefreshFollowsServer`: refreshTools copies the manager's list and never asks the server (against mcp_agent_integration.h:230) |
| `Routing_missed.cfg` | `LimitReported`: when pairs of candidates meet the limit, the answer is Unreachable; `ConnectedFound`: segments of one edge fill the list of candidates and crowd out the road that is connected (routing_engine.cpp:76-77); `NeverBackwards`: two candidates that are both clamped to the end of an edge are one point to RouteCandidates, which answers with a route of no length although the target lies behind the source (routing_engine.cpp:114-118) |

Where a run's property excuses a case, one of these speaks of it: `StopReturns`
of the events excuses an erased entry, `StopErasesNothingInUse` does not;
`PickHonoured` excuses Redis and a place asked for again, `PickAlwaysHonoured`
does not; `FailuresHeal` waits for the TTL, `RetryAsksProvider` does not.
`RetrievedCallable` excuses an index file and a shutdown: the entries of a file
may name tools that are gone, and callTool then refuses them (`SentIsListed`).

One hazard is reached in a model without a property of its own: in `McpServer`
SIGINT may interrupt main while it holds `output_mutex_` (main.cpp:54), and Stop
then joins a writer that waits for that mutex; `StopReturns` is refuted already
without SIGINT.

## 4. What is proved

The proofs rest on the named ASSUMEs of the modules and on nothing else.  They
hold for any sets of paths, contents, kinds, requests, publishers, workers,
clients, messages, tools, callers and candidates, any library, any catalogs and
any limits the constructors accept.

### The hot-reload core

* `TypeCorrect`: `Spec => []TypeOK`.  TypeOK is inductive as it stands.
* `HeldSafe`: `Spec => []HeldPluginsStaged`: no staged library is removed while
  the active map, the published registry, a loaded candidate, the update under
  way or any request refers to its plugin.

`HeldPluginsStaged` is not inductive: giving up a candidate removes its
directory, and nothing in the property says that nobody uses that directory;
nor does it say that a candidate about to be loaded has one.  The strengthening
`StagingInv` adds the type invariant and three parts that carry these steps.
`CandidateInv`: while an update prepares there is exactly one candidate, the
last one numbered, and no retired plugin is owned yet.  `FreshInv`: every
plugin in use has a lower staging number than a candidate in preparation, so
discarding one cannot touch the other.  `StagedInv`: what is served or was just
retired is staged, and so is a candidate past the seal.  Collection is then
safe because it removes only what `Held` does not contain, the same set the
weak pointers of the code speak about.

The rest starts from `Sound`, the type invariant and `CandidateInv`, with one
strengthening each:

| Theorem | Property | What the invariant adds |
|---|---|---|
| `HashesTrue` | `ActiveHashesTrue` | `HashesInv`: a candidate past the seal has the content its hash was taken of |
| `ShutdownFinal` | `DownServesNothing` | `DownInv`: after Shutdown no update is under way and the active map is empty; within it the published registry is |
| `GenerationsTrue` | `OneGenerationOneCatalog` | `GenerationInv`: the published number is the next update's starting point, or one ahead within Shutdown |
| `RetiredSilent` | `RetiredSilenced` | `SilenceInv`: who may notify while a candidate is validated or a retired plugin not yet silenced |
| `RegistriesSound` | `RegistriesCoherent` | `CoherenceInv`: the active plugins are coherent and what is being validated loads |
| `Implements` | `ImplementsHotRegistry` | `RefinementInv`: the above, and `ServingInv`: outside Shutdown the published plugins are the active ones, and a candidate differs from the active plugin of its path |
| `ClientTold` | `ClientUpToDate` | `ListingInv`: between a publication and its notices a client may have the list of what was just replaced, and nothing older |
| `DirectoriesTracked` | `StagedTracked` | `TrackedInv`: the directories are those of the history and of a candidate that is not recorded yet |
| `RetentionBounded` | `RetentionBound` | `NewestInv`: the active plugin of a path is its newest in the history, and nobody holds two of one path; `BoundInv`: the bound is exceeded only until the collection of the same update |

The refinement maps each plugin to its path and content.  A publication is a
Deploy: `Seen...` lemmas show that replacing the plugin of a path commutes with
the mapping, which needs coherence (one plugin per path); that the deployed
content is new (`d \notin catalog.plugins`) needs true hashes and the test that
skips an equal hash.  Removal is Withdraw, Shutdown is Close, and all other
steps are stutters or the requests' own.

`RetentionBounded` is a count.  What CollectGarbage leaves of a path is in use,
or has fewer than Retain newer entries; the latter are at most Retain
(`FewAbove`).  In use are the active plugin, which is the newest and so among
those already counted, the one just replaced, and one for each request at most
(`OnePerOwner`).  It needs Retain to be at least 1, which main.cpp:201-202
ensures; for 0 the active plugin would be one more.

### File events

* `DeletedWithdrawn`: `Spec => []WithdrawnWhenQuiet`: when every event has been
  handled and no edit was missed, nothing is served whose file is gone.
* `UpToDate`: `Spec => []UpToDateWhenQuiet`, on the hypothesis `OffersApart`: what
  is served is then what is on disk.
* `StopLeavesNothing`: `Spec => []StoppedIsQuiet`.
* `EventsStayTyped`: `Spec => []TypeOK`; in it, the kernel queues its capacity and
  one overflow event, and `pending_events_` has one entry per key.

They hold for any queue length, delays and lateness, and for any order of edits,
overflows, ticks and steps of the two threads; `missed` excuses the four cases
that have properties of their own: a failed rescan (`RescanRecovers`), a rename
(`NewPathServed`), an edit where no watch is (`SubdirectoriesServed`) and a
directory moved away (`MovedWithdrawn`).

`OffersApart` says that a path offers one plugin, and that no other path offers
its name or one of its keys.  The proof needs it and so does the code: with two
files that declare one plugin the second is refused, and when the first is
deleted nothing tries the second again, so that both files' events are handled
and a library on disk that nobody rivals is not served.  TLC finds that run when
both paths offer one library.  The cause is that of the rename: a refusal is not
repeated until the refused file has an event.  `MCPluginEvents` asserts
`OffersApart` of its instances.

`WithdrawnInv` follows a deletion: for a path without a file, either nothing is
served from it, or a rescan is coming, or the removal is on its way.  It is on
its way through the kernel queue as long as the last word of the queue about the
path is that it is gone (`EndsGone`); in `pending`, where a later write would
replace it, only as long as the queue holds no write; and then in the event
thread's hands.  `DeployedInv` follows a library that loads: it is served and
not about to be removed, or its reload is under way with the present content, or
a further event of the path is noted, or a rescan is coming; `Own` says that the
active plugins are those of their paths, so that with `OffersApart` no candidate
is refused.  An edit between the hash and the rest of an update leaves an event
behind, in the queue or as an overflow (`EnqueueFacts`); that the queue drops an
event equal to its last one is harmless for the same reason.  `Shape` and
`Phases` say what the thread's local variables mean at each step.  One lemma per
action (`EditKeeps`, `HandleKeeps`, `DecideKeeps`, ...) shows both invariants
kept, for one path.  `EventsInv` adds to `Shape` what the types need: the queue
is over its capacity only by an overflow event that it has (`Bounded`), so that
it gets no second one, and an entry of `pending` replaces that of its key
(`OneEach`).

### The serving loop

* `TypeCorrect`: `Spec => []TypeOK`.
* `Conserved`: `Spec => []OutputConserved`: while the transport is there every
  notification is written, in the writer's hands or queued, once and in order,
  and the responses are those of the requests, in order.

`TypeInv` is TypeOK in four parts that are proved one by one.  `HeldInv` says at
which steps the writer holds a message; `NoticesInv` that the notifications
written, the one held and the queue are consecutive numbers; `ResponsesInv` that
main has answered all requests but the one in hand.  Each appends to the same
output, so a lemma shows that writing one kind leaves the other's subsequence
as it was.

### The SSE transport

* `InOrder`: `Spec => []ClientInOrder`: a client receives its messages in the
  order in which they were said.
* `NoneTwice`: no message is received twice, by one client or by two.
* `EachOnce`: `Spec => []EachMessageOnce`: every message said is in one place
  only, and in one.

`OrderInv` says why, though streams pop under a mutex and write without it: the
queue is the interval of the messages said last (`QueueInv`); a client has at
most one stream (`StreamInv`); streams hold different messages, which have left
the queue and nobody has received (`HandInv`); and what a stream holds is later
than all its client has (`ReceivedInv`).  A message taken is later than all that
ever left the queue, so it keeps the order for every client; a message
delivered comes after that client's earlier ones because no other stream holds
one for it.  `PlaceInv` adds the count: what has left the queue is in a stream's
hands, lost with a client or received, these three cover it, and their sizes
add up to it, so that they cannot overlap.

### The client library

* `TypeCorrect`: `Spec => []TypeOK`.
* `LagsAreBounded`: `Spec => []LagBounded`: an answer is behind its call by no
  more than the notifications, the timeouts and the other callers.
* `NoAnswerTwice`: `Spec => []AnswersGivenOnce`.

A request waits, has timed out or has returned (`CountInv`, part of the type
invariant), so the calls that have taken something are all but the timeouts and
the callers waiting.  `PlaceInv` says of every message in the response queue, the
reader's hands, the server's pipe and its inbox that its place, counted from the
first message ever, is no later than its number plus the notifications; messages
lost with a connection only move the others forward.  A call takes the front of
the queue, whose place is the number of messages taken, and this gives the
bound.  `OrderInv`, for the other theorem, says that the numbers in these four
streams rise from the calls to the inbox.

### The result store

* `TypeCorrect`: `Spec => []TypeOK`.
* `NeverOverfull`: `Spec => []WithinLimits`: count and bytes keep their limits,
  within a Put too.
* `ListAgrees`: `Spec => []ListNamesEntries`: the list names each stored result
  once and nothing else.
* `BooksBalance`: `Spec => []BooksAgree`: and the byte counter is the sum of the
  sizes.
* `AlwaysRoom`: `Spec => []NeverRefused`: the eviction loop always makes enough
  room for an acceptable result.
* `Implements`: `Spec => ImplementsBoundedStore`.

The first three are proved together as `StoreInv`: an insertion keeps within the
limits because only a worker that passed the tests is the owner (`OwnerInv`),
with a post that was acceptable (`PutterInv`); the count needs the stored set to
be finite; and an eviction removes an entry that exists because the list agrees.

`Counted` is the sum.  The recursive function `Bytes` picks its elements in an
order of its own, so the proof first shows that it is a sum over the set
(`BytesIsSum`) and that such sums do not depend on the order (`SumAnyOrder`).
With the sum an empty list means a counter of zero
(`EmptyHasRoom`), and the loop cannot end without room: `AnswerInv`.

In the refinement the abstract store has the live results, or during a Put those
that were live when it took the mutex (`before`).  `EvictInv` relates them to the
map and the list in the middle of the loop: those still there are unchanged and
in the same order, all that is gone was used before all that stays, and the
newest of what is gone would not have left room.  PutDone is then one Put of
`BoundedStore`, with all evictions of the loop; the loop's own steps are
stutters, an expired entry leaves the abstract store with the tick and the map
when somebody meets it.  Lemmas about places in a list (`OrderRemoved`,
`OrderPushed`, `OrderPart`) say what RemoveAt and a push to the front do to the
order of the others.

### The map tools

* `Spared`: `Spec => []ProviderSpared`: the provider gets at most MaxAttempts
  requests a tick and a burst of a full bucket and one, although retries pass
  the limiter by.
* `Honoured`: `Spec => []PickHonoured`: a search by a chosen candidate uses that
  candidate.
* `MetaHonest`: `Spec => []MetaTrue`: attempts and cacheHit of a success are true.
* `MapTyped`: `Spec => []TypeOK`: without Redis the cache keeps to its size, the
  bucket to its burst and a request to its tries.

`SpareInv` is a potential: what was sent beyond its due, MaxAttempts for every
token left and what the request under way may still send.  A token pays for all
the attempts of a request; a tick adds a token's worth and takes as much away,
or finds nothing due and then needs the one request more.  `PickInv` relates the
two calls of a pick through the cache: what was received for the place is in the
cache (`ReceivedInv`), what is there is the list the agent saw unless the place
was asked for again (`CacheInv`), and an index is applied to no other list
(`ChosenInv`).  `MetaInv` adds what a request under way has made so far.
`HoldInv` bounds the cache, which drops an entry before it takes a new key when
it is full (`PutHeld`).

### The agent's tools

* `SentListed`: `Spec => []SentIsListed`: a call that reaches the server names a
  tool of the list this connection began with.
* `RetrievedFound`: `Spec => []RetrievedCallable`.
* `IndexFollows`: `Spec => []IndexCurrent`: between passes the index has every
  tool as the list has it, unless one could not be embedded.
* `AgentTyped`: `Spec => []TypeOK`; in it, the embedding cache keeps to its size
  and lists no text twice.

`AgentInv` holds over crashes, restarts and shutdowns under running calls:
who is inside of the manager or waits for an answer asks for a tool of the list
the connection `began` with (`ManagerInv`), which lasts until the client is
dropped, and whom the drop finds inside is stranded; retrieval is on whenever a
session with retrieval is ready (`SessionInv`), so no pass can run without it;
what a pass has done is in the index (`IndexInv`); and the agent's list is the
manager's while connected, so a refresh withdraws nothing (`ListInv`).
`BoundInv` has the rest of the types; a text that is in the cache is moved to
its front, any other takes the place of the last one when the cache is full
(`Remembered`).

### Routing

* `RoutingTyped`: `RoutingSpec => []RoutingTypeOK`.
* `ExpandedOnce`: `RoutingSpec => []ExpandsOnce`: no search expands a node twice
  from one side.
* `SearchesExact`: `RoutingSpec => [](SearchOver => Exact)`: when a search of any
  of the three algorithms is over, the path it returns leads from source to
  target and no path of edges is cheaper, or no path costs less than Infinite.
* `CheapestAnswered`: `Faithful /\ RoutingSpec => []RouteShortest`: the answer is
  a cheapest route over all candidate pairs.
* `AnswerDriven`: `DrivenMaps /\ RoutingSpec => []RouteDrivable`.
* `LikeliestMatched`: `Faithful /\ RoutingSpec => []MatchLikeliest`.

They hold for any maps, requests, traces, radius, number of candidates and
limits, and whatever is published or rolled back under a request.

The first three speak of the arrays and need no more than the assumptions.  The
other three speak of the ways, which only topology_builder.cpp and
csr_builder.cpp relate to the arrays.  What these two do is a computation with
sorting and folds, out of the prover's reach, so it enters as a hypothesis:
`Faithful` says that the least costs by paths of edges (`ByEdges`) are those of
driving along the ways (`LeastCosts`), and are final after as many edges as
there are nodes; `DrivenMaps` says that the line of each edge can be driven and
that consecutive edges meet in a node.  `MCRouting` asserts both of its maps
(`BuiltFaithfully`), which TLC evaluates, so they are not vacuous and the
builders are checked, if only on those maps.

`RoutingInv` is the inductive invariant of the searches.  It is stated for a
view, what a search sees from one side: edges with a near and a far end,
weights, estimates; the search from the target sees the same edges the other
way round, and each lemma serves both.  With c the costs, q the queue and p the
predecessors of a side:

* `Steady`: an entry is no less than its node's cost and estimate together, and
  no expanded node is more than any entry.  So what comes off the queue never
  decreases, and an expanded node is not improved again; for A* because its
  estimates are consistent (`ViewSound`, from `Measured` and the fastest pace).
* `Tree`, `Grown`: following p leads back to the root over edges that add up to
  c; `BehindIs` and `AheadIs` turn this into the paths the code reconstructs.
* `Spread`: the edges of expanded nodes improve nothing; while the edges of a
  node are being relaxed, but for those still to do.
* `Met`: for a search from both sides, best is the least sum of the two costs
  over the nodes and meeting attains it.
* The number expanded is that of the nodes that are closed (`Closed`), which
  only grow: hence `ExpandedOnce`.

A step of Expand is a loop over the edges of a node.  `RelaxOne` keeps the
invariant over one round, `RelaxAll` over the loop (`LoopRuns` gives the values
in between).  When a search is over, every path is cut where it leaves the closed
nodes: up to there the path costs no less than c says, and if the cut comes
before its end an entry waits that is no more (`Walked`).  For one side that is
the answer, since no entry is less than the target's cost; for two sides, where
two entries together are no less than best, the cuts from the two ends leave no
edge between them, and `Met` has compared best with the node they share
(`CheapestFromBothSides`).

`AnswerInv` adds that the best route so far is the cheapest of the pairs tried
(`BestOf`), pair by pair; `ByEdgesExact` is the bridge from paths of edges to
`ByEdges`, and `Faithful` goes on to the ways.  `DrivenInv` adds that the best
route's line can be driven: the line of a path is the concatenation of lines
that meet (`IsChain`).  The line is that of nodes: the projected points at its
two ends are not in it, so the backward route of `NeverBackwards` has an empty
line.  `MatchInv` says that the roads of a matched trace are the likeliest,
pair by pair: each candidate of the layer in hand has the least cost among all
choices that end there (`LayerSound`), over the pairs done so far and over the
choices that need no transition in `skipped`.  A pair that is done had its
least distance, from a search that ended (`SearchesExact`), or is in `skipped`,
or cannot be driven.  A layer is complete when no pair is left; a cost that
reached Infinite stays there.

### Model-checked only

* All liveness properties, which are out of the prover's reach.
* What the builders of a network compute (`Faithful`, `DrivenMaps`): sorting and
  folds (SortSeq, FlattenSeq, FoldSet), of which the provers know nothing.

Where a proof needs induction over finite sets or numbers, it does without an
operator parameter: it is stated for the set of the values that have the
property (`NaturalsReached`, `FiniteReached` of `ResultStoreProofs`), or uses
that strict inclusion of finite sets is well founded (`FewAbove`).  A
recursive function is known by its equation, once `LoopRuns` has given a
function that satisfies it (`TotalIs`, `RelaxedIs`, `ByEdgesAre`); the library's
recursion theorems would need an operator parameter.

## 5. What is not modelled

* Stdio transport: one read and one write of a line.  HTTP stream transport: a
  stub that nothing uses.  Logger: formatting.
* GIS engines, parsers of OSM, of provider answers and of arguments, the network
  file, the routing HTTP service, and the plugins that only translate requests:
  sequential, floating-point or textual code.  Rounding of distances and
  durations is left out with it.
* Harness integration: extensions of another program that defines their
  scheduling.
* Single operations of modelled parts: Erase of the result store and the
  fallback map provider, which only tests use; Clear of the response cache;
  removeTool and the tool validator, which the agent does not use; the SSE
  variant of the client; ConnectAsync and StopAsync; the branches for platforms
  without inotify.

Most lines of the C++ tree are single-header libraries kept in it
(`json.hpp`, `httplib.h`, `popl.hpp`, `aixlog.hpp`, `base64.hpp`), which are
nobody's model here except where `SseTransport` relies on the provider loop of
`httplib.h`.

## 6. Plan

Done: the components of section 2, the hot-reload core first because it is what
the server promises most about, then what carries its effects to the client,
then the services behind the tools.

Next, by importance:

1. Proofs: that the builders of a network are faithful, which needs lemmas about
   sorting and flattening that the installed provers cannot be given.
2. The SSE variant of the client against `SseTransport`.
3. Restarts of the process over one staging directory, failures in the middle of
   Initialize, request handlers and what they throw.
4. The GIS analysis and routing plugins as far as they publish results.
