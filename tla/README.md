# TLA+ models of gr4-control-plane

The control plane is one process that keeps *sessions*, each a GNU Radio 4 graph
that can be started and stopped through a REST API, and that gives browsers access
to the streams of running graphs. Nothing is persisted: a crash loses every
session. All the difficulty is concurrency (a thread per HTTP request, scheduler
threads, a second HTTP server on the loopback interface) and failure (a runtime
call may throw at any point).

Source paths are relative to the repository.

## 1. Inventory

| component | state | operations | modelled by |
|---|---|---|---|
| Session service (`src/app/session_service.cpp`) | `phases_`, and the repository it writes, under `mutex_` | create, list, get, start, stop, restart, remove, active_stream_plan, fetch_http_stream, resolve_websocket_stream | `SessionService.tla`, abstractly `SessionLifecycle.tla` |
| In-memory repository (`src/storage`) | `sessions_`, under a mutex of its own | create, get, list, update, remove | the variable `repository` of `SessionService.tla` |
| Block settings service (`src/app/block_settings_service.cpp`) | none | update, get | `BlockSettings.tla`; against the lifecycle by `SettingsBegin` in `SessionService.tla`, `SendSettings`/`Reply` in `Gr4RuntimeManager.tla` |
| GR4 runtime manager (`src/runtime/gr4_runtime_manager.cpp`) | `resources_` under `resources_mutex_`; per session a `SessionRuntimeResources` object with a mutex: phase, execution, stream bindings | prepare, start, stop, destroy, active_stream_plan, fetch_http_stream, resolve_websocket_stream, set/get_block_settings | `Gr4RuntimeManager.tla`; graph normalisation by `StreamContract.tla`, the settings exchange by `BlockSettings.tla` |
| Stream binding allocator (`src/runtime/stream_binding_allocator.cpp`) | `allocated_ports_`, under a third mutex | allocate_http, allocate_websocket, release | the variable `allocated` of `Gr4RuntimeManager.tla` |
| HTTP server (`src/api/http_server.cpp`) | routes; acceptor, `stopping_`, connection threads, websocket bridges, the internal server | session, stream, catalog and settings routes; listen, stop, proxying, bridging | the GET routes by `HttpSessions.tla`, the stream routes by `HttpStreamRoutes.tla`, both at once by `HttpRoutes.tla`, the server's threads by `HttpServer.tla` |
| Stream intent and contract (`src/domain/session_stream.cpp`), session stream service (`src/app`) | none (pure) | derive_stream_runtime_plan, validate_stream_runtime_contract | `StreamContract.tla`; elsewhere its result is the constant `Authored` |
| Block and scheduler catalog services (`src/app`) | a cache each, under a mutex | list, get | `BlockCatalog.tla` |
| Catalog providers (`src/catalog`) | a child process per block while a catalog is loaded | list | `BlockCatalog.tla`; the translation of descriptors is left out |
| `main.cpp` | - | loads the catalogs, wires the components, listens | `ControlPlane.tla` (wiring), `BlockCatalog.tla` (start) |
| Stub runtime manager, CLI | - | test double; one request per invocation | not modelled |

How they interact. An HTTP thread calls the session service. A lifecycle
operation of the service is *claim* (under `mutex_`: check state and phase, write
a transitional phase) – *runtime calls* (no mutex) – *commit* (under `mutex_`:
reload the record, write state and phase) or *record the failure*. The runtime
manager looks the session's object up, works under the object's mutex, takes and
gives back ports. Stream and settings requests read the record, and then call the
manager, while lifecycle operations go on.

What is hard, and what makes each component correct:

* session service: the claim must exclude every other lifecycle operation although
  no mutex is held during it; no path may leave a session in transition; the copy
  of the record taken at the claim must still be right at the commit; record,
  phase and `last_error` must agree afterwards.
* runtime manager: it relies on its caller not overlapping lifecycle calls
  (`destroy` gives the object's mutex up before it erases the map entry); every
  path that throws must give mutexes and ports back; what a failed `start` or
  `stop` leaves behind must be usable by the next call.
* allocator: no port in use twice, none lost; a fetch uses a *copy* of an
  endpoint, so a port may change hands under it.
* HTTP routes: an answer is put together from several looks at the service.
* HTTP server: `stop` against `listen`, against connections that are being
  accepted and against bridges that are being registered; a bridge ends as a whole.
* stream contract: two parsers of the same blocks, in two files, must agree about
  which blocks have managed streams and what they are called.
* catalogs: a load under a mutex runs many child processes, any of which may crash,
  fail, or fill its pipe; what is cached must be whole, and nobody may wait for ever.
* settings: replies come late, are refused or stay away, and requests outlive the
  thread that sent them; what a client is told must be what happened.

`PROJECT.json` lists each hazard at its line with the properties that cover it.

## 2. Modules

* `SessionLifecycle.tla` – the promise: per session, one operation at a time, each
  ends, and it either takes full effect at once or leaves the session in error.
* `SessionService.tla` – the service. `repository[id]` is the record (`Absent` if
  there is none; `last_error` is the operation that failed), `phases[id]` the entry
  of `phases_` (`"none"` if none), `tasks[w]` what a request thread is in the
  middle of: its operation, session, next runtime call, the state its copy of the
  record shows, and the attempt of a fetch. `StartBegin`, `StopBegin`,
  `RestartBegin`, `RemoveBegin`, `StreamBegin`, `SettingsBegin` and `Create` are
  critical sections; `RuntimeOk`, `RuntimeThrows`, `RuntimeTransient` a runtime
  call that returns, throws, or fails in the one way a fetch tries again;
  `CommitStart`, `CommitStop`, `CommitRemove` the second critical sections.
  Requests that are refused, and pure reads (`list`, `get`), change nothing and
  are not actions here. What a runtime call comes to is a free choice.
* `Gr4RuntimeManager.tla` – the manager and the allocator. Objects live in `heap`
  because a call may hold one that `resources` no longer names; a cell is free for
  reuse when nothing refers to it. `owner[r]` is the thread that holds the
  object's mutex across a part of a call in which others may run: allocation and
  loading, `scheduler->start()`, `scheduler->stop()`, waiting for a settings
  reply. A section under the mutex without such a part is one action. `calls[w]`
  is the call a thread is in. `Invoke` with `CallerAllowed` is the caller: it
  overlaps everything but two lifecycle calls on one session.
* `ControlPlane.tla` – the two together. A runtime call of the service becomes
  `Call`, the manager's steps, and `Return`, which hands the outcome to
  `SessionService!RuntimeReturns`. `RecordOf(id)` and `Serves(id)` are what a settings
  request sees of a session; with them in place of its variables the composition
  implements `SessionRun` for each session.
* `SessionRun.tla` – one session as a settings request meets it: the record's state and
  whether the graph serves, changed by `Create`, `Launch`, `Halt`, `Commit`, `Remove`
  one at a time. `ControlPlane` implements it; `BlockSettings` takes its lifecycle
  from it.
* `HttpSessions.tla` – GET /sessions and GET /sessions/{id} on top of
  `ControlPlane`: `pages[w]` is the answer being put together. `touched` is a
  history variable for the property.
* `HttpStreamRoutes.tla` – browsers at the streams, on top of `ControlPlane`: a fetch is
  one call of the service; `upgrades[w]` is a websocket upgrade, which takes the route
  the service returned (`TakeRoute`) and connects to it later (`Attach`). An upgrade
  whose target has a malformed percent-escape ends the process
  (`UpgradeTargetThrows`, http_server.cpp:879 and 305): nothing catches what `std::stoi`
  throws in the connection's thread. What follows is a new process with nothing in
  memory (`Restarted` in `ControlPlane.tla`); requests under way are cut off. It is
  a step of `HttpSessions.tla` too (`ProcessEnds`); `ControlPlane.tla` and the modules below
  are about one process.
* `HttpRoutes.tla` – the steps of the two together, over one control plane: a thread
  serves a page, an upgrade or another request, one at a time.
* `HttpServer.tla` – the threads of the public server. `pc[t]` is where the listener
  (`listen_after_bind`) and each `stop` are; both run `Join`. `connections[c]` is
  where `handle_connection` is, `threads[t]` and `bridges[t]` are the local copies of
  `join_connection_threads` and `stop`. A bridge is its set of forward threads
  (`pumps`) and `closed`. Requests to the internal server are in `handling` until
  their handler returns. It stands beside the others: the routes it serves
  are theirs, and what a handler does does not change the server's state, except for the
  upgrade that ends the process: all threads are `"terminated"`, all sockets closed.
* `StreamContract.tla` – one graph on its way from its author to the loader:
  `AddBlock` (what an author may write), then the sections of `prepare_locked`:
  `Refuse` or `Bind` (`validate_stream_runtime_contract`, `derive_stream_runtime_plan`
  and the allocation), `Normalize` (`normalize_block`, `normalize_connection`),
  `Inject` (`inject_stream_bindings`), `Load`. A block is a record of the fields
  either side reads; a value is a name, the empty string, no string, or missing. The
  connection is a list, a map or neither, and each of the three goes through its own
  branch of `normalize_connection`; a port token is a word and the number behind it,
  which counts where `normalize_port` finds it behind the word's last `t`
  (`Numbering`: `in3` has no index, `input3` and `out_left3` have).
* `BlockCatalog.tla` – `request[c]` is the catalog request of a thread, `load` the
  locals of `Gr4BlockCatalogProvider::list`, `process` the kernel's table of children,
  which a child enters by `Fork` and leaves by `Waitpid` alone, whatever else becomes of
  it, and `written` what the one in hand has put into the pipe; `cache` is whole or
  `None`. `MainGoesOn` is
  `main.cpp` before it listens. Reflection itself is a free choice between a
  descriptor, an exception and a crash. `Browsed` goes through the blocks as
  `cached_catalog` does and keeps one entry of each canonical type; the list
  (`BrowseEntries`) is their set in the order of the sort keys (`Sorted`).
* `BlockSettings.tla` – `client[c]` is the settings request of a thread, `queue` the
  scheduler's inbox, `inbox` the port the waiting thread has connected. The
  scheduler (`HandleSet`, `HandleGet`, `BlockRefuses`, `ApplyStaged`) is external. The
  wrap of an integer that does not fit (`IntegerValue`) and the lookup of a block by name
  before unique name (`Resolve`) are in the model as they are in the code. The lifecycle
  is that of `SessionRun.tla`: a stop only ends the serving (`StopRuntime`);
  queue and blocks go when the execution does (`TearDown`), and a scheduler whose
  `stop` threw may be started again with what was still in its queue. `effect`, `orders`, `accepted`, `floor` are history for the properties.
* `SessionServiceProofs.tla`, `Gr4RuntimeManagerProofs.tla`, `ControlPlaneProofs.tla`
  (which puts the first two together), `HttpProofs.tla` (`HttpSessions`,
  `HttpStreamRoutes` and `HttpRoutes`, on top of the third), `HttpServerProofs.tla`,
  `StreamContractProofs.tla`, `BlockCatalogProofs.tla`, `BlockSettingsProofs.tla` –
  theorems.
* `MC*.tla` and `*.cfg` – model values for TLC.

`StreamContract`, `BlockCatalog` and `BlockSettings` stand beside the composition:
`Authored` in `Gr4RuntimeManager.tla` is a result of `StreamContract`'s `DerivePlan`,
its `Load` and `LoadThrows` are the whole of `Normalize` to `LoadThrows`, and its
`SendSettings`/`Reply` the exchange of `BlockSettings`.

Abstractions. Names, timestamps, graph text, JSON and messages are left out; so are
`generation`, `teardown_complete`, `teardown_error` and `async_error` of the
manager, which nothing but a message reads or nothing ever sets. A graph is the
set of its managed streams. The ports the operating system may hand out are the
set `Ports`. Session identifiers are random in the code; here an identifier may be
used again after its session was removed, which is harder on the code than
64-bit random ones are.

External code, modelled from how it is used: the plugin loader and the schedulers
return or throw (a `std::exception`, or with `"foreign" \in Exceptions` something
else); a running graph listens on its ports; a settings message is answered,
refused or timed out.

## 3. Runs

| run | question | bounds |
|---|---|---|
| `service` | exclusion, ownership and agreement of the service's views; requests end; it implements `SessionLifecycle` | 2 sessions, 2 threads, 3 fetch attempts, no symmetry |
| `runtime` | mutexes, ports and objects under every failure, sockets included | 2 sessions (two streams and one), 2 threads, 3 cells, 3 ports |
| `control_plane` | records against what runs; each component meets what the other relies on, liveness included; record and graph change in `SessionRun`'s order | 1 session, 2 threads, 2 cells, 1 port, 2 attempts, every failure |
| `http_routes` | a GET is right about every session left alone meanwhile; where a fetch and a websocket bridge may end | 2 sessions (two streams and one), one reader and one writer, 3 cells, 3 ports, no runtime failures |
| `http_server` | connection threads, bridges and the end of the server | 2 connections, one listener, one `stop` |
| `stream_contract` | do the contract and the normalisation agree about every block | one block of every form and one of a few that get in its way, 6 connections |
| `block_catalog` | catalogs whole, one entry shown of each canonical type, every child waited for, requests answered, start before service | 3 blocks (implementation, alias, unrelated), `main` and one client, payloads of 2 parts through a pipe of 1 |
| `block_settings` | answers tell the truth, reads see accepted writes, requests end | 2 clients, 2 blocks, 3 updates (immediate, staged, an array), 3 requests, 2 runs, 3-bit integers (`HalfWord` = 4) |
| `http_server_join` | `stop` beside `listen_after_bind` returns (violated) | 1 connection |
| `http_streams` | the documented "streams only for running sessions" (violated) | 1 session, one reader and one writer |
| `catalog_alias` | the alias that the catalog's test expects to browse is shown (violated) | as `block_catalog`, with the test's blocks |
| `settings_as_asked` | an accepted update reached the block of the unique name in the request, with the value in its body (violated) | 1 client, 2 blocks of which one bears the other's unique name, the value 6 in 3 bits |

Why the bounds are enough. The code treats sessions alike and they meet only in
the allocator and in request threads, so two of them show every interference. On
one session, two lifecycle requests, or one and a stream request, already meet in
every pair of steps; for the service's safety the proofs cover any number of
threads. Cells: at any moment each session's entry and each thread that has lost
its entry hold one, and one is needed for a creation; with one thread out of two
creating, three suffice for two sessions. Ports: as many as streams, so that a
single lost port makes an allocation fail, and the "all taken" error is reached.
`FetchAttempts` is 20 in the code; one, two and three attempts show the first,
a middle and the last iteration of the loop.

Streams: the rules look at one block at a time, except that ids are compared and
names matched in pairs; two blocks show both, and the proofs cover any number.
Catalog: three blocks make an alias compete with its implementation beside a block
of its own; a payload longer than the pipe is what makes the order of reading and
waiting matter. Settings: a late reply needs a request that timed out and one
after it, a read that might miss a write a third; the wrap of integers needs a
value in the upper half of the word.

Fairness. A thread that has begun a request goes on (weak fairness of its steps):
threads are never cancelled, loader, scheduler and sockets return or throw, and
settings replies and fetches have timeouts. Where a thread waits for an object's
mutex its step is enabled again and again but not always, because settings
requests may take the mutex in between; strong fairness there says that a mutex
that keeps being given up is granted in the end. That is what the standard library's mutexes
give in practice, not in writing. The runs of `HttpSessions.tla` and
`HttpRoutes.tla` check safety only.

In `HttpServer.tla` clients are assumed to send a request or to go away, and
handlers to return; the peers of a websocket need not ever stop, so a forward
thread is fair only once its sockets are closed.

In `BlockCatalog.tla` threads and children go on, reading, writing and waiting, and a
mutex that is given up again and again is granted (strong fairness of `Lock`).
Reflecting a block is assumed to end, in a descriptor or an exception; none of the
other failures has to happen. In `BlockSettings.tla` nothing is asked of the
scheduler: the deadline passes (weak fairness of `Timeout`), and the session's
mutex is granted in the end (strong fairness of `Enter`).

Deadlock is checked in every run but these: in `HttpServer.tla` a server that has
been stopped is a proper end, in `StreamContract.tla` a graph that is loaded or
refused; in `BlockCatalog.tla` a process may exit because its catalogs do not load,
and in `BlockSettings.tla` `MaxRequests` and `MaxRuns` end the story. A control plane
without requests can always accept one. A second `stop` (the destructor's) finds
`stopping_` set and returns at once, so one is enough.

## 4. What the runs show

The two components fit: the service never overlaps lifecycle calls
(`MeetsCallerContract`), which is the condition under which `destroy`'s window
between the object's mutex and the map is harmless (`NothingOrphaned`). A settled
session's record agrees with what runs (`RecordMatchesRuntime`), except in state
`error`, where the code promises nothing: after a failed stop the graph goes on
running with its ports until a restart, stop or remove succeeds.

Ports. An allocation that fails after earlier ones succeeded loses those
(gr4_runtime_manager.cpp:998 is outside the `try`), and so does a load that throws
something that is no `std::exception`. The history variable `lost` keeps account of
these two, and `NoPortLeaked` says under every failure that no other port is ever
missing from the allocator, and `PortsExclusive` that none is handed out twice.

A scheduler that throws something that is no `std::exception` while it stops leaves
its object in `Stopping` for good. `ObjectsConsistent` allows it where such exceptions
occur, as they do in the run `runtime`; that nothing else leaves an object there, for
any choice of `Exceptions`, is what the theorem says.

A fetch or a websocket bridge may reach another session's stream, but only after its
own session has given the port back (`StrayOnlyAfterRelease`): a window no lock
closes, and with a bridge one that lasts as long as both sides keep it open.

Order. A record comes to say "running" only of a graph that serves at that moment, and
it goes only after the graph has stopped (`ImplementsSessionRun`). In between the two
may disagree: a settings request may find a record that says "running" and a graph
that no longer serves, or, after a stop that failed, the reverse.

Finding (`http_streams`): GET /sessions/{id} reads the record and then the active
streams. A start that commits in between gives an answer with
`"state": "stopped"` and `streams`, against README.md:177 and docs/design.md:194.
`LeftAloneShownRight` shows the rest of the answer is right: only sessions that
were in an operation during the request can be shown so, or turn a list into 404.

The server comes down when it is told to (`ShutdownEnds`), but for two cases the
property names: an internal server that is not up yet when `stop` is called
(`wait_for_internal_server_ready` gives up after 50 attempts), and a bridge entered
in `active_bridges_` after `stop` has copied the set, which `stop` then waits for
without having closed it. A malformed upgrade target ends it at any time, and with it
every session; what is shown of the sessions and streams of the new process is right
again (`LeftAloneShownRight`, `StrayOnlyAfterRelease`).

Streams. Every stream a loadable block declares is seen by the contract
(`DeclaredIsManaged`), but for one oddity the property names: an empty `block` entry
hides the block from the contract and is ignored by the loader. What the contract
derives is injected into the right blocks (`EndpointsReachTheirBlocks`,
`InjectionFailsOnlyWhenAmbiguous`) unless names are ambiguous (`Ambiguous`): two managed
blocks share one, or the two parsers read a block's name differently.

Such a block can be plainly authored. `id: <type>`, `instance_name: n1` and flattened
stream fields satisfy the contract, which names the block `n1`; `normalize_block` names
it by its `id`, and the start fails with "failed to inject all managed stream bindings
into runtime graph" (gr4_runtime_manager.cpp:577).

Catalogs. A request sees a whole catalog or an error, whatever becomes of the
children (`CatalogWhole`): that a descriptor cut short does not parse is what saves
a child that exits with 0 after a failed write. Reading before waiting keeps large
payloads from hanging the load (`EveryRequestAnswered`), and every way through the loop
waits for its child before the next one, whether it read all, some or none of the pipe
(`ChildrenReaped`). The list shown to browse has one entry of each canonical type, an
implementation only where it has no alias, in order, whatever order the blocks came in
(`BrowseCollapsed`). A process that `main.cpp`
started never forks with clients in its threads (`MainLoadsFirst`).

Finding (`catalog_alias`): of two aliases of one canonical type
`is_better_browse_entry` keeps the longer id (block_catalog_service.cpp:46-48). The test
that aliases are collapsed has two that differ in nothing else,
`blocks.sources.signal_source_f` and `..._alias`, and expects the shorter one in the
list (test/block_catalog_service_test.cpp:14-34, 85-92).

Settings. Request ids keep late replies apart, and the mutex keeps the run from
changing under a request: a client that is told "accepted" can rely on it, one that
gets an error other than 504 can rely on nothing having happened (`OutcomesTruthful`).
Both hold across a restart and a start after a stop that threw, where the old queue is
served on. "Accepted" is so of the message that was sent.

Finding (`settings_as_asked`): the message need not be what the client asked for, in two
ways, each of which violates `AcceptedAsAsked` without the other. An integer of 2^63 or
more becomes negative: nlohmann's `is_number_integer()` holds of unsigned numbers too,
so that block_settings_service.cpp:85 takes them, and the range check at :91 that is to
refuse them is never reached. And `resolve_runtime_block` looks for a block of that
*name* before one of that unique name (gr4_runtime_manager.cpp:367-378), though
README.md:185 and docs/design.md:158 say that blocks are addressed by `unique_name`: a
block that bears another's unique name as its name gets that one's updates.

Finding (`http_server_join`): the listener, leaving its loop, and `stop` both test
and join `internal_thread_` with nothing between them. While the internal server is
still ending, both join it, which is undefined; the tests end every server this way.

## 5. What is proved

`SessionServiceProofs.tla`, for any sets of sessions and threads and any number of
attempts, from `NoneAssumption` and `FetchAssumption`:

* `TypeCorrect`: `Spec => []TypeOK`
* `Exclusion`: `Spec => []OneLifecycleOpPerSession`
* `NoAbandonedTransition`: `Spec => []TransitionHasOwner`
* `CopyStaysCurrent`: `Spec => []OwnerStillHolds`
* `ViewsAgree`: `Spec => []SettledViewsAgree`
* `StepsRefine`: initial states and steps are those of `SessionLifecycle`

None of the four properties is inductive alone. Exclusion needs that the phase of a
session an operation is on is transitional (else a second claim would be accepted),
which is `OwnerStillHolds`; that in turn needs exclusion, because the commit of a
second owner would overwrite the phase; and the phase says what it should at the
claim only because record and phase agree outside operations. `IInv` is their
conjunction with `TypeOK`. The proof takes the actions one by one: a claim adds an
owner where there was none, a commit or failure removes the only one and settles
the session, and a step of another thread leaves the session alone. Refinement uses
`IInv` to identify `DoingBar`, a `CHOOSE` among owners, with the one owner's
operation.

`StreamContractProofs.tla`, for any number of blocks, any names and any way of
writing them, from `FieldsDiffer`, `BlocksAssumption` and `ConnectionsAssumption`:

* `TypeCorrect`: `Spec => []TypeOK`, unique ids and paths included
* `NoUnmanagedStream`: `Spec => []DeclaredIsManaged`
* `InjectedUnlessAmbiguous`: `Spec => []InjectionFailsOnlyWhenAmbiguous`
* `EndpointsArrive`: `Spec => []EndpointsReachTheirBlocks`

Its `IInv` says that from `Bind` on everything is a function of the authored blocks:
the bindings are those of the plan, the runtime blocks those of `NormalizeBlock`, with
the endpoints after `Inject`. The rest is about the operators: for a block whose name
is clear both sides find the same name (`NamesAgree`), a loadable block has a type for
the contract (`TypesAgree`), distinct clear names make every block match its own
binding only (`OwnBinding`), so that the count at the end of the injection is right
(`InjectedWhole`, by the injection from managed blocks to stream ids).

`SessionServiceProofs.tla` also has `OnlyOwnersChangeRecords`: `Spec =>
RecordChangesByOwner`, from the same invariant: a step that writes a record is a
commit, or a failure, of an owner, or the creation of the session.

`Gr4RuntimeManagerProofs.tla`, for any sets of sessions, threads, objects, streams and
ports and every choice of `Exceptions` and `SocketsFail`, from `RuntimeAssumption`
(which keeps model values of different kinds apart, and says that `Websocket` and
`Authored` are what they are):

* `TypeCorrect`: `Spec => []TypeOK`
* `SectionsExclusive`: `Spec => []MutexDiscipline`
* `FreeObjectsConsistent`: `Spec => []ObjectsConsistent`
* `NothingIsOrphaned`: `Spec => []NothingOrphaned`
* `PortsAreExclusive`: `Spec => []PortsExclusive`
* `PortsAreAccounted`: `Spec => []NoPortLeaked`
* `OkIsDone`: `Spec => []OkMeansDone`

The argument. That an object is consistent when its mutex is free needs what the
holder knows of it while others run (`HolderKnows`): it is as the holder left it.
`NothingOrphaned` needs `EntryStands`: a lifecycle call works on the object the map
names for its session up to the end of the call, because no other lifecycle call on
that session is under way (`OneCaller`, from `CallerAllowed`), and `ErasedEmpty`: what
the map does not name holds nothing. The ports come down to one fact, that every
binding has exactly one keeper and every port in `allocated` is kept or in `lost`; one
step moves a port between a call, an object and the allocator, and the proof looks at
each. `OkMeansDone` (what a call has done when it returns without an error, and that
it is still so when the caller takes the answer), `OneEndpoint` and
`EveryStreamBound` are there for the two compositions.

`ControlPlaneProofs.tla`, from `ControlPlaneAssumption`:

* `TypeCorrect`: `Spec => []TypeOK`
* `RecordsMatchTheRuntime`: `Spec => []RecordMatchesRuntime`
* `CallerContractMet`: `Spec => MeetsCallerContract`
* `StepsOfTheService`: `Spec => Service!Init /\ [][Service!Next]_serviceVars`

Its `IInv` has the invariants of both parts and three things that link them: a task at
a runtime call has that call in the manager; an operation at its commit has achieved
what it is about to record (`CommitsWhatIsDone`, from `OkMeansDone`); and a session
without an owner has in the runtime what its record says. The manager's proofs rest on
its caller, and the service's on nothing of the manager, so the circle is broken
there: from exclusion in the service every call it makes is one `CallerAllowed` lets
in, and so every step of the composition is one of `Gr4RuntimeManager.tla`. Then both
parts' step theorems apply.

`EverySessionRuns`: `Spec => ImplementsSessionRun` follows from the same invariant and
three facts about a session at the moment of a step. Without a record it has no owner and
no entry in the manager, so that nothing can be launched (`AbsentIsLeft`). A commit that
writes "running" has the graph up, and the one that removes the record has it gone, by
`CommitsWhatIsDone`. And a step of the manager changes what serves only within a
lifecycle call, whose session has a record as long as its owner is in that call.
`StepRuns` goes through the steps of both parts with them.

`HttpProofs.tla`, from the same assumption and `ReadersAssumption`:

* `StreamsTypeCorrect`: `StreamSpec => []StreamsTypeOK` (proved only, no run checks it)
* `StraysAfterRelease`: `StreamSpec => StrayOnlyAfterRelease`
* `PagesTypeCorrect`: `PageSpec => []PageTypeOK` (proved only, no run checks it)
* `LeftAloneIsShownRight`: `PageSpec => []LeftAloneShownRight`
* `RoutesComposed`: `RouteSpec => PageSpec /\ StreamSpec`, and so both properties of
  threads that serve pages and upgrades at once

A stray connection would need two bindings of one port, which `PortsExclusive` excludes
as long as the first session keeps its own. For the pages, `PageTells` and `PlanTells`
say of an answer under way that what it shows of a session left alone is still so:
a session without an owner keeps its record and its entry in the map
(`UnownedStays`), and each claim of a lifecycle operation puts its session into
`touched`. The end of the process leads to a state with which these modules may start,
so that every invariant holds anew. Unlike the run, these theorems are about every
failure of the runtime and of sockets.

`HttpServerProofs.tla`, for any number of connections and of threads that call `stop`,
from `ServerAssumption`:

* `TypeCorrect`: `Spec => []TypeOK`
* `ThreadsAreJoined`: `Spec => []NoThreadAbandoned`, which is inductive with the types

`BlockCatalogProofs.tla`, for any finite registry of blocks, any number of threads and
any size of payload and pipe, from `CatalogAssumption`:

* `TypeCorrect`: `Spec => []TypeOK`
* `CatalogIsWhole`: `Spec => []CatalogWhole`
* `EveryChildReaped`: `Spec => []ChildrenReaped`
* `LoadedBeforeServing`: `Spec => []MainLoadsFirst`
* `BrowseIsCollapsed`: `Spec => []BrowseCollapsed`

`CatalogWhole` speaks of the end of a load, so `Faults` says how far it has come: of
each block that is done with, the descriptor was found unless something befell it, and
of the block in hand nothing has befallen it as long as its payload can still become
complete. `Requests` says that only one thread loads. `Load` says which child may be in
the kernel's table, that of the block in hand, and only from its `Fork` to its
`Waitpid`; with the two, `ChildrenReaped` follows. `LeastExists` (that a finite set
of numbers has a least element, by which the next block is chosen) is proved through
`WFMin` of the library.

`BrowseCollapsed` is about what a loop has computed. `Browsed` is a recursive function on the
sets of blocks gone through, which takes the last block of a set (`LastOf`) after the
rest; that it keeps one best entry per canonical type holds of the empty set and from a
set without its last block to the whole (`BrowseKeepsBest`). Induction over sets is not
to be had from the library here, so a set that lacks the fact and has the fewest
elements is taken (`SmallestExists`, again by `WFMin`) and the step refutes it.

`BlockSettingsProofs.tla`, for any graph, any number of clients, requests and runs, and any
width of integers, from `SettingsAssumption` (the updates are those the HTTP routes
let in, and `None` is not an update's effect):

* `TypeCorrect`: `Spec => []TypeOK`
* `OutcomesAreTruthful`: `Spec => []OutcomesTruthful`
* `ReadsAreCurrent`: `Spec => []ReadsSeeAcceptedWrites`

The invariant follows a request through the exchange. An id is given once and sent
once (`Ids`), so a message in the queue with a waiting request's id is its own, nothing
has come of it yet, and no reply carries the id; once a reply does, it tells what the
block did (`Waiting`). The run cannot change meanwhile, because the mutex is held
(`Locking`). That a read is current needs `Settings`: a block's settings are never older
than any update that was accepted, nor than one whose reply is under way.

Model-checked only:

* liveness (`EveryRequestEnds`, `ShutdownEnds`, `StopClosesBridges`, `BridgeEndsWhole`,
  `EveryRequestAnswered`, `EverySettingsRequestEnds`), and with it the fairness halves
  of `ImplementsLifecycle` and `ImplementsService`: outside the provers' reach.

## 6. Not modelled

* The manager's destructor, the plugin loader pool and the choice of a scheduler:
  they run before or after all requests, or are pure lookups.
* What reflection reads off a block, the JSON forms of descriptors and sessions,
  library search and staging, the fixed list of the static provider: translation
  without state.
* Response headers, and the parsing of requests: bodies that are not valid JSON, modes
  that do not exist and other malformed requests are refused before anything happens.
  The one that is not, a malformed percent-escape in the target of a websocket upgrade,
  ends the process and is modelled (`UpgradeTargetThrows`); in the handler of a route
  the same exception becomes an error answer.
* What the loader makes of a connection's ports once they have been translated.
* In settings, every kind of value but integers and arrays: the others convert
  without loss.
* A block whose constructor never returns, and a client that connects and sends
  nothing: the code has no timeout for either.
* The stub runtime manager (a test double) and the command line client (one request
  and one printed answer, no state).

## 7. Plan

Done: the service with its abstract specification, the runtime manager, their
composition, the GET and stream routes, the server's threads, the stream contract,
the catalogs and the settings exchange; and for each of them a theorem for every
safety property its run checks. What is left:

1. The safety content of the liveness properties of `HttpServer`: that a `stop` which
   waits for a bridge has closed it, `BridgeMissed` excepted, and that a pump that goes
   on has its sockets open; of `BlockCatalog`, that reader and child never both wait.
2. One model of `BlockSettings` and the full composition. They meet in `SessionRun`, which
   the one is proved to implement and the other takes its lifecycle from; that a
   settings request in turn lets every lifecycle call go on is checked of each alone.
