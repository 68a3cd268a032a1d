# Stork: TLA+ models and proofs

Stork monitors DHCP and DNS servers. An *agent* runs beside the monitored
daemons (Kea, BIND 9, NSD), a *server* collects what the agents see into a
PostgreSQL database, changes configurations of Kea, reviews them, and serves a
web UI. Both are Go programs under `src/stork/backend`. This directory holds TLA+ modules
of both programs, TLC configurations that check them on small instances, and
TLAPS proofs about them.

Contents: [parts of the system](#parts-of-the-system) ·
[modules](#modules) · [runs](#runs) · [bounds](#bounds) · [fairness](#fairness) ·
[proofs](#proofs) · [what the code does otherwise](#what-the-code-does-otherwise) ·
[not modelled](#not-modelled) · [plan](#plan)

To run a model: `tlc -config ZoneInventory.cfg MCZoneInventory.tla`; to check
proofs: `tlapm ZoneInventoryProofs.tla`. The module of each configuration is in
[Runs](#runs).

## Parts of the system

Paths are relative to `src/stork/backend`.

| Part | State it keeps | Operations | Hard behaviours | What makes it correct | Modules |
|---|---|---|---|---|---|
| Zone inventory of an agent, `agent/zoneinventory.go`, `agent/agent.go` | one state per DNS server, the stored views, goroutines, an unbuffered channel per stream | populate, load, receiveZones, the gRPC handler ReceiveZones | monitor, background tasks and concurrent calls; a reader that goes away; a DNS server that fails | long operations exclude each other; a stream is complete; a failed population is retried | ZoneInventory |
| Its files, the same file's storages and `viewIO` | a directory per view, a file per zone, a metadata file | save, load | a kill between two files; views that vanish | a load yields the inventory of one save | ZoneFiles |
| DNS manager of the server, `server/dnsop/manager.go` | fetching flag and counters, results by daemon; tables of zones and inventory states | FetchZones, its workers, batches | a pool of workers, partial failures, one retry of the call | every server is settled once; "ok" means stored; a round ends | ZoneFetch, ZoneFetchRound |
| Configuration manager, `server/apps/manager.go`, `server/apps/kea/configmodule.go`, `server/restservice/hosts.go` | locks by daemon, contexts with timers, the lock key | begin, submit, cancel, delete; expiry | handlers race with each other and with timers | no orphaned locks; a transaction keeps its locks; locks are released | ConfigManager |
| Changes of Kea's configuration, `server/apps/kea/configmodule.go`, `server/restservice/{subnets,sharednetworks,hosts}.go` | Kea's memory and files, rows of objects, configurations stored | add, update, delete of subnets, shared networks, hosts, global parameters | one command of several fails; retries; pulls meanwhile | success has reached all; the database claims nothing early | KeaChanges, GlobalParameters |
| Event center and SSE broker, `server/eventcenter` | map of subscribers, two channels per connection | AddEvent, dispatch, connect, leave, Shutdown | unbuffered channels used under a lock; clients leave at any time | order and completeness of streams, a shutdown that ends | EventCenter |
| Review dispatcher and its triggers, `server/configreview/dispatcher.go`, `server/apps/statepuller.go` | reviews in progress, a wait group, reports and summaries | BeginReview, run, populate, internal reviews, Shutdown, pull | configurations change during a review; restart; a failing database | one review per daemon; consistent reports; shutdown waits; retries | ReviewDispatcher |
| Checkers, `server/configreview/keachecker.go`, `util/cidr.go`, `appcfg/kea` | none: functions of a configuration | sixteen checkers | advice that contradicts other advice; prefixes at their limits | reports are true; following them ends | Checkers |
| Enabled checkers, `server/configreview/checkercontroller.go`, `server/restservice/config.go` | states in memory, preferences in the database | the two PUT requests, start | two stores written one after the other | a restart changes nothing | CheckerStates |
| Periodic executor and pullers, `util/periodicexecutor.go`, `server/agentcomm/puller.go` | interval, active flag, counted pauses, ticker | tick, Pause, Unpause, change of interval, Shutdown | handlers' pauses overlap with the loop's own | paused means quiet; enabled means running | PeriodicExecutor, Pullers |
| Puller of hosts, `server/apps/kea/host.go` | hashes of the pages of the last pull | pages, transaction | Kea changes between two pages | the database follows Kea | HostsPuller, Pullers |
| Connected agents, `server/agentcomm` | a map of agents, connections, error counters, a queue of requests | calls to agents, retry on a new connection, streams, Shutdown | reconnects, late answers, shutdown with queued requests | every request is answered; failures and recoveries are announced | AgentComm |
| Registration and certificates, `agent/register.go`, `agent/certstore.go`, `server/certs`, `server/restservice/machines.go` | five files of the agent, the server's secrets, the machine's row | register, authorize, ping, update, delete, renew | an agent killed between two files; lost answers; whole rows written back | authorization needs a grant; a registered agent can be connected | Registration |
| Applications of a machine, `agent/monitor.go`, `server/apps/statepuller.go`, `server/apps/kea/appkea.go` | processes, applications, daemons, networks, reviews | detect, merge, ask, commit, review | overlapping updates, restarts, old rows written back | no duplicates; nothing stays half stored; convergence | AppStates |
| HA services, `server/apps/kea/{service,status}.go`, `server/database/model/service.go` | rows of services, associations | detection, status puller, what users see | two pullers write the same rows whole | one service per relationship; the states shown are true in the end | HAServices |
| Subnets, shared networks and hosts in the database, `server/database/model/{subnet,sharednetwork,host}.go`, `server/apps/kea/{subnet,host}.go` | rows shared by daemons, local parts per daemon | match, merge, write whole rows, delete orphans | overlapping transactions, READ COMMITTED | rows have of each daemon what it has | Networks, Reservations |
| Statistics and leases, `server/apps/kea/{rps,statspuller,statisticscounter,lease}.go`, `util/bigcounter.go` | samples, intervals, totals | pulls, searches | restarts, rollovers, HA pairs, one server of several fails | sums are exact; nothing counts twice; the searcher knows what is missing | ResponseRates, LeaseStatistics, LeaseSearch |
| Exporters, `agent/promkeaexporter.go`, `agent/prombind9exporter.go` | gauges, what the last answers held | rounds, scrapes | one cache for two daemons; answers that end early | series have the right names and values | KeaExporter, Bind9Exporter |
| Users and sessions, `server/restservice/users.go`, `server/database/model/user.go`, `server/database/session`, `server/auth` | accounts, groups, passwords, sessions | log in and out, create, change, delete | many statements without a transaction | accounts are what the last request asked for | Access |
| Drivers of daemons, log tail, hooks, metrics, dumps, parsers, utilities, tools, web UI | hardly any | | | | [not modelled](#not-modelled) |

How the parts interact. The agent's monitor gives every detected DNS server
an inventory and populates it. A user's request makes the DNS manager call
ReceiveZones of every agent; the agent's handler feeds the stream from the
inventory, and the manager writes batches to the database. All other calls of agents go
through one queue. The pullers are functions of periodic executors; they call
agents and commit what they find; the state puller asks the review
dispatcher for a review when a configuration is new, and stores applications, networks, hosts and HA services.
Users begin a transaction on
a host, a subnet, a shared network or global parameters; the configuration
manager locks the daemons and later sends Kea commands through the agents. All parts
report events to the event center, whose loop stores and publishes them.
`server/server.go` starts and stops the parts; the event center is stopped before the
review dispatcher and the REST API.

## Modules

Each module names, in its header and comments, the code it stands for, and
PROJECT.json maps every definition to lines. The definitions listed there under "mutants" ("as")
are not part of a specification: they are variants of a
definition with a plausible bug, for which a property of the run must fail. Variables
marked *history* are read by properties only.

### ZoneInventory

One inventory. `state` is `inventory.state`; `populateTask` and `loadTask` are the
goroutines of `populate()` and `load()`; `monitor` is the monitor between
`isReady()` and `populate()`, which lock separately; `call[c]` is a gRPC
handler, `producer[c]` its goroutine, `left[c]` what its iterator has not
yielded, `taken[c]` what the handler got, `total[c]` the announced count.
`CanTransition` is `transitionUnsafe`; each acquisition of the inventory's mutex is one
action. `Produce` is the rendezvous on the unbuffered channel; the
handler cannot take another zone before `server.Send` returns.

Abstractions: zones are a set (views and order are in ZoneFetch); the
filters of ReceiveZones are left out (the server sends none of those that
would matter, see [below](#what-the-code-does-otherwise)); the call slot `c` is used again
only when its old producer is gone; a save to disk may leave any subset of
the old and the new zones (ZoneFiles has the steps). The agent
creates memory storages only; the other two kinds are exercised by the code's
tests, as is `load()`, and are modelled because they share the state machine.

### ZoneFetchRound and ZoneFetch

`ZoneFetchRound` is the promise: a round covers a fixed set of applications,
settles each exactly once, and ends. `ZoneFetch` is FetchZones: `fetcher` is the
background goroutine, `worker[w]` a goroutine of the pool with its local
variables (`app`, `state`, `view`, `batch`), `appsChan` the closed channel,
`results` the map from a daemon to the state object, which is named by the worker that owns it.
`Receive` is one pass of the loop over zones with `Batch.Add` or `FlushAndAdd`;
the transaction of `AddZones` stores all rows of a batch or none.
`StatusOf` has the reasons the agent really sends. The refinement mapping takes
a round to be active while the goroutine waits, and an application to be pending
until it is in `results`.

Abstractions: an application has one daemon; counts of zones in the
state object are dropped, the error is named by the application that
caused it; a worker's identity is used again in the next round (its
predecessor may still have to notice the empty channel, which changes nothing).

### ConfigManager

`key`, `locks`, `contexts` are the manager's fields; `tx[t]` is what
the context of transaction `t` carries, with the phase of the handler that begins it;
`timer[t]` is the goroutine of RememberContext; `req[r]` is a later
submit, cancel or delete. `LoadKey` and `StoreKey` are the two halves of the unsynchronised
increment in `generateKey`. `Lock` is one action because it runs under the mutex, and
takes locks in any order of the owners. `Send` is one command to one
daemon; `Store` is the update of the database after all commands.

Abstractions: after the handlers of hosts; an object is known only by the
daemons that own it; contexts' random identifiers are distinct; each transaction and
request is used once, which bounds a run.

### KeaChanges

What the transactions of ConfigManager do to Kea and to the database. `kea[d]` is what
daemon `d` has in memory and in its file, `db` the rows with the content for each
daemon, `seen` the configurations the database has, `txn[u]` a user's transaction with
the commands not yet sent and the object read before the lock, `pull` a configuration
the state puller has read and not yet stored. One object of a chosen kind (`topic`) is
added, updated or deleted: `Plan` has its commands in the order of the code, `Send` sends one of them,
which may fail, `Commit` updates the database. The four kinds of transactions that update share
`Lock` and `Submit`; each has its own `...Begin` and `Submit...` action, as in `configmodule.go`.
A content is a number; reservations in configuration files and conversions are left out.

### PeriodicExecutor, HostsPuller and Pullers

`PeriodicExecutor` has the goroutine, the ticker, the count of pauses and the setting in the
database; time is left out: an armed ticker may fire at any moment. `HostsPuller` is one
daemon's pull by pages: `it` is the iterator, `trace` the pages of the last pull
whose hashes the puller keeps, `tx` what the transaction that begins at the first difference has written. `Pullers`
composes the two: a pull begins when the executor runs its function, and `loop` goes on when
it returns; a restart of the server restarts both.

### Registration

`store` is the agent's five files, written by a removal and a write each (`FileStep`);
`agent` the process in `Register` and the order of its file operations, `row` the machine, `hs[h]` a
handler of the server between its read and its write of the row, `srv` the secrets.
A certificate is the key it certifies and the CA that signed it, a token the key it is a fingerprint of, so
that "can be connected" (`Connects`) is a matter of which values belong together.

### AgentComm

`proc` has the communication loop and one stream of zones, which share the steps of a
connection (`Connect`: create the entry, close, open, make a client); `caller[c]` queues a request,
waits and counts the answer in `failing`; `announced` is what the events have
last said. Two entries are enough for one to replace another in the map.

### AppStates and HAServices

`AppStates` follows Kea's applications from the processes (`procs`) over the monitor
(`detected`) into the database (`apps`, `nets`, `begun`): `job[u]` is an update by the puller or a user,
which works on its own copies; `copy` is a row of a daemon that somebody else is about to write back. `disturbed` records that
two updates have overlapped, or that one asked a CA that had started again where detection does not see it: then networks may be missing (see below).
`HAServices` has one relationship of two servers; `update` is the detection and commit of one application, `pull` the
status puller with its copies: the applications as a round found them, of which it asks only servers that are `active`
(`GetActiveDHCPDaemonNames`), and the services of one. `getKeaServicesStatus`, `GetDhcpOverview` and `Passive` are what users and the
statistics puller get from the rows. `Passive` goes over all rows, as `GetPassiveHADaemonIDs` does. None of them is without
daemons: with the last association of a service, a trigger deletes the service and its HA part
(`wipe_dangling_service`, `server/database/migrations/23_ha_failover.go:25`), in the transaction that deletes the association.

### EventCenter

`loop` is the main loop of the center and of the broker's `dispatchEvent` and `shutdown`,
which run in it and hold the lock of the map (`Locked`); `streams` is
the `SSEStreams` field of the one event object all subscribers share;
`conn[s]` is the handler of a connection. `Offer` matches a subscriber
and stores the streams, `Deliver` is the rendezvous on its channel. The filters
that a query gives (identifiers, level, application by type, daemon by name) and the relations that
an event's objects give it are modelled; the URL is not.

### ReviewDispatcher

`kea` is what the daemons run with, `config`, `reviewed`, `reports` are the
database; `state` is the map of reviews in progress; `reviews[d]`
the goroutines of `runForDaemon`; `worker`, `job`, `todo` are `awaitReports` with
the review it handles; `view` is a user who reads a summary and reports. `Begin` is the critical section of `beginReview`; `Start`
comes after it, because `reviewWg.Add` does. `PullRead`, `PullCommit` and `PullBegin` are the
state puller for one daemon. `Restart` ends and restarts the server in any state.

Abstractions: a configuration is a number that grows with every change, standing for its hash;
checkers are enabled for every daemon and trigger (CheckerStates has the enabling); the first, read-locked check
of the map is merged with the one under the write lock; a pull handles the daemons
one by one; `MaxReviews` = 1
means that a new review of a daemon begins after the old goroutine's `Done`.
The checkers of the server refer to no other daemon; the run
uses references like those of the dispatcher's tests.

### MCParts: twelve parts that share no state

These modules describe parts that do not touch each other's state, each with
its own `Init`, `Next` and properties. `MCParts` checks them in one run: an initial state chooses
a `part`, only that one moves, and the state space is the disjoint union of theirs. Its properties are named after
the kind of promise, and each says `part = "x" => ...`. It is a way to run twelve small models at once and
claims nothing about them together. The constants of the eight parts about which theorems are proved (CheckerStates, ZoneFiles, both exporters,
ResponseRates, LeaseStatistics, LeaseSearch, GlobalParameters) are constants of MCParts, with values in `Parts.cfg`; the others have concrete values there.

| Module | State and actions | Property |
|---|---|---|
| Checkers | an administrator edits a configuration and then follows the reports; addresses have three bits; each checker is an operator of the configuration | ReportsAreTrue (overlaps are exactly those pairs that share an address; out-of-pool mode is advised only where it loses no reservation), RepairsEnd |
| CheckerStates | two users' PUT requests change the controller, then the preferences, one by one; failures, restarts | RestartsLoseNothing |
| ZoneFiles | a save removes the metadata, recreates views file by file and writes the metadata; kills and failures between any two, also of the removal, which goes unnoticed; loads | RestartsLoseNothing |
| Access | two browsers: logins by password or hook, creation, changes, deletions, statement by statement | RowsAreAsAsked |
| Reservations | two daemons, configuration and host database: transactions read hosts, join and write whole rows, wait for each other's rows | RowsAreAsAsked |
| Networks | the same for subnets, pools and shared networks; orphans are deleted at the end of a transaction | RowsAreAsAsked |
| KeaExporter, Bind9Exporter | rounds of two daemons with one cache of prefixes; scrapes of two servers, answers that end at any part | ExportsAreTrue |
| ResponseRates | samples, intervals, two windows; a pull from the call over Kea's reading and the answer to the rates, with packets and time in between; restarts of both programs, rollovers, lost calls and rows, ageing | RatesAreTrue |
| LeaseStatistics | subnets of three daemons, two of them in HA; counters beyond 64 bits (`MaxUint`), reservations | StatisticsAreExact |
| LeaseSearch | an application after the other is asked; leases come and go, calls fail | SearchIsHonest |
| GlobalParameters | forms of two users for several daemons, config-set, config-write, pulls, other changes of Kea | SuccessIsTheForm |

### MC modules and proofs

`MC<Module>` gives constants that need an expression; `<Module>Proofs` holds theorems. MCKeaChanges, MCHAServices and MCAgentComm also
instantiate their module with constants and variables of other names, so that theorems about it can stand beside those of another part:
ConfigManagerProofs has those of AgentComm and KeaChanges, the way the configuration manager's commands take, and PullersProofs those of HAServices,
whose rows two pullers write. PartsProofs has the theorems of EventCenter and of six parts of MCParts; FetchProofs those of ZoneFetch and of the two parts that, as it, store what the server fetches, ResponseRates and LeaseStatistics. What an instantiated module names as its assumption is assumed, and so evaluated by TLC, in the MC module.

## Runs

| Run | Module | Shows |
|---|---|---|
| `zone_inventory` | MCZoneInventory | For three kinds of storage and two concurrent calls: populate, load and streams exclude each other, a stream is complete, a failed population is retried, and a stream ends if no reader gives up. |
| `zone_fetch` | MCZoneFetch | Two workers, two servers: a worker that reports ok has stored every zone, no batch names a zone twice, progress counters are exact, no application is lost, and the manager implements `ZoneFetchRound`. |
| `config_manager` | MCConfigManager | Two transactions, two later calls, timers: no orphaned lock, a live transaction keeps its locks if lock keys differ, locks are released. |
| `kea_changes` | MCKeaChanges | Two users, two daemons of different versions, failures, restarts of Kea, pulls: a change that ends well is in memory, file and database; the database never claims what Kea has not had. |
| `event_center` | MCEventCenter | Events in the order of the database; regular streams have what was asked for; while no client leaves, a shutdown ends. |
| `review_dispatcher` | MCReviewDispatcher | One review per daemon; reports and summary, in the database and as shown, are of one review; shutdown waits for reviews that were in progress; a daemon gets its first review in spite of failures, changes and restarts. |
| `pullers` | Pullers | Pauses and resumes balance over changes of the interval; the database has nothing Kea has not had, agrees with Kea after a quiet pull, and comes to agree when changes and failures stop, unless a change could not be noticed. |
| `registration` | Registration | Nobody is authorized without a grant; a registered agent has its five files; unless it was torn by a kill, or the server's secrets changed, it can be connected. |
| `app_states` | AppStates | No duplicates; a stored configuration has its networks and a review; in the end the database has what runs. |
| `ha_services` | MCHAServices | Never two services of one relationship; in the end users see the states of the servers, and the right server's statistics count. |
| `agent_comm` | MCAgentComm | A taken request is answered, callers find the first failed command, what is announced as failed is failing, and recoveries are announced in the end. |
| `independent_parts` | MCParts | The twelve parts above. |

Deadlock is checked by `zone_inventory`, `zone_fetch`, `registration`, `app_states` and `ha_services`. It is not in the others, where the
system may stop: transactions, submits or requests are used up, a shutdown
is complete, the server has panicked, or, in the event center, the loop is stuck
behind a client that left.

Every property has a variant of a definition (listed in PROJECT.json) under which its run fails.

## Bounds

Changes of the environment, failures and restarts are bounded by constants named `Max...`, which appear in guards; nothing
else is cut off, and no configuration has a state constraint.

- `zone_inventory`: two calls are enough for one to stream while the other is refused, and for
  an old producer beside a new call; two zones give partial streams; population and loading are not bounded.
- `zone_fetch`: two workers and two servers give a worker that takes both, and one each.
  The contents are chosen so that one zone name occurs in two views (the batch must be
  flushed in between), a stream is empty, and a batch of two is filled by the last zone. Rounds are not bounded.
- `config_manager`: two transactions, one on an object of two daemons and possibly one on an object of the second
  daemon only, so that a lock is refused after another one was taken; two later calls, so that a double
  end of a transaction or a deletion may interfere. One user: no property tells users apart.
- `kea_changes`: two users (interchangeable: symmetry), two submits with new contents, one fault of a command, of the database or a restart
  of Kea; daemons before and after 2.6.0, of which one is sent config-reload; a subnet that may be in a shared network is checked without faults.
- `event_center`: two events, one on a special stream; two subscribers with different filters and one that is
  refused, so that one is skipped while the other one is visited.
- `review_dispatcher`: two daemons, one refers to the other; one change of a configuration;
  one review asked by a user, or one restart; the puller is not bounded.
- `pullers`: one subnet besides the global place, two reservations, one on a page, so that a reservation can move between two pages
  of a pull; one change, one fault, one handler, one change of the setting; the intervals are disabled, 10 seconds and the
  60 seconds of a disabled executor.
- `registration`: five names of keys, which are used again when nothing refers to them; two handlers; two faults; one
  action of an administrator or command.
- `app_states`: two ports and an NSD process, in any order; two changes of the machine; two failures, restarts or rows written back,
  or one refresh by a user, which counts twice. What needs more changes is covered by the proofs of `NoDuplicates` and `StoredIsComplete`.
- `ha_services`: two servers, one of them authorized later; two changes.
- `agent_comm`: two callers, a stream; a DHCP daemon behind the CA, and named; one fault.
- `independent_parts` (distinct states of each part in brackets): checkers, three edits of a configuration with prefixes that
  overlap, are not canonical or cover one address (38,644); states of checkers, two requests (54,648); access, four
  requests (165,846); Kea exporter, two changes (23,641); BIND 9 exporter, three (6,439); rates, three units of time and a counter of two
  bits and a sign (163,621); statistics, two changes, 64 bits are 7 (44,310); search, one change (86,346); parameters, two submits and one
  outside change (166,426); reservations, one edit, one client, two addresses (51,833); networks, one edit, one network
  and prefix with two contents (64,809); files, two saves of two views with one zone (15,253).

## Fairness

Weak fairness is on goroutines that can run: Go's scheduler runs them. Beyond that:

- ZoneInventory: `Populate` is fair, so the DNS server answers or refuses. The HTTP client of
  BIND 9's statistics has no timeout; a server that accepts the connection and never answers is excluded.
  `SendOk \/ SendFails` is fair: gRPC delivers or breaks the stream. Nobody has to call ReceiveZones or load.
- ZoneFetch: workers are fair: agents and the database answer, or the connection breaks. Nobody has to start a round.
- ConfigManager: fair are the handlers that begin a transaction, and timers. Users need not submit or cancel;
  only the timer guarantees that locks are released.
- EventCenter: the loop, connections and the end of a shutdown are fair; clients read what is written to them.
  A client that neither reads nor closes blocks the handler, and is excluded.
  `ShutdownEnds` supposes that no client leaves.
- ReviewDispatcher: the puller's ticker comes back; strong fairness on `Populate` says that the database does not fail for
  ever. `FirstReviewIsRetried` needs it: each failure is retried by the next pull.
- Pullers: the ticker fires, the loop and the function go on, handlers leave. Strong fairness says that the setting can be
  read again and again, and that Go's `select` receives from `done` although ticks compete.
- AppStates and HAServices: the monitor's and the pullers' tickers come back, and what they have begun goes on; HA partners
  exchange heartbeats and follow their state machine. Users need not refresh. `Converges` of HAServices supposes that from some time on the
  two pullers no longer overlap, because each may overwrite the other's rows again and again.
- AgentComm: callers (the pullers) call again and again; strong fairness on taking a request of each kind and on connecting, because
  the other process may close the connection in between: the channel's queue is served in order.
- MCParts: only the administrator who has begun to follow reports goes on. KeaChanges and Registration have no fairness: they check no liveness.

## Proofs

TLAPS proves the following for all values of the constants that satisfy the named
assumptions, with Z3, Zenon and LS4.

**ZoneInventoryProofs**, from `StorageAssumption`, `NoViewsAssumption` and `ZonesAssumption` (a server has finitely many zones). `Invariance`
proves that `IInv` holds in every reachable state. `IInv` strengthens the invariants of the run by `TypeOK` and

- `StreamIsSnapshot`: what was taken and what is left are together what was counted;
- `StreamPhases`: what a handler's and its producer's phase say about the zones taken.
  Without it, completeness is not inductive: after the producer has left RECEIVING_ZONES a new
  population may replace the views, and only the count that was taken tells that the stream was complete;
- `ViewsPhases`: when the storage certainly holds views; populate passes through a state where they are stored and `state` is not yet POPULATED.

The argument: `transitionUnsafe` admits one long operation at a time (`MutualExclusion`); so while a
producer streams nobody replaces the views, and what is taken and left stays equal to what was counted
(`Snapshot`); so an orderly end has delivered the announced number (`Completeness`). `TypeCorrect`, `ServesStored` and the action property
`ExclusiveReplacement` follow from the same invariant. There is one lemma per action, with a step per conjunct.

**ConfigManagerProofs**, from `OwnersAssumption`, `TargetsAssumption`, `DaemonsAssumption` (finitely many daemons) and `NoOneAssumption`.
`IInv` is `TypeOK`, `NoOrphanLocks`, `LiveHoldsItsLocks` and `Phases`, which says that a remembered or timed
transaction has begun, that only transactions that locked carry daemons, and that the key of such a transaction is
positive (0 stands for no lock). `UnlockLocks`, `RollBackRestores` and `LockLocks` are lemmas about the operations on the map of
locks: in particular, a refused `Lock` restores the map it found, for any order of the daemons. `TypeCorrect`, `NoOrphans`, `LocksAreKept` and the action property
`RefusalIsClean` follow. `LocksAreKept` keeps its condition that lock keys differ, which the unsynchronised `generateKey` does not guarantee.

The same module proves, of AgentComm, `AnswersAreTrueAlways` and `AnnouncedIsFailingAlways` from `AgentCommAssumption`. `AgentInv` says who has an entry of the map:
the second entry is created only by one process while the other has the first (`EntriesFit`), whoever calls or has called has an entry (`CallsHaveEntry`), and the loop
works for the one caller who waits (`Served`). So an answer that is counted always has counters to go to, and without an entry nothing was counted (`NothingCounted`). `ErrorsHavePlaces` follows the two
passes over the commands of a call, which write errors into one list: the first error that a caller finds is that of the first command that failed.

Of KeaChanges it proves `NothingClaimedEarlyAlways` from `KeaChangesAssumption`, for any number of daemons, users, rows and faults. What the database will claim passes through plans, commands, rows read before a lock, and configurations that a puller has read, so
`KeaInv` says of each of them what must hold of the row that may come from it: contents in Kea, in memory and file (`KeaFits`), in rows (`DbFits`) and in a pull (`PulledFits`) were had by their daemon, and what
a transaction is to store was had by its daemons, or is given by a command that is still to be sent (`TxnsFit`). `PlanIs` says it of every plan when it is made. Plans are made of `ForEach`, a recursive function over the order of the daemons; `ForEachIs`, what it
contains and that it is a sequence, is proved by induction in the form of the least counterexample, which needs no theorem with an operator as a parameter.

**ReviewDispatcherProofs**, from `RefsAssumption` (no daemon refers to itself), `OrderAssumption` (the puller visits every daemon, and there is one) and
`BoundsAssumption`: `OneReview` and `ReportsMatch`. `IInv` relates the map of reviews in progress to the goroutines and jobs that exist (`Exclusive`: at most one
goroutine of a daemon has not handed its review over, none while the worker has one, and the map knows it), the wait group to the goroutines that have passed `Add` and not
`Done` (`WaitGroup`, a cardinality: so it is never negative), and the reports to the reviews to come (`NoReportsYet`: a daemon that an internal review is to visit has no reports).
`Reading` says what a user sees between the reads of reports and summary, `Awaiting` for whom a shutdown that was called waits.

**PartsProofs** proves of EventCenter, from `StreamsAssumption`, `NoOneAssumption`, `OneOfAKind` and `OneOfAType`: `EventsAreInOrder` and `RegularStreamGetsAll`. `OrderInv` says where the event that the main
loop holds is: not in the database while it is saved, its last row afterwards, and not yet with a subscriber that is still to be visited. `StreamInv` adds that the streams which the loop keeps in the event for
the subscriber it is blocked on are that subscriber's (`OfTarget`), and that everyone visited has what it asked for (`Visited`). `OneOfAKind` and `OneOfAType` are conditions: the code keeps one identifier
of each kind of an event, and the first application of a type (see below).

Of MCParts it proves four properties for any values of the constants of the parts they are about, from `StatesAssumption` (daemons are not the global scope; each has checkers of those there are), `FilesAssumption`
(a bound is a number) and `SearchAssumption` (what a lease, a text and a host of LeaseSearch are). `PartsInv` has the invariant of each part under its name, and a part that does not move keeps its own:

- `RestartsLoseNothingAlways`. `StatesInv` says of each change of a request that nobody disputes how far it has come (`Advanced`): before, in the controller and not yet in the rows, in a row, deleted because it stands for nothing; two
  requests that touch the same state dispute it (`ChangedAlone`). `FilesInv` says of a save between any two of its file operations which files are those of the save (`ViewsAreWhole`) and that no metadata can be read until all are, except metadata that could not be removed (`MetaIsRemoved`).
- `ExportsAreTrueAlways`. In a round, the daemons that have been handled are exported with their own prefixes (`HandledAreExported`), because the cache is dropped when the family changes (`setFamily`) and what is fetched
  is the list of that family; `Bind9ExporterInv` says that the statistics of an answer that was not parsed to its end are not given.
- `SuccessIsTheFormAlways`. `FormInv` follows a transaction: it has the lock of each of its daemons, so their configurations are as shown, or overlaid by its form (`Overlaid`); each command that was sent has its form in Kea (`SentSoFar`), and in the file
  after config-write, unless the daemon is disturbed.
- `SearchIsHonestAlways`. `SearchGoesOn` says that every application before the one that is asked has answered or is named (`PastAreAnswered`), that of the one being asked the addresses before the one in hand are answered (`AskedAreAnswered`), and
  that whatever was found is looked for. `Answered` is about leases held throughout the search, so leases that come and go while it runs disturb nothing.

**FetchProofs** proves of ZoneFetch, from `AppsAssumption` (finitely many applications), `PoolAssumption`, `ContentsAssumption` (an agent streams view by view and no name twice in a view) and `NoViewAssumption`. `IInv` says that each
application of a round is in the channel, with one worker, or settled (`Shares`), that the counters count them (`Counts`), and for each worker (`Local`) where the zones of its stream are: the first are stored,
the next are in the batch and of one view, the others are still to come (`Received`). An end of the stream then leaves everything stored (`Stored`), and a batch never names a zone twice (`BatchFits`).
`ResultsTrue` follows, and `RoundsAreImplemented`: initial states and steps of ZoneFetch are those of ZoneFetchRound, or leave it unchanged.

Of MCParts it proves two properties, with `CountsInv` for the two parts. Both are about sums over sets of any size. The models' sums are `MapThenSumSet` and `FoldSet`, functions over subsets that are chosen by their equation: `HasSums` shows that there is one for every
finite set, `SumsAgree` that the choice does not matter, and `AnyFirst` that neither does the order, each as a least counterexample; from these come the rules the steps use (`SumOfOneMore`, `SumBelow`).

- `RatesAreTrueAlways`, from `RatesAssumption` (windows, the counter's limit and the bounds are numbers). `NoneTwice` says, of any time: the responses in the rows that begin at it or later, with those of the present interval if that does, are no more than Kea sent since, or
  before it within the time that the slowest answer so far took (`slowest`). While an answer is on its way, the interval of its sample and the next one are bounded together (`AnswerIsNew`): what Kea sends after it has read its counter is in the next
  interval, which may begin later. Restarts only lose, a sample turns the present interval into a row or drops it, and a rate is what such rows contain.
- `StatisticsAreExactAlways`, from `LeasesAssumption`: daemons and subnets are finitely many, what a daemon counts of a subnet fits 64 bits, and the sum over the daemons of an IPv4 subnet does too, as the comment on `sumStatLocalSubnetsIPv4` says. `AddIs` and `SumOfCountersIs`: adding counters, which keep a number
  in 64 bits as long as it fits and as a big integer from then on, gives the counter of the sum. `LeasesInv` says of a pull that nothing has disturbed so far (`QuietPull`) that the apps handled have stored what their daemons have (`StoredUpTo`),
  daemons without the hook nothing (`HooklessAreEmpty`), and that what is counted from it, and then written row by row, is exact (`Exact`). All daemons that serve a subnet and count, the passive server of a pair apart, report the same of it, so each sum is a product.

**PullersProofs**, from `HostsAssumption`, `IntervalsAssumption` and `HandlersAssumption`. `PulledIsHad`, the database never has a reservation in a place where
Kea has not had it: a commit writes what a transaction collected from pages that were read at different
moments, so `HadInv` says the same of the open transaction (`TransactionHad`) and of the iterator's pages (`PagesHad`). `PullsMirror`, an undisturbed pull leaves the database with what Kea has unless the hashes
missed a change: `MirrorInv` says that a transaction holds what the pages hold (`TransactionHasPages`), that without one the pages equal the trace so far (`NothingDiffers`), that the trace is
what the database has (`TraceIsStored`), and that the pages of a pull during which Kea did not change are everything before the iterator's position (`NothingIsLeftOut`). `PausedStaysQuiet`, of the composition: `ExecutorInv` ties the count of pauses to the handlers inside and the running
function, also after a change of the interval has forgotten pauses, and the ticker to the count. `PullersPull`: each behaviour of the composition is one of HostsPuller, so the first two hold of it.

The same module proves `OneServiceAlways` of HAServices from `HAServicesAssumption`: never two services of a relationship while the updates of the two servers' machines do not overlap. The status puller writes its
copies of rows back, so `HAInv` says of these, as of the rows, that there is at most one (`Single`) and that it is not taken for a new one (`Numbered`); a service has daemons (`Associated`), so an update finds it; and what an
update has detected, and is about to match or else to create, is the only service, or there is none (`DetectedIsThere`).

**RegistrationProofs**, from `KeysAssumption`, `HandlersAssumption` and `BoundsAssumption`. `AuthorizationIsGranted`, an authorized row holds a token that was let in: handlers write whole rows that
they read, or decided upon, before; `GrantInv` says the same of what each handler holds
(`DecisionsGranted`, `CopiesGranted`). `FreshKeyIsFresh`: the name of a new key is nobody's token, so forgetting its grant takes nothing from them. `RegisteredHasFiles` and
`RegisteredIsConnected`, an agent that is registered has all its files and files that belong together: between two file operations neither holds, so `RegInv` says (`Plan`) that the operations which are left lead from the files
on the disk to files that are complete, and belong together unless the agent was killed in between; that no CA on the disk or about to be written is newer than the server's (`CasAreOld`); and that the request or the answer under way was made for the files
the agent has (`Waits`). `WriteLeads`, `CreateLeads` and `StoreLeads` say where the three sequences of operations lead from any files.

**AppStatesProofs**, from `AppStatesAssumption` (finitely many ports, none of them the NSD process). `StaysUnique`, no two applications on a port and no two daemons of a name, and
`StoredStaysComplete`, what is stored has its networks and its review. Updates and writers of rows store copies that they read earlier, so `IInv` says of every copy what must hold of the row that may come from it.
`Identity`: over all copies, a number is that of one daemon of one application (`Owned`, `Named`), and an update has an application once (`Once`); a commit thus replaces what it copied. `Reviews`: each configuration in a copy is reviewed or about to be,
except the one an update has just read and has not committed. `Kept`, unless `disturbed`: there is `OneUpdate`, and the copies of a configuration that is still Kea's agree on it and on the port (`StoredKept`, `CopyKept`), and its CA is
seen and stays in the list of applications found (`Sees`). Without that last part a CA that is lost could have its row taken over by another one, and come back with the hash it had and without its networks:
with more changes than the run has, TLC found this behind an NSD process, which is why `disturbed` covers it. `Versions` says that configurations of different CAs differ. Steps that
leave the database alone share the lemmas `GoesTypes`, `GoesIdentity`, `GoesReviews` and `GoesKept`; the transaction has one lemma for each part of `IInv`.

The properties of the runs that are proved are `OneLongLastingOperation`, `OkStreamIsComplete`, `NoOrphanLocks`, `LiveHoldsItsLocks`, `OneReviewPerDaemon`, `ReportsMatchReview`, `EventsInOrder`, `RegularStreamIsComplete`,
`ResultsAreTrue`, `OnlyWhatKeaHad`, `PullMirrors`, `PausedIsQuiet`, `AuthorizedByGrant`, `RegisteredIsComplete`, `RegisteredConnects`, `NoDuplicates`, `StoredIsComplete`, `OneService`, `AnswersAreTrue`, `AnnouncedIsFailing`,
`NothingClaimedEarly`, `RestartsLoseNothing`, `ExportsAreTrue`, `SuccessIsTheForm`, `SearchIsHonest`, `RatesAreTrue` and `StatisticsAreExact`; of the refinement of `ZoneFetchRound` everything but its fairness. The remaining theorems state invariants and action properties that no run lists.

Only model-checked: liveness and that refinement's fairness, which the prover cannot express; `SuccessAgrees` of KeaChanges, whose proof would have to give the effect of every prefix of every plan on Kea;
and two properties of MCParts: `ReportsAreTrue`, about cardinalities of lists with limits,
sorted lists and the powers of two of addresses; and `RowsAreAsAsked`, of which Networks builds its configurations with folds and Access and Reservations reuse the numbers of rows.

## What the code does otherwise

Facts about the code met while modelling. The models follow the code, and properties that such a fact would break carry a condition that names it.
A hazard in PROJECT.json that the code does not withstand has a note instead of a property: the model has the behaviour, the property's condition leaves it out, and this section says what happens.

**Zone inventories and fetching.** A reader that gives up (`agent/agent.go:600` returns without draining the channel) leaves the producer blocked and the
inventory in RECEIVING_ZONES for ever: `StreamEnds` supposes that nobody does. A worker's state object is allocated once
(`server/dnsop/manager.go:195`), so the error or count of a server is recorded for the next ones of the worker. The agent gives the reason `ZONE_INVENTORY_BUSY_ERROR` (`agent/agent.go:577`), the server
expects `ZONE_INVENTORY_BUSY` (`server/agentcomm/grpcli.go:1017`): a busy inventory is recorded as erred. The server's client
does not pass `LoadedAfter` and `LowerBound` on. On disk, the error of a view that could not be recreated is overwritten by that of the metadata, vanished views stay
(`agent/zoneinventory.go:296`), missing metadata ends the agent when it is loaded. `removeMeta` is to ignore a file that is missing (`agent/zoneinventory.go:320`), but every error
of `os.Remove` is a `*fs.PathError`, so it ignores them all: a save goes on under metadata it could not remove, and when it is killed then, the mixture is loaded as an inventory. `MetaIsOfWholeViews` names this and the views that could not be recreated (`mixed`).

**Configuration manager.** `generateKey` runs outside of the mutex (`server/apps/manager.go:68`): transactions may get equal keys, and the end of one then
removes the locks of the other. A submit sends commands to the daemons the user assigns, which are not those that were locked, whereas `doc/user/overview.rst:100` promises locking. `GetRecipeForUpdate` returns a
shared pointer. `Schedule` and `CommitDue` exist, nothing calls them.

**Changes of Kea.** Objects, and the configurations that global parameters are merged into, are read before the lock; a refused form has already been merged in place; empty fields are explicit nulls and remove parameters. A pull
between the commands of a new subnet and the update of the database makes the subnet recorded twice (`configmodule.go:1163`). A daemon added to a subnet of an unchanged shared network is
never sent network-subnet-add (`configmodule.go:1294`). Deletions are not locked; an addition that reached some daemons cannot succeed when it is repeated. `DeleteSharedNetworkWithSubnets` runs statements outside
of its transaction (`sharednetwork.go:436`). config-set without config-write leaves Kea with an unsaved configuration. A subnet added while a form of global parameters is open is lost by its config-set.

**Event center.** The streams that one subscriber matches are stored in the shared event (`sse.go:110`), so a later subscriber may get it as a regular event
its filter refuses. The loop sends on a channel under the lock that a leaving handler needs (`sse.go:111`): loop and shutdown may block for good. Of several applications of one type on a machine only one can be followed by type; of several objects of one kind an event keeps the last.

**Reviews.** The refusal of a review while another is in progress is ignored (`statepuller.go:346`), and nothing looks outdated afterwards. With all checkers
of a daemon disabled, old reports stay. A user may be shown the summary of one review and reports of another that began in between.

**Checkers.** IPv4 pools in CIDR form are not recognised as containing an address (`util/cidr.go:173` compares 4 with 16 bytes), so out-of-pool mode is recommended where it should not be. `IsInAnyReservationModes` lets
a higher level's yes win over an explicit no, contrary to its comment. Subnets of one address are passed over by the search for overlaps; a non-canonical /0 is said to be canonical as a prefix of one address. Addresses reserved in file and database count twice.
Requests that change states of checkers for all daemons skip unknown states silently; two overlapping requests, one that fails after the controller was changed, or one that names a checker twice leave controller and database opposed.

**Executor and pullers.** A new interval of exactly 60 seconds does not enable a disabled executor (`periodicexecutor.go:180`). A change of the interval forgets handlers' pauses. `Pause` does not wait for a
running function. Host pages that vanish at the end of the list, or move to another subnet unchanged, are not noticed (`host.go:288`).

**Agents' communication.** `createClient` reads the connection outside of the mutex (`agentcomm.go:142`), and a new entry is in the map before it is connected: a nil connection ends the server. A second try of a failing
call closes the connection under a stream of zones. Callers that send while Shutdown closes the queue panic. Answers that cannot be parsed are counted without an event. Some paths of the agent omit a response or overwrite an error (`agent.go:365`, `480`). One slow agent blocks all callers.

**Registration.** Killed between the new CA and the new certificate, an agent is told of a conflict until it is registered by hand; between a new key and the removal of the certificate, it has a pair that does not match and passes `IsValid`; between removal and write of the fingerprint, it has a
zero fingerprint. A new server certificate of the same CA leaves agents with the old fingerprint. Authorizations and withdrawals may be undone by rows that are written back (never without a grant).

**Applications and HA.** An update that found its configuration unchanged writes its copy over another's newer one and skips the networks, which then may be missing for good (`appkea.go:641`). A new application is stored as inactive. An NSD process hides the processes
listed after it (`monitor.go:327`): a CA that starts again there is still asked until the next detection, then taken for lost, and another CA may take its application; when it is seen again with the hash of an old row, its networks are skipped. A restart between commit and BeginReview loses the review. Events are published in the middle of transactions (`appkea.go:670`). Overlapping updates of the two servers' machines can create two services; `LastFailoverAt` moves
at every pull in partner-down; `GetDhcpOverview` uses the first failure time for all relationships.

**Rows shared by daemons.** Overlapping transactions write whole rows back: an association removed or added meanwhile comes back or is lost, and equal hashes hide it until the next change; two may each add the same host or subnet. Orphans are deleted as the statement saw them. Subnets of a new shared network
get no events.

**Users.** `UpdateUser` and `ChangePassword` open a transaction and run their statements outside of it (`user.go:161`). Group changes take effect at the next login; a login that overlaps the deletion of its user leaves a session without an account; two overlapping deletions may both pass the trigger that keeps a super-admin.

**Statistics, exporters, leases.** A sample gets the time at which its answer arrived (`rps.go:323`), not that at which Kea read the counter: what Kea sends in between is counted in an interval that begins later. `RatesAreTrue` bounds a rate by
what was sent in its window and, before that, within the time of the slowest answer. Kea daemons that do not answer are exported as active, contrary to the metric's help; gauges of vanished subnets stay; views of two BIND servers are merged. A sample is kept when its interval's row failed; `AgeOffRpsInterval` wraps a nil error. Leases of global reservations count for a
subnet while the reservations do not. The search decides for a host name at the first Kea of version 2.3.8 and keeps this for older ones after it (`lease.go:373`); declined leases count as conflicts of a host.

## Not modelled

PROJECT.json lists every part with its note. Not modelled at all: the agent's drivers of Kea, BIND 9 and NSD (parsing and forwarding, one request at a time), log tail, hooks,
connection, migrations and certificates in the database, metrics, dumps and start-up, parsers and data model, pure utilities with table tests, tools, and the
web UI. SQL is taken as atomic statements or transactions, as PostgreSQL guarantees.

Of the modelled parts: `getZoneInView` and the read-only queries of zones; scheduled configuration changes, which nothing calls;
wording and lists of the REST API; reservations in configuration files as targets of changes; configurations that return to an earlier hash;
detection of BIND 9; several HA relationships of a server, scopes and times of failovers; the pullers' times of the last invocation; the puller of BIND 9's statistics, which is one row written back.

## Plan

Done, with proofs: ZoneInventory, ConfigManager, KeaChanges, AgentComm, ReviewDispatcher, EventCenter, ZoneFetch with ZoneFetchRound, HostsPuller with PeriodicExecutor and Pullers, HAServices, Registration, AppStates, and of MCParts CheckerStates, ZoneFiles, KeaExporter, Bind9Exporter, ResponseRates, LeaseStatistics, LeaseSearch and GlobalParameters. Model-checked: the other four parts of MCParts.

To come, in proofs: `SuccessAgrees` of KeaChanges; Access and Reservations for any constants, Reservations with row numbers that are not reused.

To come, in models: the server's shutdown as a composition of EventCenter, ReviewDispatcher and handlers; AgentComm composed with ZoneFetch, whose `Call` and `Retry` it details; two HA relationships.
