# The Thalesops agent in TLA+

The agent is a Go program that runs on a user's server. It takes commands from a
backend over a WebSocket or, when there is none, over HTTP heartbeats, executes
them (deploy an app in Docker, publish a static site, run a shell command, create
a database) and reports results and logs. This directory holds TLA+ models of its
stateful parts, the TLC runs that check them on small instances, and proofs of
the most important invariants for every value of the constants.

    tlc -workers 2 -config LogShipper.cfg MCLogShipper.tla     # one run
    tlapm LogShipperProofs.tla                                 # the proofs of a module

## 1. Inventory

### Components of the program

| Component | Code | State it keeps | Operations |
|---|---|---|---|
| command dispatch, transport | `main.go` | `inFlight` map under `inFlightMu`; one goroutine per accepted command; the heartbeat ticker | register with retries, heartbeat, dispatch, submit a result or a log batch over socket or HTTP, release |
| WebSocket client | `internal/ws/client.go` | `conn` under `mu`; the deadlines of the socket | Run (dial, back off, redial), serve (read loop), pinger, Send, Connected |
| HTTP client | `internal/api/client.go` | none | register, heartbeat, result, logs; 30 s timeout |
| log shipper | `executor/logshipper.go` | `buf`, `closed`, `done` | Write, loop, flush, Close |
| processes | `executor/deploy.go: runStreaming`, `shell.go` | a process, two pipes, two scanners | start, read, drain, wait, kill at the deadline |
| log sessions | `executor/stream*.go` | a `docker logs -f` or `tail -f` and a shipper | run until the deadline |
| deploy and restart | `executor/deploy.go`, `restart.go` | containers and images of an app, the clone | clone, detect, build, migrate, prune images, hand over to the swap |
| blue-green swap, health gate | `executor/health.go`, `deploy.go: runContainer` | containers of an app: versioned, fixed name, check name | run, attach, gate, route, retire; smoke test and replacement without a proxy |
| proxy configuration | `executor/proxy.go` | one configuration file per app or site, and what the proxy has loaded | write, test, restore, reload, certbot |
| static sites | `executor/staticdeploy.go` | release folders, link `current`, temporary link | deploy, rollback, flip, prune |
| managed databases | `executor/database.go`, `system/detect.go: InspectManagedDBs` | container, volume and network of a database; memory caps | provision, delete, destroy; health in each heartbeat |
| service discovery | `system/discovery.go` | PIDs claimed and rows of one scan | Docker, Podman, systemd, PM2, supervisor, loose processes |
| inspection, detection, host facts | `executor/inspect.go`, `system/detect.go`, `system.go` | none that survives a pass | read-only passes over command outputs |
| configuration, wire types | `config`, `models` | none | |
| installation and packaging | `install.sh`, `build.sh`, `build/`, workflow | files on the host | install, build, upload |

### How they interact

* The read loop of the socket and the heartbeat loop both call `dispatchCommand`.
  The `inFlight` map is the only thing they share.
* Every accepted command runs in a goroutine of its own. Two commands for one app
  or database are not ordered by anything in the agent; containers, files and the
  proxy are shared without a lock.
* A command writes log lines to a shipper from the executor and from the two
  scanners of `runStreaming`. The shipper sends batches through `transport`, which
  picks the socket or HTTP like it does for results.
* Pings, results, logs and commands' goroutines write to one connection under one
  mutex, which is held while a write blocks.
* The heartbeat reads the state of the databases that jobs are changing; a scan
  reads the state of a host that goes on.
* Docker, the file system and the proxy outlive the agent: after a crash nothing
  in the agent recovers a half-done deploy; the next deploy has to cope with it.

### What is hard, and what correct means

| Component | Hard behaviour | Correctness |
|---|---|---|
| dispatch | delivery over two paths, crashes that forget the map, submission over a dead socket, no retry of a failed post | never two goroutines for one command; every execution accounted for once; no result twice; every command gets its result in the end |
| WebSocket client | writes accepted by the kernel after the peer has gone; a write that blocks holds the mutex that pings need; a failed write closes the connection while the read loop still runs | no frame both refused and received; no Send hangs; a dead socket is noticed in time and a live one kept; the socket comes back |
| log shipper | the mutex is given up in the middle of a flush, so flushes of several goroutines overlap; Close against writers and loop | no line lost or doubled by the hand-over; batches gap-free and bounded; nothing left or under way after Close; no deadlock |
| processes | pipes kept open by a child, full pipes, long lines, the deadline at any point | output complete, however the command ended; both pipes read; an end after the deadline |
| blue-green swap | partial failure at each step, crashes, deadlines, other apps reloading the same proxy, overlapping deploys | routes lead to a healthy, current container; a broken image never goes live; old versions go |
| proxy configuration | file and loaded configuration differ; a file is empty before it is written; restore without reload | what any reload would load is alive; failure leaves what was there |
| static sites | shared temporary link, pruning against rollback, delivery twice, partial copies, removals that fail or are cut short | `current` is complete and is what was reported; history kept and bounded; a site that was routed is served |
| databases | ignored errors of most docker commands, second delivery, deletion against provisioning, floating-point caps, a report with one time budget | data stays until its destruction is asked for; success means a running container with its network and volume; Redis stops before Docker kills it |
| discovery | tools are missing or fail, an agent without root sees some sockets' owners, the budget ends and processes restart in the middle of a scan | what listens is reported or the report says it is incomplete, but for the losses known; no service twice; identifiers do not depend on PIDs |

The list of hazards with their lines is in `PROJECT.json`; each names the
properties that cover it and, where they do so only in part, says which part.

## 2. Modules and their relation to the code

| Module | Models | Theorems in |
|---|---|---|
| `CommandDispatch` | `main.go` from registration to release, `ws.Client` and `api.Client` as the dispatcher sees them | `CommandDispatchProofs` |
| `WSClient` | `ws/client.go` | `WSClientProofs` |
| `Channel` | what callers of the client rely on; `WSClient` implements it | `WSClientProofs` |
| `LogShipper` | `logshipper.go` and the goroutines around it | `LogShipperProofs` |
| `ProcessRun` | `runStreaming`, `ExecuteShell`, the log sessions | `ProcessRunProofs` |
| `BlueGreen` | `deployContainer` with both its paths, `runContainer`, `configureProxy` for apps | `BlueGreenProofs` |
| `StaticSite` | `ExecuteStaticDeploy`, `ExecuteStaticRollback`, `configureStaticProxy` | `StaticSiteProofs` |
| `ManagedDB` | `database.go`, `InspectManagedDBs` | `ManagedDBProofs` |
| `Discovery` | `discovery.go` | `DiscoveryProofs` |

`MC*` modules give their constants values for TLC. In `BlueGreen`, `StaticSite`,
`ManagedDB` and `Discovery` a constant is a set of scenarios (which jobs, which
host, which faults), one of which is chosen in `Init`, so that one run covers
hosts of several kinds and a theorem speaks of all of them. Operators commented as
"Faulty variant" stand before the definition they alter: each is a plausible bug of
that code, which one of the properties must detect.

**CommandDispatch.** `inFlight` and the goroutines (`active`, with a program
counter each) are the agent's memory; `link` is the socket as `Client.conn`, the
kernel and the peer see it together (`dead`: the peer has gone and nobody noticed;
`broken`: a failed write closed it and `serve` has not returned). `Dispatch` is
`dispatchCommand`: test and set under the mutex, start of the goroutine. `ReadPush`
and `HeartbeatDispatch` call it. `ChoosePath`, `SendOk`, `SendVoid`, `SendError`,
`PostOk` and `PostError` are `transport.SubmitResult`; `Release` is the deferred
delete. `Crash` loses all memory. The backend is not in the repository: it pushes
a command at most once on each connection, offers commands it has no result for,
and a heartbeat answer can be old when it is dispatched.

**WSClient and Channel.** `Dial`, `DialFails`, `Wake`, `Unset`, `SayHello` and
`ReadFails` are `Run` and `serve`; `Ping` and `PingerEnds` the ping goroutine, which
belongs to its connection and can outlive it; `Call` and `Send` a `Send` in two parts,
the wait for the mutex and the write. A write succeeds, fails, or `Blocks` with the mutex in hand
until the peer reads (`Unblock`) or the write deadline closes the connection
(`TimeOut`). Time passes in ticks of ten seconds, and only when no goroutine can take
a step (`Still`), so that deadlines are exact. `late` is how long the next ping has been held up by
writes that had the mutex. Connections are never reused;
a frame that was read as garbage, a reset, a silent and a slow peer are the faults.
`Channel` has only whether the client is connected and how far each frame has come.
The refinement maps `conn # None` and the state of each `Send` to it; with fairness it
says that no `Send` hangs.

**LogShipper.** A line is the number under which it was accepted. `TakeBatch` is
`flushLocked` up to the unlock, `FlushReturns` the rest; between the two, other
threads run. `Close` is two critical sections as in the code: flag and last batch,
then `close(done)` and the wait for the loop. It may
come at any time, as for a log session; `runStreaming` joins its scanners first, which
is the premise of `CloseDrains`. Redaction is left out.

**ProcessRun.** A process in one of four modes: a step of a deploy and a session
(`runStreaming`), a shell command, the tail of a discovered service's log. Pipes
hold `PipeSize` lines, a line is ordinary, over 64 KB or over 1 MB. `LeaveChild` lets a
child inherit the pipes. `Read` and `ReadEnds` are the scanners (in a shell command
the copying goroutines of `os/exec`), which give up on a line above their limit;
`Drained` is `wg.Wait`, `Wait` is `cmd.Wait`, which closes the pipes; `Kill` is what the
context does at the deadline: it kills the process, not its child. A command whose
deadline has passed is not started (`StartFails`). `Outcome` is the verdict of each caller.

**BlueGreen.** `image` maps container names to the deploy whose image they run; a
container is healthy or not according to its image (`healthy`, chosen freely at
the start). A route is a port, named by its container, and a set of domains; `disk`
is the file and `loaded` what the proxy works with, and every reload takes over the
files of all apps. `stale` names the apps whose file was written and whose reload
then failed: the code leaves it there. A deploy passes `run, attach, gate, write,
fill, test, reload, list, remove` behind a proxy and `clean, checkRun, checkGate, replace,
list, remove, runFixed, attachFixed` without. After its deadline (`expired`) every
command started under its context fails, while `discard` and the removal of the
check container run under contexts of their own, as in the code. Backends differ:
Caddy's snippet is written anew; an nginx file that exists has its port replaced,
is tested and put back on failure. `os.WriteFile` is two steps, of which the first
empties the file (`Write`) and the second fills it or fails (`Fill`).

**StaticSite.** A folder is missing, partial, full or a `ruin`, and has a modification
time. `os.RemoveAll` begins by making a folder a ruin (`Erode`; unlinking files gives
the folder a new time, so that it counts among the newest from then on) and ends by
removing it (`Gone`); it may stop between the two, by an error, which pruning ignores,
or by a crash. Removal, creation and copy are separate steps, and so are removing the
temporary link, making it and renaming it. A rollback takes any folder with an
`index.html`, which a partial one or a ruin may have. Pruning reads the list and
`current` once and then deletes one folder at a time. Routing opens the site's file,
which empties it (`Write`), fills it (`Fill`), tests, reloads and calls certbot; each may
fail, a write may stop after the opening or in the middle, and what is written may
be such that the proxy refuses it. A proxy that refuses a file keeps what it has loaded,
also when another app's deploy reloads it (`ReloadElsewhere`). Failures of routing do not fail the deploy,
as in the code. `stuck` and `routing` are observed: which folders a job could
not delete, how far it has routed. Restarts of the proxy are not modelled.

**ManagedDB.** Every docker command of a job is a step; `Ignored` is one whose error
the code does not look at. A database is the job that started its container, what
runs in it (starting, ready, exited, restarting), its data and its network. `Use`
entrusts it with data, `Attach` connects an app, which keeps `docker network rm` from
removing the network. `Ready`, `Gone` and `GivesUp` are the ways out of `waitForReady`. `RedisCaps` is
`redisMemoryCaps` over the integers. `ListRunning`, `Probe` and `TooLate` are
`InspectManagedDBs` with its one budget; `excused` is what the report could not know better.

**Discovery.** A host is a set of processes, each with a name, TCP ports, a user (the
agent's or another), something that lists it (a container engine, a process manager,
nobody) and a unit; with it go the tools in the agent's `PATH` and whether the agent is root.
A process may be `foreign`: in a cgroup that `procOwner` takes for a container's, though no
engine the agent asks lists it. A scan reads
the sockets (`CollectListeners`: `ss` names the owners of the agent's own processes, or
for root of all; `Blind` is when the code notes that it names none) and then runs one
step for every layer, in the order
of `Discover`; `Add` is `scan.add`, which claims PIDs. Between any two steps processes
`Restart` under a new PID, a command fails or the budget `Expire`s, after which all
later commands fail. `degraded` is whether the report has a note. UDP sockets count
only for that note, as the sweep is about TCP.

## 3. Runs

Passing runs:

| Run | States | What it shows |
|---|---|---|
| `CommandDispatch` | 60 000 | One goroutine per command (`NoConcurrentRuns`), each execution submitted, refused or aborted exactly once (`ResultAccounted`), no more results than executions (`NoDuplicateResult`), with three faults of any kind and a socket that may never connect; a result in the end (`EveryCommandAnswered`) |
| `WSClient` | 755 000 | The client implements `Channel` (`ChannelSpec`); a silent peer is given up after the read deadline and what blocked writes add to it (`SilenceNoticed`); one that answers is kept, unless its pings have waited for the mutex for so long that ping period, write and answer no longer fit into the read deadline (`LivePeerKept`); when the faults are over the socket stays up (`EndsConnected`) |
| `LogShipper` | 22 000 | Lines neither lost nor doubled by the hand-over (`EveryLineInOnePlace`), batches gap-free and bounded (`BatchesConsecutive`), none stranded by a Close that races the writers (`NothingStranded`), nothing under way when Close has returned and the writers are joined (`CloseDrains`); the ticker ships the last line (`EveryLineLeaves`), Close returns (`CloseEnds`) |
| `ProcessRun` | 242 000 | All output of whatever started is handed on before the command returns, however it ended (`OutputComplete`), neither pipe stalls the process (`BothDrained`), a command ends after its deadline unless a child keeps its pipes (`EndsByDeadline`) |
| `BlueGreen` | 203 000 | Behind Caddy, behind nginx and without a proxy: routes, loaded and on disk (`RouteAlive`), lead to a healthy container of the current version (`RoutedToLatest`); changed domains are routed (`DomainsRouted`); success leaves one version (`OldVersionsRetired`); only an image that passed runs under the fixed name (`OnlyHealthyFixed`) and the old container stays until then (`FixedKeptUntilPassed`); every deploy ends (`EveryDeployEnds`) |
| `StaticSite` | 124 000 | With every step failing or stopping half-way and crashes: the live release is complete, but for a rollback to what a removal has left (`SiteServes`), current (`ServesLatest`) and the job's own (`FlipsToOwn`); the history is bounded and the newest releases are kept (`HistoryKept`); with jobs in turn behind nginx and overlapping ones behind either proxy, a site that was routed is in the file and in the proxy once routing has gone through (`RoutedIsServed`) |
| `ManagedDB` | 307 000 | Data stays until its destruction is asked for, with jobs that overlap or repeat (`DataKept`); success of jobs in turn means a running container of its own, network and volume (`OkMeansProvisioned`), a deletion without a failed command leaves nothing (`DeletedIsGone`); the caps of Redis on hosts of all sizes (`RedisStopsFirst`); no ready database is reported STOPPED (`StoppedHasReason`); every job ends (`EveryJobEnds`) |
| `Discovery` | 2 098 000 | What listens is reported or the report says it is incomplete, but for the losses that `SilentlyLost` names (`KnownSilentLosses`), with and without root, `systemctl` and engines; the sweep repeats no other row and nothing that has an owner (`SweepTakesTheRest`); identifiers survive restarts (`StableIdentifiers`) |

The type invariants are proved (section 4) rather than checked; that of `WSClient`, with
the bounds of its clocks, is checked as well. `ManagedDB` switches TLC's deadlock check off: when its
jobs have ended and nothing else is left in the scenario, it stops.

Runs that end in a counterexample, each for something that a comment or a log line
of the code says (quoted in `PROJECT.json` under `findings`):

| Run | What happens |
|---|---|
| `CommandDispatchNoResultLost` | A result written to a socket whose peer has gone counts as submitted and is lost |
| `BlueGreenStaleFile` | A failed reload leaves the route of a discarded container on disk; the next reload applies it |
| `StaticSiteUnrouted` | A second deploy's file is refused by `nginx -t` and deleted, and with it the working one it has overwritten; the next reload drops the site of the first deploy |
| `ShellTimeout` | A shell command whose child keeps the pipes does not return at its timeout |

The passing runs leave out what a counterexample needs, and only that. What the
modules show when an instance allows more; there is no run for these, the
change to make is given:

| Instance | What fails | What happens in the code |
|---|---|---|
| `CommandDispatch` | at most one execution for each command | a heartbeat answer older than the result is dispatched after the id has left `inFlight` (`main.go:35`, `316`); the second run is allowed by all properties here |
| `WSClient`: the excuse `Delayed` dropped | `LivePeerKept` | every `Send` that waits may get the mutex before the ping does (`client.go:125`, `170`) and take up to `writeWait` on a slow peer, and nothing limits how many wait: with 30, 90 and 10 s, two in a row use up the read deadline if the pong takes 30 s, four if it takes 10 s |
| `BlueGreen`: nginx, two apps with a domain each, a `deadline` fault | `RouteAlive` | another app's reload takes over the file before `nginx -t` fails; the restored file is not reloaded (`proxy.go:260`) |
| `BlueGreen`: scenario `Caddy` with backend nginx | `DomainsRouted` | only the port of an existing file is replaced (`proxy.go:252`) |
| `BlueGreen`: `Serial = FALSE` | `RouteAlive`, `OnlyHealthyFixed` | one deploy retires the container the other has routed (`health.go:134`); two deploys share the name of the check container (`health.go:188`) |
| `BlueGreen`: deploys of one app with domains and then without | `RouteAlive` | the path without a proxy retires the routed container and leaves the file (`health.go:39`) |
| `BlueGreen`: an app that gets its domain after a crash in `smokeTest` | `OldVersionsRetired`, extended to the check container | it has no label (`health.go:201`) |
| `StaticSite`: `InTurn` with `serial` FALSE, the premises `Serial` and `Tidy` dropped | `FlipsToOwn`, `SiteServes` | the temporary link is shared (`staticdeploy.go:224`); `current` is read before the deletions (`staticdeploy.go:240`) |
| `StaticSite`: two deploys of one release, the premise `Tidy` dropped | `SiteServes` | the live folder is removed first (`staticdeploy.go:210`) |
| `StaticSite`: `SiteServes` without its exception | `SiteServes` | pruning of a release fails or the agent dies in it, and a rollback finds its `index.html` (`staticdeploy.go:264`, `155`) |
| `ManagedDB`: the premise `serial` dropped | `OkMeansProvisioned`, `DeletedIsGone` | a deletion removes the container of the provisioning it overlaps (`database.go:79`) |
| `ManagedDB`: any with a `deadline` fault | `ExitedIsTrue` | after the deadline `docker inspect` fails and the report says that the database has exited, while it runs on (`database.go:181`) |
| `Discovery`: a disjunct of `SilentlyLost` dropped | `KnownSilentLosses` | `systemctl show` fails (`discovery.go:526`) or is missing (`417`), the TCP call of `ss` fails (`188`), a user's own socket hides that others name no owner (`208`), no layer lists a container (`265`, `584`): nothing is noted |
| `Discovery`: two PIDs that hold one socket | one row for each identifier | a row for every worker of a forking server, with one identifier (`discovery.go:252`) |

Two things the models make visible without a property: `Run` redials at once after a
connection that was lost, however soon (`client.go:105`; the comment at 79 has a
backoff there), so a backend that accepts and closes is dialled in a tight loop; and
a timeout of a log session on a discovered service is that of a command, whatever
`duration_seconds` asks for (`main.go:404`).

### Bounds, and why they are enough

* `CommandDispatch`: one command, which two deliveries, a crash and a late heartbeat
  answer can run twice. Commands share nothing but the socket and a crash; the proofs
  cover any number of them. `MaxFaults` is three, `MaxCopies` 1: the backend does
  not offer a command while a result of it travels up the socket, which keeps
  the number of executions finite; a late delivery through an old heartbeat
  answer is not excluded by it.
* `WSClient`: the constants of the code in ticks of 10 s (ping 30 s, read deadline
  90 s, write deadline 10 s); a pong takes up to 30 s (`Rtt` = 3), with which two
  blocked `Send`s before a ping are one too many: `LivePeerKept` is checked on both
  sides of its bound, and with `>` for `>=` in `Delayed` TLC refutes it. Two senders, the hello and
  pings contend for the mutex;
  two faults give up to three connections, one of which may outlive its `serve`.
* `LogShipper`: two writers of three lines and `MaxBatch` = 3: a batch fills with
  lines of both writers, a second one fills while the first travels, the ticker and
  Close take rests of one and two lines.
* `ProcessRun`: pipes of two lines and three lines to each: a pipe fills, is drained
  and fills again, and the two pipes can be full at once.
* `BlueGreen`: three deploys: one live, one under way, one that follows a failure or
  a crash, or belongs to another app where reloads interact; two faults.
* `StaticSite`: three releases with `keep` = 2 and a rollback: one release is due for
  pruning, one is not, and the rollback finds its release kept, pruned or half-removed;
  two faults of any kind. `Again` deploys one release twice, over what a failed or dead deploy has left of
  it. The overlapping scenarios (`Overlap`, `OverlapPair` behind each proxy, `SameRelease`)
  have `keep` = 3, so that nothing is pruned, and the faults of routing and crashes.
* `ManagedDB`: three jobs on one database (made, then made again or destroyed, then
  either once more) with two faults; two databases for a report with one budget;
  nine host sizes around the limits of the caps.
* `Discovery`: two processes of every kind of owner, one port shared; agents with
  and without root (there with own and foreign processes and UDP sockets of each
  kind) and hosts without `systemctl` or the engine; two scans with
  one restart of each process; two faults. Two are the least for a name that two
  processes share and for a unit whose main PID is one of several.

### Fairness

* `CommandDispatch`: the agent's own steps are weakly fair (registration is retried
  for ever, tickers fire, executors run under timeouts, the read deadline of 90 s
  expires on a dead socket). Of the backend: it answers heartbeats, reads what
  arrives, and (strong fairness) does not leave a command that it keeps offering out
  of every answer. Connecting and pushing are not fair: the socket may never work.
* `WSClient`: goroutines that can run do, dials end, a live peer answers pings, and
  time passes. That `Send` is called, that frames arrive, that a slow peer reads, and
  the faults are not assumed.
* `LogShipper`: writers, ticker, loop and flushes are weakly fair (the processes run
  under deadlines, the HTTP client and the socket's writes have timeouts).
  That Close is called is not assumed.
* `ProcessRun`: the scanners, the kill at the deadline, `wg.Wait` and `cmd.Wait` are
  weakly fair. Nothing makes a process or a child end, and the deadline may never pass.
* `BlueGreen`, `ManagedDB`: the steps of a deploy or job are weakly fair (every
  command runs under a deadline). Starts and what others do are not.
* `StaticSite` and `Discovery` have safety properties only and assume none.

## 4. Proofs

All proofs are for any values of the constants that satisfy the named assumptions of the
module, which TLC evaluates in the runs, and of the theorem, where it has an `ASSUME`.
Each module's `TypeOK` comes first. Every property of a passing run that is not a
liveness property is the subject of a theorem.

`CommandDispatchProofs`: `NoConcurrentRuns`, `ResultAccounted`, `NoDuplicateResult`.
`Dispatch` starts a goroutine only for a command outside `inFlight`, which is the set
of commands with a goroutine, so a goroutine is determined by its command; that in
turn is what lets `ResultAccounted` count unfinished goroutines as at most one.
`NoDuplicateResult` is not inductive: it needs the strengthening `ReceivedWereSent`
(results received or on their way were submitted, or refused after a post that the
backend may have stored), from which it follows with `ResultAccounted`.

`WSClientProofs`: `TypeOK`, and `Spec => C!Spec`, the safety part of the refinement. `Inv` says that
a frame on the wire or received was taken by its `Send`, that a frame whose write
blocks has a connection, and that `conn` is nil while `Run` dials or waits.
Every step is `Quiet` for the channel, switches it, or calls, blocks, ends or delivers one
`Send`; each kind maps to one step of `Channel` or to a stutter.
`SilenceNoticed` follows from `Silence`, which bounds, in each phase of `Run`, the silence
so far plus what the deadline that is running has left, and from the fact that a write
that blocks on a peer that is gone closes its connection. `LivePeerKept` needs no
assumption on deadlines or on the number of frames: how long pings were held up is a part of the state
(`late`). Its invariant `Prompt` says what the read deadline has left in each of three phases: while the
next ping waits for its time or the mutex (`Waiting`), while it is written (`Writing`), and
while its pong is on its way.

`LogShipperProofs`: `EveryLineInOnePlace`, `BatchesConsecutive`, `NothingStranded`,
`CloseDrains`. Strengthenings: `IdleUnloaded` (a thread that is not
flushing holds no batch), without which a new batch could overwrite one that has not
been counted; `ClosingOrder` (how far `Closer`, `done` and the loop are relative to
each other), without which nothing says that the loop has no batch
when it has ended; `Shippable` for the bounds of batches. The lemmas say what
appending a line, taking a batch and landing it do to the places of lines; each
action then moves lines between places by one of them.

`ProcessRunProofs`: `OutputComplete`. `LinesInv` counts lines (what
was written is handed on or in the pipe, while the reader reads); `DrainInv` says
that after draining no reader reads and no one can write.

`BlueGreenProofs`, under `Serial`: `PassInv` (in which step of a deploy which
containers may run which images) gives `OnlyHealthyFixed` and
`FixedKeptUntilPassed`. `RetireInv` says that once containers are being retired what is neither listed
nor kept is gone, and that no step of another deploy adds to it; it gives
`OldVersionsRetired` for any strays of earlier deploys. `NamesInv` follows the
domains from the file to the proxy and gives `DomainsRouted`, if behind nginx the deploys
of an app agree on their domains (`KeepsNames`). `RouteInv` says what may be routed to (`Allowed`: by the
step of the deploy, and for a failed one only while the file is stale), that it is
alive (`Good`), that the new container stays from its gate on (`Reached`), and that what was
read before the file was emptied, and what a
failed `nginx -t` puts back, is in order too (`Restorable`); it
gives `RouteAlive` and `RoutedToLatest` under `Steady`: an app has domains in all its
deploys or in none, and behind nginx only one app has them and nothing else
reloads. Without `Serial`, `KeepsNames` or `Steady` these properties fail (section 3).

`StaticSiteProofs`: `TurnInv` (one job at a time; after its flip `current` is its
release) gives `FlipsToOwn` and `ServesLatest` under the `serial` of the scenario. `CompleteInv` says, for jobs
in turn and distinct releases, that the live folder is full
except while its own deploy, which is not live yet, fills it, or a ruin that a rollback
has chosen. `HistoryKept` and `SiteServes` carry their premise `Tidy` themselves: deploys have
releases of their own, and jobs wait for each other or there is room for all releases.
`HistoryInv` says that folders are dated by the clock and are finitely many, that no
deploy finds its release copied before it has copied it (`UnfilledInv`), that what is about to be deleted, or could not be, has `keep` newer
folders that are neither (`PruneInv`), and that with room for all nothing is listed
(`RoomInv`). That a folder outside the newest has `keep` newer ones that stay
(`NewestSpared`) is an argument by the least counterexample. A removal that is cut short gives
its folder a new date, which puts it before all others: the invariants survive because what is
removed is counted out, not because it is old. `RouteInv` gives `RoutedIsServed`: while no routing
has failed (`Clean`), the file has the site whenever no job is between opening and
filling it, and the proxy has it once one is done, whatever it loaded in between; this holds for any jobs, overlapping or not.

`ManagedDBProofs`: `DataKept` and `RedisStopsFirst` for any jobs, overlapping or not;
the caps are proved by cases on the host's memory. `TurnInv` (one job at a time, the
one under way is the latest, and what each step has established so far) gives
`OkMeansProvisioned` and `DeletedIsGone`; `ReportInv` gives `StoppedHasReason`.

`DiscoveryProofs`: `ClaimInv` (the PID of every row is claimed, and no row is the sweep's
before the sweep) gives `SweepTakesTheRest`. `FoundInv` follows
one process that listens through the layers: it was heard, and it is contained, its unit
is known, shown, and its main PID claimed, or it is among what the sweep will
take, or it was not seen, its engine or `systemctl` is not there, or the scan is degraded; this gives `KnownSilentLosses`. `StableInv`
says what a scan that nothing disturbs has collected when each layer begins, sockets, units,
rows and claims, all as functions of the host and not of its PIDs; so each such
scan reports the same identifiers, which gives `StableIdentifiers`.

Assumptions that say more than types: `ThreadAssumption` (loop and closer are no
writers), `WritesDiffer` (a frame is no hello or ping, and none of the three is
`None`) and `AbsentIsNoName`.

Model-checked only: liveness under fairness, which is out of the prover's reach
(`EveryCommandAnswered`, `EndsConnected` and the fairness part of `ChannelSpec`,
`EveryLineLeaves`, `CloseEnds`, `BothDrained`, `EndsByDeadline`, `EveryDeployEnds`,
`EveryJobEnds`).

## 5. Not modelled, and why

* Clone, detection of the project type, image build, migrations, pruning of images:
  before the swap they are one deadline and one exit; they share nothing with other
  deploys that a property here would tell apart.
* A file of `BlueGreen` that is cut off in the middle of a write counts as one without a
  route, so the refusal of it by the proxy is not in that module (it is in `StaticSite`);
  nor is a failed write of what `nginx -t` makes the code put back (`proxy.go:260`). The TLS block that certbot added is lost when a static
  site's nginx file is rewritten, until certbot has run (`proxy.go:157`).
* Host ports are named by their container, so docker assigning another after a restart
  (`health.go:111`) is not in the model. Nor is the coincidence of two container
  names in one millisecond (`health.go:142`).
* Detection of the proxy: the backend is part of the scenario.
* The choice of container in a log session, and what a command line of `tail` is.
* The descriptor of a connection that `serve` leaves open (`client.go:144`), and frames
  that overtake the hello (`client.go:102`), are in the model, but no property
  speaks of them. The same goes for PM2 and supervisor rows next to a unit's (`discovery.go:763`).
* A database that has exited is not listed by `docker ps` and so not reported at all
  (`detect.go:107`); the report says it is for running containers.
* Two things that the models contain, the comments deny and no run here is dedicated to.
  A rollback to a release of which an interrupted or failed removal has left the
  `index.html` makes it live (`staticdeploy.go:155`, `264`; the comment at 16-24 calls release
  folders immutable artifacts), which `SiteServes` excepts. And Discovery's silent losses
  contradict "a missing binary or a permission error degrades one layer and is recorded as
  a note" (`discovery.go:27-29`), which `KnownSilentLosses` names one by one.
* While a site's file is empty, between the two halves of `os.WriteFile` or after the second has failed,
  another reload drops the site. `RoutedIsServed` says when it is back, not that it never goes.
* In `Discovery` two rows with one identifier are one (`Identifiers` is a set), a second PM2
  instance of a name is left to the sweep (`discovery.go:635-638`), and what restarts
  in the middle of a scan is excepted from what must be found.
* `inspect.go`, `DetectDatabases`, host facts: read-only passes without state.
* Configuration, wire types, installation, packaging: no state to speak of.

## 6. Plan

Done, in this order: `CommandDispatch`, `LogShipper`, `BlueGreen`, `StaticSite`,
`Discovery`, `WSClient` with `Channel`, `ProcessRun`, `ManagedDB`, and proofs about each.

1. `BlueGreen` further: ports that change on restart, names of the
   same millisecond. Image history: build, prune and restart as a module of its own.
2. Abstract specifications of delivery (at least once) for `CommandDispatch` and
   of a queue of lines for `LogShipper`, with refinement mappings; composition of
   `ProcessRun`, `LogShipper` and `CommandDispatch`: logs are complete when the result
   is submitted.
3. "One live version per app, changed by successful deploys" as what `BlueGreen`
   implements when `Serial`.
4. Proofs: the refinements of 2 and 3.
