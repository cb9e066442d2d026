# QuattroCore VPN: TLA+ models, checks and proofs

QuattroCore VPN is a desktop client in two processes. The **GUI** (C++/Qt, `src/`,
`include/`) keeps profiles, builds sing-box configurations and shows what runs. The
**core** (Go, `core/server/`) runs sing-box, the Xray sidecar and an optional extra
process, and does what the GUI asks over one local socket. The GUI starts the core,
watches it and restarts it.

This directory models the part of the program where the two meet: who may start and
stop what, in which order, and what is left when something fails half-way; the services
around a running profile (tests, the monitor of a selector, statistics, subscriptions,
endpoints, the DNS of the system, the updater); and how the chains of a configuration are
laid out over the two cores. Paths below
are relative to the repository, except that the map in `PROJECT.json` names them from the
directory that holds it as `src/`.

## 1. Inventory

| Component | Code | State it keeps | Operations |
|---|---|---|---|
| Core lifecycle | `core/server/server.go`, `internal/process/process.go`, `egress.go` | published box, sidecar, gates, extra process, tun mark, DNS flag | `Start`, `Stop`, exit of the extra process |
| Xray gate | `core/server/internal/xray/gate.go` | instance, `closed`, connection table, `active`, `lastActive` | accept, handle, sweep, `Close` |
| RPC channel | `src/api/RPC.cpp`, `core/server/dispatch.go` | `connected_`, `pending`, socket and buffer of the io thread | `Call`, `Reconnect`, signals of the socket, `writeResponse` |
| Profile lifecycle | `src/ui/mainWindow/mainwindow_profile_lifecycle.cpp` | `running`, `started_id`, `mu_starting`, `mu_stopping`, system proxy | `profile_start`, `profile_stop`, recovery, Restart proxy |
| Core supervision | `src/sys/Process.cpp`, `mainwindow_setup.cpp` | process, `core_running`, `start_profile_when_core_is_up`, restart timer | exit handler, `Restart`, `Kill`, `newConnection` |
| Test runner | `TestRunner.cpp`, `test_utils/common.go`, `test_utils/url_test_utils.go` | session mutex, generation, stop flag, result buffer of the core | sweeps, stop, pollers |
| Auto selector monitor | `AutoSelectorMonitor.cpp`, `server_autoselector.go` | build, exhaustion clock, backoff | poll, `SetBuild`, `Clear` |
| Connection statistics | `connectionLister.cpp`, `QueryConnections` of `server.go` | last counters, closed connections already credited | poll, credit |
| Traffic statistics | `TrafficLooper.cpp`, `TrafficStatsManager.cpp` | counters of outbounds, buckets | update, persist, replace groups |
| Subscription updates | `GroupUpdater.cpp` | a group's list and its profiles in the table | refresh |
| Periodic jobs, route updates | `PeriodicRunner.cpp`, `RouteUpdater.cpp` | last runs | tick, download |
| Program updater | `cmd/quattro-updater/main.go` | files on disk | unpack, replace, restart |
| VPN endpoint status | `server_vpnstatus.go` | subscription and snapshot of each endpoint | wait, answer |
| System DNS manager | `internal/boxdns/dns_manager_windows.go` | DNS of the interfaces, `dnsIsSet`, `lastIfc` | override, restore |
| Configuration generator | `generate.cpp`, `AutoSelectorPlan.cpp` | `BuildContext` while it builds | outbounds, bridges, tags, rules |
| Database | `src/database` | SQLite, caches | I/O |

How they interact: `profile_start` and `profile_stop` run on worker threads and block in
`Client::Start`/`Stop`, which are one `LocalSocketChannel::Call` each. `Call` posts a
frame to the io thread and waits for the response or 30 s. In the core, `runDispatch`
gives every request a goroutine; `Start` and `Stop` serialize on `lifecycleMu` and publish
what they bring up under `stateMu`, where pollers and the callback of network changes read
it at any time. `Start` opens one gate per Xray configuration, and the gate starts and
stops the Xray instance behind it as connections come and go. When the core dies, the
socket of the channel is disconnected, the exit handler on the thread `DS_cores` stops the
profile and restarts the core, and the new core's connection runs `Reconnect` and perhaps
`profile_start`, both on the UI thread. The services poll the core over the same channel
on threads of their own, and share with it the result buffer of tests, the table of
connections and the state of endpoints. A refresh of a subscription works on the list of
profiles that the user edits and starts meanwhile. The generator runs inside
`profile_start`, before the core is asked, and inside a sweep of tests.

What is hard: every one of these has several threads; a request outlives the caller that
gave up on it; the core may die anywhere; `Start` builds up to five things, each of which
may fail; two mutexes of the GUI are locked on one thread and unlocked on another. The
list in `PROJECT.json` under `hazards` has each at its line, with the properties that
cover it or the reason why none does.

What makes each component correct, in a sentence: *gate*: one owner per instance, nothing
after `Close`, no live connection cut. *Core lifecycle*: what is published is up, what is
up is whole, what is down is clean (but for what a panic or a failed Start leaves), and a
client that waits sees atomic operations. *RPC*:
a call gets its own answer and leaves nothing behind, and the channel is open when the
core is up. *Profile lifecycle*: mutexes find their way back, transitions end, what is
shown is what runs. *Test runner*: one sweep at a time, a late poller takes nothing of a
later sweep, a stop ends the sweep, the caller is told. *Auto selector*: a
verdict is applied to the build it is about, and rebuilds are spaced. *Connection
statistics*: every byte of a connection that the ring still has is credited, and once. *Subscriptions*: no profile in the table that no
group shows, the group is what the remote sent, and whoever runs a profile that was
changed is told. *Updater*: a complete set of files, old or new, after a run that was not
interrupted, and never a torn one. *Endpoints*: no change of state slept through. *System
DNS*: what was overridden can be told from what was there. *Generator*: traffic takes
exactly the hops its chain lists.

## 2. Modules

| Module | What it is |
|---|---|
| `XrayGate` | `gate.go`: handlers, sweeper and `Close()` as goroutines |
| `CoreSession` | abstract: what `Start` and `Stop` promise a client that waits for each answer |
| `CoreLifecycle` | `Start` and `Stop` of `server.go`, step by step; implements `CoreSession` |
| `RpcChannel` | `LocalSocketChannel` and the writer of responses, over restarts of the core |
| `ProfileLifecycle` | `profile_start`, `profile_stop`, the exit handler and restarts, over an atomic core |
| `TestRunner` | sweeps of URL tests, from their callers to the result buffer of the core |
| `AutoSelector` | `AutoSelectorMonitor`: polls, verdicts, grace and backoff |
| `ConnectionStats` | `ConnectionLister` over `QueryConnections` |
| `GroupUpdate` | `GroupUpdater::Update` against a user who goes on working |
| `SystemDns` | `DnsManager` on Windows, with crashes of the core |
| `VpnStatus` | `QueryVPNStatus`: snapshot, subscription, timer, cancellation |
| `Updater` | the updater, killed anywhere and run again |
| `ConfigChain` | the chain builder of `generate.cpp`, and which members of a group it is given |
| `Lists` | operators on lists and tables that `GroupUpdate`, `SystemDns` and `ConfigChain` share |
| `MCServices` | the parts around a profile together: `RpcChannel`, and each from `TestRunner` to `ConfigChain` |
| `XrayGateProofs`, `CoreLifecycleProofs` (with `CoreSession`), `RpcChannelProofs`, `ProfileLifecycleProofs`, `GroupUpdateProofs` | theorems about the module of that name, and their proofs |
| `ConfigChainProofs` | the same for `ConfigChain`: what one chain lays out, how a walk passes it, and what a whole build keeps |
| `ServicesProofs` | the same for `TestRunner`, `VpnStatus`, `ConnectionStats`, `AutoSelector`, `Updater` and `SystemDns`, and for `MCServices`, which runs all of these |
| `ListsProofs` | what the operators of `Lists` return, for lists of any length |
| other `MC*` | instances for TLC: symmetry and the configurations of profiles |

In `XrayGate`, `MC*` files and all others, an operator whose comment begins with
"Mutant:" is a plausible mistake in the operation after it. It is in no next-state
relation: replacing the operation by it shows that a property really depends on it.

### XrayGate

A step is a stretch of a goroutine between two operations others can see: locking
`g.mu`, an atomic on `active` or `lastActive`, opening or closing a socket, starting
or closing an instance. `pc[c]` is the place in `handle` of the goroutine of connection
`c`; `ended` the directions of `relay` that have returned; `conns`/`connsNil` the table
that `Close` sets to nil; `late` the history of connections counted since the sweeper
last read `active`. Time is one bit, `fresh`: `lastActive` is within the idle window.
`idle` is chosen in `Init`: with an idle window or resident. The rewriting of inbounds is
pure and left out; an instance is a name that is `live` or `closed`. `ensure` starts an
instance under `g.mu`, so that its start is one step.

### CoreLifecycle and CoreSession

What `Start` creates carries the name of its request, so that a component whose pointer
was lost can be told from one that was closed: `boxInstance`, `xrayInstance`,
`xrayFullGates`, `extraProcess` are the Go pointers, and `box`, `sidecar`, `gates`,
`extra`, `conf` the world. Eager and lazy sidecar share a slot (the code sets exactly one
of the two pointers). Every `if err != nil` is an action of its own. So is a panic
(`StartPanics`) in what parses a configuration of the user: the sidecar, the first gate,
the box (`server.go:547` says that sing-box can). `err` is nil then, the deferred function
cleans nothing, and `runDispatch` recovers and answers: what has been published stays,
which `DownIsClean` states as its exception. A panic on a gate's own goroutine, which
nothing recovers, ends the process; one anywhere else in `Start` or `Stop` is left out.
A Start whose sidecar or gates fail leaves the extra process it launched
(`server.go:450`, against the comment at `server.go:416`, "error paths close what they
built"): the other exception of `DownIsClean`. The tun of darwin is
either absent, usable or unusable; the mark of Linux is set or not. `polite` is chosen in
`Init`: a polite client waits for each answer, sends `Start` only when nothing runs and
`Stop` only when something does; an impolite one sends anything at any time, as the GUI
does after it gave up waiting. `CoreSession` is refined with `up` = the boxes that are up;
`ProfileLifecycle` checks (`PoliteCalls`) that the GUI is a polite client unless it gave
up, and uses the core as `CoreSession` describes it.

### RpcChannel

Three threads: any number of `Call`s on workers, `Reconnect` on the UI thread, and the io
thread, which runs posted lambdas in order (`events`) and the signals of the socket in
between. `connected` holds the link whose `Reconnect` stored true, 0 for false, so that
`WritesFollowTheSwap` can compare. A link is one socket, hence one core; a response is two
parts on the wire because `writeResponse` writes twice; what a dead core wrote stays in
the socket until it is read or replaced. Two timeouts of `Call` are nondeterministic.
What is left out: the destructor, the frame layout, and responses with no data (a single
write, which nothing can tear).

### ProfileLifecycle

Four threads: the UI thread (`ui`), the worker of a start (`starter`), the worker of a
stop (`stopper`), and `DS_cores` (`cores`). The core is one process with a set of requests
not yet carried out (`todo`): the goroutines of the dispatcher take them in any order,
and a caller that gave up (`waited` is false) leaves its request there. A `Start` that
finds a box published is refused and forgets it, as in `CoreLifecycle`. Left out:
message boxes (modal dialogs), ranking of an auto selector before a start, tun and DNS
switching, `failed_to_start`, `prepare_exit`, and nested event loops of `DS_cores`
(`profile_stop(..., block)` is taken to block). `Restart()` is taken to kill the core
within its `waitForFinished(500)`. Recovery needs `~muStarting /\ ~muStopping` because
`setConnectionState` disables its button during transitions (`QuattroDashboard.cpp:524`).

### TestRunner

Each call of `runUrlTests` is a sweep: a caller that tries `session_`, a worker that goes
through the batches, and the calls of `Test` it makes. A batch has two probes: `Boxed`, in
the shared box of the batch, and `Alone`, a full configuration in a box of its own, whose
`tag2entID` is empty. Tags are positions in one batch, so a result of an earlier batch
could pass for one of the present batch; this is what `NothingLeftBehind` is about. A
poller captures `sessionGen_` (`genOf`), looks at it again in each tick, drains, and applies
what it has drained (`got`), in three steps; it is not joined. `caught` is the history of
ticks that a later sweep found between the look and the drain.
`OnlyATickUnderWayCrosses` says that these are the only ones that ever hold a result of
another sweep, and that they do hold some is the finding `LateTickLeavesNextSweep`. The
batches of one sweep share a generation, so that nothing keeps a late tick out of the next
batch: neither property speaks of those. Left out: sweeps
of IP tests (same code path with another handler), speed tests, the country test, and
tests over the profile that runs.

### AutoSelector

One poll at a time is in flight (`answer`); `SetBuild`, `Clear` and the life of the
selector in the core go on meanwhile. The clocks are ages, capped where the code compares
nothing beyond. `lively`, `streak` and `worked` are history: what the properties need to
say since when a pool is dead, and which rebuild follows which.

### ConnectionStats

`QueryConnections` is two steps, the connections that are up and then the ring of those
closed, and connections move bytes and close in between. A poll that fails is
processed like an empty answer, which forgets every counter. `torn` is the history of connections that closed inside a
poll, for which the code credits twice (`CreditedOnce`, a finding); `CreditedOnceIfWhole`
is about the others. `evicted` is the history of closed connections that the ring forgot
before a poll had counted them: what closes between two answers beyond the size of the ring
is lost, which the comments at `server.go:763` and `connectionLister.cpp:163` do not
mention, and `NothingMissed` says that nothing else is.

### GroupUpdate

A profile is its id; its outbound is its identity and the rest. `Update` is cut where
the user can be seen: each call of the repository is a step of its own, each stretch of
pure code between is one. The user starts and stops profiles, adds and deletes them; the
last two during a refresh set `meddled`, and the properties are stated without it, because
the code takes no lock against them (see the hazards). `before` is what the group had when
the refresh began, and whether the refresh was to clear it first (`clear`). A deletion that
fails in the database (`GroupUpdater.cpp:1042` and `1154`) is left out. The order in which `Update`
relooks, deletes, reinserts and sorts is that of the code. Its loops over lists are the
recursive functions of `Lists` (and `Pair`), since the prover can unfold those and not
`SelectSeq` or the folds of the community modules. `Reinsert` has no loop because at most
one profile survives a deletion, which `SurvivorInv` proves.

### SystemDns

Two threads, the dispatcher's and the monitor's, each read servers, compute and write
them in separate steps. What a crash forgets is `dnsIsSet` and `lastIfc`; what stays is
the list of servers with its marks. `SixFirst` are interfaces whose IPv6 servers come
first in what is read. The lists the code walks through are `Filter`s of `Lists`. Calls of
Windows that fail are left out.

### VpnStatus

Each endpoint has a goroutine that subscribes, takes a snapshot and waits. The
library closes the channel of an endpoint after each change of its state; the model
separates the two, so that a snapshot may be newer than the channel.

### Updater

A file is as in the old release, as in the new one, torn or missing. The updater may be
killed in any step and run again; a file that the program holds open cannot be
replaced, which is what the retries are for.

### ConfigChain

`Chain` is `buildOutboundChain`: from a list of hops to outbounds of the two cores, each
with its tag, what it ends in and what it dials through, and the ports and ingress tags
of the bridges. The actions are the stages of `buildOutboundsSection`,
`buildAutoSelectorGroup` and `BuildTestConfig`; whatever was added is
never removed, so a behaviour builds one configuration. `Further` is one step of a
connection through the result: an outbound with its hop, or a bridge with the inbound and
the rule behind it. `Walk` repeats it, as a function over the number of steps, and
`Carries` says that the walk from a tag ends, having passed the listed hops and no others;
since a chain that is not refused changes core at most twice, as many steps as it has hops
and two more are enough. A connection that meets two outbounds of one name, two inbounds
of one port, or none, is `Lost`.

Abstractions: a bridge's port is fresh (the code asks `MkManyPorts` for each chain alone);
the outbound that no rule names is the first one, as sing-box has it; WARP is a hop; the
fields of an outbound, DNS, and the user's rules are left out. Three premises leave out what
the code does not handle: a started full Xray configuration whose routing profile uses
Xray too (`SlotTaken`: the one configuration takes the place of the other); a group
whose proxies alone are refused, such as a front proxy that is a full Xray configuration
(`PlannedIsBuilt`: any eligible member fails the build; a refused route may fail it, too);
and a chain without hops, which its editor saves (`edit_chain.cpp:25`; `HopList` has none):
nothing is built for it to enter.

### MCServices

These parts share no state that is modelled, so that interleaving them would show nothing
new. `part` is chosen in `Init`: a behaviour runs one part and leaves the variables of the
others at their initial value. `MCServices` EXTENDS its parts and gives their constants
values in its `.cfg`, so that what TLC checks is, by name, what the theorems state, and the
assumptions of each module are evaluated. That a behaviour of `MCServices` is one of each
part is proved, too (`PartsRun` in `ServicesProofs`).

## 3. Runs

Runs that pass:

| Run | Instance | What it shows |
|---|---|---|
| `gate` | 2 connections, 2 instances, fairness | `OneOwner`, `NothingRelayedAfterClose`, `ActiveIsExact`, `CutOnlyInsideSweepWindow`, `CloseDrains`, `IdleInstanceStops` |
| `core_lifecycle` | 4 requests (a Start that panicked counts for two), 4 configurations | `SlotsLive`, `UpIsWhole`, `DownIsClean`, and the refinement `SessionSpec` |
| `services` | one part of nine, chosen at the start | see the table below |
| `profile` | 2 profiles, 3 clicks, 2 crashes, 1 lost answer, fairness | `LocksHeld`, `PoliteCalls`, `DisconnectedIsDown`, `TransitionsEnd` |

The parts of `services`:

| Part | Instance | What it shows |
|---|---|---|
| `RpcChannel` | 2 calls, 2 cores | `AnswerIsOwn`, `FramesInStep`, `PendingIsWaiting`, `WritesFollowTheSwap` |
| `TestRunner` | 2 sweeps of 2 batches of 2 probes, 1 stop, 1 tick of a poller, fairness | `NothingLeftBehind`, `OnlyATickUnderWayCrosses`, `StoppedSweepEnds`, `FinishFires` |
| `AutoSelector` | grace 2, backoff 3 to 6, fairness | `RebuildsPaced`, `DeadPoolIsGivenUp` |
| `ConnectionStats` | 2 connections of 2 bytes, a ring of 1, 1 failed poll | `NothingMissed`, `CreditedOnceIfWhole` |
| `GroupUpdate` | 3 outbounds of 2 identities and a selector, answers of up to 2, 2 refreshes, 1 deed of the user | `NothingOrphaned`, `RemoteIsMirrored`, `DisturbedIsTold`, `SameRemoteChangesNothing` |
| `SystemDns` | 3 interfaces (one automatic with IPv6 first), 4 events | `OverrideIsReversible` |
| `VpnStatus` | 2 endpoints with 2 and 1 changes, fairness | `NoLostWakeup`, `SettledIsAnswered` |
| `Updater` | 2 files, 2 attempts, 2 runs | `NothingHalfDone`, `NoTornFile` |
| `ConfigChain` | chains and pools of up to 2 profiles among 2 of sing-box, 2 of Xray, an extra core and a full configuration, with landing and front proxies, WARP, routes and endpoints | `ChainsAreCarried` |

Runs in which TLC finds what a comment or a check list of the repository excludes:

| Run | Property | Trace |
|---|---|---|
| `gate_cut` | `LiveConnectionKeepsInstance` | the sweeper reads `active` = 0, a connection is counted and finds the instance, the sweeper takes and closes it. `gate.go:52`: "the instance can never be shut down out from under a live UDP session" |
| `core_tun` | `TestsStayOffTheTun` | `Start` succeeds with a tun; a second `Start` is refused, and the deferred function clears the mark (and the pointer) of the first. `server.go:286` |
| `rpc_adopt` | `AdoptedIsConnected` | `Reconnect` posts the swap and stores true; before the swap the io thread handles `disconnected` of the old socket and stores false. Every later `Call` is refused. `RPC.cpp:37` |
| `profile_recover` | `RecoveryDoesNotConnect` | the profile is stopped by a failure, not by hand; `started_id` stays; recovery connects. `QA_CHECKLIST.md:84` |
| `tests_late` | `LateTickLeavesNextSweep` | a tick looks at the generation and stalls; its sweep ends and another begins; the tick drains the other's results. `TestRunner.h:91`: "A poll thread is not joined, so a late tick must not drain the next sweep." |
| `chains_tested` | `TestsAreCarried` | a tested chain that goes sing-box, Xray, sing-box: the way back has an inbound and no rule, so traffic leaves by the first outbound of the test. `generate.cpp:1365` calls the chain valid |
| `selector_spin` | `RebuildsAreSpaced` | a rebuild leaves the pool untested for one poll, which counts as usable and resets the backoff. `AutoSelectorMonitor.hpp:162` |
| `stats_twice` | `CreditedOnce` | a connection closes between the two halves of a poll, is in both, and is credited twice. `server.go:764`: "the client dedups by id" |

**Bounds.** Two connections are what a race on the gate needs, one that is served and
one that arrives; two instances let one be created while another is being closed. With
four requests a Start can follow a Stop that follows a Start, with one more in flight. A
Start that panicked leaves things behind for the requests after it to meet: the constraint
`PanicsCountTwice` lets it count for two of the four, which leaves two requests after it, or
a second panic and one request while it is answered, and keeps the run short. The
configurations cover each branch of `Start`, alone and combined. Two calls and two cores
have the one torn response, the one reconnect and the one late answer that the hazards are
about. In `profile`, `MaxClicks`, `MaxCrashes` and `MaxLost` bound the environment, never
the program; three clicks give start, start of another profile and stop, two crashes the
"exits too frequently" path. The properties of `gate` include liveness, for which TLC's
symmetry is unsound; the constraint `InOrder` keeps instead, of the behaviours that differ
in the names of connections or instances only, those that use the names in order.
`services` has the same constraint for its calls.

Two sweeps of two batches are what a late poller or a leftover result needs to meet
somebody else's tags. A grace of 2 under a backoff of 3, which may double once, is the order
of the code's 20 s, 60 s and 600 s with each comparison able to go either way. A ring of one
makes two closed connections overflow it. Of three outbounds two share an identity, so
that a refresh can keep, change, add and remove a server. Four events are an
override, a change of the network, a crash and a restore. With landing and front proxies
chains have up to four hops: every sequence of cores with none, one or two changes, and
those with more, which must be refused.

`CHECK_DEADLOCK FALSE` is in every configuration: the environment is bounded, and each of
these programs may rest once nobody asks for anything.

**Fairness.** `gate`: weak fairness of every handler, of the sweeper, of `Close` once
begun, and of the clock: goroutines that can run are scheduled. The sweeper's `select` on
`stopped` is strongly fair, since Go chooses at random among ready cases and the ticker
is rarely ready. No fairness of clients connecting, of peers ending a stream, or of
somebody calling `Close`. `profile`: weak fairness of each thread of the GUI, of the core
carrying out requests, and of `DS_cores`. The UI thread's fairness includes the connection
of a core that was started. No fairness of crashes, of clicks, or of giving up: a lost
answer needs none because the core does answer in the model; with a core that hangs, the
30 s of `Call` take its place. `services`, each part as its code is scheduled: weak
fairness of the workers of sweeps and of the probes in the core, and none of pollers, of
callers, or of `stop()`; of the polls of the monitor (they are asked for and judged) with
strong fairness of the clock, which must tick again and again while polls come and go in
between, and none of `SetBuild` and `Clear`; of the library's notices, of the waiters and
of the answer for endpoints, and none of their timers, of changes of state, or of a
cancellation. The other parts claim safety only.

## 4. Proofs

Every invariant and every action property that a passing run checks is also a theorem, and
so is the refinement of `CoreSession`. The proofs are for constants of any size:
connections, instances, requests and configurations of the core, calls and links of the
channel, profiles and clicks, sweeps and batches, endpoints, remotes and outbounds of a
group, interfaces, files, chains and their hops. What a proof needs of them is a named assumption of the module
that declares them, evaluated by TLC in every run that uses the module:

- `GateAssumption`, `CoreAssumption`, `RpcAssumption`, `ProfileAssumption`,
  `SweepAssumption`, `GroupAssumption`, `IfaceAssumption`: a nil is no element of its set,
  the bounds are numbers, and the connections of the gate and the sweeps are finitely many,
  so that they can be counted; there is an interface.
- `StatsAssumption`: the ring has a place, and a connection may carry a byte.
- `TreeAssumption`: `WalkDir` visits every file of the new release once.
- `ChainAssumption`: one core carries a profile; no profile has the name of a bridge or of
  the pool; a profile or one chain is started, or a selector of single profiles, as the
  three callers of the generator ask.
- `PaceAssumption`: the grace and the floor of the backoff are positive and no longer than
  its ceiling, as in `AutoSelectorMonitor.hpp`, from line 161 on.

`XrayGateProofs`:

- `TypeCorrect` and `ActiveIsExactTheorem` come from one induction each, and lean on each
  other: `active - 1` stays a natural number because `active` counts the handlers in their
  counted section. `WindowInv` adds that, while the sweeper has seen `active` = 0 and not
  yet closed, every counted connection is in `late`; `CutOnlyInsideSweepWindowTheorem`
  follows from it.
- `OneOwnerTheorem`: `OwnerInv` adds where the sweeper and `Close` stand when they hold an
  instance, and that `Close` is past its first step exactly when `closed`.
- `NothingRelayedAfterCloseTheorem`: `SocketInv` says where an open socket is known: in
  the table, in the snapshot `Close` walks over, or in the hands of the handler itself.

`CoreLifecycleProofs`:

- `TypeCorrect`, by one step per action.
- `SlotsLiveTheorem` and `UpIsWholeTheorem` from `PublishInv`, the conjunction of
  `LockInv` (the holder of `lifecycleMu` is the one request inside), `SlotInv` (only a
  request that got that far is named by a slot), `ClearInv` (no box is published while one
  is being built or torn down), `ProgressInv` (what a Start has in place at each point) and
  `WholeInv` (a published box is whole as long as nobody is past a first look). None of the
  five is inductive alone: `UpIsWhole` says something only between requests, and what
  keeps it is what each request did on the way.

and, about a client that waits for its answers:

- `DownIsCleanTheorem` and `SessionRefined` from `PublishInv` and `PoliteInv`, the
  conjunction of `AloneInv` (one request is at work, and it is what its kind says),
  `TurnInv` (a Start never finds a box, a Stop always does), `HeldInv` (whatever is open is
  named by a slot or in the hands of the request at work), `EmptyInv` (without a box no
  other slot is taken, but for what a Start is bringing up) and `ExtraInv` (whose extra
  process may run). Each of the last three has to say what a Start that panicked may have
  left, apart from what the requests after it open: `DownIsClean` is `HeldInv`,
  `EmptyInv` and `ExtraInv` between two requests.
- `SessionRefined`: creating the box is `BringUp`; closing it, in a Stop or after a bad tun
  address, is `TakeDown`; the answers, of a Start that panicked too, are those of
  `CoreSession`; a refused Start and a Stop that finds nothing cannot happen to such a
  client, by `TurnInv`; every other step changes nothing `CoreSession` shows. `UpAt` says
  which boxes are up at each of these steps.

`RpcChannelProofs`:

- `PendingIsWaitingTheorem` from `PendingInv`, which adds whose entry the reader holds
  while it delivers, and where a call may stand whose entry is gone.
- `LinkInv`: the socket in use, the swaps that are posted and the `Reconnect` under way are
  about ever newer links, so that no link is adopted twice. On it rests `FrameInv`: what a
  link carries continues what was read of it, frame after frame, and ends where its core is
  in writing. `FramesInStepTheorem` and `AnswerIsOwnTheorem` are parts of `FrameInv`; that a
  core died in the middle of a frame does not matter because its link is never read again.
- `WritesFollowTheSwapTheorem` from `OrderInv`: whoever has seen a link in `connected_`
  stands behind its swap in the queue, and the lambda it posts does too. The io thread takes
  the head of the queue, which moves everything one place forward.

`ProfileLifecycleProofs`, from `ClientInv`:

- `TypeCorrect` and `LocksHeldTheorem` need `NamedInv` (a start that is under way has a
  profile) and `AskedInv` (whoever waits for an answer stands where it sent the request, and
  nobody waits for two).
- `PoliteCallsTheorem` and `DisconnectedIsDownTheorem` need `TurnInv` (from the launch of a
  stop until it is through, `running` names a profile; from a start's first look until it
  has set it, none), `ProcessInv` (a process that is not up has no box and no request) and
  `BoxInv` (the core runs at most the box it knows of, and somebody in the GUI knows that
  one runs), the last one as long as no answer was given up on and no "Restart proxy" is
  about to kill the core. `PoliteCalls` alone is not inductive: what keeps a `Start` from a
  core with a box is that `running` was read before, and who may have changed it since.

`ServicesProofs`:

- `SessionInv`: `session_` is held by exactly one sweep, and a probe is under way only while
  that sweep's worker waits for its batch. `StoppedSweepEndsTheorem` follows at once (nobody
  else can take the flag down), and `NothingLeftBehindTheorem` by one more induction.
- `OnlyATickUnderWayCrossesTheorem` from `TickInv`: while the generation a tick has captured
  is the present one no sweep has begun since its own, so that whatever the buffer holds is
  of its sweep; and a tick past its look still has the present generation, or was caught.
- `NoLostWakeupTheorem` from `ChannelInv`: a subscription is to a channel that exists, and
  the library tells of a change only after it.
- `NothingMissedTheorem` and `CreditedOnceIfWholeTheorem` from `KnownInv` (whoever the core
  or the lister knows has sent something, so that it is not opened again) and `CreditInv`:
  what is credited of a connection is exactly what the next poll counts from. The upper
  bound alone is not inductive: a poll adds a difference, and only knowing that the
  subtrahend has been credited, no more and no less, tells what the sum is. For what is
  missed, `DoneInv` adds that whoever was counted in the ring has been credited all of it.
- `TestsTypeCorrect` from `CountInv`: a generation is one of a sweep that has begun, so that
  there are no more of them than sweeps, and no probe holds a context newer than the last
  one that was cancelled. `StatsTypeCorrect` from `BoundInv`: the ring never outgrows its
  size, whichever connections close.
- `RebuildsPacedTheorem`, an action property, from `PaceInv`: a pool that counts as dead
  for some time was not found alive since, and the backoff is at least what the rebuilds
  that followed one another have earned.
- `NothingHalfDoneTheorem` and `NoTornFileTheorem` from `DiskInv`, which says what is on the
  disk at each place of a run: the files before `next` are those of the new release, what
  was unpacked is whole before the first file is replaced, and the archive goes after all
  of them.
- `OverrideIsReversibleTheorem` from `DnsInv`: `Kept` says what the list of an interface may
  be at any moment, `Seen` what a thread may have read of one, which is what makes it
  harmless that the other thread, or a crash, comes between a read and the write that
  rests on it.
- `ServicesTypeTheorem`, about `MCServices`: by `PartsRun` each part is a behaviour of its
  own module whichever part runs, so that the type theorems of all nine apply at once.

`GroupUpdateProofs`, about refreshes of a subscription:

- `DisturbedIsToldTheorem` from `ToldInv`, and `GroupTypeCorrect` from `GroupTypes`: what is
  listed anywhere has been given an id, and an id is given once.
- `NothingOrphanedTheorem` from `SurvivorInv` and `WholeInv`, which says at each stage where
  a row of the table is: in the list, or among what is to be deleted or put back.
- `RemoteIsMirroredTheorem` from these and `MirrorInv`: at each stage the list that will
  become the group's has the outbounds the remote sent, in its order. The diff replaces
  each new server by an old one it is paired with; that the two have the same outbound is
  `PairAligned`.
- `SameRemoteTheorem`, stated as `SameRemoteChangesNothing`, from `SameInv`: if the remote
  sends what the group has, the diff pairs every old server with a new one (`DiffFindsAll`),
  so that no old id is deleted, rewritten or told of and the new ones go again, and the
  selectors return to where they were (`AllRestored`).

`ConfigChainProofs`, about one build of a configuration:

- `ConfigInvariant` is the inductive invariant `ConfigInv`. `Typed` gives the types and says
  that a build under way has no error; `Bridged` pairs the ports of the bridges with the
  tags of their ingresses, in both directions, with no port twice; `PlannedAs` says that
  the plan is one that can be built, and which tags the rules were given; `TestedAt` where a
  build of a test may stand; `Excused` why a selector may have been refused. The core is
  `LaidOut`. Its `Begun` tells how many of the chains are built at each stage, that each of
  them is still laid out (its outbounds are in both lists, nobody else has their tags, and
  its bridges lead where it goes on), that members are known by their entries, and that the
  bridges have their inbounds once these are built; its `KeptAll`, that the full
  configurations of these chains are served.
- `ChainsCarriedTheorem` follows at the end of a build: for a chain that is laid out, a walk
  from its entry passes the hops of sing-box before the first one of Xray, a bridge, those
  of Xray, a bridge back, and the rest, which are the hops of the chain in order because it
  changes core at most twice. `ChainsAreCarried` is far from inductive: it speaks of
  finished builds, where every count has been done already.
- What makes a step keep the invariant is that what it adds is new. The tags of a chain lie
  in an interval of numbers behind its prefix; the intervals of one prefix follow each
  other, as `HopsBefore` promises to the rules before anything is built; prefixes of
  different stages differ; and ports only grow. Hence the lemmas about `Total`, about
  numbered tags, about where a chain crosses from one core to the other, and one
  lemma for each action (`MainKeeps`, `MemberKeeps`, ... `XrayKeeps`).
- The premise `SlotTaken` is used in `XrayKeeps` and nowhere else: there the one full
  configuration of a started profile loses its slot to the Xray hops of a route.

These proofs and those of `GroupUpdateProofs` and `SystemDns` rest on lemmas about lists of
any length. The induction theorems of the library take
an operator, which the installed provers cannot instantiate; `Induction` of `ListsProofs`
is over a set instead (one that has 0 and, after each number, its successor). From it
follow `Computed` (a function that is computed step by step exists), hence that `Filter`,
`InsertAll` and `Pair` unfold (`Filtered`, `Inserted`, `Paired`), and what they return:
`FilterFacts`, `InsertAllFacts`, `PairFacts` and those after them, up to `AllRestored`: the
elements a filter leaves out, put back in turn at the places they had, restore the list.

Model-checked only:

- liveness, which needs `ENABLED` and is out of the prover's reach: `CloseDrains` and
  `IdleInstanceStops` of the gate, `TransitionsEnd`, `FinishFires`, `DeadPoolIsGivenUp` and
  `SettledIsAnswered`;
- the properties of the runs that find a violation, which the code does not have.

## 5. Not modelled, and the plan

Not modelled at all:

- traffic statistics (`TrafficLooper`): counters added up by one loop under its mutex; its
  one race, `SetChainGroups` without the mutex, is a data race on a container that a model
  of its contents would not show;
- periodic jobs and route updates: one comparison, and a download;
- the database: I/O, but for what a refresh uses of it (in `GroupUpdate`);
- parsers of share links and imported files, the fields of each protocol, DNS and route
  sections of the generator: pure translations, without an invariant across them;
- widgets, translations, vendored code.

Left out of modules that exist:

- `CoreLifecycle`: the egress of Xray instances. A network change between `prepareXray`
  and `setXray` leaves a fresh instance with the old egress (`server.go:441`, a hazard);
  and panics outside the parsing of configurations;
- `SystemDns`: errors of Windows;
- `Updater`: checks of the paths in an archive, and a loss of power: the code does not sync a
  copy before it renames it (`main.go:161-178`), so that a power cut may leave a torn file
  where `NoTornFile`, which is about a killed updater, finds a whole one;
- `GroupUpdate`: deletions that fail in the database;
- `ProfileLifecycle`: message boxes, so that `Probe` gives `mu_starting` back at once where
  the code holds it while the user reads the warning
  (`mainwindow_profile_lifecycle.cpp:379-382`), and further starts meet its own warning;
  nested event loops, which a blocking stop spins on `DS_cores` (`Utils.cpp:439-464`);
  the moment between the look at `running` and the lock of `mu_stopping` in `profile_stop`
  (436-439 and 462), which `MayStop` takes as one step; `prepare_exit`.

Plan, in order:

1. `SessionSpec` as the core of `ProfileLifecycle`, by `INSTANCE` instead of in words.
2. The egress of Xray instances against network changes in `CoreLifecycle`.

Abstract specifications worth stating besides `CoreSession`: a channel that maps each call
to its own answer or an error, for `RpcChannel`; a counter that credits every byte once,
for the traffic statistics.
