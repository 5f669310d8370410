# VHNW: models, checks and proofs

This directory holds a TLA+ verification project for the miner agent and the community hub of
"Van Hash Naar Winst". The modules are translated from the Go source; `PROJECT.json` maps every
definition to the lines it stands for.

## 1. The system

| Component | Source | State | Operations | Interacts with |
|---|---|---|---|---|
| miner manager | `internal/miner/manager.go`, `process_unix.go` | configuration, `desired`, `supervising`, `state`, `cmd`; pending SIGKILL timers | `Start`, `Stop`, `UpdateConfig`, `Status`, `Summary`; goroutines `supervise`/`runOnce`, `watchHealth`, `pump` | the XMRig process (signals, `Wait`, HTTP API), the web server, the reporter, main |
| log buffer | `internal/miner/ringbuffer.go` | the last lines | `add`, `lines`, masking of the user name | manager, web server |
| XMRig client | `internal/xmrig/summary.go` | an address | `FetchSummary` | watchdog, status page, reporter |
| web server | `internal/web/server.go`, `static/` | none of its own | GET status, logs, config; POST start, stop, config | manager, configuration file |
| configuration | `internal/config/config.go` | `config.json` | `Load`, `Save`, `Validate`, `applyDefaults` | main, web server |
| agent main program | `cmd/vhnw-agent/main.go` | none | load, device id, auto-start, shutdown | everything in the agent |
| community reporter | `internal/community/` | ticker, `lastOK` | `Run`, `sendOnce` | manager, hub |
| hub store | `internal/hub/store.go` | registry of devices and its file | `Report`, `Snapshot`, `load`, `save` | hub server |
| hub server | `internal/hub/server.go` | token | POST report, GET devices | store, reporters, browsers |
| hub main program | `cmd/vhnw-hub/main.go` | none | start, shutdown | store, server |
| system information | `internal/system/` | none | reads temperature, load, uptime | status page, reporter |
| mock miner | `cmd/mockminer` | - | a test double of XMRig | manager tests |
| image and installation | `os/`, `scripts/`, `deploy/` | - | builds, systemd units (`Restart=always`) | agent |

Inside the agent the components share memory: every HTTP request runs in a goroutine of its own and
calls the `Manager`, whose mutex is released around every system call; the supervisor and the
watchdog of each run are goroutines too. Agent and hub exchange heartbeats over HTTP with timeouts
and no retry before the next tick.

### Where it is hard

* **Interleavings.** `desired`, `m.cmd` and the configuration are read under the mutex and acted on
  after its release: by `Stop`, `UpdateConfig`, `signalRestart`, the watchdog and the supervisor.
* **Processes and signals.** `killProcess` sends SIGTERM and leaves a timer behind that sends SIGKILL
  to a *number* eight seconds later; only `runOnce` waits for the process; XMRig may crash, hang or
  ignore SIGTERM.
* **Two copies of the settings**, in memory and in a file that is truncated and rewritten in place,
  without a lock between requests, and a crash at any step.
* **Defaults filled in at two places** (`handleConfig`, `applyDefaults`), for different fields.
* **Lost, late and refused heartbeats**, a hub that crashes in the middle of a save whose errors
  nobody looks at.

### What makes each component correct

* Manager: one supervisor, at most one miner, no miner without a supervisor, the state "gestopt" means there
  is none; a started service is supervised, a stopped one ends, a hung or crashed miner is replaced,
  new settings reach the miner; only the process that was asked to terminate is killed.
* Settings: what was answered with "opgeslagen" survives a restart; fields outside the form keep
  their value; the agent can always start.
* Reporter and hub: a device that keeps reporting is online, one that is silent is not counted,
  the registry keeps every device it accepted.

The full list of hazards, each at its line and with the properties about it, is in `PROJECT.json`.

## 2. The modules

| Module | Models | Theorems in |
|---|---|---|
| `MinerService` | what the manager promises: an abstract specification | - |
| `MinerManager` | the manager, its goroutines, requests, kills and processes; implements `MinerService` | `MinerManagerProofs`, `RequestProofs` |
| `AgentLifecycle` | the agent's process around `MinerManager` (which it extends): the load of its settings, auto-start, saves, shutdown, death, restart by systemd; implements `MinerService` as well, over all its lives | `AgentLifecycleProofs` |
| `MinerRun` | one run of the miner after another in time: ticker, health checks, grace period, escalation, restart delay and the requests that skip it, output pump and log | `MinerRunProofs` |
| `DurableStore` | what a process promises that keeps data in memory and in a file: an abstract specification | - |
| `Settings` | the configuration in memory and in its file; requests, saves, start-up, crashes; implements `DurableStore` | `SettingsProofs` |
| `Hub` | reporters, network, the hub's store and file, time; implements `DurableStore` | `HubProofs` |
| `MCMinerManager`, `MCAgentLifecycle`, `MCSettings`, `MCHub` | sets and symmetry for TLC | - |

### MinerManager

A step of a goroutine is what happens under one hold of the mutex, or one system call. What can run
between two such steps in Go can run between the two actions.

| Variables | Code |
|---|---|
| `cfg`, `desired`, `supervising`, `state`, `cmd` | the fields of `Manager`; `m.client` is always made from `m.cfg`, so it is `Api[cfg]` |
| `spc`, `scfg`, `spid` | program counter, copied configuration and started process of a `supervise()` goroutine |
| `proc`, `run` | the system's processes (`free`, `alive`, `hung`, `zombie`) and the settings they were started with |
| `termed`, `timers` | processes that got SIGTERM; pids with a SIGKILL pending in `time.AfterFunc` |
| `wpc`, `wapi`, `wmiss`, `wtarget`, `wdone` | the watchdog of each run: where it is, the address it polls, failed checks, what it is about to kill, its closed channel |
| `cpc`, `ctarget` | HTTP handlers between two holds of the mutex |

| Actions | Code |
|---|---|
| `HandleStart`, `StartSupervised`, `StartSupervisor` | `handleStart` validates, then `Start` takes the mutex anew |
| `Stop`, `UpdateConfig`, `SignalRestart`, `CallerKills` | the two halves of `Stop`, and of `UpdateConfig` with `signalRestart`; `killProcess` is outside the mutex |
| `Finish`, `CopyConfig`, `RejectConfig`, `Launch`, `AfterRun`, `CountRestart`, `Wake` | the stretches of `supervise`; `Wake` is the end of `sleepInterruptible` |
| `ExecFails`, `Exec`, `Register`, `Reap`, `Deregister` | `runOnce`: `cmd.Start`, registration, `cmd.Wait`, cleanup |
| `WatchTick`, `FetchOk`, `FetchFails`, `WatchAims`, `WatchKills`, `WatchDone` | `watchHealth` |
| `TimerFires` | the SIGKILL of `killProcess` |
| `MinerExits`, `MinerHangs` | XMRig |

A configuration is a value that is valid or not and has an API address; a health check succeeds only
if a live miner answers on the polled address, and may always fail. `HealthGraceSeconds` becomes
`GraceTicks`, a number of failed checks in a row. Sleeps and timers may end at any time, so the
checks do not depend on the eight seconds, the two hundred milliseconds or the restart delay; in one
place time matters and is made an assumption instead: `PidReuse = FALSE` says that the system does
not hand out a pid while a kill still aims at it. A pending timer is a pid in a set: two timers for
one pid do what one does, at either time.

### AgentLifecycle

`MinerManager` begins with an agent that is up and never ends it. `AgentLifecycle` extends it with the process:
`agent` is "off", "up", "stopping" (after SIGTERM, until `main` returns) or "failed"; and with as much of the settings
file as decides whether it can start: `saving` are the callers that have put settings in force and are to save them,
`readable` says whether `config.Load` can make sense of the file. What the file says is `Settings`' matter; here a start
may find any configuration in it.

| Action | Code |
|---|---|
| `Boot` | `main` up to the auto-start: the load succeeds, a new device id is to be saved or not, and with auto-start it validates the configuration and calls `Start` (the caller `Main`) |
| `LoadFails` | `log.Fatalf` after `config.Load` (`main.go:34-37`); systemd tries again, and the file stays as it is |
| `Save`, `CutsSave` | `os.WriteFile` of a request or of the device id, and what the end of the agent makes of one: not begun, cut off between truncation and write, or done |
| `Serve` | the server accepts requests once `main` got past the auto-start, and lets open ones finish during `Shutdown`; a change of settings is saved after it is in force |
| `Interrupted`, `Exit` | the signal, `mgr.Stop()`, and the return of `main`, which waits for neither the miner nor the SIGKILL timer |
| `Die` | `log.Fatalf` of the web server's goroutine, a panic or SIGKILL |
| `CallerRuns`, `SupervisorRuns`, `WatchRuns`, `MinerRuns` | the steps of `MinerManager`; only the miner's happen without an agent |
| `SystemdKills`, `SystemReaps` | external: the end of the service's control group, and of a process whose parent is gone |

When the process ends its goroutines and timers vanish (`GoroutinesEnd`), and its miner, which has a process
group of its own (`process_unix.go`), does not. The constant `Systemd` says whether the agent runs as
`deploy/vhnw-agent.service` has it: then what is left in the control group is killed (`KillMode` has its default)
and a new agent is started only after that. Otherwise nobody looks after the old miner.

### MinerRun

`MinerManager` lets every sleep and timer end at any time, which is right for safety but says nothing of *when*.
`MinerRun` is the same system seen with clocks: one run after another, the watchdog and the pump of each, and users who
stop, start and change settings at any moment.

| Variables | Code |
|---|---|
| `miner`, `run` | the process of `runOnce`, the number of its run |
| `supervisor`, `desired`, `pause` | `supervise`: in `runOnce`, in `sleepInterruptible`, at the top of its loop or not there; `m.desired`; what is left of the restart delay |
| `watch`, `silent`, `tick`, `check` | the run's `watchHealth`: where it is, `time.Since(lastHealthy)`, its ticker, the client's timeout |
| `stale` | health checks of earlier runs that are still under way, each with its silence and what is left of its timeout |
| `fuse` | the `time.AfterFunc` of `killProcess` |
| `pipe`, `part`, `held`, `pump` | what the miner wrote, in chunks that end a line or do not; the unfinished line in the buffer of the `bufio.Scanner`; the lines each run's scanner found and has not passed on; whether `pump` scans, has ended or gave up |
| `log` | the ring buffer |
| `hasty`, `written`, `taken`, `logged`, `misses`, `deaf`, `added` | history, for the properties and bounds only |

A `Stop` ends the supervisor after its run (`Reap`) or cuts its sleep short (`CutShort`), a `Start` then begins a new one,
and its miner follows at once (`NextRun`), while a health check of the old run may be under way. Whatever that check
finds, it concerns the miner of now: `StaleCheckEnds` and `StaleStrike`, which kills it.

The scanner reads what the pipe holds, up to the size of its buffer (256 KB, `ScanLimit`), so a blocked miner goes on
while a long line is read; when the buffer is full of one line the scanner drops it and reads nothing more
(`PumpChokes`), and the pipe fills up for good. `cmd.Wait` closes the pipe with whatever is in it (`OutputEnds`). A
miner that writes to a full pipe is "blocked" and does not answer either. That is an assumption about the miner: one that
serves its API in another thread (as `cmd/mockminer` does) would go on answering, and the watchdog would not notice.

Time passes only when no goroutine can step and no timer is due (`Quiet`), that is, goroutines take no time compared
with the seconds of the timers; a health check takes any time up to `Timeout`. `Escalation = 0` is the kill on Windows,
which does not wait.

### Settings

A configuration has a part for each way the code treats its fields: `form` (an emptied worker, pool,
algo or password gets its default at the next load, and only there), `hidden` (not in the form; filled
in by `handleConfig` and by `applyDefaults`) and `community` (enabled, device id and interval;
forgotten by `handleConfig`, its interval filled in by `applyDefaults`). A request is `Receive`
(decode, read the current settings, fill in), `UpdateConfig`, `Truncate`, `Write`, with other requests
and crashes in between; two writes at the same time overlay each other, which leaves one text, the
other, or a garbled one. `Boot` is `main` up to the web server; the id of a new community device is
saved by the same steps. `EditFile` is the owner with an editor while the agent is down. What
`UpdateConfig` does to the miner is `MinerManager`'s.

`answer` and `overlap` record how the last save ended and whether the last request overlapped another
one, because the guarantee of `RestartKeepsSettings` depends on them.

### Hub

A reporter sends, waits for the answer or gives up, and does nothing more until its next tick. A
report that its sender gave up on can still be processed by the hub's handler, after later ones or
after the agent has restarted. It is processed or lost within `MaxDelay`: that is an assumption about network and
hub, whose handler has no deadline of its own. The reading it carries is represented by the time it was taken, so that
old news can be told from new. The hub processes a report under its lock (`Accept`) and saves the
registry before it releases it (`Truncate`, `Write`, `SaveFails`); it may crash at each of these steps
and restarts from its file. A device reports with known credentials (an id, and the hub's token) or
without, until its settings change, which the model treats as a restart of the reporter.

Time is counted in units of the smallest constant and stops at a report's timeout and at a due tick:
`TimeAssumption` says `(MaxLost + 1) * Interval + MaxDelay <= OfflineAfter`. With the defaults
(15 s interval, 3 s + 10 s of timeouts, 60 s offline) this is `MaxLost = 2`: two reports in a row may get
lost.

### DurableStore

Agent and hub keep data the same way: in memory, written through to a file that is truncated and rewritten, and
loaded at the next start. `DurableStore` says what a user of either may rely on, without files, saves in steps or
requests. The process runs or not, holds `data`, is `safe` (an end now takes nothing away) and its data are
`readable` (a start now succeeds). After a good `Save` a `Stop` takes nothing away; a `Start` finds exactly what was
left; what a start cannot read keeps the process down until an `Edit`.

| `DurableStore` | `Settings` | `Hub` |
|---|---|---|
| `running` | `agent # "down"` | `hub # "down"` |
| `data` | `InForce`: memory with the defaults for empty fields; what a start would load, when down; without the new id, while start-up saves it | `Store`: the registry, or what a start would load |
| `readable` | `Readable`: not down with a broken file | always: `load` ignores a broken file |
| `safe` | `Safe`: no request under way, the last save good and alone | `Safe`: no save under way, the last one good |
| `Change`, `Save` | the steps of requests and saves; the last one of a good save is `Save` | `Accept`, `SaveFails`; `Write` |
| `Stop`, `Start` | `Crash`, `Boot` | `Crash`, `Restart` |
| `Edit` | `EditFile` | - |

## 3. What is checked

| Run | Instance | Shows |
|---|---|---|
| `manager_safety` | two requests at a time, two supervisor slots, two pids, a good, another and an empty configuration | the invariants below, what becomes of a stop, a change and a wish, and that the manager implements `MinerService` |
| `manager_liveness` | one request at a time, one supervisor, one valid configuration, fair goroutines | the five liveness properties |
| `lifecycle` | the systemd service: `main` and one handler, one supervisor, two pids, a good and an empty configuration, any number of shutdowns, deaths and starts, with saves cut off | no miner outside the running agent, `MinerService` over all lives, and the return after a crash |
| `miner_run` | short durations, two runs of three chunks, a pipe of one, a scanner of two and a log of three lines | bounds on a deaf miner's and a slow miner's life, on what runs leave to their successors, and the log |
| `settings` | two handlers, an ordinary and an emptied form, failing writes | durability and completeness of the settings, and that they implement `DurableStore` |
| `hub` | one device, seven moments, one report in a row may be lost, failing writes | online, freshness, order of readings and registry, and that the hub implements `DurableStore` |
| `lost_start`, `lost_stop` | small instances of `MinerManager` | two comments of `manager.go` that an interleaving breaks |
| `orphan_miner` | `AgentLifecycle` without systemd and without deaths | an orderly shutdown that leaves a miner behind |
| `concurrent_saves`, `form_keeps_fields`, `torn_config` | small instances of `Settings` | three promises about the settings that do not hold |

The first six find no error; each of the other six finds its one property violated.

The properties that hold:

* `SingleSupervisor`, `AtMostOneMiner`, `NoOrphan`, `StoppedMeansNoMiner`, `OnlyValidConfigRuns`,
  `SigkillOnlyAfterSigterm`, `CommandsDoNotOverlap`: whatever the order of requests, dying runs, stale
  watchdogs and timers, there is one supervisor and at most one miner, which somebody waits for, which
  has complete settings, and which is gone when `m.state` says so (`POST /api/stop` answers "gestopt" at once, which is
  no statement about the miner). `SigkillOnlyAfterSigterm` takes for granted that a pid is not reused while aimed at.
* `EscalationIsPending`: whoever got a SIGTERM and lives has its SIGKILL coming, also when the timer of another kill
  for the same pid fires in between. `StopHoldsForRun`, `ChangeHoldsForRun`: a stop, or a change of settings, that finds
  a registered run dooms it (it was signalled, or a request is about to), and no restart or other request takes that
  back. `WantedStaysSupervised`: supervision that is wanted goes on through crashes and errors; only a
  supervisor that saw `desired` false leaves. These are the positive side of `lost_stop` and `lost_start`: what they
  show happens in those windows and nowhere else.
* `ImplementsMinerService`: all of that in one abstract specification, under the refinement mapping
  `supervised <- supervising` and `running <-` the live processes with their settings. It is the weakest
  summary a caller may rely on: the miner is launched, exits and is launched again, with no two at once,
  and supervision ends only without one.
* `HungMinerIsKilled`, `KilledMinerIsReaped`, `ChangeEndsRun`, `StopCompletes`, `CrashIsRetried`: what the
  watchdog, the escalation and the supervisor must eventually do.
* `MinersHaveAnAgent`: `NoOrphan` for every agent that runs, so also for a miner of the one before it.
  `MachineRunsMinerService`: seen from outside, all the lives of the agent are a single `MinerService`, which is
  held as long as there is a supervisor or any process (`Held`). `AgentReturns`: after a crash an agent with
  auto-start comes to a launch again, if it does not die over and over, unless a user stops it, its settings are invalid
  or without auto-start, or a save that was cut off or had failed left a file that it cannot load.
* `DeafMinerEndsInTime`: a miner that hangs, or is stuck on its output, is dead after the grace period, one tick, one
  timeout and the escalation. `SlowMinerIsSpared`: and no watchdog strikes before as many checks in a row have
  failed as fit into the grace period. `RunsOverlapBriefly`: a run that began after the supervisor's pause,
  if that is longer than a health check, finds no check and no output of the runs before it; one that a `Stop` and a
  `Start` brought about may meet their checks, for one timeout at most. `LogIsTail` and `FoundLinesAreLogged`: the log
  shows the last lines, and a line that a scanner found is in it once, whether the pipe was closed by `cmd.Wait`, the
  scanner choked on a later line or the next run began.
* `RestartKeepsSettings`, `HiddenFieldsArePresent`: the file and the memory agree whenever no request is
  under way and the last save neither failed nor overlapped, up to the defaults for empty fields.
  `ImplementsDurableStore` says it of steps instead of states: in the settings, as in the hub's registry, a start changes
  nothing, and an end only when it hits a save or follows one that failed (or, in the agent, overlapped another).
* `ReportingDeviceIsOnline`, `OnlineReadingIsFresh`, `RegistryIsKept`: no false offline within the
  loss that the timing allows, no stale reading counted as online, nobody forgotten or reborn outside an
  interrupted save. `ReadingsInOrder`: while the hub runs, a newer reading is replaced by an older one only through a
  report that its sender had given up on; the only order there is comes from `sendOnce` waiting for its answer.

What does not hold is listed as findings with the line that says otherwise. With a run: a `Start` at the
moment a supervisor gives up is lost (`lost_start`); a `Stop` at the moment a miner is launched kills nothing
(`lost_stop`); overlapping saves diverge (`concurrent_saves`); the form wipes the community block
(`form_keeps_fields`); a crash during a save keeps the agent from ever starting again (`torn_config`); and a shutdown
without systemd can leave a miner behind (`orphan_miner`). Read off the models, without a run of their own: an
`UpdateConfig` at the moment a miner is launched has no effect on it; a watchdog whose last
health check outlives its run kills the successor of the miner it watched, after a `Stop` and a `Start` with the default
settings, or with a restart delay of one or two seconds (`StaleStrike`); a crash of the hub in a save empties its
registry (the reason why `RegistryIsKept` asks for `intact`). Four divergences between comments or documents and the code were met while modelling.

### Bounds

* Two callers: every violation found needs one request against the supervisor or a watchdog, or two
  requests against each other; a third waits for nothing the first two do not.
* Two supervisor slots and two pids: one more than the system should ever use, so that a second
  supervisor or miner would show, and a stale watchdog coexists with the current run. `lifecycle` has one
  supervisor, as a second never runs (`SingleSupervisor`), and two pids, for an old miner beside a new one. The theorems
  cover any number.
* `GraceTicks` is 1 in the safety run, so that a check can fail with and without consequence, and 0 in
  the liveness and lifecycle runs.
* Configurations: two valid ones with different API addresses and an invalid one, for settings that
  change and become invalid under a run. The liveness run has a single valid one, so there
  `UpdateConfig` restarts a miner with the same settings and the error path is left to the safety run; the lifecycle run has a
  good and an empty one, so that a start can find settings that keep it from mining; its requests bring the good one
  (`Posted`), as invalid settings under a run are the safety run's.
* `lifecycle` bounds neither shutdowns nor deaths. An agent that dies over and over never comes to a launch, so
  `AgentReturns` has the premise that at some time it dies no more. A save never fails by itself there: one that does
  leaves the file like one that is never over, which no fairness excludes.
* `miner_run`: the next run starts from what the last one left, so two runs show every way one ends and
  another begins. Grace is two periods, so that checks fail with and without consequence; the restart delay is longer than a
  timeout, as by default, and a `Stop` and a `Start` skip it. Two chunks of one line choke the scanner, the third
  then fills the pipe and blocks the miner; a log of three lines overflows in the first run. The ratios are smaller than those of the code,
  for which the theorems speak.
* Two handlers in `Settings`: overlap is between two. `MaxId = 1`: a second id is never made unless the
  first is lost. Two values of each field: the default and an empty one.
* One device in `hub`: devices meet only in a save, which writes them all. `MaxTime = 6` is longer than
  `OfflineAfter` and a delay, so that a device can go offline, come back, and be counted with an old reading;
  loss is bounded by `MaxLost`, as no code keeps a device online whose reports are all lost.

Deadlock is checked everywhere except in the runs of `Settings`, where the agent really stops: with a broken
file it stays down (and the bound on device ids ends some behaviours).

### Fairness

Only `manager_liveness` and `lifecycle` assume fairness, and only weak: of goroutines that have a step to take
(the Go scheduler runs runnable goroutines), in `manager_liveness` also of pending timers, and of the supervisor's sleeps, which end.
Nothing is assumed of the users, who may send no request or any number, nor of the miner: it need not exit
on SIGTERM and may hang or crash at any time. That a stop completes rests on the escalation alone.

`AgentFairness` asks for less of the agent: of `main` and the supervisor. Handlers, watchdogs, timers and saves of handlers
need not run. It asks of systemd (`SystemdRestarts`) that what is left of an agent that *failed* is killed and reaped
and that it is started again (`Restart=always`); an agent that was stopped need not be.

In `miner_run` no fairness is needed: time cannot pass a timer that is due, so "in time" is an
invariant.

## 4. What is proved

TLAPS checks the theorems for every value of the constants that satisfies the named assumptions. Most of these
are of the weakest kind: a default is among the values, a bound is a number, `None` is not a pid. Three say
something of the system: `TimeAssumption` of `Hub` (how many lost reports `OfflineAfter` allows for), `TimeAssumption` of
`MinerRun` (a health check times out before the next tick: 3 s against 15 s), and `Systemd`, a premise of three theorems of `AgentLifecycleProofs`. No bound of
the runs is used. Five theorems have a premise on the behaviour, and are about the findings (see *The windows*).

**MinerManagerProofs.** The invariants follow from one inductive invariant, `TypeInv /\ SafeInv`. The state
invariants alone are not inductive; what they need is:

* `CommandInv` and `ProcessInv`: where a supervisor is tells what it started and what is registered. Only a
  supervisor in `register`, `wait` or `reaped` has a process; before `Register` and after `Deregister`
  `m.cmd` is nil; every process that exists is that of a supervisor in `register` or `wait`.
* `SingleSupervisor`: with a single supervisor the process it has is the only one, hence `AtMostOneMiner`,
  and `m.cmd` is never overwritten by another command, hence `CommandsDoNotOverlap`.
* `StoppedInv`: the state is "gestopt" only where the supervisor has nothing, and `ValidInv`: what it is about
  to launch was validated after it was copied.

Each invariant is then read off, the refinement is proved step by step (every action is a step of
`MinerService` or leaves `supervised` and `running` alone), and `SigkillFollowsSigterm` adds that every pid in
`timers` belongs to a process that was asked to terminate or is gone, which `Exec` preserves exactly because it
does not reuse a pid that is aimed at.

**RequestProofs.** `TermedInv` (a pid that was signalled is not free, and pending as long as it lives) is inductive
because `killProcess` does both at once, a timer fires only into its own pid's death, and `Reap` forgets the signal with
the process; pids may be reused. The three action properties rest on one observation (`SupervisorUnderRun`): under
a command that is registered and stays so, the only step a supervisor can take is to reap that very process.
So nothing comes to life, and a signal is forgotten, only as that process ends; `DoomedStays` and `StopStep` go through
the other actions. `WantedStep` is the same for `supervising`: the one action that clears it needs
`~desired` or a supervisor that is `Leaving`.

**The windows.** A run that ends in a violation shows one way to break a promise, not that it is the only one.
Five theorems show that, each for behaviours that keep out of one window, given as a temporal premise:

| Theorem | Promise (run) | Premise |
|---|---|---|
| `StopEndsMinerOnceWindowIsClosed` | `StopEndsMiner` (`lost_stop`) | `RegistersWhenDesired`: no command is registered after the stop that missed it |
| `DesiredIsSupervisedOnceWindowIsClosed` | `DesiredIsSupervised` (`lost_start`) | `StartsBeforeLeaving`: no start leaves its wish to a supervisor on its way out |
| `SavesAreKeptOneByOne` | `SavedIsInForce` (`concurrent_saves`) | `OneByOne`: a request is received when no other is under way |
| `AgentCanStartAfterSafeEnd` | `AgentCanAlwaysStart` (`torn_config`) | `EndsWhenSafe`: the agent ends between saves, after a good one |
| `NoMinerIsLeftByPatientAgent` | `MinersHaveAnAgent` (`orphan_miner`) | `EndsAfterItsMiner`: `main` returns, or dies, when no miner is left |

They say what a repair has to achieve: a look at `desired` at the registration and in `finish`, and a lock around
`handleConfig`, make the first three premises true. The other two the code cannot make true by itself, as a process may
die at any moment: a file that is replaced instead of rewritten would make every end of the agent like one between
saves, and a `main` that waits covers a shutdown, but a death only a service manager such as systemd. The promise of `form_keeps_fields` is broken by a missing line, not in a window.

**AgentLifecycleProofs.** While the agent is up its goroutines keep `SafeInv`, by the lemmas of
`MinerManagerProofs`; while it is not, there are no goroutines (`NoGoroutines`), `SafeInv` fails as soon as a miner
is left, and what remains is `AtMostOneMiner`. `LifeInv` puts the two together; `Boot` restores `SafeInv` because
systemd waited until no process is left. The refinement is reused the same way: inside a life `Held` is `supervising`, so a step of
the manager's `Service` is one of `Machine`; between lives the last miner's end is `Exit` and its reaping `End`. All
that `LifeStep` takes is that no process is left at `Boot`; `NothingLeft` (no process is left of an agent that ended)
gives that too, hence `NoMinerIsLeftByPatientAgent`. Saves and failing loads leave the manager alone.

Without `Systemd` processes of several lives can be there at once (`orphan_miner`), and what remains is the part of
`SafeInv` that is about the agent's own supervisor and command, and the settings of all processes. That part, `OwnInv`, is
inductive by itself and gives `SupervisorIsSingleEver`, `RunsAreValidEver` and `CommandsAreSeparateEver` on any
system; `SigkillFollowsSigtermEver` holds because no kill and no timer outlives its agent. What is lost without
systemd is what a miner without an agent breaks (`AtMostOneMiner`, `NoOrphan`, `StoppedMeansNoMiner`), and the escalation
of a kill whose agent ended.

**MinerRunProofs.** `IInv` is the types and: `SilenceInv` bounds, for each place of the watchdog, how much
time its next decision can still take; `MissInv` counts the failed checks that the silence stands for; `StaleInv` keeps
age and remaining time of an old run's check within a timeout; `PauseInv` compares what is left of old checks with what
is left of the supervisor's sleep, which is where the premise `Timeout < RestartDelay` of `RunsOverlapBriefly` enters, and
knows no more once a `Start` made the supervisor `hasty`; `OutputInv`, `LogInv` and `LineInv` say that the log is the tail
of all that was added and that each line a scanner found is in its buffer or logged. Lemma `AddKeepsLogInv` is the ring buffer by
itself.

**HubProofs.** `HubInv` is the types and: `FlightInv` (reports are delivered or given up in time, and the one a reporter
waits for is its last), `FreshInv` (no entry is from the future, or older than its delay), `KeptInv` (memory and file hold only
accepted devices and, while `intact`, all of them with the moment they were first accepted) and `OnlineInv` (how
old a reporting device's entry can be, given the reports it lost). The arithmetic of the first assumption is in
two lemmas. `ReadingsAreOrdered` needs `OrderInv` besides: no entry is newer than a report that is still awaited, because
a reporter sends its next one only after the answer. The refinement of `DurableStore` (`HubImplementsStore`) needs of
the invariant only that the file holds what memory does whenever the hub is safe.

**SettingsProofs.** `CompleteInv` (types, and no absent hidden field in memory or under way) is inductive because
`handleConfig` fills in from memory, which is complete. Durability needs `PhaseInv` (while no request overlaps at
most one goroutine saves) and `WriterInv` (it has put its settings in memory before it opens the file, and
between truncation and write the file is empty, so its write leaves its own text); the lemma
`DefaultsAreStable` says that applying the defaults twice changes nothing. In the refinement of `DurableStore` every step
of a request runs while something is unsaved, so that `RequestStep` covers them all; `CrashIsStop` is where
`RestartKeepsSettings` enters, and `BootIsStart` where `DefaultsAreStable` and `IdForgotten` do (a start that adds an id
changes nothing else).

Only model-checked: the liveness properties (`manager_liveness` and `AgentReturns`), as fairness and ENABLED are
beyond the proof system used. No recursion or induction over data is needed anywhere. Every invariant and every safety
property that a passing run checks is also a theorem.

## 5. What is not modelled

* Functions without state, on text or numbers that no property is about: the masking of the user name in log lines, the
  user and display names, `clip` in the hub, the command line of XMRig (`buildArgs`), the decoding and totals of
  statistics, the sorting of the device list.
* Read-only pages: status, logs, debug, the dashboards, and system information (temperature, load,
  uptime), which read a state and change none.
* What is only reported of the manager: `lastError`, `lastExit`, `startedAt`, `restartCount`.
* Durations in `MinerManager` and `AgentLifecycle`, where every timer may end at any moment; `MinerRun` and `Hub` have them.
* The two output pipes of a miner are one in `MinerRun`, every launch there succeeds, and what the goroutines do takes
  no time.
* A miner that blocks on its output and still answers its API (see `MinerRun` above).
* The reuse of a pid within eight seconds (`PidReuse`), against which the code has no protection.
* In `AgentLifecycle`, what the settings file says, and an owner who mends a broken one; `Settings` has both.
* Windows: the immediate kill is `Escalation = 0`, which the theorems about `MinerRun` include; no run
  has it.
* An owner who edits the file while the agent runs: the next save overwrites the edit.
* The data race on `m.client` in `watchHealth`: the read is modelled as atomic.
* Fields of the community block other than the three named, and `extra_args`, which behave like those modelled.
* The build scripts and the image, except for the agent's unit; the mock miner, except for the ways it behaves (it
  writes, crashes, hangs), which are those of the miner in `MinerRun`.

## 6. Order of work, and what is left

The manager came first (the agent exists for it), then its proofs, the settings and theirs, the hub; then time
(`MinerRun`), the agent's process (`AgentLifecycle`), and the proofs of all three; then what becomes of requests
(`RequestProofs`), `DurableStore` with its two refinements, and the windows. The hazards in `PROJECT.json` without a
property say why they have none. Worth adding next:

1. `MinerRun` as a timed refinement of `MinerManager`'s supervisor and watchdog.
2. The reading the dashboard shows, over the ends and starts of the hub: `ReadingsInOrder` is about a hub that runs.
