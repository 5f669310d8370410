---------------------------- MODULE MinerManager ----------------------------
(***************************************************************************)
(* The miner supervisor of the agent (internal/miner/manager.go with       *)
(* process_unix.go): the Manager behind its mutex, the supervisor          *)
(* goroutine that keeps one XMRig process alive, a watchdog goroutine per  *)
(* run, the HTTP handlers that start, stop and reconfigure it, the         *)
(* SIGTERM / SIGKILL escalation and the operating system's processes.      *)
(*                                                                         *)
(* A step of a goroutine is what happens under one hold of the mutex or    *)
(* one system call; everything between two such steps can interleave.      *)
(* Left out: what is only reported (lastError, lastExit, startedAt,        *)
(* restartCount and the log lines) and the durations, so that a sleep and  *)
(* a timer end at any time.                                                *)
(***************************************************************************)
EXTENDS Naturals

CONSTANTS
  Supervisors,   \* slots for supervise() goroutines
  Callers,       \* goroutines that call the Manager: HTTP handlers and main
  Pids,          \* process ids, one watchdog slot for each
  Configs,       \* configurations
  Valid,         \* the configurations that Validate() accepts
  Endpoints,     \* addresses of the miner's HTTP API
  Api,           \* the address in each configuration
  GraceTicks,    \* failed health checks in a row that HealthGraceSeconds allows
  PidReuse,      \* may the system hand out a pid that a kill still aims at?
  None           \* the nil *exec.Cmd; also what a variable out of scope holds

ASSUME ConfigsAssumption == Valid \subseteq Configs /\ Api \in [Configs -> Endpoints]
ASSUME GraceAssumption   == GraceTicks \in Nat
ASSUME ReuseAssumption   == PidReuse \in BOOLEAN
ASSUME NoneAssumption    == None \notin Pids \union Configs \union Endpoints

VARIABLES
  cfg,           \* m.cfg; m.client is always made from it, so it is Api[cfg]
  desired,       \* m.desired
  supervising,   \* m.supervising
  state,         \* m.state
  cmd,           \* m.cmd: the pid of the registered run, or None
  spc,           \* where each supervisor is
  scfg,          \* supervise()'s copy of the configuration
  spid,          \* the process its runOnce() started
  proc,          \* the system's view of each pid
  run,           \* the configuration a process was started with
  termed,        \* pids whose process was sent SIGTERM
  timers,        \* pids with a SIGKILL pending in time.AfterFunc
  wpc,           \* where the watchdog of each run is
  wapi,          \* the address its health check polls
  wmiss,         \* failed checks since the last healthy one
  wtarget,       \* the command it is about to kill
  wdone,         \* is its healthDone channel closed?
  cpc,           \* where each caller is
  ctarget        \* the command it is about to kill

managerVars == <<cfg, desired, supervising, state, cmd>>
supVars     == <<spc, scfg, spid>>
procVars    == <<proc, run>>
killVars    == <<termed, timers>>
watchVars   == <<wpc, wapi, wmiss, wtarget, wdone>>
callerVars  == <<cpc, ctarget>>
vars == <<managerVars, supVars, procVars, killVars, watchVars, callerVars>>

States == {"stopped", "starting", "running", "restarting", "error"}
SupPc  == {"none", "top", "validate", "exec", "register", "wait", "reaped",
           "after", "count", "sleep", "finish"}
ProcStates == {"free", "alive", "hung", "zombie"}
WatchPc  == {"none", "idle", "fetch", "strike", "kill"}
CallerPc == {"idle", "start", "signal", "kill"}

Live(p) == proc[p] \in {"alive", "hung"}

-----------------------------------------------------------------------------
Init ==
  /\ cfg \in Configs
  /\ desired = FALSE /\ supervising = FALSE
  /\ state = "stopped"
  /\ cmd = None
  /\ spc = [s \in Supervisors |-> "none"]
  /\ scfg = [s \in Supervisors |-> None]
  /\ spid = [s \in Supervisors |-> None]
  /\ proc = [p \in Pids |-> "free"]
  /\ run = [p \in Pids |-> None]
  /\ termed = {} /\ timers = {}
  /\ wpc = [p \in Pids |-> "none"]
  /\ wapi = [p \in Pids |-> None]
  /\ wmiss = [p \in Pids |-> 0]
  /\ wtarget = [p \in Pids |-> None]
  /\ wdone = [p \in Pids |-> FALSE]
  /\ cpc = [c \in Callers |-> "idle"]
  /\ ctarget = [c \in Callers |-> None]

\* The processes that a kill(-pid) for this command still finds: none when the
\* command is nil or its process group is gone (ESRCH), zombies included.
Reachable(p) == {q \in Pids : q = p /\ proc[q] # "free"}

\* Seeded fault: no escalation to SIGKILL.
KillProcessGently(p) ==
  /\ termed' = termed \union Reachable(p)
  /\ UNCHANGED <<timers, procVars>>

\* Seeded fault: SIGKILL is scheduled without a SIGTERM.
KillProcessLater(p) ==
  /\ timers' = timers \union Reachable(p)
  /\ UNCHANGED <<termed, procVars>>

\* killProcess: SIGTERM, and a SIGKILL 8 s later if SIGTERM found the group.
KillProcess(p) ==
  /\ termed' = termed \union Reachable(p)
  /\ timers' = timers \union Reachable(p)
  /\ UNCHANGED procVars

-----------------------------------------------------------------------------
(* The callers: POST /api/start, /api/stop and /api/config, main's          *)
(* auto-start and its Stop on shutdown.                                     *)

\* handleStart (and main's auto-start): refuse when the configuration does not
\* validate, else call Start, which takes the mutex anew.
HandleStart(c) ==
  /\ cpc[c] = "idle"
  /\ cfg \in Valid
  /\ cpc' = [cpc EXCEPT ![c] = "start"]
  /\ UNCHANGED <<managerVars, supVars, procVars, killVars, watchVars, ctarget>>

StartSupervised(c) ==
  /\ cpc[c] = "start"
  /\ supervising
  /\ desired' = TRUE
  /\ cpc' = [cpc EXCEPT ![c] = "idle"]
  /\ UNCHANGED <<cfg, supervising, state, cmd, supVars, procVars, killVars,
                 watchVars, ctarget>>

\* Seeded fault: m.supervising is not tested.
StartSupervisorAlways(c, s) ==
  /\ cpc[c] = "start"
  /\ desired' = TRUE
  /\ supervising' = TRUE
  /\ spc[s] = "none"
  /\ spc' = [spc EXCEPT ![s] = "top"]
  /\ cpc' = [cpc EXCEPT ![c] = "idle"]
  /\ UNCHANGED <<cfg, state, cmd, scfg, spid, procVars, killVars, watchVars, ctarget>>

StartSupervisor(c, s) ==
  /\ cpc[c] = "start"
  /\ ~supervising
  /\ desired' = TRUE
  /\ supervising' = TRUE
  /\ spc[s] = "none"
  /\ spc' = [spc EXCEPT ![s] = "top"]
  /\ cpc' = [cpc EXCEPT ![c] = "idle"]
  /\ UNCHANGED <<cfg, state, cmd, scfg, spid, procVars, killVars, watchVars, ctarget>>

Start(c) == StartSupervised(c) \/ \E s \in Supervisors : StartSupervisor(c, s)

\* Seeded fault: Stop reports the miner as stopped before it is.
StopAtOnce(c) ==
  /\ cpc[c] = "idle"
  /\ desired' = FALSE
  /\ state' = "stopped"
  /\ ctarget' = [ctarget EXCEPT ![c] = cmd]
  /\ cpc' = [cpc EXCEPT ![c] = "kill"]
  /\ UNCHANGED <<cfg, supervising, cmd, supVars, procVars, killVars, watchVars>>

Stop(c) ==
  /\ cpc[c] = "idle"
  /\ desired' = FALSE
  /\ ctarget' = [ctarget EXCEPT ![c] = cmd]
  /\ cpc' = [cpc EXCEPT ![c] = "kill"]
  /\ UNCHANGED <<cfg, supervising, state, cmd, supVars, procVars, killVars, watchVars>>

\* Seeded fault: the command is read but never killed.
SignalNothing(c) ==
  /\ cpc[c] = "signal"
  /\ cpc' = [cpc EXCEPT ![c] = "idle"]
  /\ UNCHANGED <<managerVars, supVars, procVars, killVars, watchVars, ctarget>>

\* The configuration and the API client change under one hold of the mutex; only
\* when a command is registered at that moment is it signalled.
UpdateConfig(c, new) ==
  /\ cpc[c] = "idle"
  /\ cfg' = new
  /\ cpc' = [cpc EXCEPT ![c] = IF cmd # None THEN "signal" ELSE "idle"]
  /\ UNCHANGED <<desired, supervising, state, cmd, supVars, procVars, killVars,
                 watchVars, ctarget>>

SignalRestart(c) ==
  /\ cpc[c] = "signal"
  /\ ctarget' = [ctarget EXCEPT ![c] = cmd]
  /\ cpc' = [cpc EXCEPT ![c] = "kill"]
  /\ UNCHANGED <<managerVars, supVars, procVars, killVars, watchVars>>

CallerKills(c) ==
  /\ cpc[c] = "kill"
  /\ KillProcess(ctarget[c])
  /\ ctarget' = [ctarget EXCEPT ![c] = None]
  /\ cpc' = [cpc EXCEPT ![c] = "idle"]
  /\ UNCHANGED <<managerVars, supVars, watchVars>>

\* A request under way; when one comes in is up to the user.
CallerStep(c) == Start(c) \/ SignalRestart(c) \/ CallerKills(c)
Request(c) ==
  \/ HandleStart(c)
  \/ Stop(c)
  \/ \E new \in Configs : UpdateConfig(c, new)

-----------------------------------------------------------------------------
(* The supervisor goroutine: supervise() and runOnce().                     *)

Goto(s, pc) == spc' = [spc EXCEPT ![s] = pc]

\* Seeded fault: m.state is not set.
FinishSilently(s) ==
  /\ \/ spc[s] = "top" /\ ~desired
     \/ spc[s] = "finish"
  /\ supervising' = FALSE
  /\ Goto(s, "none")
  /\ UNCHANGED <<cfg, desired, state, cmd, scfg, spid, procVars, killVars, watchVars,
                 callerVars>>

\* finish(), and the first test of the loop, which does the same.
Finish(s) ==
  /\ \/ spc[s] = "top" /\ ~desired
     \/ spc[s] = "finish"
  /\ state' = "stopped"
  /\ supervising' = FALSE
  /\ Goto(s, "none")
  /\ UNCHANGED <<cfg, desired, cmd, scfg, spid, procVars, killVars, watchVars, callerVars>>

CopyConfig(s) ==
  /\ spc[s] = "top"
  /\ desired
  /\ scfg' = [scfg EXCEPT ![s] = cfg]
  /\ Goto(s, "validate")
  /\ UNCHANGED <<managerVars, spid, procVars, killVars, watchVars, callerVars>>

\* The copy does not validate: setError, then the 3 s sleep.
RejectConfig(s) ==
  /\ spc[s] = "validate"
  /\ scfg[s] \notin Valid
  /\ state' = "error"
  /\ scfg' = [scfg EXCEPT ![s] = None]
  /\ Goto(s, "sleep")
  /\ UNCHANGED <<cfg, desired, supervising, cmd, spid, procVars, killVars, watchVars,
                 callerVars>>

\* Seeded fault: the copied settings are not validated.
LaunchUnchecked(s) ==
  /\ spc[s] = "validate"
  /\ state' = "starting"
  /\ Goto(s, "exec")
  /\ UNCHANGED <<cfg, desired, supervising, cmd, scfg, spid, procVars, killVars,
                 watchVars, callerVars>>

Launch(s) ==
  /\ spc[s] = "validate"
  /\ scfg[s] \in Valid
  /\ state' = "starting"
  /\ Goto(s, "exec")
  /\ UNCHANGED <<cfg, desired, supervising, cmd, scfg, spid, procVars, killVars,
                 watchVars, callerVars>>

ExecFails(s) ==
  /\ spc[s] = "exec"
  /\ state' = "error"
  /\ scfg' = [scfg EXCEPT ![s] = None]
  /\ Goto(s, "after")
  /\ UNCHANGED <<cfg, desired, supervising, cmd, spid, procVars, killVars, watchVars,
                 callerVars>>

\* A pid some kill still aims at: of a pending timer, a caller or a watchdog.
AimedAt(p) ==
  \/ p \in timers
  \/ \E c \in Callers : ctarget[c] = p
  \/ \E q \in Pids : wtarget[q] = p

\* cmd.Start(): the system picks a pid that is not in use.
Exec(s, p) ==
  /\ spc[s] = "exec"
  /\ proc[p] = "free"
  /\ wpc[p] = "none"
  /\ PidReuse \/ ~AimedAt(p)
  /\ proc' = [proc EXCEPT ![p] = "alive"]
  /\ run' = [run EXCEPT ![p] = scfg[s]]
  /\ scfg' = [scfg EXCEPT ![s] = None]
  /\ spid' = [spid EXCEPT ![s] = p]
  /\ Goto(s, "register")
  /\ UNCHANGED <<managerVars, killVars, watchVars, callerVars>>

\* The command becomes m.cmd and its watchdog starts.
Register(s) ==
  /\ spc[s] = "register"
  /\ cmd' = spid[s]
  /\ state' = "running"
  /\ wpc' = [wpc EXCEPT ![spid[s]] = "idle"]
  /\ wmiss' = [wmiss EXCEPT ![spid[s]] = 0]
  /\ Goto(s, "wait")
  /\ UNCHANGED <<cfg, desired, supervising, scfg, spid, procVars, killVars, wapi,
                 wtarget, wdone, callerVars>>

\* Seeded fault: the run ends without waiting for the process.
ReapUnwaited(s) ==
  /\ spc[s] = "wait"
  /\ wdone' = [wdone EXCEPT ![spid[s]] = wpc[spid[s]] # "none"]
  /\ Goto(s, "reaped")
  /\ UNCHANGED <<managerVars, scfg, spid, procVars, killVars, wpc, wapi, wmiss, wtarget,
                 callerVars>>

\* cmd.Wait() returns, the pid is free again and healthDone is closed.
Reap(s) ==
  /\ spc[s] = "wait"
  /\ proc[spid[s]] = "zombie"
  /\ proc' = [proc EXCEPT ![spid[s]] = "free"]
  /\ run' = [run EXCEPT ![spid[s]] = None]
  /\ termed' = termed \ {spid[s]}
  /\ wdone' = [wdone EXCEPT ![spid[s]] = wpc[spid[s]] # "none"]
  /\ Goto(s, "reaped")
  /\ UNCHANGED <<managerVars, scfg, spid, timers, wpc, wapi, wmiss, wtarget, callerVars>>

\* Seeded fault: m.cmd keeps pointing at the reaped process.
DeregisterLate(s) ==
  /\ spc[s] = "reaped"
  /\ spid' = [spid EXCEPT ![s] = None]
  /\ Goto(s, "after")
  /\ UNCHANGED <<managerVars, scfg, procVars, killVars, watchVars, callerVars>>

Deregister(s) ==
  /\ spc[s] = "reaped"
  /\ cmd' = None
  /\ spid' = [spid EXCEPT ![s] = None]
  /\ Goto(s, "after")
  /\ UNCHANGED <<cfg, desired, supervising, state, scfg, procVars, killVars, watchVars,
                 callerVars>>

\* Seeded fault: the test of desired is inverted.
AfterRunInverted(s) ==
  /\ spc[s] = "after"
  /\ Goto(s, IF desired THEN "finish" ELSE "count")
  /\ UNCHANGED <<managerVars, scfg, spid, procVars, killVars, watchVars, callerVars>>

\* desired is read under the mutex, and acted on after it is released.
AfterRun(s) ==
  /\ spc[s] = "after"
  /\ Goto(s, IF desired THEN "count" ELSE "finish")
  /\ UNCHANGED <<managerVars, scfg, spid, procVars, killVars, watchVars, callerVars>>

CountRestart(s) ==
  /\ spc[s] = "count"
  /\ state' = "restarting"
  /\ Goto(s, "sleep")
  /\ UNCHANGED <<cfg, desired, supervising, cmd, scfg, spid, procVars, killVars,
                 watchVars, callerVars>>

\* sleepInterruptible: cut short when desired is false, at the latest seen at the end.
Wake(s) ==
  /\ spc[s] = "sleep"
  /\ Goto(s, IF desired THEN "top" ELSE "finish")
  /\ UNCHANGED <<managerVars, scfg, spid, procVars, killVars, watchVars, callerVars>>

SupervisorStep(s) ==
  \/ Finish(s) \/ CopyConfig(s) \/ RejectConfig(s) \/ Launch(s) \/ ExecFails(s)
  \/ \E p \in Pids : Exec(s, p)
  \/ Register(s) \/ Reap(s) \/ Deregister(s)
  \/ AfterRun(s) \/ CountRestart(s) \/ Wake(s)

-----------------------------------------------------------------------------
(* The watchdog goroutine of the run with pid p: watchHealth().             *)

WatchTick(p) ==
  /\ wpc[p] = "idle"
  /\ wpc' = [wpc EXCEPT ![p] = "fetch"]
  /\ wapi' = [wapi EXCEPT ![p] = Api[cfg]]
  /\ UNCHANGED <<managerVars, supVars, procVars, killVars, wmiss, wtarget, wdone, callerVars>>

\* Whichever miner listens on the address answers.
FetchOk(p) ==
  /\ wpc[p] = "fetch"
  /\ \E q \in Pids : proc[q] = "alive" /\ Api[run[q]] = wapi[p]
  /\ wpc' = [wpc EXCEPT ![p] = "idle"]
  /\ wapi' = [wapi EXCEPT ![p] = None]
  /\ wmiss' = [wmiss EXCEPT ![p] = 0]
  /\ UNCHANGED <<managerVars, supVars, procVars, killVars, wtarget, wdone, callerVars>>

\* Seeded fault: failures are counted but the grace period never ends.
FetchFailsForgiven(p) ==
  /\ wpc[p] = "fetch"
  /\ wmiss' = [wmiss EXCEPT ![p] = @ + 1]
  /\ wpc' = [wpc EXCEPT ![p] = "idle"]
  /\ wapi' = [wapi EXCEPT ![p] = None]
  /\ UNCHANGED <<managerVars, supVars, procVars, killVars, wtarget, wdone, callerVars>>

\* No answer within 3 s, also from a miner that is merely slow.
FetchFails(p) ==
  /\ wpc[p] = "fetch"
  /\ wmiss' = [wmiss EXCEPT ![p] = @ + 1]
  /\ wpc' = [wpc EXCEPT ![p] = IF wmiss[p] < GraceTicks THEN "idle" ELSE "strike"]
  /\ wapi' = [wapi EXCEPT ![p] = None]
  /\ UNCHANGED <<managerVars, supVars, procVars, killVars, wtarget, wdone, callerVars>>

\* The command it kills is whatever m.cmd is by now.
WatchAims(p) ==
  /\ wpc[p] = "strike"
  /\ wtarget' = [wtarget EXCEPT ![p] = cmd]
  /\ wpc' = [wpc EXCEPT ![p] = "kill"]
  /\ UNCHANGED <<managerVars, supVars, procVars, killVars, wapi, wmiss, wdone, callerVars>>

WatchKills(p) ==
  /\ wpc[p] = "kill"
  /\ KillProcess(wtarget[p])
  /\ wtarget' = [wtarget EXCEPT ![p] = None]
  /\ wpc' = [wpc EXCEPT ![p] = "none"]
  /\ wdone' = [wdone EXCEPT ![p] = FALSE]
  /\ wmiss' = [wmiss EXCEPT ![p] = 0]
  /\ UNCHANGED <<managerVars, supVars, wapi, callerVars>>

\* Seeded fault: the watchdog leaves while its run is going on.
WatchDoneEarly(p) ==
  /\ wpc[p] = "idle"
  /\ wpc' = [wpc EXCEPT ![p] = "none"]
  /\ wdone' = [wdone EXCEPT ![p] = FALSE]
  /\ wmiss' = [wmiss EXCEPT ![p] = 0]
  /\ UNCHANGED <<managerVars, supVars, procVars, killVars, wapi, wtarget, callerVars>>

WatchDone(p) ==
  /\ wpc[p] = "idle"
  /\ wdone[p]
  /\ wpc' = [wpc EXCEPT ![p] = "none"]
  /\ wdone' = [wdone EXCEPT ![p] = FALSE]
  /\ wmiss' = [wmiss EXCEPT ![p] = 0]
  /\ UNCHANGED <<managerVars, supVars, procVars, killVars, wapi, wtarget, callerVars>>

WatchStep(p) ==
  \/ WatchTick(p) \/ FetchOk(p) \/ FetchFails(p)
  \/ WatchAims(p) \/ WatchKills(p) \/ WatchDone(p)

-----------------------------------------------------------------------------
(* The operating system and the miner itself.                               *)

\* The SIGKILL of killProcess's timer: without effect once the pid is free.
TimerFires(p) ==
  /\ p \in timers
  /\ timers' = timers \ {p}
  /\ proc' = IF Live(p) THEN [proc EXCEPT ![p] = "zombie"] ELSE proc
  /\ UNCHANGED <<managerVars, supVars, run, termed, watchVars, callerVars>>

\* On SIGTERM, by itself or in a crash.
MinerExits(p) ==
  /\ Live(p)
  /\ proc' = [proc EXCEPT ![p] = "zombie"]
  /\ UNCHANGED <<managerVars, supVars, run, killVars, watchVars, callerVars>>

\* The miner stops answering, without exiting.
MinerHangs(p) ==
  /\ proc[p] = "alive"
  /\ proc' = [proc EXCEPT ![p] = "hung"]
  /\ UNCHANGED <<managerVars, supVars, run, killVars, watchVars, callerVars>>

-----------------------------------------------------------------------------
Next ==
  \/ \E c \in Callers : Request(c) \/ CallerStep(c)
  \/ \E s \in Supervisors : SupervisorStep(s)
  \/ \E p \in Pids : WatchStep(p) \/ TimerFires(p) \/ MinerExits(p) \/ MinerHangs(p)

Spec == Init /\ [][Next]_vars

\* Goroutines are scheduled and timers fire; nothing is assumed of the users,
\* and the miner may ignore SIGTERM for ever.
Fairness ==
  /\ \A c \in Callers : WF_vars(CallerStep(c))
  /\ \A s \in Supervisors : WF_vars(SupervisorStep(s))
  /\ \A p \in Pids : WF_vars(WatchStep(p)) /\ WF_vars(TimerFires(p))

FairSpec == Spec /\ Fairness

-----------------------------------------------------------------------------
TypeOK ==
  /\ cfg \in Configs
  /\ desired \in BOOLEAN /\ supervising \in BOOLEAN
  /\ state \in States
  /\ cmd \in Pids \union {None}
  /\ spc \in [Supervisors -> SupPc]
  /\ scfg \in [Supervisors -> Configs \union {None}]
  /\ spid \in [Supervisors -> Pids \union {None}]
  /\ proc \in [Pids -> ProcStates]
  /\ run \in [Pids -> Configs \union {None}]
  /\ termed \subseteq Pids /\ timers \subseteq Pids
  /\ wpc \in [Pids -> WatchPc]
  /\ wapi \in [Pids -> Endpoints \union {None}]
  /\ wmiss \in [Pids -> 0 .. GraceTicks + 1]
  /\ wtarget \in [Pids -> Pids \union {None}]
  /\ wdone \in [Pids -> BOOLEAN]
  /\ cpc \in [Callers -> CallerPc]
  /\ ctarget \in [Callers -> Pids \union {None}]

\* A goroutine runs supervise() exactly while m.supervising is set, and never two:
\* the guard of Start (manager.go:101) and the two places that clear the flag
\* (177, 325) agree whatever the order of Start, Stop and a dying run.
SingleSupervisor ==
  /\ supervising <=> \E s \in Supervisors : spc[s] # "none"
  /\ \A s, t \in Supervisors : spc[s] # "none" /\ spc[t] # "none" => s = t

\* "Manager superviseert precies een XMRig-proces" (manager.go:43): at no moment are
\* there two miner processes, not even one being killed beside its replacement.
AtMostOneMiner ==
  \A p, q \in Pids : proc[p] # "free" /\ proc[q] # "free" => p = q

\* Every process has a supervisor that will register it or is waiting for it, so
\* it is reaped when it exits; and outside the window between cmd.Start and the
\* registration (manager.go:233-239) it is the one that Stop would kill.
NoOrphan ==
  \A p \in Pids : proc[p] # "free" =>
    \E s \in Supervisors :
      /\ spid[s] = p
      /\ \/ spc[s] = "register" /\ cmd = None
         \/ spc[s] = "wait" /\ cmd = p

\* While m.state is "gestopt" no miner is left: not one that ignores SIGTERM, nor one
\* launched while Stop looked at a nil m.cmd.  (The answer of POST /api/stop says "gestopt" at
\* once, server.go:157, and is no promise about the miner.)
StoppedMeansNoMiner ==
  state = "stopped" => cmd = None /\ \A p \in Pids : proc[p] = "free"

\* A miner is only launched with settings that Validate accepts, also when they
\* are changed between the check in handleStart and the launch.
OnlyValidConfigRuns ==
  \A p \in Pids : proc[p] # "free" => run[p] \in Valid

\* Only a nil m.cmd is replaced: a run is reaped and deregistered before the next
\* one is registered, so no caller ever sees one command turn into another.
CommandsDoNotOverlap == [][cmd # None => cmd' \in {cmd, None}]_vars

\* A pending SIGKILL never aims at a miner that was not asked to terminate first: "is
\* het proces al weg, dan levert SIGKILL simpelweg ESRCH op" (process_unix.go:32).  The
\* timer keeps only the number, so this needs ~PidReuse: the system does not hand out
\* a pid again within the 8 s for which a kill may still aim at it.
SigkillOnlyAfterSigterm == ~PidReuse => \A p \in timers : Live(p) => p \in termed

\* Every process that got its SIGTERM and still lives has a SIGKILL coming
\* (process_unix.go:34), whichever caller or watchdog sent it, and also when another kill's
\* timer for the same pid fires in between.
EscalationIsPending == \A p \in termed : Live(p) => p \in timers

\* This miner was asked to terminate, or a request is about to ask it; for a change of
\* settings, the request may still have to look up the command.
Doomed(p) == Live(p) => p \in termed \/ \E c \in Callers : ctarget[c] = p
Due(p) == Doomed(p) \/ \E c \in Callers : cpc[c] = "signal"

\* A stop that finds a registered run dooms it, and no restart, other request or watchdog
\* takes that back (manager.go:110-118): the only stop that ends nothing is one that finds no
\* command, between a supervisor's look at desired and the registration.
StopHoldsForRun ==
  [][cmd # None /\ cmd' = cmd /\ (Doomed(cmd) \/ (desired /\ ~desired')) => Doomed(cmd)']_vars

\* "Draait de miner al, dan wordt hij met de nieuwe instellingen herstart" (manager.go:80):
\* settings that change while a run is registered make its end due, and it stays due; only
\* a change before the registration is missed.
ChangeHoldsForRun ==
  [][cmd # None /\ cmd' = cmd /\ (Due(cmd) \/ cfg' # cfg) => Due(cmd)']_vars

\* The supervisor has seen desired = FALSE and is on its way out.
Leaving == \E s \in Supervisors : spc[s] = "finish"

\* "supervise houdt het proces in leven zolang desired==true" (manager.go:171), with its one
\* exception: supervision that is wanted goes on, through crashes, errors and restarts, unless
\* the wish came back after the supervisor's last look at it (manager.go:195-199, 322-326).
WantedStaysSupervised ==
  [][supervising /\ desired /\ desired' /\ ~Leaving => supervising' /\ ~Leaving']_vars

\* The first properties at once, as what the rest of the agent may rely on: a supervised
\* service that runs one miner after another and ends with none.
Service == INSTANCE MinerService WITH
             Miners <- Pids \X Valid,
             supervised <- supervising,
             running <- {<<p, run[p]>> : p \in {q \in Pids : Live(q)}}

ImplementsMinerService == Service!Spec

-----------------------------------------------------------------------------
(* What the comments promise and an interleaving breaks.                    *)

\* "supervise houdt het proces in leven zolang desired==true" (manager.go:171) and
\* "Start zet de gewenste toestand op draaien en start de supervisor" (96).
DesiredIsSupervised == desired => supervising

\* "Stop zet de gewenste toestand op gestopt en beeindigt het proces" (manager.go:110):
\* once a stop is in force, the registered miner was signalled or is about to be.
StopEndsMiner == ~desired /\ cmd # None => Doomed(cmd)

-----------------------------------------------------------------------------
(* Liveness, of FairSpec.                                                   *)

\* A registered miner that hangs is killed by its watchdog or someone else
\* (manager.go:286-297), whatever requests and older watchdogs do meanwhile.
HungMinerIsKilled ==
  \A p \in Pids : (cmd = p /\ proc[p] = "hung") ~> (proc[p] # "hung")

\* Every SIGTERM that found a miner leads to its death and to Wait reaping it, even
\* when the miner ignores the signal: the timer escalates (process_unix.go:34).
KilledMinerIsReaped ==
  \A p \in Pids : (p \in termed /\ proc[p] # "free") ~> (proc[p] = "free")

\* A settings change that saw a registered command ends that run, whatever the
\* supervisor, the watchdogs and another request do meanwhile: "Draait de miner al, dan
\* wordt hij met de nieuwe instellingen herstart" (manager.go:80).
ChangeEndsRun ==
  \A c \in Callers, p \in Pids : (cpc[c] = "signal" /\ cmd = p) ~> (cmd # p)

\* A stop that found the registered miner ends in "gestopt", unless the user asks
\* for a start again.
StopCompletes ==
  (~desired /\ cmd # None /\ cmd \in termed) ~> (desired \/ state = "stopped")

\* A miner that exits is launched again (or at least tried), "zodat de miner niet
\* meer stilvalt" (manager.go:1), unless it was stopped or the settings became
\* invalid meanwhile.
CrashIsRetried ==
  \A p \in Pids :
    (proc[p] = "zombie") ~>
      (~desired \/ cfg \notin Valid \/ \E s \in Supervisors : spc[s] = "exec")
=============================================================================
