--------------------------- MODULE AgentLifecycle ---------------------------
(***************************************************************************)
(* The agent's process (cmd/vhnw-agent/main.go) around MinerManager: it    *)
(* loads its settings, starts, possibly with the miner, is shut down or    *)
(* dies, and is started again.  Every goroutine and timer of the agent     *)
(* ends with its process; the miner, which runs in a process group of its  *)
(* own, does not, and the settings file stays as it is.                    *)
(***************************************************************************)
EXTENDS MinerManager

CONSTANTS
  Main,        \* the main goroutine
  AutoStart,   \* the configurations with auto_start
  Posted,      \* the configurations that requests bring; a start may find others as well
  Systemd,     \* is the agent a systemd service, as deploy/vhnw-agent.service has it?
  Dies         \* does it also end otherwise than by the return of main?

ASSUME MainAssumption    == Main \in Callers
ASSUME AutoAssumption    == AutoStart \subseteq Configs /\ Posted \subseteq Configs
ASSUME SystemdAssumption == Systemd \in BOOLEAN /\ Dies \in BOOLEAN

VARIABLES
  agent,       \* the process: "off", "up", "stopping" after SIGTERM, "failed"
  saving,      \* the callers that have changed the settings and are to save them
  readable     \* can config.Load make sense of the settings file?

fileVars  == <<saving, readable>>
agentVars == <<vars, agent, fileVars>>

Up == agent \in {"up", "stopping"}

\* All goroutines and timers vanish.
GoroutinesEnd ==
  /\ desired' = FALSE /\ supervising' = FALSE /\ state' = "stopped" /\ cmd' = None
  /\ spc' = [s \in Supervisors |-> "none"]
  /\ scfg' = [s \in Supervisors |-> None] /\ spid' = [s \in Supervisors |-> None]
  /\ timers' = {}
  /\ wpc' = [p \in Pids |-> "none"] /\ wapi' = [p \in Pids |-> None]
  /\ wmiss' = [p \in Pids |-> 0] /\ wtarget' = [p \in Pids |-> None]
  /\ wdone' = [p \in Pids |-> FALSE]
  /\ cpc' = [c \in Callers |-> "idle"] /\ ctarget' = [c \in Callers |-> None]
  /\ saving' = {}

AgentInit ==
  /\ Init
  /\ agent = "off"
  /\ saving = {} /\ readable = TRUE

-----------------------------------------------------------------------------
\* systemd starts a service only when no process of the last time is left.
MayBoot == agent \in {"off", "failed"} /\ (Systemd => \A p \in Pids : proc[p] = "free")

\* Seeded fault: the new agent does not wait for the end of the old miner.
BootAtOnce ==
  /\ agent \in {"off", "failed"} /\ readable
  /\ agent' = "up"
  /\ cfg' \in Configs
  /\ cpc' = [cpc EXCEPT ![Main] = IF cfg' \in AutoStart \intersect Valid THEN "start" ELSE "idle"]
  /\ UNCHANGED <<desired, supervising, state, cmd, supVars, procVars, killVars, watchVars,
                 ctarget, fileVars>>

\* Seeded fault: auto_start is ignored.
BootIdle ==
  /\ MayBoot /\ readable
  /\ agent' = "up"
  /\ cfg' \in Configs
  /\ UNCHANGED <<desired, supervising, state, cmd, supVars, procVars, killVars, watchVars,
                 callerVars, fileVars>>

\* Up to the auto-start, for which main checks the settings as handleStart does.  It may
\* have a new device id to save first.
Boot ==
  /\ MayBoot /\ readable
  /\ agent' = "up"
  /\ cfg' \in Configs
  /\ cpc' = [cpc EXCEPT ![Main] = IF cfg' \in AutoStart \intersect Valid THEN "start" ELSE "idle"]
  /\ saving' \in {{}, {Main}}
  /\ UNCHANGED <<desired, supervising, state, cmd, supVars, procVars, killVars, watchVars,
                 ctarget, readable>>

\* log.Fatalf of main: config.Load finds a file that is no JSON.  systemd tries again.
LoadFails ==
  /\ MayBoot /\ ~readable
  /\ agent' = "failed"
  /\ UNCHANGED <<vars, fileVars>>

\* The server listens once main has started the miner, and serves to the end: Shutdown
\* lets open requests finish.  A change of the settings is saved after UpdateConfig.
Serve(c) ==
  /\ Up
  /\ c # Main /\ cpc[Main] # "start" /\ Main \notin saving
  /\ c \notin saving
  /\ \/ HandleStart(c) /\ UNCHANGED saving
     \/ Stop(c) /\ UNCHANGED saving
     \/ \E new \in Posted : UpdateConfig(c, new) /\ saving' = saving \union {c}
  /\ UNCHANGED <<agent, readable>>

\* Save, by os.WriteFile.  One that fails half-way, as on a full disk, leaves the file like
\* one that is under way until the agent ends: no fairness makes it succeed.
Save(c) ==
  /\ Up
  /\ c \in saving /\ cpc[c] \in {"idle", "start"}
  /\ saving' = saving \ {c}
  /\ readable' = TRUE
  /\ UNCHANGED <<vars, agent>>

\* Ctrl-C or SIGTERM: main calls Stop.
Interrupted ==
  /\ agent = "up"
  /\ Main \notin saving
  /\ Stop(Main)
  /\ agent' = "stopping"
  /\ UNCHANGED fileVars

\* A save that the end of the agent meets is not begun, cut off or done.
CutsSave ==
  readable' \in IF \E c \in saving : cpc[c] \in {"idle", "start"} THEN BOOLEAN ELSE {readable}

\* After Stop and httpServer.Shutdown, which waits for requests for 10 seconds, main
\* returns: neither the miner's end nor the timer of killProcess is waited for.
Exit ==
  /\ agent = "stopping"
  /\ cpc[Main] = "idle"
  /\ agent' = "off"
  /\ GoroutinesEnd /\ CutsSave
  /\ UNCHANGED <<cfg, procVars, termed>>

\* log.Fatalf of the web server, as when its port is taken, a panic or SIGKILL: no Stop.
Die ==
  /\ Up
  /\ Dies
  /\ agent' = "failed"
  /\ GoroutinesEnd /\ CutsSave
  /\ UNCHANGED <<cfg, procVars, termed>>

-----------------------------------------------------------------------------
(* The steps of the goroutines and the system.                              *)

\* main has saved its device id before it starts the miner.
CallerRuns(c) ==
  /\ Up
  /\ c = Main => c \notin saving
  /\ CallerStep(c)
  /\ UNCHANGED <<agent, fileVars>>

SupervisorRuns(s) == Up /\ SupervisorStep(s) /\ UNCHANGED <<agent, fileVars>>
WatchRuns(p) == Up /\ (WatchStep(p) \/ TimerFires(p)) /\ UNCHANGED <<agent, fileVars>>
MinerRuns(p) == (MinerExits(p) \/ MinerHangs(p)) /\ UNCHANGED <<agent, fileVars>>

\* What is left in the service's control group is killed.
SystemdKills(p) ==
  /\ Systemd /\ ~Up
  /\ Live(p)
  /\ proc' = [proc EXCEPT ![p] = "zombie"]
  /\ UNCHANGED <<managerVars, supVars, run, killVars, watchVars, callerVars, agent,
                 fileVars>>

\* A process that the agent left is reaped by the system.
SystemReaps(p) ==
  /\ proc[p] = "zombie"
  /\ \A s \in Supervisors : spid[s] # p
  /\ proc' = [proc EXCEPT ![p] = "free"]
  /\ run' = [run EXCEPT ![p] = None]
  /\ termed' = termed \ {p}
  /\ UNCHANGED <<managerVars, supVars, timers, watchVars, callerVars, agent, fileVars>>

-----------------------------------------------------------------------------
AgentNext ==
  \/ Boot \/ LoadFails \/ Interrupted \/ Exit \/ Die
  \/ \E c \in Callers : Serve(c) \/ CallerRuns(c) \/ Save(c)
  \/ \E s \in Supervisors : SupervisorRuns(s)
  \/ \E p \in Pids : WatchRuns(p) \/ MinerRuns(p) \/ SystemdKills(p) \/ SystemReaps(p)

\* What systemd does about an agent that died.
SystemdRestarts ==
  agent = "failed" /\ (Boot \/ \E p \in Pids : SystemdKills(p) \/ SystemReaps(p))

AgentSpec == AgentInit /\ [][AgentNext]_agentVars

\* Restart=always holds for an agent that died, not for one that was stopped.  Of main and
\* the supervisor, the scheduler neglects neither; nothing is asked of handlers and miners.
AgentFairness ==
  /\ WF_agentVars(SystemdRestarts)
  /\ WF_agentVars(CallerRuns(Main) \/ Save(Main))
  /\ \A s \in Supervisors : WF_agentVars(SupervisorRuns(s))

FairAgentSpec == AgentSpec /\ AgentFairness

-----------------------------------------------------------------------------
AgentTypeOK ==
  /\ TypeOK
  /\ agent \in {"off", "up", "stopping", "failed"}
  /\ saving \subseteq Callers /\ readable \in BOOLEAN

\* A running agent supervises every miner there is, whatever became of the agent before
\* it: none is left over, hung or deaf to SIGTERM, from an agent that was shut down
\* (main.go:83, "Netjes afsluiten bij Ctrl-C of SIGTERM") or died.
MinersHaveAnAgent == Up => NoOrphan

\* Seen from outside, the machine runs one miner service all along: an agent that ends ends
\* the supervision only once its last miner is gone, and the next agent's first miner is
\* launched after that.
Held == supervising \/ \E p \in Pids : proc[p] # "free"

Machine == INSTANCE MinerService WITH
             Miners <- Pids \X Valid,
             supervised <- Held,
             running <- {<<p, run[p]>> : p \in {q \in Pids : Live(q)}}

MachineRunsMinerService == Machine!Spec

\* "Restart=always hieronder zorgt dat ook de agent zelf weer opstart na een crash"
\* (vhnw-agent.service:11): after a crash with auto_start an agent that does not crash for
\* ever comes to a miner again, whatever the old miner does, unless the user stops it, the
\* settings it loads are in the way, or a save that the crash cut off, or that had failed,
\* left it none to load.
AgentReturns ==
  <>[][~Die]_agentVars =>
    ((agent = "failed") ~>
       \/ \E s \in Supervisors : spc[s] = "exec"
       \/ Up /\ cfg \notin AutoStart \intersect Valid
       \/ ~desired /\ \E c \in Callers : cpc[c] = "kill"   \* Stop
       \/ agent = "failed" /\ ~readable)
=============================================================================
