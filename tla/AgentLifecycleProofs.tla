------------------------ MODULE AgentLifecycleProofs ------------------------
(***************************************************************************)
(* Proofs about AgentLifecycle.  While the agent is up, its goroutines     *)
(* keep the invariant of MinerManagerProofs; at its end they vanish, and   *)
(* as a systemd service it starts again only after the last miner is gone, *)
(* which is when that invariant holds again.  On other systems the part    *)
(* of it that is about the agent's own supervisor and command remains.     *)
(***************************************************************************)
EXTENDS AgentLifecycle, MinerManagerProofs

\* Nothing of the agent is left.
NoGoroutines ==
  /\ supervising = FALSE /\ state = "stopped" /\ cmd = None
  /\ spc = [s \in Supervisors |-> "none"]
  /\ \A s \in Supervisors : spid[s] = None

AgentInv ==
  /\ TypeInv
  /\ agent \in {"off", "up", "stopping", "failed"}
  /\ saving \subseteq Callers /\ readable \in BOOLEAN

LifeInv ==
  /\ AtMostOneMiner
  /\ Up => SafeInv
  /\ ~Up => NoGoroutines

-----------------------------------------------------------------------------
(* Which steps are steps of MinerManager.                                   *)

LEMMA ManagerSteps ==
  ASSUME \/ Interrupted
         \/ \E c \in Callers : Serve(c) \/ CallerRuns(c)
         \/ \E s \in Supervisors : SupervisorRuns(s)
         \/ \E p \in Pids : WatchRuns(p) \/ MinerRuns(p)
  PROVE  Next
BY MainAssumption, AutoAssumption
   DEF Interrupted, Serve, CallerRuns, SupervisorRuns, WatchRuns, MinerRuns, Next, Request

\* The end of the agent leaves a state of the right types, without goroutines.
LEMMA EndType ==
  ASSUME TypeInv, GoroutinesEnd, UNCHANGED <<cfg, procVars, termed>>
  PROVE  TypeInv' /\ NoGoroutines'
<1>1. wmiss' \in [Pids -> 0 .. GraceTicks + 1]
  BY GraceAssumption DEF GoroutinesEnd
<1>2. TypeOK'
  BY <1>1 DEF TypeInv, TypeOK, GoroutinesEnd, procVars, States, SupPc, WatchPc, CallerPc
<1>3. \A p \in Pids : wmiss'[p] <= GraceTicks
  BY GraceAssumption DEF GoroutinesEnd
<1> QED
  BY <1>2, <1>3 DEF TypeInv, GoroutinesEnd, NoGoroutines

-----------------------------------------------------------------------------
(* Types, with or without systemd.                                          *)

LEMMA AgentInvInit == AgentInit => AgentInv
  BY TypeInit, SystemdAssumption DEF AgentInit, AgentInv

LEMMA AgentInvStep == AgentInv /\ [AgentNext]_agentVars => AgentInv'
<1> SUFFICES ASSUME AgentInv, [AgentNext]_agentVars
             PROVE  AgentInv'
  OBVIOUS
<1>1. CASE \/ Interrupted
           \/ \E c \in Callers : Serve(c) \/ CallerRuns(c)
           \/ \E s \in Supervisors : SupervisorRuns(s)
           \/ \E p \in Pids : WatchRuns(p) \/ MinerRuns(p)
  <2>1. TypeInv'
    BY <1>1, ManagerSteps, TypeStep DEF AgentInv
  <2>2. agent' \in {"off", "up", "stopping", "failed"}
    BY <1>1
       DEF AgentInv, Interrupted, Serve, CallerRuns, SupervisorRuns, WatchRuns, MinerRuns
  <2>3. saving' \subseteq Callers
    BY <1>1
       DEF AgentInv, Interrupted, Serve, CallerRuns, SupervisorRuns, WatchRuns, MinerRuns,
           fileVars
  <2>4. readable' = readable
    BY <1>1
       DEF Interrupted, Serve, CallerRuns, SupervisorRuns, WatchRuns, MinerRuns, fileVars
  <2> QED
    BY <2>1, <2>2, <2>3, <2>4 DEF AgentInv
<1>2. CASE Boot
  BY <1>2, MainAssumption
     DEF Boot, AgentInv, TypeInv, TypeOK, CallerPc, supVars, procVars, killVars, watchVars
<1>3. CASE Exit \/ Die
  <2>1. TypeInv' /\ saving' = {}
    BY <1>3, EndType DEF Exit, Die, GoroutinesEnd, AgentInv
  <2>2. readable' \in BOOLEAN
    BY <1>3 DEF Exit, Die, CutsSave, AgentInv
  <2> QED
    BY <1>3, <2>1, <2>2 DEF Exit, Die, AgentInv
<1>4. CASE LoadFails \/ \E c \in Callers : Save(c)
  <2>1. TypeInv'
    BY <1>4, TypeStep DEF LoadFails, Save, AgentInv
  <2> QED
    BY <1>4, <2>1 DEF LoadFails, Save, AgentInv, fileVars
<1>5. ASSUME NEW p \in Pids, SystemdKills(p) \/ SystemReaps(p)
      PROVE  AgentInv'
  BY <1>5 DEF SystemdKills, SystemReaps, AgentInv, TypeInv, TypeOK, ProcStates, managerVars,
              supVars, killVars, watchVars, callerVars, fileVars
<1>6. CASE UNCHANGED agentVars
  BY <1>6, TypeStep DEF agentVars, AgentInv, fileVars
<1> QED
  BY <1>1, <1>2, <1>3, <1>4, <1>5, <1>6 DEF AgentNext

\* Every variable of the agent keeps its type, across its starts, ends and crashes.
THEOREM AgentTypeCorrect == AgentSpec => []AgentTypeOK
<1>1. AgentInv => AgentTypeOK
  BY DEF AgentInv, TypeInv, AgentTypeOK
<1> QED
  BY <1>1, AgentInvInit, AgentInvStep, PTL DEF AgentSpec

-----------------------------------------------------------------------------
(* Safety, of the systemd service.                                          *)

\* Steps that bring no process to life.
LEMMA NoBirth ==
  ASSUME AtMostOneMiner, \A p \in Pids : proc'[p] # "free" => proc[p] # "free"
  PROVE  AtMostOneMiner'
  BY DEF AtMostOneMiner

LEMMA SafeIsOne == SafeInv => AtMostOneMiner
  BY DEF SafeInv, SingleSupervisor, ProcessInv, AtMostOneMiner

LEMMA LifeInit == AgentInit => LifeInv
<1> SUFFICES ASSUME AgentInit
             PROVE  LifeInv
  OBVIOUS
<1>1. AtMostOneMiner
  BY SafeInit, SafeIsOne DEF AgentInit
<1>2. NoGoroutines
  BY DEF AgentInit, Init, NoGoroutines
<1> QED
  BY <1>1, <1>2 DEF AgentInit, LifeInv, Up

\* All that the safety takes is that no miner is left when the agent starts.
LEMMA LifeStep ==
  ASSUME AgentInv, LifeInv, [AgentNext]_agentVars,
         Boot => \A p \in Pids : proc[p] = "free"
  PROVE  LifeInv'
<1>1. CASE \/ Interrupted
           \/ \E c \in Callers : Serve(c) \/ CallerRuns(c)
           \/ \E s \in Supervisors : SupervisorRuns(s)
           \/ \E p \in Pids : WatchRuns(p)
  <2>1. Up /\ Up'
    BY <1>1 DEF Interrupted, Serve, CallerRuns, SupervisorRuns, WatchRuns, Up
  <2>2. SafeInv'
    BY <1>1, <2>1, ManagerSteps, SafeStep DEF AgentInv, LifeInv
  <2>3. SafeInv' => AtMostOneMiner'
    BY DEF SafeInv, SingleSupervisor, ProcessInv, AtMostOneMiner
  <2> QED
    BY <2>1, <2>2, <2>3 DEF LifeInv
<1>2. ASSUME NEW p \in Pids, MinerRuns(p)
      PROVE  LifeInv'
  <2>1. Up' = Up
    BY <1>2 DEF MinerRuns, Up
  <2>2. \A q \in Pids : proc'[q] # "free" => proc[q] # "free"
    BY <1>2 DEF MinerRuns, MinerExits, MinerHangs, Live, AgentInv, TypeInv, TypeOK
  <2>3. Up => SafeInv'
    BY <1>2, ManagerSteps, SafeStep DEF AgentInv, LifeInv
  <2>4. NoGoroutines => NoGoroutines'
    BY <1>2 DEF MinerRuns, MinerExits, MinerHangs, NoGoroutines, managerVars, supVars
  <2> QED
    BY <2>1, <2>2, <2>3, <2>4, NoBirth DEF LifeInv
<1>3. CASE Boot
  <2>1. NoGoroutines /\ \A p \in Pids : proc[p] = "free"
    BY <1>3 DEF Boot, MayBoot, LifeInv, Up
  <2>2. SafeInv'
    BY <1>3, <2>1
       DEF Boot, NoGoroutines, SafeInv, SingleSupervisor, CommandInv, ProcessInv, StoppedInv,
           ValidInv, OnlyValidConfigRuns, supVars, procVars
  <2>3. SafeInv' => AtMostOneMiner'
    BY DEF SafeInv, SingleSupervisor, ProcessInv, AtMostOneMiner
  <2> QED
    BY <1>3, <2>2, <2>3 DEF Boot, LifeInv, Up
<1>4. CASE Exit \/ Die
  <2>1. NoGoroutines' /\ ~Up' /\ UNCHANGED proc
    BY <1>4, EndType DEF Exit, Die, AgentInv, Up, procVars
  <2> QED
    BY <2>1, NoBirth DEF LifeInv
<1>5. ASSUME NEW p \in Pids, SystemdKills(p)
      PROVE  LifeInv'
  <2>1. ~Up' /\ NoGoroutines'
    BY <1>5 DEF SystemdKills, LifeInv, NoGoroutines, Up, managerVars, supVars
  <2>2. \A q \in Pids : proc'[q] # "free" => proc[q] # "free"
    BY <1>5 DEF SystemdKills, Live, AgentInv, TypeInv, TypeOK
  <2> QED
    BY <2>1, <2>2, NoBirth DEF LifeInv
<1>6. ASSUME NEW p \in Pids, SystemReaps(p)
      PROVE  LifeInv'
  <2>1. \A q \in Pids : proc'[q] # "free" => proc[q] # "free"
    BY <1>6 DEF SystemReaps, AgentInv, TypeInv, TypeOK
  <2>2. ~Up
    BY <1>6 DEF SystemReaps, LifeInv, SafeInv, ProcessInv
  <2>3. ~Up' /\ NoGoroutines'
    BY <1>6, <2>2 DEF SystemReaps, LifeInv, NoGoroutines, Up, managerVars, supVars
  <2> QED
    BY <2>1, <2>3, NoBirth DEF LifeInv
<1>7. CASE LoadFails \/ (\E c \in Callers : Save(c)) \/ UNCHANGED agentVars
  <2>1. SafeInv => SafeInv'
    BY <1>7, SafeStep DEF LoadFails, Save, agentVars, AgentInv
  <2>2. Up' = Up /\ UNCHANGED <<proc, supervising, state, cmd, spc, spid>>
    BY <1>7 DEF LoadFails, MayBoot, Save, agentVars, vars, managerVars, supVars, procVars, Up
  <2>3. NoGoroutines => NoGoroutines'
    BY <2>2 DEF NoGoroutines
  <2> QED
    BY <2>1, <2>2, <2>3, NoBirth DEF LifeInv
<1> QED
  BY <1>1, <1>2, <1>3, <1>4, <1>5, <1>6, <1>7 DEF AgentNext

LEMMA Life == Systemd => (AgentSpec => [](AgentInv /\ LifeInv))
<1> SUFFICES ASSUME Systemd
             PROVE  AgentSpec => [](AgentInv /\ LifeInv)
  OBVIOUS
<1>1. AgentInit => AgentInv /\ LifeInv
  BY AgentInvInit, LifeInit
<1>2. AgentInv /\ LifeInv /\ [AgentNext]_agentVars => (AgentInv /\ LifeInv)'
  BY AgentInvStep, LifeStep DEF Boot, MayBoot
<1> QED
  BY <1>1, <1>2, PTL DEF AgentSpec

\* As a systemd service the agent has one miner at most, counted over all its lives:
\* Boot waits until the last one is gone (vhnw-agent.service, KillMode=control-group).
THEOREM OneMinerEver == Systemd => (AgentSpec => []AtMostOneMiner)
<1>1. LifeInv => AtMostOneMiner
  BY DEF LifeInv
<1> QED
  BY <1>1, Life, PTL

LEMMA LifeHasAgent == LifeInv => MinersHaveAnAgent
<1> SUFFICES ASSUME LifeInv, Up, NEW p \in Pids, proc[p] # "free"
             PROVE  \E s \in Supervisors :
                      /\ spid[s] = p
                      /\ \/ spc[s] = "register" /\ cmd = None
                         \/ spc[s] = "wait" /\ cmd = p
  BY DEF MinersHaveAnAgent, NoOrphan
<1> USE DEF LifeInv, SafeInv
<1>1. PICK s \in Supervisors : spid[s] = p /\ spc[s] \in {"register", "wait"}
  BY DEF ProcessInv
<1>2. CASE spc[s] = "wait"
  BY <1>1, <1>2 DEF CommandInv
<1>3. CASE spc[s] = "register"
  BY <1>1, <1>3 DEF CommandInv, SingleSupervisor
<1> QED
  BY <1>1, <1>2, <1>3

\* As a systemd service an agent that runs supervises every miner there is.
THEOREM NoMinerIsLeft == Systemd => (AgentSpec => []MinersHaveAnAgent)
  BY Life, LifeHasAgent, PTL

-----------------------------------------------------------------------------
(***************************************************************************)
(* Without systemd (Windows, a terminal, launchd) orphan_miner shows a     *)
(* miner that its agent left behind.  The end of the agent is all there is *)
(* to it: the safety above holds again of an agent that outlives its       *)
(* miner.                                                                  *)
(***************************************************************************)

\* main returns, and dies, only when no process of the miner is left.
EndsAfterItsMiner == [][Exit \/ Die => \A p \in Pids : proc[p] = "free"]_agentVars

\* Nothing at all is left of an agent that ended.
NothingLeft == ~Up => \A p \in Pids : proc[p] = "free"

LEMMA NothingLeftStep ==
  ASSUME AgentInv, NothingLeft, [AgentNext]_agentVars,
         Exit \/ Die => \A p \in Pids : proc[p] = "free"
  PROVE  NothingLeft'
<1>1. CASE Exit \/ Die
  BY <1>1 DEF Exit, Die, NothingLeft, procVars
<1>2. CASE \/ Boot \/ Interrupted
           \/ \E c \in Callers : Serve(c) \/ CallerRuns(c)
           \/ \E s \in Supervisors : SupervisorRuns(s)
           \/ \E p \in Pids : WatchRuns(p)
  BY <1>2 DEF Boot, Interrupted, Serve, CallerRuns, SupervisorRuns, WatchRuns, Up, NothingLeft
<1>3. ASSUME NEW p \in Pids, MinerRuns(p) \/ SystemdKills(p) \/ SystemReaps(p)
      PROVE  NothingLeft'
  <2>1. proc[p] # "free" /\ Up' = Up
    BY <1>3 DEF MinerRuns, MinerExits, MinerHangs, SystemdKills, SystemReaps, Live, Up
  <2> QED
    BY <2>1 DEF NothingLeft
<1>4. CASE LoadFails \/ (\E c \in Callers : Save(c)) \/ UNCHANGED agentVars
  BY <1>4 DEF LoadFails, MayBoot, Save, agentVars, vars, procVars, Up, NothingLeft
<1> QED
  BY <1>1, <1>2, <1>3, <1>4 DEF AgentNext

\* On any system, an agent that ends after its miner leaves none for the next agent to
\* find (main.go:83-96).
THEOREM NoMinerIsLeftByPatientAgent ==
  AgentSpec /\ EndsAfterItsMiner => [](AtMostOneMiner /\ MinersHaveAnAgent)
<1>1. AgentInit => AgentInv /\ LifeInv /\ NothingLeft
  BY AgentInvInit, LifeInit DEF AgentInit, Init, NothingLeft
<1>2. /\ AgentInv /\ LifeInv /\ NothingLeft /\ [AgentNext]_agentVars
      /\ [Exit \/ Die => \A p \in Pids : proc[p] = "free"]_agentVars
      => (AgentInv /\ LifeInv /\ NothingLeft)'
  <2> SUFFICES ASSUME AgentInv, LifeInv, NothingLeft, [AgentNext]_agentVars,
                      [Exit \/ Die => \A p \in Pids : proc[p] = "free"]_agentVars
               PROVE  (AgentInv /\ LifeInv /\ NothingLeft)'
    OBVIOUS
  <2>1. Boot => \A p \in Pids : proc[p] = "free"
    BY DEF Boot, MayBoot, NothingLeft, Up
  <2>2. Exit \/ Die => \A p \in Pids : proc[p] = "free"
    BY DEF Exit, Die, agentVars, Up, AgentInv
  <2> QED
    BY <2>1, <2>2, AgentInvStep, LifeStep, NothingLeftStep
<1>3. LifeInv => AtMostOneMiner /\ MinersHaveAnAgent
  BY LifeHasAgent DEF LifeInv
<1> QED
  BY <1>1, <1>2, <1>3, PTL DEF AgentSpec, EndsAfterItsMiner

-----------------------------------------------------------------------------
(***************************************************************************)
(* What every life of the agent keeps on any system, also next to miners   *)
(* of the lives before it: the part of SafeInv that is about the agent's   *)
(* own supervisor and command, and the settings of all processes.          *)
(***************************************************************************)
OwnInv == SingleSupervisor /\ CommandInv /\ ValidInv

\* A step that leaves the supervisors alone and brings no process to life.
LEMMA OutsideOwn ==
  ASSUME OwnInv, UNCHANGED <<supervising, cmd, spc, scfg, spid>>,
         \A p \in Pids : proc'[p] # "free" => proc[p] # "free" /\ run'[p] = run[p]
  PROVE  OwnInv'
  BY DEF OwnInv, SingleSupervisor, CommandInv, ValidInv, OnlyValidConfigRuns

LEMMA SupervisorOwn ==
  ASSUME TypeInv, OwnInv, NEW s \in Supervisors, SupervisorStep(s)
  PROVE  OwnInv'
<1> USE DEF TypeInv, TypeOK, OwnInv, Goto, managerVars, supVars, procVars
<1>1. supervising /\ spc[s] # "none" /\ \A t \in Supervisors : t # s => spc[t] = "none"
  BY DEF SingleSupervisor, SupervisorStep, Finish, CopyConfig, RejectConfig, Launch,
         ExecFails, Exec, Register, Reap, Deregister, AfterRun, CountRestart, Wake
<1>2. \A t \in Supervisors : t # s => spc'[t] = spc[t] /\ spid'[t] = spid[t]
                                     /\ scfg'[t] = scfg[t]
  BY DEF SupervisorStep, Finish, CopyConfig, RejectConfig, Launch, ExecFails, Exec,
         Register, Reap, Deregister, AfterRun, CountRestart, Wake
<1>3. SingleSupervisor'
  BY <1>1, <1>2
     DEF SingleSupervisor, SupervisorStep, Finish, CopyConfig, RejectConfig, Launch,
         ExecFails, Exec, Register, Reap, Deregister, AfterRun, CountRestart, Wake
<1>4. CommandInv'
  <2>1. (cmd # None) <=> spc[s] \in {"wait", "reaped"}
    BY <1>1, NoneAssumption DEF CommandInv
  <2>2. CASE Register(s)
    BY <1>1, <1>2, <2>2 DEF Register, CommandInv
  <2>3. CASE Reap(s)
    BY <1>1, <1>2, <2>1, <2>3 DEF Reap, CommandInv
  <2>4. CASE Deregister(s)
    BY <1>1, <1>2, <2>4 DEF Deregister, CommandInv
  <2>5. CASE ~(Register(s) \/ Reap(s) \/ Deregister(s))
    <3>1. cmd' = cmd /\ spc[s] \notin {"wait", "reaped"} /\ spc'[s] \notin {"wait", "reaped"}
      BY <2>5
         DEF SupervisorStep, Finish, CopyConfig, RejectConfig, Launch, ExecFails, Exec,
             AfterRun, CountRestart, Wake
    <3> QED
      BY <1>1, <1>2, <2>1, <3>1 DEF CommandInv
  <2> QED
    BY <2>2, <2>3, <2>4, <2>5
<1>5. \A t \in Supervisors : spc'[t] = "exec" => scfg'[t] \in Valid
  BY <1>1, <1>2
     DEF SupervisorStep, Finish, CopyConfig, RejectConfig, Launch, ExecFails, Exec,
         Register, Reap, Deregister, AfterRun, CountRestart, Wake
<1>6. OnlyValidConfigRuns'
  BY DEF ValidInv, OnlyValidConfigRuns, SupervisorStep, Finish, CopyConfig, RejectConfig,
         Launch, ExecFails, Exec, Register, Reap, Deregister, AfterRun, CountRestart, Wake
<1> QED
  BY <1>3, <1>4, <1>5, <1>6 DEF ValidInv

LEMMA ManagerOwn ==
  ASSUME TypeInv, OwnInv, [Next]_vars
  PROVE  OwnInv'
<1> USE DEF managerVars, supVars, procVars
<1>1. ASSUME NEW c \in Callers, NEW s \in Supervisors, StartSupervisor(c, s)
      PROVE  OwnInv'
  <2> USE <1>1 DEF StartSupervisor, TypeInv, TypeOK, OwnInv
  <2>1. spc[s] = "none" /\ spc'[s] = "top" /\ \A t \in Supervisors : t # s => spc'[t] = spc[t]
    OBVIOUS
  <2>2. SingleSupervisor'
    BY DEF SingleSupervisor
  <2>3. CommandInv' /\ ValidInv'
    BY <2>1 DEF CommandInv, ValidInv, OnlyValidConfigRuns
  <2> QED
    BY <2>2, <2>3
<1>2. ASSUME NEW c \in Callers,
             Request(c) \/ StartSupervised(c) \/ SignalRestart(c) \/ CallerKills(c)
      PROVE  OwnInv'
  BY <1>2, OutsideOwn
     DEF Request, HandleStart, Stop, UpdateConfig, StartSupervised, SignalRestart,
         CallerKills, KillProcess
<1>3. ASSUME NEW p \in Pids, WatchStep(p)
      PROVE  OwnInv'
  BY <1>3, OutsideOwn
     DEF WatchStep, WatchTick, FetchOk, FetchFails, WatchAims, WatchKills, WatchDone, KillProcess
<1>4. ASSUME NEW p \in Pids, TimerFires(p) \/ MinerExits(p) \/ MinerHangs(p)
      PROVE  OwnInv'
  <2>1. \A q \in Pids : proc'[q] # "free" => proc[q] # "free" /\ run'[q] = run[q]
    BY <1>4 DEF TimerFires, MinerExits, MinerHangs, Live, TypeInv, TypeOK
  <2> QED
    BY <1>4, <2>1, OutsideOwn DEF TimerFires, MinerExits, MinerHangs
<1>5. CASE UNCHANGED vars
  BY <1>5, OutsideOwn DEF vars
<1> QED
  BY <1>1, <1>2, <1>3, <1>4, <1>5, SupervisorOwn DEF Next, CallerStep, Start

LEMMA OwnStep ==
  ASSUME AgentInv, OwnInv, [AgentNext]_agentVars
  PROVE  OwnInv'
<1>1. CASE \/ Interrupted
           \/ \E c \in Callers : Serve(c) \/ CallerRuns(c)
           \/ \E s \in Supervisors : SupervisorRuns(s)
           \/ \E p \in Pids : WatchRuns(p) \/ MinerRuns(p)
  BY <1>1, ManagerSteps, ManagerOwn DEF AgentInv
<1>2. CASE Boot
  BY <1>2, OutsideOwn DEF Boot, supVars, procVars
<1>3. CASE Exit \/ Die
  <2>1. NoGoroutines' /\ UNCHANGED <<proc, run>>
    BY <1>3, EndType DEF Exit, Die, AgentInv, procVars
  <2> QED
    BY <2>1
       DEF NoGoroutines, OwnInv, SingleSupervisor, CommandInv, ValidInv, OnlyValidConfigRuns
<1>4. ASSUME NEW p \in Pids, SystemdKills(p) \/ SystemReaps(p)
      PROVE  OwnInv'
  <2>1. \A q \in Pids : proc'[q] # "free" => proc[q] # "free" /\ run'[q] = run[q]
    BY <1>4 DEF SystemdKills, SystemReaps, Live, AgentInv, TypeInv, TypeOK
  <2> QED
    BY <1>4, <2>1, OutsideOwn DEF SystemdKills, SystemReaps, managerVars, supVars
<1>5. CASE LoadFails \/ (\E c \in Callers : Save(c)) \/ UNCHANGED agentVars
  BY <1>5, ManagerOwn DEF LoadFails, Save, agentVars, AgentInv
<1> QED
  BY <1>1, <1>2, <1>3, <1>4, <1>5 DEF AgentNext

LEMMA Own == AgentSpec => [](AgentInv /\ OwnInv)
<1>1. AgentInit => AgentInv /\ OwnInv
  BY AgentInvInit, SafeInit DEF AgentInit, SafeInv, OwnInv
<1>2. AgentInv /\ OwnInv /\ [AgentNext]_agentVars => (AgentInv /\ OwnInv)'
  BY AgentInvStep, OwnStep
<1> QED
  BY <1>1, <1>2, PTL DEF AgentSpec

\* On any system each life of the agent has one supervisor, exactly while m.supervising is
\* set, whatever the life before it left behind (manager.go:96-108).
THEOREM SupervisorIsSingleEver == AgentSpec => []SingleSupervisor
<1>1. OwnInv => SingleSupervisor
  BY DEF OwnInv
<1> QED
  BY <1>1, Own, PTL

\* On any system every miner there is, the ones an agent left behind included, runs with
\* settings that Validate accepts (manager.go:184).
THEOREM RunsAreValidEver == AgentSpec => []OnlyValidConfigRuns
<1>1. OwnInv => OnlyValidConfigRuns
  BY DEF OwnInv, ValidInv
<1> QED
  BY <1>1, Own, PTL

\* On any system no caller ever sees one command turn into another, within a life or from
\* one life to the next (manager.go:239, 257).
THEOREM CommandsAreSeparateEver == AgentSpec => CommandsDoNotOverlap
<1>1. AgentInv /\ OwnInv /\ [AgentNext]_agentVars
        => [cmd # None => cmd' \in {cmd, None}]_vars
  <2> SUFFICES ASSUME AgentInv, OwnInv, [AgentNext]_agentVars, cmd # None
               PROVE  cmd' \in {cmd, None}
    OBVIOUS
  <2> USE DEF managerVars
  <2>1. PICK s \in Supervisors :
          spc[s] \in {"wait", "reaped"} /\ \A t \in Supervisors : t # s => spc[t] = "none"
    BY DEF OwnInv, CommandInv, SingleSupervisor
  <2>2. ASSUME NEW t \in Supervisors, SupervisorStep(t)
        PROVE  cmd' \in {cmd, None}
    BY <2>1, <2>2
       DEF SupervisorStep, Finish, CopyConfig, RejectConfig, Launch, ExecFails, Exec, Register,
           Reap, Deregister, AfterRun, CountRestart, Wake
  <2>3. ASSUME NEW c \in Callers, Request(c) \/ CallerStep(c)
        PROVE  cmd' = cmd
    BY <2>3
       DEF Request, CallerStep, HandleStart, Stop, UpdateConfig, Start, StartSupervised,
           StartSupervisor, SignalRestart, CallerKills
  <2>4. ASSUME NEW p \in Pids, WatchRuns(p) \/ MinerRuns(p) \/ SystemdKills(p) \/ SystemReaps(p)
        PROVE  cmd' = cmd
    BY <2>4
       DEF WatchRuns, MinerRuns, SystemdKills, SystemReaps, WatchStep, WatchTick, FetchOk,
           FetchFails, WatchAims, WatchKills, WatchDone, TimerFires, MinerExits, MinerHangs
  <2>5. CASE Interrupted
    BY <2>5 DEF Interrupted, Stop
  <2>6. CASE Boot \/ Exit \/ Die
    BY <2>6 DEF Boot, Exit, Die, GoroutinesEnd
  <2>7. CASE LoadFails \/ (\E c \in Callers : Save(c)) \/ UNCHANGED agentVars
    BY <2>7 DEF LoadFails, Save, agentVars, vars
  <2>8. \A c \in Callers : Serve(c) => Request(c)
    BY AutoAssumption DEF Serve, Request
  <2> QED
    BY <2>2, <2>3, <2>4, <2>5, <2>6, <2>7, <2>8 DEF AgentNext, CallerRuns, SupervisorRuns
<1> QED
  BY <1>1, Own, PTL DEF AgentSpec, CommandsDoNotOverlap

\* On any system, and without reuse of pids, a pending SIGKILL only aims at a miner that was
\* asked to terminate first, also beside miners that an earlier life signalled
\* (process_unix.go:29-36).
THEOREM SigkillFollowsSigtermEver == AgentSpec => []SigkillOnlyAfterSigterm
<1>1. AgentInit => SigkillOnlyAfterSigterm
  BY DEF AgentInit, Init, SigkillOnlyAfterSigterm
<1>2. AgentInv /\ SigkillOnlyAfterSigterm /\ [AgentNext]_agentVars => SigkillOnlyAfterSigterm'
  <2> SUFFICES ASSUME AgentInv, SigkillOnlyAfterSigterm, [AgentNext]_agentVars
               PROVE  SigkillOnlyAfterSigterm'
    OBVIOUS
  <2> USE DEF AgentInv, TypeInv, TypeOK
  <2>1. CASE \/ Interrupted
             \/ \E c \in Callers : Serve(c) \/ CallerRuns(c)
             \/ \E s \in Supervisors : SupervisorRuns(s)
             \/ \E p \in Pids : WatchRuns(p) \/ MinerRuns(p)
    BY <2>1, ManagerSteps, SigkillStep
  <2>2. CASE Boot \/ LoadFails \/ (\E c \in Callers : Save(c)) \/ UNCHANGED agentVars
    BY <2>2
       DEF Boot, LoadFails, Save, agentVars, vars, procVars, killVars,
           SigkillOnlyAfterSigterm, Live
  <2>3. CASE Exit \/ Die
    BY <2>3 DEF Exit, Die, GoroutinesEnd, SigkillOnlyAfterSigterm
  <2>4. ASSUME NEW p \in Pids, SystemdKills(p) \/ SystemReaps(p)
        PROVE  SigkillOnlyAfterSigterm'
    BY <2>4 DEF SystemdKills, SystemReaps, killVars, SigkillOnlyAfterSigterm, Live
  <2> QED
    BY <2>1, <2>2, <2>3, <2>4 DEF AgentNext
<1> QED
  BY <1>1, <1>2, AgentInvInit, AgentInvStep, PTL DEF AgentSpec

-----------------------------------------------------------------------------
(* Refinement: the lives of the agent, one after another, are one service.  *)

\* While the agent is up, only its supervisor holds a process.
LEMMA HeldWhenUp ==
  /\ TypeInv /\ SafeInv => Held = supervising
  /\ TypeInv' /\ SafeInv' => Held' = supervising'
<1>1. ASSUME TypeInv, SafeInv PROVE Held = supervising
  <2>1. Held => supervising
    BY <1>1 DEF Held, SafeInv, ProcessInv, SingleSupervisor
  <2> QED
    BY <1>1, <2>1 DEF Held, TypeInv, TypeOK
<1>2. ASSUME TypeInv', SafeInv' PROVE Held' = supervising'
  <2>1. Held' => supervising'
    BY <1>2 DEF Held, SafeInv, ProcessInv, SingleSupervisor
  <2> QED
    BY <1>2, <2>1 DEF Held, TypeInv, TypeOK
<1> QED
  BY <1>1, <1>2

\* A step of the manager, from within a life to within the same life.
LEMMA ServiceInside ==
  ASSUME TypeInv, SafeInv, TypeInv', SafeInv', [Service!Next]_(Service!vars)
  PROVE  [Machine!Next]_(Machine!vars)
<1>1. Held = supervising /\ Held' = supervising'
  BY HeldWhenUp
<1> QED
  BY <1>1 DEF Service!Next, Service!vars, Service!Begin, Service!Launch, Service!Exit,
              Service!End, Machine!Next, Machine!vars, Machine!Begin, Machine!Launch,
              Machine!Exit, Machine!End

\* Processes that nobody supervises end one by one.
LEMMA ServiceOutside ==
  ASSUME AgentInv, LifeInv, supervising = FALSE, supervising' = FALSE, NEW p \in Pids,
         \/ /\ Live(p) /\ proc' = [proc EXCEPT ![p] = "zombie"] /\ UNCHANGED run
         \/ /\ proc[p] = "zombie" /\ proc' = [proc EXCEPT ![p] = "free"]
            /\ run' = [run EXCEPT ![p] = None]
         \/ /\ proc[p] = "alive" /\ proc' = [proc EXCEPT ![p] = "hung"] /\ UNCHANGED run
  PROVE  [Machine!Next]_(Machine!vars)
<1> USE DEF AgentInv, TypeInv, TypeOK
<1>1. proc[p] # "free" /\ Held
  BY DEF Live, Held
<1>2. \A q \in Pids : q # p => proc[q] = "free" /\ proc'[q] = "free" /\ ~Live(q) /\ ~Live(q)'
  BY <1>1 DEF LifeInv, AtMostOneMiner, Live
<1>3. CASE Live(p) /\ proc' = [proc EXCEPT ![p] = "zombie"]
  <2>1. Held'
    BY <1>3 DEF Held
  <2>2. Held = TRUE /\ Held' = TRUE
    BY <1>1, <2>1 DEF Held
  <2>3. Running # {} /\ Running' = {}
    BY <1>2, <1>3, NoneRunning DEF Live
  <2> QED
    BY <2>2, <2>3 DEF Running, Machine!Next, Machine!Exit
<1>4. CASE proc[p] = "zombie" /\ proc' = [proc EXCEPT ![p] = "free"]
  <2>1. ~Held'
    BY <1>2, <1>4 DEF Held
  <2>2. Held = TRUE /\ Held' = FALSE
    BY <1>1, <2>1 DEF Held
  <2>3. Running = {} /\ Running' = {}
    BY <1>2, <1>4, NoneRunning DEF Live
  <2> QED
    BY <2>2, <2>3 DEF Running, Machine!Next, Machine!End
<1>5. CASE proc[p] = "alive" /\ proc' = [proc EXCEPT ![p] = "hung"] /\ UNCHANGED run
  <2>1. Held'
    BY <1>5 DEF Held
  <2>2. Held = TRUE /\ Held' = TRUE
    BY <1>1, <2>1 DEF Held
  <2>3. \A q \in Pids : Live(q)' <=> Live(q)
    BY <1>5 DEF Live
  <2>4. Running' = Running
    BY <1>5, <2>3 DEF Running
  <2> QED
    BY <2>2, <2>4 DEF Running, Machine!vars
<1> QED
  BY <1>3, <1>4, <1>5

\* The end of the agent's process leaves its miner alone.
LEMMA ServiceEnds ==
  ASSUME TypeInv, SafeInv, GoroutinesEnd, UNCHANGED procVars
  PROVE  [Machine!Next]_(Machine!vars)
<1> USE DEF TypeInv, TypeOK
<1>1. Running' = Running
  BY DEF Running, procVars, Live
<1>2. supervising' = FALSE /\ proc' = proc
  BY DEF GoroutinesEnd, procVars
<1>3. CASE \E p \in Pids : proc[p] # "free"
  <2>1. Held = TRUE /\ Held' = TRUE
    BY <1>2, <1>3 DEF Held
  <2> QED
    BY <1>1, <2>1 DEF Running, Machine!vars
<1>4. CASE \A p \in Pids : proc[p] = "free"
  <2>1. Held' = FALSE /\ Held = supervising
    BY <1>2, <1>4 DEF Held
  <2>2. Running = {}
    BY <1>4, NoneRunning DEF Live
  <2> QED
    BY <1>1, <2>1, <2>2 DEF Running, Machine!Next, Machine!End, Machine!vars
<1> QED
  BY <1>3, <1>4

LEMMA ServiceSame ==
  ASSUME UNCHANGED <<supervising, proc, run>>
  PROVE  UNCHANGED Machine!vars
  BY DEF Machine!vars, Held, Live

LEMMA MachineStep ==
  ASSUME Systemd, AgentInv, LifeInv, AgentInv', LifeInv', [AgentNext]_agentVars
  PROVE  [Machine!Next]_(Machine!vars)
<1>0. ASSUME Next, Up, Up'
      PROVE  [Machine!Next]_(Machine!vars)
  <2>1. TypeInv /\ SafeInv /\ TypeInv' /\ SafeInv'
    BY <1>0 DEF AgentInv, LifeInv
  <2>2. [Service!Next]_(Service!vars)
    BY <1>0, <2>1, CallerService, SupervisorService, WatchService, SystemService DEF Next
  <2> QED
    BY <2>1, <2>2, ServiceInside
<1>1. CASE \/ Interrupted
           \/ \E c \in Callers : Serve(c) \/ CallerRuns(c)
           \/ \E s \in Supervisors : SupervisorRuns(s)
           \/ \E p \in Pids : WatchRuns(p)
  <2>1. Up /\ Up'
    BY <1>1 DEF Interrupted, Serve, CallerRuns, SupervisorRuns, WatchRuns, Up
  <2> QED
    BY <1>0, <1>1, <2>1, ManagerSteps
<1>2. ASSUME NEW p \in Pids, MinerRuns(p)
      PROVE  [Machine!Next]_(Machine!vars)
  <2>1. Up' = Up
    BY <1>2 DEF MinerRuns, Up
  <2>2. CASE Up
    BY <1>0, <1>2, <2>1, <2>2, ManagerSteps
  <2>3. CASE ~Up
    BY <1>2, <2>1, <2>3, ServiceOutside
       DEF MinerRuns, MinerExits, MinerHangs, LifeInv, NoGoroutines
  <2> QED
    BY <2>2, <2>3
<1>3. CASE Boot \/ LoadFails \/ (\E c \in Callers : Save(c)) \/ UNCHANGED agentVars
  BY <1>3, ServiceSame DEF Boot, LoadFails, Save, agentVars, vars, managerVars, procVars
<1>4. CASE Exit \/ Die
  BY <1>4, ServiceEnds DEF Exit, Die, AgentInv, LifeInv, Up, procVars
<1>5. ASSUME NEW p \in Pids, SystemdKills(p)
      PROVE  [Machine!Next]_(Machine!vars)
  BY <1>5, ServiceOutside DEF SystemdKills, LifeInv, NoGoroutines, managerVars
<1>6. ASSUME NEW p \in Pids, SystemReaps(p)
      PROVE  [Machine!Next]_(Machine!vars)
  <2>1. ~Up
    BY <1>6 DEF SystemReaps, LifeInv, SafeInv, ProcessInv
  <2> QED
    BY <1>6, <2>1, ServiceOutside DEF SystemReaps, LifeInv, NoGoroutines, managerVars
<1> QED
  BY <1>1, <1>2, <1>3, <1>4, <1>5, <1>6 DEF AgentNext

\* As a systemd service the agent implements MinerService over all its lives.
THEOREM MachineImplementsService == Systemd => (AgentSpec => MachineRunsMinerService)
<1> SUFFICES ASSUME Systemd
             PROVE  AgentSpec => MachineRunsMinerService
  OBVIOUS
<1>1. AgentInit => Machine!Init
  BY DEF AgentInit, Init, Machine!Init, Held, Live
<1>2. /\ AgentInv /\ LifeInv /\ (AgentInv /\ LifeInv)' /\ [AgentNext]_agentVars
        => [Machine!Next]_(Machine!vars)
  BY MachineStep
<1>3. AgentSpec => [](AgentInv /\ LifeInv)
  BY Life
<1> QED
  BY <1>1, <1>2, <1>3, PTL DEF AgentSpec, MachineRunsMinerService, Machine!Spec
=============================================================================
