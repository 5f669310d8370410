------------------------- MODULE MinerManagerProofs -------------------------
(***************************************************************************)
(* Proofs about MinerManager, for any number of callers, supervisors slots *)
(* and pids, any configurations and any grace period, with and without pid *)
(* reuse.                                                                  *)
(***************************************************************************)
EXTENDS MinerManager, TLAPS

USE ConfigsAssumption, GraceAssumption, ReuseAssumption, NoneAssumption

(***************************************************************************)
(* Type correctness.  The miss counter of a watchdog that still polls is   *)
(* at most the grace period, so one more failure stays in its range; and a *)
(* supervisor holds a pid from exec until it deregisters the command.      *)
(***************************************************************************)
TypeInv ==
  /\ TypeOK
  /\ \A p \in Pids : wpc[p] \in {"none", "idle", "fetch"} => wmiss[p] <= GraceTicks
  /\ \A s \in Supervisors : spc[s] \in {"register", "wait", "reaped"} => spid[s] \in Pids
  /\ \A s \in Supervisors : spc[s] \in {"validate", "exec"} => scfg[s] \in Configs

LEMMA TypeInit == Init => TypeInv
<1> SUFFICES ASSUME Init
             PROVE  TypeInv
  OBVIOUS
<1>1. wmiss = [p \in Pids |-> 0] /\ wmiss \in [Pids -> 0 .. GraceTicks + 1]
  BY DEF Init
<1>2. TypeOK
  BY <1>1 DEF Init, TypeOK, States, SupPc, ProcStates, WatchPc, CallerPc
<1> QED
  BY <1>1, <1>2 DEF Init, TypeInv

\* A kill only adds pids to the sets of signalled ones.
LEMMA KillType ==
  ASSUME TypeOK, NEW p \in Pids \union {None}, KillProcess(p)
  PROVE  termed' \subseteq Pids /\ timers' \subseteq Pids
  BY DEF TypeOK, KillProcess, Reachable

LEMMA CallerType ==
  ASSUME TypeInv, NEW c \in Callers, Request(c) \/ CallerStep(c)
  PROVE  TypeInv'
<1> USE DEF TypeInv, TypeOK, CallerPc, managerVars, supVars, procVars, killVars,
            watchVars, callerVars
<1>1. CASE HandleStart(c)
  BY <1>1 DEF HandleStart
<1>2. CASE Stop(c)
  BY <1>2 DEF Stop
<1>3. ASSUME NEW new \in Configs, UpdateConfig(c, new)
      PROVE  TypeInv'
  BY <1>3 DEF UpdateConfig
<1>4. CASE StartSupervised(c)
  BY <1>4 DEF StartSupervised
<1>5. ASSUME NEW s \in Supervisors, StartSupervisor(c, s)
      PROVE  TypeInv'
  BY <1>5 DEF StartSupervisor, SupPc
<1>6. CASE SignalRestart(c)
  BY <1>6 DEF SignalRestart
<1>7. CASE CallerKills(c)
  <2>1. termed' \subseteq Pids /\ timers' \subseteq Pids
    BY <1>7, KillType DEF CallerKills
  <2> QED
    BY <1>7, <2>1 DEF CallerKills, KillProcess
<1> QED
  BY <1>1, <1>2, <1>3, <1>4, <1>5, <1>6, <1>7 DEF Request, CallerStep, Start

LEMMA SupervisorType ==
  ASSUME TypeInv, NEW s \in Supervisors, SupervisorStep(s)
  PROVE  TypeInv'
<1> USE DEF TypeInv, TypeOK, SupPc, States, Goto, managerVars, supVars, procVars,
            killVars, watchVars, callerVars
<1>1. CASE Finish(s)
  BY <1>1 DEF Finish
<1>2. CASE CopyConfig(s)
  BY <1>2 DEF CopyConfig
<1>3. CASE RejectConfig(s)
  BY <1>3 DEF RejectConfig
<1>4. CASE Launch(s)
  BY <1>4 DEF Launch
<1>5. CASE ExecFails(s)
  BY <1>5 DEF ExecFails
<1>6. ASSUME NEW p \in Pids, Exec(s, p)
      PROVE  TypeInv'
  BY <1>6 DEF Exec, ProcStates
<1>7. CASE Register(s)
  <2>1. spid[s] \in Pids
    BY <1>7 DEF Register
  <2> QED
    BY <1>7, <2>1 DEF Register, WatchPc
<1>8. CASE Reap(s)
  BY <1>8 DEF Reap, ProcStates
<1>9. CASE Deregister(s)
  BY <1>9 DEF Deregister
<1>10. CASE AfterRun(s)
  BY <1>10 DEF AfterRun
<1>11. CASE CountRestart(s)
  BY <1>11 DEF CountRestart
<1>12. CASE Wake(s)
  BY <1>12 DEF Wake
<1> QED
  BY <1>1, <1>2, <1>3, <1>4, <1>5, <1>6, <1>7, <1>8, <1>9, <1>10, <1>11, <1>12
     DEF SupervisorStep

LEMMA WatchType ==
  ASSUME TypeInv, NEW p \in Pids, WatchStep(p)
  PROVE  TypeInv'
<1> USE DEF TypeInv, TypeOK, WatchPc, managerVars, supVars, procVars, killVars,
            watchVars, callerVars
<1>1. CASE WatchTick(p)
  BY <1>1 DEF WatchTick
<1>2. CASE FetchOk(p)
  BY <1>2 DEF FetchOk
<1>3. CASE FetchFails(p)
  BY <1>3 DEF FetchFails
<1>4. CASE WatchAims(p)
  BY <1>4 DEF WatchAims
<1>5. CASE WatchKills(p)
  <2>1. termed' \subseteq Pids /\ timers' \subseteq Pids
    BY <1>5, KillType DEF WatchKills
  <2> QED
    BY <1>5, <2>1 DEF WatchKills, KillProcess
<1>6. CASE WatchDone(p)
  BY <1>6 DEF WatchDone
<1> QED
  BY <1>1, <1>2, <1>3, <1>4, <1>5, <1>6 DEF WatchStep

LEMMA SystemType ==
  ASSUME TypeInv, NEW p \in Pids, TimerFires(p) \/ MinerExits(p) \/ MinerHangs(p)
  PROVE  TypeInv'
  BY DEF TypeInv, TypeOK, ProcStates, managerVars, supVars, procVars, killVars,
         watchVars, callerVars, TimerFires, MinerExits, MinerHangs

LEMMA TypeStep == TypeInv /\ [Next]_vars => TypeInv'
<1> SUFFICES ASSUME TypeInv, [Next]_vars
             PROVE  TypeInv'
  OBVIOUS
<1>1. CASE Next
  BY <1>1, CallerType, SupervisorType, WatchType, SystemType DEF Next
<1>2. CASE UNCHANGED vars
  BY <1>2 DEF TypeInv, TypeOK, vars, managerVars, supVars, procVars, killVars,
              watchVars, callerVars
<1> QED
  BY <1>1, <1>2

\* Every variable of the Manager, the goroutines and the processes keeps its range: in
\* particular a watchdog counts no further than one failure past its grace period
\* (manager.go:286-297).
THEOREM TypeCorrect == Spec => []TypeOK
<1>1. TypeInv => TypeOK
  BY DEF TypeInv
<1> QED
  BY <1>1, TypeInit, TypeStep, PTL DEF Spec

-----------------------------------------------------------------------------
(***************************************************************************)
(* The inductive invariant.  SingleSupervisor carries the rest: with only  *)
(* one supervisor the command, the process and its place in runOnce() are  *)
(* those of one run.                                                       *)
(***************************************************************************)

\* m.cmd is the process of the supervisor that waits for it, from registration to
\* deregistration.
CommandInv ==
  /\ \A s \in Supervisors : spc[s] \in {"wait", "reaped"} => cmd = spid[s]
  /\ cmd # None => \E s \in Supervisors : spc[s] \in {"wait", "reaped"}

\* A process exists only between exec and reap of the supervisor that started it.
ProcessInv ==
  \A p \in Pids : proc[p] # "free" =>
    \E s \in Supervisors : spid[s] = p /\ spc[s] \in {"register", "wait"}

\* "gestopt" is only shown while no supervisor is in runOnce().
StoppedInv ==
  state = "stopped" =>
    \A s \in Supervisors : spc[s] \notin {"exec", "register", "wait", "reaped"}

\* Settings pass Validate before exec and stay with the process.
ValidInv ==
  /\ \A s \in Supervisors : spc[s] = "exec" => scfg[s] \in Valid
  /\ OnlyValidConfigRuns

SafeInv == SingleSupervisor /\ CommandInv /\ ProcessInv /\ StoppedInv /\ ValidInv

LEMMA SafeInit == Init => SafeInv
  BY DEF Init, SafeInv, SingleSupervisor, CommandInv, ProcessInv, StoppedInv, ValidInv,
         OnlyValidConfigRuns

\* A step outside the supervisor, which leaves m.supervising, m.state and m.cmd alone
\* and brings no process to life, keeps the invariant.
LEMMA OutsideSafe ==
  ASSUME SafeInv,
         UNCHANGED <<supervising, state, cmd, spc, scfg, spid, run>>,
         \A p \in Pids : proc'[p] # "free" => proc[p] # "free"
  PROVE  SafeInv'
  BY DEF SafeInv, SingleSupervisor, CommandInv, ProcessInv, StoppedInv, ValidInv,
         OnlyValidConfigRuns

LEMMA CallerSafe ==
  ASSUME TypeInv, SafeInv, NEW c \in Callers, Request(c) \/ CallerStep(c)
  PROVE  SafeInv'
<1>1. ASSUME NEW s \in Supervisors, StartSupervisor(c, s)
      PROVE  SafeInv'
  <2> USE <1>1 DEF StartSupervisor, procVars, TypeInv, TypeOK, SafeInv
  <2>1. SingleSupervisor'
    BY DEF SingleSupervisor
  <2>2. \A t \in Supervisors : t # s => spc'[t] = spc[t]
    OBVIOUS
  <2>3. spc'[s] = "top" /\ spc[s] = "none"
    OBVIOUS
  <2>4. CommandInv' /\ ProcessInv'
    BY <2>2, <2>3 DEF CommandInv, ProcessInv
  <2>5. StoppedInv' /\ ValidInv'
    BY <2>2, <2>3 DEF StoppedInv, ValidInv, OnlyValidConfigRuns
  <2> QED
    BY <2>1, <2>4, <2>5
<1>2. CASE Request(c) \/ StartSupervised(c) \/ SignalRestart(c) \/ CallerKills(c)
  BY <1>2, OutsideSafe
     DEF Request, HandleStart, Stop, UpdateConfig, StartSupervised, SignalRestart,
         CallerKills, KillProcess, managerVars, supVars, procVars
<1> QED
  BY <1>1, <1>2 DEF CallerStep, Start

LEMMA WatchSafe ==
  ASSUME SafeInv, NEW p \in Pids, WatchStep(p)
  PROVE  SafeInv'
  BY OutsideSafe
     DEF WatchStep, WatchTick, FetchOk, FetchFails, WatchAims, WatchKills, WatchDone,
         KillProcess, managerVars, supVars, procVars

LEMMA SystemSafe ==
  ASSUME TypeInv, SafeInv, NEW p \in Pids, TimerFires(p) \/ MinerExits(p) \/ MinerHangs(p)
  PROVE  SafeInv'
<1>1. \A q \in Pids : proc'[q] # "free" => proc[q] # "free"
  BY DEF TypeInv, TypeOK, TimerFires, MinerExits, MinerHangs, Live
<1> QED
  BY <1>1, OutsideSafe DEF TimerFires, MinerExits, MinerHangs, managerVars, supVars

\* Every step of a supervisor; only the one supervisor that is active can take it.
LEMMA SupervisorSafe ==
  ASSUME TypeInv, SafeInv, NEW s \in Supervisors, SupervisorStep(s)
  PROVE  SafeInv'
<1> USE DEF TypeInv, TypeOK, Goto, managerVars, supVars, procVars
<1>1. /\ supervising
      /\ spc[s] # "none"
      /\ \A t \in Supervisors : t # s => spc[t] = "none"
  BY DEF SafeInv, SingleSupervisor, SupervisorStep, Finish, CopyConfig, RejectConfig,
         Launch, ExecFails, Exec, Register, Reap, Deregister, AfterRun, CountRestart, Wake
<1>2. \A t \in Supervisors : t # s => spc'[t] = spc[t] /\ spid'[t] = spid[t]
                                     /\ scfg'[t] = scfg[t]
  BY DEF SupervisorStep, Finish, CopyConfig, RejectConfig, Launch, ExecFails, Exec,
         Register, Reap, Deregister, AfterRun, CountRestart, Wake
<1>3. CASE Finish(s)
  <2> USE <1>3 DEF Finish
  <2>1. SingleSupervisor'
    BY <1>1, <1>2 DEF SingleSupervisor
  <2>2. CommandInv' /\ ProcessInv'
    BY <1>1, <1>2 DEF SafeInv, CommandInv, ProcessInv
  <2>3. StoppedInv' /\ ValidInv'
    BY <1>1, <1>2 DEF SafeInv, StoppedInv, ValidInv, OnlyValidConfigRuns
  <2> QED
    BY <2>1, <2>2, <2>3 DEF SafeInv
<1>4. SingleSupervisor' \/ Finish(s)
  BY <1>1, <1>2
     DEF SingleSupervisor, SupervisorStep, CopyConfig, RejectConfig, Launch, ExecFails,
         Exec, Register, Reap, Deregister, AfterRun, CountRestart, Wake
<1>5. CASE \/ CopyConfig(s) \/ RejectConfig(s) \/ AfterRun(s) \/ CountRestart(s)
           \/ Wake(s) \/ ExecFails(s)
  <2> USE <1>5 DEF CopyConfig, RejectConfig, AfterRun, CountRestart, Wake, ExecFails
  <2>1. /\ UNCHANGED <<supervising, cmd, spid, proc, run>>
        /\ state' = state \/ state' # "stopped"
        /\ spc[s] \notin {"register", "wait", "reaped"}
        /\ spc'[s] \notin {"exec", "register", "wait", "reaped"}
    OBVIOUS
  <2>2. CommandInv' /\ ProcessInv'
    BY <1>1, <1>2, <2>1 DEF SafeInv, CommandInv, ProcessInv
  <2>3. StoppedInv' /\ ValidInv'
    BY <1>1, <1>2, <2>1 DEF SafeInv, StoppedInv, ValidInv, OnlyValidConfigRuns
  <2> QED
    BY <1>3, <1>4, <2>2, <2>3 DEF SafeInv
<1>6. CASE Launch(s)
  <2> USE <1>6 DEF Launch
  <2>1. CommandInv' /\ ProcessInv'
    BY <1>1, <1>2 DEF SafeInv, CommandInv, ProcessInv
  <2>2. StoppedInv' /\ ValidInv'
    BY <1>1, <1>2 DEF SafeInv, StoppedInv, ValidInv, OnlyValidConfigRuns
  <2> QED
    BY <1>3, <1>4, <2>1, <2>2 DEF SafeInv
<1>7. ASSUME NEW p \in Pids, Exec(s, p)
      PROVE  SafeInv'
  <2> USE <1>7 DEF Exec
  <2>1. CommandInv'
    BY <1>1, <1>2 DEF SafeInv, CommandInv
  <2>2. \A q \in Pids : q # p => proc'[q] = "free"
    BY <1>1 DEF SafeInv, ProcessInv
  <2>3. ProcessInv'
    BY <2>2 DEF ProcessInv
  <2>4. StoppedInv'
    BY <1>1, <1>2 DEF SafeInv, StoppedInv
  <2>5. ValidInv'
    BY <1>1, <1>2, <2>2 DEF SafeInv, ValidInv, OnlyValidConfigRuns
  <2> QED
    BY <1>3, <1>4, <2>1, <2>3, <2>4, <2>5 DEF SafeInv
<1>8. CASE Register(s)
  <2> USE <1>8 DEF Register
  <2>1. CommandInv' /\ ProcessInv'
    BY <1>1, <1>2 DEF SafeInv, CommandInv, ProcessInv
  <2>2. StoppedInv' /\ ValidInv'
    BY <1>1, <1>2 DEF SafeInv, StoppedInv, ValidInv, OnlyValidConfigRuns
  <2> QED
    BY <1>3, <1>4, <2>1, <2>2 DEF SafeInv
<1>9. CASE Reap(s)
  <2> USE <1>9 DEF Reap
  <2>1. CommandInv'
    BY <1>1, <1>2 DEF SafeInv, CommandInv
  <2>2. \A q \in Pids : proc'[q] = "free"
    BY <1>1 DEF SafeInv, ProcessInv
  <2>3. ProcessInv' /\ ValidInv'
    BY <1>1, <1>2, <2>2 DEF ProcessInv, ValidInv, OnlyValidConfigRuns
  <2>4. StoppedInv'
    BY <1>1, <1>2 DEF SafeInv, StoppedInv
  <2> QED
    BY <1>3, <1>4, <2>1, <2>3, <2>4 DEF SafeInv
<1>10. CASE Deregister(s)
  <2> USE <1>10 DEF Deregister
  <2>1. CommandInv' /\ ProcessInv'
    BY <1>1, <1>2 DEF SafeInv, CommandInv, ProcessInv
  <2>2. StoppedInv' /\ ValidInv'
    BY <1>1, <1>2 DEF SafeInv, StoppedInv, ValidInv, OnlyValidConfigRuns
  <2> QED
    BY <1>3, <1>4, <2>1, <2>2 DEF SafeInv
<1> QED
  BY <1>3, <1>5, <1>6, <1>7, <1>8, <1>9, <1>10 DEF SupervisorStep

LEMMA SafeStep == TypeInv /\ SafeInv /\ [Next]_vars => SafeInv'
<1> SUFFICES ASSUME TypeInv, SafeInv, [Next]_vars
             PROVE  SafeInv'
  OBVIOUS
<1>1. CASE Next
  BY <1>1, CallerSafe, SupervisorSafe, WatchSafe, SystemSafe DEF Next
<1>2. CASE UNCHANGED vars
  BY <1>2, OutsideSafe DEF vars, managerVars, supVars, procVars
<1> QED
  BY <1>1, <1>2

LEMMA Invariance == Spec => [](TypeInv /\ SafeInv)
<1>1. Init => TypeInv /\ SafeInv
  BY TypeInit, SafeInit
<1>2. TypeInv /\ SafeInv /\ [Next]_vars => (TypeInv /\ SafeInv)'
  BY TypeStep, SafeStep
<1> QED
  BY <1>1, <1>2, PTL DEF Spec

-----------------------------------------------------------------------------
\* m.supervising tells exactly whether a supervisor runs, and two never do
\* (manager.go:101, 177, 325).
THEOREM SupervisorIsSingle == Spec => []SingleSupervisor
<1>1. SafeInv => SingleSupervisor
  BY DEF SafeInv
<1> QED
  BY <1>1, Invariance, PTL

\* The agent never has two miner processes, "superviseert precies een XMRig-proces"
\* (manager.go:43).
THEOREM MinerIsSingle == Spec => []AtMostOneMiner
<1>1. SafeInv => AtMostOneMiner
  BY DEF SafeInv, SingleSupervisor, ProcessInv, AtMostOneMiner
<1> QED
  BY <1>1, Invariance, PTL

\* Every miner has a supervisor about to register it or waiting for it, and from then
\* on is the command a Stop kills (manager.go:233-254).
THEOREM MinerIsSupervised == Spec => []NoOrphan
<1>1. SafeInv => NoOrphan
  <2> SUFFICES ASSUME SafeInv, NEW p \in Pids, proc[p] # "free"
               PROVE  \E s \in Supervisors :
                        /\ spid[s] = p
                        /\ \/ spc[s] = "register" /\ cmd = None
                           \/ spc[s] = "wait" /\ cmd = p
    BY DEF NoOrphan
  <2>1. PICK s \in Supervisors : spid[s] = p /\ spc[s] \in {"register", "wait"}
    BY DEF SafeInv, ProcessInv
  <2>2. CASE spc[s] = "register"
    BY <2>1, <2>2 DEF SafeInv, CommandInv, SingleSupervisor
  <2>3. CASE spc[s] = "wait"
    BY <2>1, <2>3 DEF SafeInv, CommandInv
  <2> QED
    BY <2>1, <2>2, <2>3
<1> QED
  BY <1>1, Invariance, PTL

\* When the agent shows "gestopt" there is no miner and no command (manager.go:176, 324).
THEOREM StoppedIsStopped == Spec => []StoppedMeansNoMiner
<1>1. SafeInv => StoppedMeansNoMiner
  BY DEF SafeInv, StoppedInv, CommandInv, ProcessInv, StoppedMeansNoMiner
<1> QED
  BY <1>1, Invariance, PTL

\* No miner runs with settings that Validate refuses (manager.go:184).
THEOREM RunsAreValid == Spec => []OnlyValidConfigRuns
<1>1. SafeInv => OnlyValidConfigRuns
  BY DEF SafeInv, ValidInv
<1> QED
  BY <1>1, Invariance, PTL

\* A registered command is first reaped and set to nil, then replaced: no two runs
\* overlap in m.cmd (manager.go:238-257).
THEOREM CommandsAreSeparate == Spec => CommandsDoNotOverlap
<1>1. TypeInv /\ SafeInv /\ [Next]_vars => [cmd # None => cmd' \in {cmd, None}]_vars
  <2> SUFFICES ASSUME TypeInv, SafeInv, [Next]_vars, cmd # None
               PROVE  cmd' \in {cmd, None}
    OBVIOUS
  <2> USE DEF managerVars
  <2>1. ASSUME NEW s \in Supervisors, Register(s)
        PROVE  FALSE
    BY <2>1 DEF Register, SafeInv, SingleSupervisor, CommandInv
  <2>2. ASSUME NEW s \in Supervisors, SupervisorStep(s)
        PROVE  cmd' \in {cmd, None}
    BY <2>1, <2>2 DEF SupervisorStep, Finish, CopyConfig, RejectConfig, Launch, ExecFails,
       Exec, Reap, Deregister, AfterRun, CountRestart, Wake
  <2>3. ASSUME NEW c \in Callers, Request(c) \/ CallerStep(c)
        PROVE  cmd' = cmd
    BY <2>3 DEF Request, CallerStep, HandleStart, Stop, UpdateConfig, Start,
       StartSupervised, StartSupervisor, SignalRestart, CallerKills
  <2>4. ASSUME NEW p \in Pids,
               WatchStep(p) \/ TimerFires(p) \/ MinerExits(p) \/ MinerHangs(p)
        PROVE  cmd' = cmd
    BY <2>4 DEF WatchStep, WatchTick, FetchOk, FetchFails, WatchAims, WatchKills,
       WatchDone, TimerFires, MinerExits, MinerHangs
  <2> QED
    BY <2>2, <2>3, <2>4 DEF Next, vars
<1> QED
  BY <1>1, Invariance, PTL DEF Spec, CommandsDoNotOverlap

\* A kill arms the timer for whom it signals, and Exec takes no pid that is aimed at.
LEMMA SigkillStep ==
  TypeInv /\ SigkillOnlyAfterSigterm /\ [Next]_vars => SigkillOnlyAfterSigterm'
<1> SUFFICES ASSUME TypeInv, SigkillOnlyAfterSigterm, [Next]_vars, ~PidReuse
             PROVE  \A p \in timers' : Live(p)' => p \in termed'
  BY DEF SigkillOnlyAfterSigterm
<1> USE DEF TypeInv, TypeOK, SigkillOnlyAfterSigterm, managerVars, supVars, procVars,
            killVars, watchVars, callerVars
<1>1. ASSUME UNCHANGED <<proc, termed, timers>>
      PROVE  \A p \in timers' : Live(p)' => p \in termed'
  BY <1>1 DEF Live
<1>2. ASSUME NEW p, KillProcess(p)
      PROVE  \A q \in timers' : Live(q)' => q \in termed'
  BY <1>2 DEF KillProcess, Live
<1>3. ASSUME NEW c \in Callers, Request(c) \/ CallerStep(c)
      PROVE  \A p \in timers' : Live(p)' => p \in termed'
  BY <1>1, <1>2, <1>3
     DEF Request, CallerStep, HandleStart, Stop, UpdateConfig, Start, StartSupervised,
         StartSupervisor, SignalRestart, CallerKills
<1>4. ASSUME NEW s \in Supervisors, NEW p \in Pids, Exec(s, p)
      PROVE  \A q \in timers' : Live(q)' => q \in termed'
  BY <1>4 DEF Exec, AimedAt, Live
<1>5. ASSUME NEW s \in Supervisors, Reap(s)
      PROVE  \A q \in timers' : Live(q)' => q \in termed'
  BY <1>5 DEF Reap, Live
<1>6. ASSUME NEW s \in Supervisors, SupervisorStep(s)
      PROVE  \A p \in timers' : Live(p)' => p \in termed'
  BY <1>1, <1>4, <1>5, <1>6
     DEF SupervisorStep, Finish, CopyConfig, RejectConfig, Launch, ExecFails, Register,
         Deregister, AfterRun, CountRestart, Wake
<1>7. ASSUME NEW p \in Pids, WatchStep(p)
      PROVE  \A q \in timers' : Live(q)' => q \in termed'
  BY <1>1, <1>2, <1>7
     DEF WatchStep, WatchTick, FetchOk, FetchFails, WatchAims, WatchKills, WatchDone
<1>8. ASSUME NEW p \in Pids, TimerFires(p) \/ MinerExits(p) \/ MinerHangs(p)
      PROVE  \A q \in timers' : Live(q)' => q \in termed'
  BY <1>8 DEF TimerFires, MinerExits, MinerHangs, Live
<1> QED
  BY <1>1, <1>3, <1>6, <1>7, <1>8 DEF Next, vars

\* As long as pids are not handed out again, the SIGKILL of the timer only reaches a
\* process that got the SIGTERM before it (process_unix.go:29-36).
THEOREM SigkillFollowsSigterm == Spec => []SigkillOnlyAfterSigterm
<1>1. Init => SigkillOnlyAfterSigterm
  BY DEF Init, SigkillOnlyAfterSigterm
<1> QED
  BY <1>1, SigkillStep, Invariance, PTL DEF Spec

-----------------------------------------------------------------------------
(***************************************************************************)
(* Refinement: every step of the Manager is a step of MinerService or      *)
(* leaves it alone.                                                        *)
(***************************************************************************)

Running == {<<p, run[p]>> : p \in {q \in Pids : Live(q)}}

\* What a live process is to the supervisor: its own, and waited for or about to be.
LEMMA LiveIsHeld ==
  ASSUME SafeInv, NEW p \in Pids, Live(p), NEW s \in Supervisors, spc[s] # "none"
  PROVE  spid[s] = p /\ spc[s] \in {"register", "wait"}
  BY DEF Live, SafeInv, SingleSupervisor, ProcessInv

\* No settings in use means no live process, in a state and in the next one.
LEMMA NoneRunning ==
  /\ Running = {} <=> \A q \in Pids : ~Live(q)
  /\ Running' = {} <=> \A q \in Pids : ~Live(q)'
<1>1. \A q \in Pids : Live(q) => <<q, run[q]>> \in Running
  BY DEF Running
<1>2. \A q \in Pids : Live(q)' => <<q, run'[q]>> \in Running'
  BY DEF Running
<1>3. (\A q \in Pids : ~Live(q)) => Running = {}
  BY DEF Running
<1>4. (\A q \in Pids : ~Live(q)') => Running' = {}
  BY DEF Running
<1> QED
  BY <1>1, <1>2, <1>3, <1>4

LEMMA ServiceInit == Init => Service!Init
  BY DEF Init, Service!Init, Live

\* Only Begin and End of the service, when m.supervising changes, and the processes
\* do not.
LEMMA OutsideService ==
  ASSUME UNCHANGED <<supervising, proc, run>>
  PROVE  UNCHANGED Service!vars
  BY DEF Service!vars, Live

LEMMA CallerService ==
  ASSUME TypeInv, SafeInv, NEW c \in Callers, Request(c) \/ CallerStep(c)
  PROVE  [Service!Next]_(Service!vars)
<1>1. ASSUME NEW s \in Supervisors, StartSupervisor(c, s)
      PROVE  Service!Begin
  BY <1>1 DEF StartSupervisor, procVars, Service!Begin, Live
<1>2. CASE Request(c) \/ StartSupervised(c) \/ SignalRestart(c) \/ CallerKills(c)
  <2>1. UNCHANGED <<supervising, proc, run>>
    BY <1>2 DEF Request, HandleStart, Stop, UpdateConfig, StartSupervised, SignalRestart,
                CallerKills, KillProcess, managerVars, procVars
  <2> QED
    BY <2>1, OutsideService
<1> QED
  BY <1>1, <1>2 DEF CallerStep, Start, Service!Next

LEMMA SupervisorService ==
  ASSUME TypeInv, SafeInv, NEW s \in Supervisors, SupervisorStep(s)
  PROVE  [Service!Next]_(Service!vars)
<1> USE DEF TypeInv, TypeOK, Goto, managerVars, procVars
<1>1. supervising /\ spc[s] # "none"
  BY DEF SafeInv, SingleSupervisor, SupervisorStep, Finish, CopyConfig, RejectConfig,
         Launch, ExecFails, Exec, Register, Reap, Deregister, AfterRun, CountRestart, Wake
<1>2. ASSUME spc[s] \notin {"register", "wait"}
      PROVE  Running = {}
  BY <1>1, <1>2, LiveIsHeld DEF Running
<1>3. CASE Finish(s)
  <2>1. Running = {}
    BY <1>2, <1>3 DEF Finish
  <2>2. UNCHANGED <<proc, run>> /\ supervising' = FALSE
    BY <1>3 DEF Finish
  <2>3. Running' = Running
    BY <2>2 DEF Running, Live
  <2>4. Service!End
    BY <1>1, <2>1, <2>2, <2>3 DEF Running, Service!End
  <2> QED
    BY <2>4 DEF Service!Next
<1>4. ASSUME NEW p \in Pids, Exec(s, p)
      PROVE  [Service!Next]_(Service!vars)
  <2>1. Running = {} /\ scfg[s] \in Valid
    BY <1>2, <1>4 DEF Exec, SafeInv, ValidInv
  <2>2. Running' = {<<p, scfg[s]>>}
    <3>1. \A q \in Pids : ~Live(q)
      BY <2>1, NoneRunning
    <3>2. \A q \in Pids : Live(q)' <=> q = p
      BY <3>1, <1>4 DEF Exec, Live, ProcStates
    <3>3. run'[p] = scfg[s]
      BY <1>4 DEF Exec
    <3> QED
      BY <3>2, <3>3 DEF Running
  <2>3. supervising' = supervising
    BY <1>4 DEF Exec
  <2> DEFINE m == <<p, scfg[s]>>
  <2>4. m \in Pids \X Valid /\ Running' = {m}
    BY <2>1, <2>2
  <2> HIDE DEF m
  <2>5. \E n \in Pids \X Valid : Service!Launch(n)
    BY <1>1, <2>1, <2>3, <2>4 DEF Service!Launch, Running
  <2> QED
    BY <2>5 DEF Service!Next
<1>5. CASE Reap(s)
  <2>1. Running = {} /\ Running' = {} /\ supervising' = supervising
    <3>1. \A q \in Pids : ~Live(q)
      BY <1>1, <1>5, LiveIsHeld DEF Reap, Live
    <3>2. \A q \in Pids : ~Live(q)'
      BY <3>1, <1>5 DEF Reap, Live
    <3> QED
      BY <3>1, <3>2, <1>5 DEF Running, Reap
  <2> QED
    BY <2>1 DEF Running, Service!vars
<1>6. CASE \/ CopyConfig(s) \/ RejectConfig(s) \/ Launch(s) \/ ExecFails(s) \/ Register(s)
           \/ Deregister(s) \/ AfterRun(s) \/ CountRestart(s) \/ Wake(s)
  <2>1. UNCHANGED <<supervising, proc, run>>
    BY <1>6 DEF CopyConfig, RejectConfig, Launch, ExecFails, Register, Deregister,
                AfterRun, CountRestart, Wake
  <2> QED
    BY <2>1, OutsideService
<1> QED
  BY <1>3, <1>4, <1>5, <1>6 DEF SupervisorStep

LEMMA WatchService ==
  ASSUME NEW p \in Pids, WatchStep(p)
  PROVE  UNCHANGED Service!vars
<1>1. UNCHANGED <<supervising, proc, run>>
  BY DEF WatchStep, WatchTick, FetchOk, FetchFails, WatchAims, WatchKills, WatchDone,
         KillProcess, managerVars, procVars
<1> QED
  BY <1>1, OutsideService

LEMMA SystemService ==
  ASSUME TypeInv, SafeInv, NEW p \in Pids, TimerFires(p) \/ MinerExits(p) \/ MinerHangs(p)
  PROVE  [Service!Next]_(Service!vars)
<1> USE DEF TypeInv, TypeOK, managerVars
<1>0. UNCHANGED <<supervising, run>>
  BY DEF TimerFires, MinerExits, MinerHangs
<1>1. CASE Live(p) /\ proc' = [proc EXCEPT ![p] = "zombie"]
  <2>1. supervising
    BY <1>1 DEF Live, SafeInv, ProcessInv, SingleSupervisor
  <2>2. \A q \in Pids : Live(q) => q = p
    BY <1>1 DEF Live, SafeInv, ProcessInv, SingleSupervisor
  <2>3. Running # {} /\ Running' = {}
    BY <1>1, <2>2, NoneRunning DEF Live
  <2> QED
    BY <1>0, <2>1, <2>3 DEF Running, Service!Next, Service!Exit
<1>2. CASE \A q \in Pids : Live(q)' <=> Live(q)
  <2>1. {q \in Pids : Live(q)'} = {q \in Pids : Live(q)}
    BY <1>2
  <2>2. Running' = Running
    BY <1>0, <1>2 DEF Running
  <2> QED
    BY <1>0, <2>2 DEF Running, Service!vars
<1>3. \/ Live(p) /\ proc' = [proc EXCEPT ![p] = "zombie"]
      \/ \A q \in Pids : Live(q)' <=> Live(q)
  BY DEF TimerFires, MinerExits, MinerHangs, Live
<1> QED
  BY <1>1, <1>2, <1>3

\* The Manager implements the service the rest of the agent relies on: one miner at a
\* time, only with settings Validate accepts, and supervision ends with none running.
THEOREM ManagerImplementsService == Spec => ImplementsMinerService
<1>1. TypeInv /\ SafeInv /\ [Next]_vars => [Service!Next]_(Service!vars)
  <2> SUFFICES ASSUME TypeInv, SafeInv, [Next]_vars
               PROVE  [Service!Next]_(Service!vars)
    OBVIOUS
  <2>1. CASE Next
    BY <2>1, CallerService, SupervisorService, WatchService, SystemService DEF Next
  <2>2. CASE UNCHANGED vars
    BY <2>2, OutsideService DEF vars, managerVars, procVars
  <2> QED
    BY <2>1, <2>2
<1> QED
  BY <1>1, ServiceInit, Invariance, PTL DEF Spec, ImplementsMinerService, Service!Spec
=============================================================================
