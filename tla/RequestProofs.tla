----------------------------- MODULE RequestProofs -----------------------------
(***************************************************************************)
(* Proofs about what becomes of the requests to MinerManager: a kill that  *)
(* found its process escalates, and a stop, a change of settings or a wish *)
(* to go on keeps its effect for the run it found.  These are the          *)
(* counterparts of the runs lost_start and lost_stop: outside the windows  *)
(* those show, nothing is lost.                                            *)
(***************************************************************************)
EXTENDS MinerManagerProofs

-----------------------------------------------------------------------------
(* Signalled processes.                                                     *)

\* A pid that was signalled belongs to the process that was signalled, until it is reaped.
TermedInv ==
  \A p \in termed : proc[p] # "free" /\ (Live(p) => p \in timers)

\* A step that signals nothing and brings no process to life.
LEMMA TermedSame ==
  ASSUME TermedInv, UNCHANGED <<proc, termed, timers>>
  PROVE  TermedInv'
  BY DEF TermedInv, Live

\* A kill signals and arms the timer for the same processes.
LEMMA KillTermed ==
  ASSUME TermedInv, NEW p, KillProcess(p)
  PROVE  TermedInv'
  BY DEF TermedInv, KillProcess, Reachable, procVars, Live

LEMMA TermedStep == TypeInv /\ TermedInv /\ [Next]_vars => TermedInv'
<1> SUFFICES ASSUME TypeInv, TermedInv, [Next]_vars
             PROVE  TermedInv'
  OBVIOUS
<1> USE DEF managerVars, supVars, procVars, killVars, watchVars, callerVars
<1>1. ASSUME NEW c \in Callers, Request(c) \/ CallerStep(c)
      PROVE  TermedInv'
  BY <1>1, TermedSame, KillTermed
     DEF Request, CallerStep, HandleStart, Stop, UpdateConfig, Start, StartSupervised,
         StartSupervisor, SignalRestart, CallerKills
<1>2. ASSUME NEW s \in Supervisors, NEW p \in Pids, Exec(s, p)
      PROVE  TermedInv'
  BY <1>2 DEF Exec, TermedInv, TypeInv, TypeOK, Live
<1>3. ASSUME NEW s \in Supervisors, Reap(s)
      PROVE  TermedInv'
  BY <1>3 DEF Reap, TermedInv, TypeInv, TypeOK, Live
<1>4. ASSUME NEW s \in Supervisors, SupervisorStep(s)
      PROVE  TermedInv'
  BY <1>2, <1>3, <1>4, TermedSame
     DEF SupervisorStep, Finish, CopyConfig, RejectConfig, Launch, ExecFails, Register,
         Deregister, AfterRun, CountRestart, Wake
<1>5. ASSUME NEW p \in Pids, WatchStep(p)
      PROVE  TermedInv'
  BY <1>5, TermedSame, KillTermed
     DEF WatchStep, WatchTick, FetchOk, FetchFails, WatchAims, WatchKills, WatchDone
<1>6. ASSUME NEW p \in Pids, TimerFires(p) \/ MinerExits(p) \/ MinerHangs(p)
      PROVE  TermedInv'
  BY <1>6 DEF TimerFires, MinerExits, MinerHangs, TermedInv, TypeInv, TypeOK, Live
<1> QED
  BY <1>1, <1>4, <1>5, <1>6, TermedSame DEF Next, vars

\* The escalation of a kill is never lost, with or without reuse of pids: every process
\* that got a SIGTERM and lives on has its SIGKILL coming (process_unix.go:29-36).
THEOREM EscalationStaysPending == Spec => []EscalationIsPending
<1>1. Init => TermedInv
  BY DEF Init, TermedInv
<1>2. TermedInv => EscalationIsPending
  BY DEF TermedInv, EscalationIsPending
<1> QED
  BY <1>1, <1>2, TermedStep, Invariance, PTL DEF Spec

-----------------------------------------------------------------------------
(***************************************************************************)
(* Requests that found a run.  While a command is registered and stays     *)
(* registered, its supervisor can only wait for it and reap it, so no      *)
(* process starts, and no signal is forgotten except by the reaping.       *)
(***************************************************************************)

\* Under a command that stays registered, all a supervisor can do is reap that process.
LEMMA SupervisorUnderRun ==
  ASSUME TypeInv, SafeInv, NEW s \in Supervisors, SupervisorStep(s),
         cmd # None, cmd' = cmd
  PROVE  Reap(s) /\ spid[s] = cmd
<1>1. spc[s] # "none"
  BY DEF SupervisorStep, Finish, CopyConfig, RejectConfig, Launch, ExecFails, Exec, Register,
         Reap, Deregister, AfterRun, CountRestart, Wake
<1>2. spc[s] \in {"wait", "reaped"} /\ spid[s] = cmd
  BY <1>1 DEF SafeInv, SingleSupervisor, CommandInv
<1> QED
  BY <1>2 DEF SupervisorStep, Finish, CopyConfig, RejectConfig, Launch, ExecFails, Exec, Register,
         Deregister, AfterRun, CountRestart, Wake

\* Who aims at the registered process goes on to signal it, and what was signalled stays so
\* until it is dead.
LEMMA DoomedStays ==
  ASSUME TypeInv, SafeInv, [Next]_vars, cmd # None, cmd' = cmd, Doomed(cmd)
  PROVE  Doomed(cmd)'
<1> USE DEF TypeInv, TypeOK, managerVars, supVars, procVars, killVars, watchVars, callerVars
<1>1. ASSUME Live(cmd)' => Live(cmd), termed \subseteq termed', UNCHANGED ctarget
      PROVE  Doomed(cmd)'
  BY <1>1 DEF Doomed
<1>2. ASSUME NEW s \in Supervisors, SupervisorStep(s)
      PROVE  Doomed(cmd)'
  BY <1>2, SupervisorUnderRun DEF Reap, Doomed, Live
<1>3. ASSUME NEW p \in Pids, WatchStep(p)
      PROVE  Doomed(cmd)'
  BY <1>1, <1>3
     DEF WatchStep, WatchTick, FetchOk, FetchFails, WatchAims, WatchKills, WatchDone,
         KillProcess, Live
<1>4. ASSUME NEW p \in Pids, TimerFires(p) \/ MinerExits(p) \/ MinerHangs(p)
      PROVE  Doomed(cmd)'
  BY <1>1, <1>4 DEF TimerFires, MinerExits, MinerHangs, Live
<1>5. ASSUME NEW c \in Callers, CallerKills(c)
      PROVE  Doomed(cmd)'
  <2>1. CASE ctarget[c] = cmd
    <3>1. Live(cmd) => cmd \in Reachable(cmd)
      BY DEF Live, Reachable
    <3> QED
      BY <1>5, <2>1, <3>1 DEF CallerKills, KillProcess, Doomed, Live
  <2>2. CASE ctarget[c] # cmd
    BY <1>5, <2>2 DEF CallerKills, KillProcess, Doomed, Live
  <2> QED
    BY <2>1, <2>2
<1>6. ASSUME NEW c \in Callers, Stop(c) \/ SignalRestart(c)
      PROVE  Doomed(cmd)'
  BY <1>6 DEF Stop, SignalRestart, Doomed, Live
<1>7. ASSUME NEW c \in Callers,
             HandleStart(c) \/ Start(c) \/ \E new \in Configs : UpdateConfig(c, new)
      PROVE  Doomed(cmd)'
  BY <1>1, <1>7 DEF HandleStart, Start, StartSupervised, StartSupervisor, UpdateConfig, Live
<1>8. CASE UNCHANGED vars
  BY <1>1, <1>8 DEF vars, Live
<1> QED
  BY <1>2, <1>3, <1>4, <1>5, <1>6, <1>7, <1>8 DEF Next, Request, CallerStep

\* A stop that finds a registered run dooms it, and it stays doomed.
LEMMA StopStep ==
  ASSUME TypeInv, SafeInv, [Next]_vars, cmd # None, cmd' = cmd,
         Doomed(cmd) \/ (desired /\ ~desired')
  PROVE  Doomed(cmd)'
<1> SUFFICES ASSUME desired, ~desired'
             PROVE  Doomed(cmd)'
  BY DoomedStays
<1>1. PICK c \in Callers : Stop(c)
  BY DEF Next, Request, CallerStep, HandleStart, UpdateConfig, Start, StartSupervised,
         StartSupervisor, SignalRestart, CallerKills, SupervisorStep, Finish, CopyConfig,
         RejectConfig, Launch, ExecFails, Exec, Register, Reap, Deregister, AfterRun,
         CountRestart, Wake, WatchStep, WatchTick, FetchOk, FetchFails, WatchAims,
         WatchKills, WatchDone, TimerFires, MinerExits, MinerHangs, vars, managerVars
<1> QED
  BY <1>1 DEF Stop, Doomed, TypeInv, TypeOK

\* A stop that finds a registered run ends it, whatever else is asked or goes on meanwhile
\* (manager.go:110-118): lost_stop is about a stop that finds none, and about nothing else.
THEOREM StopHolds == Spec => StopHoldsForRun
<1>1. TypeInv /\ SafeInv /\ [Next]_vars =>
        [cmd # None /\ cmd' = cmd /\ (Doomed(cmd) \/ (desired /\ ~desired')) => Doomed(cmd)']_vars
  BY StopStep
<1> QED
  BY <1>1, Invariance, PTL DEF Spec, StopHoldsForRun

\* New settings that find a registered run end it, so that the next run has them
\* (manager.go:82-94, 130-138).
THEOREM ChangeHolds == Spec => ChangeHoldsForRun
<1>1. TypeInv /\ SafeInv /\ [Next]_vars =>
        [cmd # None /\ cmd' = cmd /\ (Due(cmd) \/ cfg' # cfg) => Due(cmd)']_vars
  <2> SUFFICES ASSUME TypeInv, SafeInv, [Next]_vars, cmd # None, cmd' = cmd,
                      Due(cmd) \/ cfg' # cfg
               PROVE  Due(cmd)'
    OBVIOUS
  <2> USE DEF TypeInv, TypeOK, managerVars, callerVars
  <2>1. CASE Doomed(cmd)
    BY <2>1, DoomedStays DEF Due
  <2>2. CASE cfg' # cfg
    <3>1. PICK c \in Callers : \E new \in Configs : UpdateConfig(c, new)
      BY <2>2
         DEF Next, Request, CallerStep, HandleStart, Stop, Start, StartSupervised,
             StartSupervisor, SignalRestart, CallerKills, SupervisorStep, Finish, CopyConfig,
             RejectConfig, Launch, ExecFails, Exec, Register, Reap, Deregister, AfterRun,
             CountRestart, Wake, WatchStep, WatchTick, FetchOk, FetchFails, WatchAims,
             WatchKills, WatchDone, TimerFires, MinerExits, MinerHangs, vars
    <3> QED
      BY <3>1 DEF UpdateConfig, Due
  <2>3. ASSUME NEW c \in Callers, cpc[c] = "signal"
        PROVE  Due(cmd)'
    <3>1. CASE SignalRestart(c)
      BY <3>1 DEF SignalRestart, Due, Doomed
    <3>2. CASE ~SignalRestart(c)
      <4>1. cpc'[c] = "signal"
        BY <2>3, <3>2
           DEF Next, Request, CallerStep, HandleStart, Stop, UpdateConfig, Start,
               StartSupervised, StartSupervisor, SignalRestart, CallerKills, SupervisorStep,
               Finish, CopyConfig, RejectConfig, Launch, ExecFails, Exec, Register, Reap,
               Deregister, AfterRun, CountRestart, Wake, WatchStep, WatchTick, FetchOk,
               FetchFails, WatchAims, WatchKills, WatchDone, TimerFires, MinerExits,
               MinerHangs, vars
      <4> QED
        BY <4>1 DEF Due
    <3> QED
      BY <3>1, <3>2
  <2> QED
    BY <2>1, <2>2, <2>3 DEF Due
<1> QED
  BY <1>1, Invariance, PTL DEF Spec, ChangeHoldsForRun

\* Only a supervisor that saw desired = FALSE ends.
LEMMA WantedStep ==
  ASSUME TypeInv, SafeInv, [Next]_vars, supervising, desired, desired', ~Leaving
  PROVE  supervising' /\ ~Leaving'
<1> USE DEF TypeInv, TypeOK, managerVars, supVars
<1>1. ASSUME NEW s \in Supervisors, SupervisorStep(s)
      PROVE  supervising' /\ ~Leaving'
  <2>1. spc'[s] # "finish" /\ supervising'
    BY <1>1
       DEF Leaving, SupervisorStep, Goto, Finish, CopyConfig, RejectConfig, Launch, ExecFails,
           Exec, Register, Reap, Deregister, AfterRun, CountRestart, Wake
  <2>2. \A t \in Supervisors : t # s => spc'[t] = spc[t]
    BY <1>1
       DEF SupervisorStep, Goto, Finish, CopyConfig, RejectConfig, Launch, ExecFails, Exec,
           Register, Reap, Deregister, AfterRun, CountRestart, Wake
  <2> QED
    BY <2>1, <2>2 DEF Leaving
<1>2. ASSUME NEW c \in Callers, Request(c) \/ CallerStep(c)
      PROVE  supervising' /\ ~Leaving'
  BY <1>2
     DEF Leaving, Request, CallerStep, HandleStart, Stop, UpdateConfig, Start,
         StartSupervised, StartSupervisor, SignalRestart, CallerKills
<1>3. ASSUME NEW p \in Pids,
             WatchStep(p) \/ TimerFires(p) \/ MinerExits(p) \/ MinerHangs(p)
      PROVE  supervising' /\ ~Leaving'
  BY <1>3
     DEF Leaving, WatchStep, WatchTick, FetchOk, FetchFails, WatchAims, WatchKills,
         WatchDone, TimerFires, MinerExits, MinerHangs
<1> QED
  BY <1>1, <1>2, <1>3 DEF Next, vars, Leaving

\* Supervision that is wanted goes on, so a start is lost in no other window than that of
\* lost_start (manager.go:171-215, 322-326).
THEOREM WantedStays == Spec => WantedStaysSupervised
<1>1. TypeInv /\ SafeInv /\ [Next]_vars =>
        [supervising /\ desired /\ desired' /\ ~Leaving => supervising' /\ ~Leaving']_vars
  BY WantedStep
<1> QED
  BY <1>1, Invariance, PTL DEF Spec, WantedStaysSupervised

-----------------------------------------------------------------------------
(***************************************************************************)
(* The two comments that lost_stop and lost_start refute hold once the     *)
(* window that each of them goes through is closed: nothing else breaks    *)
(* them.                                                                   *)
(***************************************************************************)

\* No run is registered after the stop that missed it (manager.go:233-239).
RegistersWhenDesired == [][\A s \in Supervisors : Register(s) => desired]_vars

\* No start leaves its wish to a supervisor that is on its way out (manager.go:101, 322-326).
StartsBeforeLeaving == [][\A c \in Callers : StartSupervised(c) => ~Leaving]_vars

\* A command only appears when a supervisor registers it.
LEMMA OnlyRegisterSets ==
  ASSUME [Next]_vars, cmd' # cmd, cmd' # None
  PROVE  \E s \in Supervisors : Register(s)
  BY DEF Next, Request, CallerStep, HandleStart, Stop, UpdateConfig, Start, StartSupervised,
         StartSupervisor, SignalRestart, CallerKills, SupervisorStep, Finish, CopyConfig,
         RejectConfig, Launch, ExecFails, Exec, Reap, Deregister, AfterRun, CountRestart, Wake,
         WatchStep, WatchTick, FetchOk, FetchFails, WatchAims, WatchKills, WatchDone,
         TimerFires, MinerExits, MinerHangs, vars, managerVars

\* "Stop zet de gewenste toestand op gestopt en beeindigt het proces" (manager.go:110) is
\* true of a manager that registers a run only while it is wanted: what lost_stop shows
\* comes from manager.go:233-239 alone.
THEOREM StopEndsMinerOnceWindowIsClosed ==
  Spec /\ RegistersWhenDesired => []StopEndsMiner
<1>1. Init => StopEndsMiner
  BY DEF Init, StopEndsMiner
<1>2. TypeInv /\ SafeInv /\ StopEndsMiner /\ [Next]_vars
        /\ [\A s \in Supervisors : Register(s) => desired]_vars => StopEndsMiner'
  <2> SUFFICES ASSUME TypeInv, SafeInv, StopEndsMiner, [Next]_vars,
                      [\A s \in Supervisors : Register(s) => desired]_vars,
                      ~desired', cmd' # None
               PROVE  Doomed(cmd)'
    BY DEF StopEndsMiner, Doomed, Live
  <2>1. CASE cmd' = cmd
    BY <2>1, StopStep DEF StopEndsMiner, TypeInv, TypeOK
  <2>2. CASE cmd' # cmd
    <3>1. PICK s \in Supervisors : Register(s)
      BY <2>2, OnlyRegisterSets
    <3>2. desired
      BY <2>2, <3>1 DEF vars, managerVars
    <3> QED
      BY <3>1, <3>2 DEF Register
  <2> QED
    BY <2>1, <2>2
<1> QED
  BY <1>1, <1>2, Invariance, PTL DEF Spec, RegistersWhenDesired

\* Who wants a miner has a supervisor that will see it.
WishIsSeen == desired => supervising /\ ~Leaving

\* "Start zet de gewenste toestand op draaien en start de supervisor" (manager.go:96) is
\* true of a manager whose leaving supervisor finds no start that came after its last look
\* at desired: what lost_start shows comes from that window alone.
THEOREM DesiredIsSupervisedOnceWindowIsClosed ==
  Spec /\ StartsBeforeLeaving => []DesiredIsSupervised
<1>1. Init => WishIsSeen
  BY DEF Init, WishIsSeen
<1>2. TypeInv /\ SafeInv /\ WishIsSeen /\ [Next]_vars
        /\ [\A c \in Callers : StartSupervised(c) => ~Leaving]_vars => WishIsSeen'
  <2> SUFFICES ASSUME TypeInv, SafeInv, WishIsSeen, [Next]_vars,
                      [\A c \in Callers : StartSupervised(c) => ~Leaving]_vars,
                      desired'
               PROVE  supervising' /\ ~Leaving'
    BY DEF WishIsSeen
  <2>1. CASE desired
    BY <2>1, WantedStep DEF WishIsSeen
  <2>2. CASE ~desired
    <3>1. PICK c \in Callers : Start(c)
      BY <2>2
         DEF Next, Request, CallerStep, HandleStart, Stop, UpdateConfig, SignalRestart,
             CallerKills, SupervisorStep, Finish, CopyConfig, RejectConfig, Launch, ExecFails,
             Exec, Register, Reap, Deregister, AfterRun, CountRestart, Wake, WatchStep,
             WatchTick, FetchOk, FetchFails, WatchAims, WatchKills, WatchDone, TimerFires,
             MinerExits, MinerHangs, vars, managerVars
    <3>2. CASE StartSupervised(c)
      BY <2>2, <3>2 DEF StartSupervised, Leaving, vars, managerVars, supVars
    <3>3. ASSUME NEW s \in Supervisors, StartSupervisor(c, s)
          PROVE  supervising' /\ ~Leaving'
      BY <3>3 DEF StartSupervisor, Leaving, SafeInv, SingleSupervisor, TypeInv, TypeOK
    <3> QED
      BY <3>1, <3>2, <3>3 DEF Start
  <2> QED
    BY <2>1, <2>2
<1>3. WishIsSeen => DesiredIsSupervised
  BY DEF WishIsSeen, DesiredIsSupervised
<1> QED
  BY <1>1, <1>2, <1>3, Invariance, PTL DEF Spec, StartsBeforeLeaving
=============================================================================
