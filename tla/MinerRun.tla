------------------------------ MODULE MinerRun ------------------------------
(***************************************************************************)
(* The runs of the miner in time (internal/miner/manager.go, ringbuffer.go *)
(* and xmrig/summary.go): the watchdog's ticker, its health checks and the *)
(* grace period, the delayed SIGKILL, the supervisor's pause between two   *)
(* runs and the Stop and Start that cut it short, and the miner's output   *)
(* on its way through pipe and scanner to the log.                         *)
(*                                                                         *)
(* Goroutines take no time: time passes only when none of them has a step  *)
(* to take.  The windows between their steps are MinerManager's; every     *)
(* launch succeeds; stdout stands for both pipes, which do not interact.   *)
(***************************************************************************)
EXTENDS Integers, Sequences, FiniteSets

CONSTANTS
  Period,        \* of the watchdog's ticker
  Timeout,       \* of a health check
  Grace,         \* health_grace_seconds
  Escalation,    \* from SIGTERM to SIGKILL
  RestartDelay,  \* restart_delay_seconds
  PipeSize,      \* chunks that fit into the pipe
  ScanLimit,     \* chunks of one line that fit into the scanner's buffer
  LogSize,       \* logBufferSize
  MaxChunks,     \* bound: chunks a run writes
  MaxRuns        \* bound: number of runs

ASSUME TimeAssumption ==
  /\ Period \in Nat /\ Timeout \in Nat /\ Grace \in Nat /\ Escalation \in Nat
  /\ RestartDelay \in Nat
  /\ Timeout < Period
ASSUME SizeAssumption ==
  /\ PipeSize \in Nat /\ ScanLimit \in Nat /\ LogSize \in Nat \ {0}
  /\ MaxChunks \in Nat /\ MaxRuns \in Nat \ {0}

VARIABLES
  miner,         \* the process: "alive", "hung", "blocked" on its output, "zombie", "gone"
  supervisor,    \* waits in "run", in "sleep", is at the top of its "loop", or "off"
  desired,       \* what the user wants
  run,           \* number of the run
  hasty,         \* did a Start bring the supervisor to its loop, or the end of a pause?
  silent,        \* time.Since(lastHealthy)
  watch,         \* where watchHealth is
  tick,          \* time until its ticker ticks
  check,         \* time until its health check fails
  stale,         \* the checks of earlier runs that are still under way
  fuse,          \* time until the SIGKILL, or Never
  pause,         \* time the supervisor still sleeps
  pipe,          \* what the miner wrote: chunks, of which each may end a line
  part,          \* chunks of an unfinished line in the scanner's buffer
  held,          \* lines in the buffer of each run's scanner
  pump,          \* "scan", "ended", or "choked" on a line too long for the scanner
  log,           \* the ring buffer: the numbers of the log lines in it
  written,       \* history: chunks this run wrote
  taken,         \* history: lines each run's scanner found
  misses,        \* history: failed checks since the last good one
  deaf,          \* history: for how long the miner could not answer
  logged,        \* history: those of them that were logged
  added          \* history: number of log lines ever added

clockVars == <<silent, tick, check, fuse, pause, deaf>>
superVars == <<supervisor, desired, run, hasty>>
watchVars == <<watch, misses, stale>>
pipeVars  == <<pipe, part, held, pump, written, taken, logged>>
logVars   == <<log, added>>
vars == <<miner, clockVars, superVars, watchVars, pipeVars, logVars>>

Never == -1
Runs == 1 .. MaxRuns
Live == miner \in {"alive", "hung", "blocked"}

-----------------------------------------------------------------------------
(* The log.                                                                 *)

\* Seeded fault: the newest line is cut off, not the oldest.
TrimEnd(s) == IF Len(s) > LogSize THEN SubSeq(s, 1, LogSize) ELSE s

Trim(s) == IF Len(s) > LogSize THEN SubSeq(s, Len(s) - LogSize + 1, Len(s)) ELSE s

\* ringBuffer.add of any line, under its own mutex.
Add ==
  /\ added' = added + 1
  /\ log' = Trim(Append(log, added'))

-----------------------------------------------------------------------------
\* runOnce just after it registered its first process.
Init ==
  /\ miner = "alive"
  /\ supervisor = "run" /\ desired = TRUE /\ run = 1 /\ hasty = TRUE
  /\ silent = 0 /\ misses = 0 /\ deaf = 0
  /\ watch = "idle" /\ tick = Period /\ check = 0 /\ stale = {}
  /\ fuse = Never /\ pause = 0
  /\ pipe = <<>> /\ part = 0 /\ pump = "scan" /\ written = 0
  /\ held = [r \in Runs |-> 0] /\ taken = held /\ logged = held
  /\ log = <<1>> /\ added = 1

-----------------------------------------------------------------------------
(* Users and the supervisor.                                                *)

\* Seeded fault: no escalation.
TerminateOnly == fuse' = fuse

\* killProcess: nothing without a registered process; of two timers the first counts.
KillProcess ==
  fuse' = IF miner = "gone" THEN Never ELSE IF fuse = Never THEN Escalation ELSE fuse

Stop ==
  /\ desired' = FALSE
  /\ KillProcess
  /\ UNCHANGED <<miner, supervisor, run, hasty, silent, tick, check, pause, deaf, watchVars,
                 pipeVars, logVars>>

Start ==
  /\ desired' = TRUE
  /\ IF supervisor = "off"
       THEN supervisor' = "loop" /\ hasty' = TRUE
       ELSE UNCHANGED <<supervisor, hasty>>
  /\ UNCHANGED <<miner, run, clockVars, watchVars, pipeVars, logVars>>

\* UpdateConfig: the run is to end, and the next one to follow.
ChangeConfig ==
  /\ KillProcess
  /\ UNCHANGED <<miner, superVars, silent, tick, check, pause, deaf, watchVars, pipeVars, logVars>>

\* Wait closes the pipe, whatever is in it: the scanner has only to pass on the lines in its
\* buffer, of which the last may be unfinished.
Rest == IF pump = "scan" /\ part \in 1 .. ScanLimit - 1 THEN 1 ELSE 0

\* Seeded fault: the end of the output takes along what the scanner still has.
OutputVanishes ==
  /\ pump' = IF pump = "scan" THEN "ended" ELSE pump
  /\ pipe' = <<>> /\ part' = 0
  /\ held' = [held EXCEPT ![run] = 0]
  /\ taken' = [taken EXCEPT ![run] = @ + Rest]
  /\ UNCHANGED <<written, logged>>

OutputEnds ==
  /\ pump' = IF pump = "scan" THEN "ended" ELSE pump
  /\ pipe' = <<>> /\ part' = 0
  /\ held' = [held EXCEPT ![run] = @ + Rest]
  /\ taken' = [taken EXCEPT ![run] = @ + Rest]
  /\ UNCHANGED <<written, logged>>

\* Seeded fault: the miner is restarted at once.
ReapAndGo ==
  /\ miner = "zombie"
  /\ miner' = "gone"
  /\ OutputEnds
  /\ supervisor' = IF desired THEN "sleep" ELSE "off"
  /\ pause' = 0
  /\ fuse' = Never /\ deaf' = 0
  /\ Add
  /\ UNCHANGED <<desired, run, hasty, silent, tick, check, watchVars>>

\* Wait returns, healthDone is closed, and the supervisor finishes or goes to sleep; a
\* SIGKILL that is still pending will find no process.
Reap ==
  /\ miner = "zombie"
  /\ miner' = "gone"
  /\ OutputEnds
  /\ supervisor' = IF desired THEN "sleep" ELSE "off"
  /\ pause' = IF desired THEN RestartDelay ELSE 0
  /\ fuse' = Never /\ deaf' = 0
  /\ Add
  /\ UNCHANGED <<desired, run, hasty, silent, tick, check, watchVars>>

\* sleepInterruptible looks at desired every 200 ms, too seldom for a Stop with a Start
\* close behind it.
CutShort ==
  /\ supervisor = "sleep" /\ ~desired
  /\ supervisor' = "off"
  /\ pause' = 0
  /\ Add
  /\ UNCHANGED <<miner, desired, run, hasty, silent, tick, check, fuse, deaf, watchVars, pipeVars>>

WakeUp ==
  /\ supervisor = "sleep" /\ desired
  /\ pause = 0
  /\ supervisor' = "loop" /\ hasty' = FALSE
  /\ UNCHANGED <<miner, desired, run, clockVars, watchVars, pipeVars, logVars>>

Leave ==
  /\ supervisor = "loop" /\ ~desired
  /\ supervisor' = "off"
  /\ UNCHANGED <<miner, desired, run, hasty, clockVars, watchVars, pipeVars, logVars>>

\* What the last run's watchdog takes along: it is not waited for.  An idle one has only to
\* end or to begin a last check, for which it is all the same whether the run began.
Leftover ==
  IF watch = "fetch" THEN {[run |-> run, check |-> check, silent |-> silent, age |-> 0]} ELSE {}

NextRun ==
  /\ supervisor = "loop" /\ desired
  /\ run < MaxRuns
  /\ supervisor' = "run" /\ miner' = "alive"
  /\ run' = run + 1
  /\ stale' = stale \union Leftover
  /\ silent' = 0 /\ misses' = 0
  /\ watch' = "idle" /\ tick' = Period /\ check' = 0
  /\ pump' = "scan" /\ written' = 0
  /\ Add
  /\ UNCHANGED <<desired, hasty, fuse, pause, deaf, pipe, part, held, taken, logged>>

-----------------------------------------------------------------------------
(* The watchdog.                                                            *)

\* When healthDone is closed as well, the select picks either.
CheckStarts ==
  /\ watch = "idle"
  /\ tick = 0
  /\ watch' = "fetch"
  /\ tick' = Period
  /\ check' = Timeout
  /\ UNCHANGED <<miner, silent, fuse, pause, deaf, misses, stale, superVars, pipeVars, logVars>>

\* Seeded fault: lastHealthy is not set.
FetchOkForgets ==
  /\ watch = "fetch" /\ miner = "alive"
  /\ watch' = "idle" /\ check' = 0 /\ misses' = 0
  /\ UNCHANGED <<miner, silent, tick, fuse, pause, deaf, stale, superVars, pipeVars,
                 logVars>>

\* FetchSummary's request is answered, with a summary that can be decoded.
FetchOk ==
  /\ watch = "fetch"
  /\ miner = "alive"
  /\ watch' = "idle"
  /\ silent' = 0 /\ check' = 0
  /\ misses' = 0
  /\ UNCHANGED <<miner, tick, fuse, pause, deaf, stale, superVars, pipeVars,
                 logVars>>

\* Seeded fault: a failed check is always forgiven.
FetchForgiven ==
  /\ watch = "fetch"
  /\ watch' = "idle" /\ check' = 0 /\ misses' = misses + 1
  /\ UNCHANGED <<miner, silent, tick, fuse, pause, deaf, stale, superVars, pipeVars,
                 logVars>>

\* Within the grace period: lastHealthy is never before start, so the test of start adds
\* nothing to that of lastHealthy.
FetchMisses ==
  /\ watch = "fetch"
  /\ silent <= Grace
  /\ watch' = "idle"
  /\ check' = 0
  /\ misses' = misses + 1
  /\ UNCHANGED <<miner, silent, tick, fuse, pause, deaf, stale, superVars, pipeVars,
                 logVars>>

\* Connection refused, an unusable answer or none within the timeout, also from a slow
\* miner, and longer ago than Grace the last good one.
Strike ==
  /\ watch = "fetch"
  /\ silent > Grace
  /\ watch' = "done"
  /\ check' = 0
  /\ misses' = misses + 1
  /\ KillProcess
  /\ Add
  /\ UNCHANGED <<miner, silent, tick, pause, deaf, stale, superVars, pipeVars>>

WatchDone ==
  /\ watch = "idle"
  /\ miner = "gone"
  /\ watch' = "done"
  /\ UNCHANGED <<miner, clockVars, misses, stale, superVars, pipeVars, logVars>>

\* The check of an earlier run ends: m.client may ask the new miner by now.  Its watchdog
\* then finds healthDone closed.
StaleCheckEnds ==
  \E s \in stale :
    /\ miner = "alive" \/ s.silent <= Grace
    /\ stale' = stale \ {s}
    /\ UNCHANGED <<miner, clockVars, watch, misses, superVars, pipeVars, logVars>>

\* m.cmd is read after the check: it is the command of the run of now.
StaleStrike ==
  \E s \in stale :
    /\ s.silent > Grace
    /\ stale' = stale \ {s}
    /\ KillProcess
    /\ Add
    /\ UNCHANGED <<miner, silent, tick, check, pause, deaf, watch, misses, superVars, pipeVars>>

-----------------------------------------------------------------------------
(* The pump of the miner's output.                                          *)

Ends(s) == {i \in 1 .. Len(s) : s[i] = "end"}
Open(s) == {i \in 1 .. Len(s) : \A j \in i .. Len(s) : s[j] # "end"}

\* The scanner reads what the pipe holds, as far as its buffer goes, which lets a blocked
\* miner go on.
PumpReads ==
  /\ pump = "scan"
  /\ held[run] = 0
  /\ \E n \in 1 .. Len(pipe) :
       LET got == SubSeq(pipe, 1, n)
       IN  /\ part + n <= ScanLimit
           /\ pipe' = SubSeq(pipe, n + 1, Len(pipe))
           /\ held' = [held EXCEPT ![run] = Cardinality(Ends(got))]
           /\ taken' = [taken EXCEPT ![run] = @ + Cardinality(Ends(got))]
           /\ part' = Cardinality(Open(got)) + (IF Ends(got) = {} THEN part ELSE 0)
  /\ miner' = IF miner = "blocked" THEN "alive" ELSE miner
  /\ deaf' = IF miner = "blocked" THEN 0 ELSE deaf
  /\ UNCHANGED <<silent, tick, check, fuse, pause, superVars, watchVars, pump, written, logged,
                 logVars>>

\* The scanner of an earlier run may still have lines to pass on.
PumpAdds ==
  \E r \in Runs :
    /\ held[r] > 0
    /\ held' = [held EXCEPT ![r] = @ - 1]
    /\ logged' = [logged EXCEPT ![r] = @ + 1]
    /\ Add
    /\ UNCHANGED <<miner, clockVars, superVars, watchVars, pipe, part, pump, written, taken>>

\* bufio.ErrTooLong: what is in the buffer is lost, Scan returns false for good, and nobody
\* empties the pipe any more.
PumpChokes ==
  /\ pump = "scan"
  /\ held[run] = 0 /\ part = ScanLimit
  /\ pump' = "choked" /\ part' = 0
  /\ UNCHANGED <<miner, clockVars, superVars, watchVars, pipe, held, written, taken, logged,
                 logVars>>

\* The pipe is empty and the miner has exited.
PumpEnds ==
  /\ pump = "scan"
  /\ held[run] = 0 /\ part < ScanLimit
  /\ miner = "zombie" /\ pipe = <<>>
  /\ OutputEnds
  /\ UNCHANGED <<miner, clockVars, superVars, watchVars, logVars>>

-----------------------------------------------------------------------------
(* The miner, the system and time.                                          *)

MinerWrites ==
  /\ miner = "alive"
  /\ Len(pipe) < PipeSize /\ written < MaxChunks
  /\ \E chunk \in {"end", "part"} : pipe' = Append(pipe, chunk)
  /\ written' = written + 1
  /\ UNCHANGED <<miner, clockVars, superVars, watchVars, part, held, pump, taken, logged, logVars>>

\* The pipe is full: the miner waits, and with it the loop that serves its API.  (A miner
\* with threads enough would go on answering: then nobody would notice.)
MinerBlocks ==
  /\ miner = "alive"
  /\ Len(pipe) = PipeSize
  /\ miner' = "blocked"
  /\ UNCHANGED <<clockVars, superVars, watchVars, pipeVars, logVars>>

MinerHangs ==
  /\ miner = "alive"
  /\ miner' = "hung"
  /\ UNCHANGED <<clockVars, superVars, watchVars, pipeVars, logVars>>

\* On SIGTERM, by itself or in a crash.
MinerExits ==
  /\ Live
  /\ miner' = "zombie"
  /\ UNCHANGED <<clockVars, superVars, watchVars, pipeVars, logVars>>

TimerFires ==
  /\ fuse = 0
  /\ fuse' = Never
  /\ miner' = IF Live THEN "zombie" ELSE miner
  /\ UNCHANGED <<silent, tick, check, pause, deaf, superVars, watchVars, pipeVars, logVars>>

\* No goroutine can take a step, and no timer is due.
Quiet ==
  /\ miner # "zombie" /\ fuse # 0
  /\ supervisor = "sleep" => desired /\ pause > 0
  /\ supervisor = "loop" => desired /\ run = MaxRuns
  /\ watch = "idle" => tick > 0 /\ miner # "gone"
  /\ watch = "fetch" => check > 0
  /\ \A s \in stale : s.check > 0
  /\ pump = "scan" => pipe = <<>> /\ part < ScanLimit
  /\ \A r \in Runs : held[r] = 0

Down(t) == IF t > 0 THEN t - 1 ELSE t

Older(s) ==
  [run |-> s.run, check |-> Down(s.check), silent |-> s.silent + 1, age |-> s.age + 1]

TimePasses ==
  /\ Quiet
  /\ silent' = IF Live \/ watch = "fetch" THEN silent + 1 ELSE silent
  /\ deaf' = IF miner \in {"hung", "blocked"} THEN deaf + 1 ELSE 0
  /\ tick' = Down(tick) /\ check' = Down(check)
  /\ fuse' = Down(fuse) /\ pause' = Down(pause)
  /\ stale' = {Older(s) : s \in stale}
  /\ UNCHANGED <<miner, watch, misses, superVars, pipeVars, logVars>>

Next ==
  \/ Stop \/ Start \/ ChangeConfig
  \/ Reap \/ CutShort \/ WakeUp \/ Leave \/ NextRun
  \/ CheckStarts \/ FetchOk \/ FetchMisses \/ Strike \/ WatchDone
  \/ StaleCheckEnds \/ StaleStrike
  \/ PumpReads \/ PumpAdds \/ PumpChokes \/ PumpEnds
  \/ MinerWrites \/ MinerBlocks \/ MinerHangs \/ MinerExits \/ TimerFires \/ TimePasses

Spec == Init /\ [][Next]_vars

-----------------------------------------------------------------------------
\* When a miner that does not answer is dead at the latest.
Deadline == Grace + Period + Timeout + Escalation

StaleCheck == [run : Runs, check : 0 .. Timeout, silent : Nat, age : Nat]

TypeOK ==
  /\ miner \in {"alive", "hung", "blocked", "zombie", "gone"}
  /\ supervisor \in {"run", "sleep", "loop", "off"}
  /\ supervisor = "run" <=> miner # "gone"
  /\ desired \in BOOLEAN /\ run \in Runs /\ hasty \in BOOLEAN
  /\ silent \in 0 .. Deadline /\ deaf \in Nat /\ misses \in Nat
  /\ watch \in {"idle", "fetch", "done"} /\ stale \subseteq StaleCheck
  /\ tick \in 0 .. Period /\ check \in 0 .. Timeout
  /\ fuse \in {Never} \union 0 .. Escalation /\ pause \in 0 .. RestartDelay
  /\ pipe \in Seq({"end", "part"}) /\ Len(pipe) <= PipeSize
  /\ part \in 0 .. ScanLimit /\ written \in 0 .. MaxChunks
  /\ held \in [Runs -> Nat] /\ taken \in [Runs -> Nat] /\ logged \in [Runs -> Nat]
  /\ pump \in {"scan", "ended", "choked"}
  /\ log \in Seq(Nat) /\ added \in Nat

\* "health_grace_seconds: hoe lang XMRig stil mag zijn voordat de watchdog herstart"
\* (README.md:73): a miner that hangs, or is stuck because its output is no longer read, is
\* dead after the grace period, one more tick, one timeout and the escalation.
DeafMinerEndsInTime == deaf <= Deadline

\* A run's own watchdog kills nobody for a single late answer when the grace period allows
\* for more: as many checks in a row have failed as fit into it.
SlowMinerIsSpared == watch = "done" /\ Live => misses * Period + Timeout > Grace

\* A run that the supervisor began after its pause, longer than a health check, finds
\* nothing left of the runs before it: no check that could kill the new miner, no late
\* line.  Stop and Start skip the pause (manager.go:198, 210, 97): then checks are left
\* over (280), and a timeout after the start of the new run the last of them has ended.
RunsOverlapBriefly ==
  /\ supervisor = "run" /\ ~hasty /\ Timeout < RestartDelay =>
       stale = {} /\ \A r \in 1 .. run - 1 : held[r] = 0
  /\ \A s \in stale : s.age + s.check <= Timeout

\* RecentLogs are the last LogSize lines of all that were added, in their order, by
\* whichever goroutine.
LogIsTail ==
  /\ Len(log) = IF added < LogSize THEN added ELSE LogSize
  /\ \A i \in 1 .. Len(log) : log[i] = added - Len(log) + i

\* Whatever ended a scanner, the end of the miner, the close of the pipe by Wait
\* (manager.go:253) or a line too long for it (308), and whether or not the next run has
\* begun: each line that it found before is logged, once.
FoundLinesAreLogged == \A r \in Runs : held[r] = 0 => logged[r] = taken[r]
=============================================================================
