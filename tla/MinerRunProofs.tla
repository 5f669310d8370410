--------------------------- MODULE MinerRunProofs ---------------------------
(***************************************************************************)
(* Proofs about MinerRun, for any durations and sizes: types, the bound on *)
(* the life of a deaf miner, the patience with a slow one, what is left of *)
(* a run when the next one begins, the ring buffer and the lines in it.    *)
(***************************************************************************)
EXTENDS MinerRun, FiniteSetTheorems, TLAPS

-----------------------------------------------------------------------------
(* The inductive invariant.                                                 *)

\* The part of TypeOK about the threads of control.
ScalarInv ==
  /\ miner \in {"alive", "hung", "blocked", "zombie", "gone"}
  /\ supervisor \in {"run", "sleep", "loop", "off"}
  /\ supervisor = "run" <=> miner # "gone"
  /\ desired \in BOOLEAN /\ run \in Runs /\ hasty \in BOOLEAN
  /\ silent \in Nat /\ deaf \in Nat /\ misses \in Nat
  /\ watch \in {"idle", "fetch", "done"}
  /\ tick \in 0 .. Period /\ check \in 0 .. Timeout
  /\ fuse \in {Never} \union 0 .. Escalation /\ pause \in 0 .. RestartDelay

\* The part of TypeOK about the output; nothing is left in the pipe of an ended run.
OutputInv ==
  /\ pipe \in Seq({"end", "part"}) /\ Len(pipe) <= PipeSize
  /\ part \in 0 .. ScanLimit /\ written \in 0 .. MaxChunks
  /\ held \in [Runs -> Nat] /\ taken \in [Runs -> Nat] /\ logged \in [Runs -> Nat]
  /\ pump \in {"scan", "ended", "choked"}
  /\ miner = "gone" => pump # "scan" /\ pipe = <<>> /\ part = 0

\* How long the watchdog's next decision can still take.
SilenceInv ==
  /\ deaf <= silent /\ silent <= Deadline
  /\ miner \in {"alive", "gone"} => deaf = 0
  /\ miner = "gone" => fuse = Never
  /\ watch = "idle" => silent + tick <= Grace + Period
  /\ watch = "fetch" => silent + check <= Grace + Period + Timeout
  /\ Live /\ watch = "done" => fuse # Never /\ silent + fuse <= Deadline

\* How many checks have failed for the silence there is.
MissInv ==
  /\ watch = "fetch" => tick + Timeout = Period + check
  /\ Live /\ watch = "idle" => silent + tick <= misses * Period + Period
  /\ Live /\ watch = "fetch" => /\ silent + tick <= misses * Period + Period + Period
                                /\ silent + check <= misses * Period + Period + Timeout
  /\ Live /\ watch = "done" => misses * Period + Timeout > Grace

\* A check of an earlier run ends within a timeout of the start of the run after it.
StaleInv ==
  /\ stale \subseteq StaleCheck
  /\ \A s \in stale : s.age + s.check <= Timeout

\* The pause outlasts what is left of the earlier runs: the time a check still has is at
\* most what a timeout has over the time already slept.
PauseInv ==
  Timeout < RestartDelay =>
    /\ supervisor = "sleep" =>
         /\ watch = "idle" => pause > 0 /\ (tick = 0 => pause = RestartDelay)
         /\ watch = "fetch" => check + RestartDelay <= pause + Timeout
         /\ \A s \in stale : s.check + RestartDelay <= pause + Timeout
         /\ pause < RestartDelay => \A r \in Runs : held[r] = 0
    /\ supervisor = "loop" /\ ~hasty =>
         watch = "done" /\ stale = {} /\ \A r \in Runs : held[r] = 0
    /\ supervisor = "run" /\ ~hasty =>
         stale = {} /\ \A r \in 1 .. run - 1 : held[r] = 0

LogInv == log \in Seq(Nat) /\ added \in Nat /\ LogIsTail

\* Every line that was found is with the scanner or in the log.
LineInv == \A r \in Runs : logged[r] + held[r] = taken[r]

IInv ==
  /\ ScalarInv /\ OutputInv /\ SilenceInv /\ MissInv /\ StaleInv /\ PauseInv
  /\ LogInv /\ LineInv

-----------------------------------------------------------------------------
(* Helpers.                                                                 *)

\* A sequence of chunks has no more line ends, and no more chunks behind the last of them,
\* than chunks.
LEMMA ChunksCounted ==
  ASSUME NEW s \in Seq({"end", "part"})
  PROVE  Cardinality(Ends(s)) \in 0 .. Len(s) /\ Cardinality(Open(s)) \in 0 .. Len(s)
<1>1. Len(s) \in Nat
  OBVIOUS
<1>2. IsFiniteSet(1 .. Len(s)) /\ Cardinality(1 .. Len(s)) = Len(s)
  BY <1>1, FS_Interval
<1>3. Ends(s) \subseteq 1 .. Len(s) /\ Open(s) \subseteq 1 .. Len(s)
  BY DEF Ends, Open
<1>4. /\ IsFiniteSet(Ends(s)) /\ Cardinality(Ends(s)) <= Len(s)
      /\ IsFiniteSet(Open(s)) /\ Cardinality(Open(s)) <= Len(s)
  BY <1>2, <1>3, FS_Subset
<1> QED
  BY <1>1, <1>4, FS_CardinalityType

\* A read takes chunks from the pipe that fit into the buffer.
LEMMA ReadResult ==
  ASSUME OutputInv, ScalarInv, PumpReads
  PROVE  \E k \in Nat :
           /\ held' = [held EXCEPT ![run] = k]
           /\ taken' = [taken EXCEPT ![run] = @ + k]
           /\ pipe' \in Seq({"end", "part"}) /\ Len(pipe') <= PipeSize
           /\ part' \in 0 .. ScanLimit
<1> USE SizeAssumption
<1>1. PICK n \in 1 .. Len(pipe) :
        LET got == SubSeq(pipe, 1, n)
        IN  /\ part + n <= ScanLimit
            /\ pipe' = SubSeq(pipe, n + 1, Len(pipe))
            /\ held' = [held EXCEPT ![run] = Cardinality(Ends(got))]
            /\ taken' = [taken EXCEPT ![run] = @ + Cardinality(Ends(got))]
            /\ part' = Cardinality(Open(got)) + (IF Ends(got) = {} THEN part ELSE 0)
  BY DEF PumpReads
<1> DEFINE got == SubSeq(pipe, 1, n)
<1>2. pipe \in Seq({"end", "part"}) /\ Len(pipe) \in Nat /\ Len(pipe) <= PipeSize
  BY DEF OutputInv
<1>3. got \in Seq({"end", "part"}) /\ Len(got) = n
  BY <1>2
<1>4. pipe' \in Seq({"end", "part"}) /\ Len(pipe') <= PipeSize
  BY <1>1, <1>2
<1>5. /\ held' = [held EXCEPT ![run] = Cardinality(Ends(got))]
      /\ taken' = [taken EXCEPT ![run] = @ + Cardinality(Ends(got))]
      /\ part' = Cardinality(Open(got)) + (IF Ends(got) = {} THEN part ELSE 0)
      /\ part + n <= ScanLimit
  BY <1>1
<1> HIDE DEF got
<1>6. Cardinality(Ends(got)) \in 0 .. Len(got) /\ Cardinality(Open(got)) \in 0 .. Len(got)
  BY <1>3, ChunksCounted
<1>7. part' \in 0 .. ScanLimit
  BY <1>3, <1>5, <1>6 DEF OutputInv
<1>8. Cardinality(Ends(got)) \in Nat
  BY <1>3, <1>6
<1> QED
  BY <1>4, <1>5, <1>7, <1>8

\* What one add does to the ring buffer.
LEMMA AddKeepsLogInv ==
  ASSUME LogInv, Add
  PROVE  LogInv'
<1> USE SizeAssumption
<1> DEFINE s == Append(log, added + 1)
<1>1. /\ log \in Seq(Nat) /\ added \in Nat /\ Len(log) \in Nat
      /\ Len(log) = IF added < LogSize THEN added ELSE LogSize
      /\ \A i \in 1 .. Len(log) : log[i] = added - Len(log) + i
  BY DEF LogInv, LogIsTail
<1>2. added' = added + 1 /\ log' = Trim(s)
  BY DEF Add
<1>3. /\ s \in Seq(Nat) /\ Len(s) = Len(log) + 1
      /\ s[Len(log) + 1] = added + 1 /\ \A i \in 1 .. Len(log) : s[i] = log[i]
  BY <1>1
<1> HIDE DEF s
<1>4. \A i \in 1 .. Len(s) : s[i] = added + 1 - Len(s) + i
  <2>1. Len(log) \in Nat /\ added \in Nat /\ Len(s) = Len(log) + 1
    BY <1>1, <1>3
  <2>2. s[Len(log) + 1] = added + 1 - Len(s) + (Len(log) + 1)
    BY <2>1, <1>3
  <2>3. \A i \in 1 .. Len(log) : s[i] = added + 1 - Len(s) + i
    <3> SUFFICES ASSUME NEW i \in 1 .. Len(log)
                 PROVE  s[i] = added + 1 - Len(s) + i
      OBVIOUS
    <3>1. s[i] = log[i]
      BY <1>3
    <3>2. log[i] = added - Len(log) + i
      BY <1>1
    <3>3. added - Len(log) + i = added + 1 - Len(s) + i
      BY <2>1
    <3> QED
      BY <3>1, <3>2, <3>3
  <2>4. \A i \in 1 .. Len(s) : i \in 1 .. Len(log) \/ i = Len(log) + 1
    BY <2>1
  <2> QED
    BY <2>2, <2>3, <2>4
<1>5. CASE Len(s) <= LogSize
  <2>1. log' = s
    BY <1>2, <1>5 DEF Trim
  <2>2. Len(log) < LogSize /\ Len(log) = added
    BY <1>1, <1>3, <1>5
  <2>3. Len(s) = added + 1 /\ added' = added + 1
    BY <2>2, <1>2, <1>3
  <2>4. Len(s) = IF added' < LogSize THEN added' ELSE LogSize
    BY <2>3, <1>1, <1>5
  <2>5. \A i \in 1 .. Len(s) : s[i] = added' - Len(s) + i
    BY <2>3, <1>1, <1>4
  <2>6. LogIsTail'
    BY <2>1, <2>4, <2>5 DEF LogIsTail
  <2> QED
    BY <2>1, <2>3, <2>6, <1>1, <1>3 DEF LogInv
<1>6. CASE Len(s) > LogSize
  <2>1. Len(log) = LogSize /\ Len(s) = LogSize + 1 /\ added >= LogSize
    BY <1>1, <1>3, <1>6
  <2>2. log' = SubSeq(s, 2, LogSize + 1)
    <3>1. Len(s) - LogSize + 1 = 2 /\ Len(s) = LogSize + 1
      BY <2>1
    <3> QED
      BY <3>1, <1>2, <1>6 DEF Trim
  <2>3. /\ log' \in Seq(Nat) /\ Len(log') = LogSize
        /\ \A i \in 1 .. LogSize : log'[i] = s[i + 1]
    BY <2>1, <2>2, <1>3
  <2>4. ASSUME NEW i \in 1 .. Len(log')
        PROVE  log'[i] = added' - Len(log') + i
    <3>1. i + 1 \in 1 .. Len(s) /\ log'[i] = s[i + 1]
      BY <2>1, <2>3
    <3>2. s[i + 1] = added + 1 - Len(s) + (i + 1)
      BY <3>1, <1>4
    <3> QED
      BY <3>1, <3>2, <2>1, <2>3, <1>1, <1>2
  <2> QED
    BY <2>1, <2>3, <2>4, <1>1, <1>2 DEF LogInv, LogIsTail
<1> QED
  BY <1>1, <1>3, <1>5, <1>6

-----------------------------------------------------------------------------
(* Every step preserves it.                                                 *)

\* The threads of control keep their types.
LEMMA ScalarStep ==
  ASSUME ScalarInv, [Next]_vars
  PROVE  ScalarInv'
<1> USE TimeAssumption, SizeAssumption DEF ScalarInv, Never, Live, Runs
<1>1. CASE Stop
  <2>1. desired' \in BOOLEAN
    BY <1>1 DEF Stop
  <2> QED
    BY <2>1, <1>1
       DEF Stop, KillProcess, vars, clockVars, superVars, watchVars, pipeVars, logVars
<1>2. CASE Start
  BY <1>2 DEF Start, vars, clockVars, superVars, watchVars, pipeVars, logVars
<1>3. CASE ChangeConfig
  BY <1>3 DEF ChangeConfig, KillProcess, vars, clockVars, superVars, watchVars, pipeVars,
          logVars
<1>4. CASE Reap
  BY <1>4 DEF Reap, OutputEnds, vars, clockVars, superVars, watchVars, pipeVars, logVars
<1>5. CASE CutShort
  BY <1>5 DEF CutShort, vars, clockVars, superVars, watchVars, pipeVars, logVars
<1>6. CASE WakeUp
  BY <1>6 DEF WakeUp, vars, clockVars, superVars, watchVars, pipeVars, logVars
<1>7. CASE Leave
  BY <1>7 DEF Leave, vars, clockVars, superVars, watchVars, pipeVars, logVars
<1>8. CASE NextRun
  BY <1>8 DEF NextRun, vars, clockVars, superVars, watchVars, pipeVars, logVars
<1>9. CASE CheckStarts
  BY <1>9 DEF CheckStarts, vars, clockVars, superVars, watchVars, pipeVars, logVars
<1>10. CASE FetchOk
  BY <1>10 DEF FetchOk, vars, clockVars, superVars, watchVars, pipeVars, logVars
<1>11. CASE FetchMisses
  BY <1>11 DEF FetchMisses, vars, clockVars, superVars, watchVars, pipeVars, logVars
<1>12. CASE Strike
  BY <1>12 DEF Strike, KillProcess, vars, clockVars, superVars, watchVars, pipeVars, logVars
<1>13. CASE WatchDone
  BY <1>13 DEF WatchDone, vars, clockVars, superVars, watchVars, pipeVars, logVars
<1>14. CASE StaleCheckEnds
  BY <1>14 DEF StaleCheckEnds, vars, clockVars, superVars, watchVars, pipeVars, logVars
<1>15. CASE StaleStrike
  BY <1>15 DEF StaleStrike, KillProcess, vars, clockVars, superVars, watchVars, pipeVars,
          logVars
<1>16. CASE PumpReads
  BY <1>16 DEF PumpReads, vars, clockVars, superVars, watchVars, pipeVars, logVars
<1>17. CASE PumpAdds
  BY <1>17 DEF PumpAdds, vars, clockVars, superVars, watchVars, pipeVars, logVars
<1>18. CASE PumpChokes
  BY <1>18 DEF PumpChokes, vars, clockVars, superVars, watchVars, pipeVars, logVars
<1>19. CASE PumpEnds
  BY <1>19 DEF PumpEnds, OutputEnds, vars, clockVars, superVars, watchVars, pipeVars, logVars
<1>20. CASE MinerWrites
  BY <1>20 DEF MinerWrites, vars, clockVars, superVars, watchVars, pipeVars, logVars
<1>21. CASE MinerBlocks
  BY <1>21 DEF MinerBlocks, vars, clockVars, superVars, watchVars, pipeVars, logVars
<1>22. CASE MinerHangs
  BY <1>22 DEF MinerHangs, vars, clockVars, superVars, watchVars, pipeVars, logVars
<1>23. CASE MinerExits
  BY <1>23 DEF MinerExits, vars, clockVars, superVars, watchVars, pipeVars, logVars
<1>24. CASE TimerFires
  BY <1>24 DEF TimerFires, vars, clockVars, superVars, watchVars, pipeVars, logVars
<1>25. CASE TimePasses
  BY <1>25 DEF TimePasses, Quiet, Down, vars, clockVars, superVars, watchVars, pipeVars, logVars
<1>26. CASE UNCHANGED vars
  BY <1>26 DEF vars, clockVars, superVars, watchVars, pipeVars, logVars
<1> QED
  BY <1>1, <1>2, <1>3, <1>4, <1>5, <1>6, <1>7, <1>8, <1>9, <1>10, <1>11, <1>12, <1>13,
     <1>14, <1>15, <1>16, <1>17, <1>18, <1>19, <1>20, <1>21, <1>22, <1>23, <1>24, <1>25,
     <1>26
     DEF Next

\* The output keeps its types.
LEMMA OutputStep ==
  ASSUME ScalarInv, OutputInv, [Next]_vars
  PROVE  OutputInv'
<1> USE SizeAssumption DEF ScalarInv, OutputInv
<1>1. CASE Stop
  BY <1>1 DEF Stop, KillProcess, vars, clockVars, superVars, watchVars, pipeVars, logVars
<1>2. CASE Start
  BY <1>2 DEF Start, vars, clockVars, superVars, watchVars, pipeVars, logVars
<1>3. CASE ChangeConfig
  BY <1>3 DEF ChangeConfig, KillProcess, vars, clockVars, superVars, watchVars, pipeVars,
          logVars
<1>4. CASE Reap
  BY <1>4 DEF Reap, OutputEnds, Rest, vars, clockVars, superVars, watchVars, pipeVars, logVars
<1>5. CASE CutShort
  BY <1>5 DEF CutShort, vars, clockVars, superVars, watchVars, pipeVars, logVars
<1>6. CASE WakeUp
  BY <1>6 DEF WakeUp, vars, clockVars, superVars, watchVars, pipeVars, logVars
<1>7. CASE Leave
  BY <1>7 DEF Leave, vars, clockVars, superVars, watchVars, pipeVars, logVars
<1>8. CASE NextRun
  BY <1>8 DEF NextRun, vars, clockVars, superVars, watchVars, pipeVars, logVars
<1>9. CASE CheckStarts
  BY <1>9 DEF CheckStarts, vars, clockVars, superVars, watchVars, pipeVars, logVars
<1>10. CASE FetchOk
  BY <1>10 DEF FetchOk, vars, clockVars, superVars, watchVars, pipeVars, logVars
<1>11. CASE FetchMisses
  BY <1>11 DEF FetchMisses, vars, clockVars, superVars, watchVars, pipeVars, logVars
<1>12. CASE Strike
  BY <1>12 DEF Strike, KillProcess, vars, clockVars, superVars, watchVars, pipeVars, logVars
<1>13. CASE WatchDone
  BY <1>13 DEF WatchDone, vars, clockVars, superVars, watchVars, pipeVars, logVars
<1>14. CASE StaleCheckEnds
  BY <1>14 DEF StaleCheckEnds, vars, clockVars, superVars, watchVars, pipeVars, logVars
<1>15. CASE StaleStrike
  BY <1>15 DEF StaleStrike, KillProcess, vars, clockVars, superVars, watchVars, pipeVars,
          logVars
<1>16. CASE PumpReads
  <2>1. PICK k \in Nat :
          /\ held' = [held EXCEPT ![run] = k]
          /\ taken' = [taken EXCEPT ![run] = @ + k]
          /\ pipe' \in Seq({"end", "part"}) /\ Len(pipe') <= PipeSize
          /\ part' \in 0 .. ScanLimit
    BY <1>16, ReadResult
  <2>2. held' \in [Runs -> Nat] /\ taken' \in [Runs -> Nat]
    BY <2>1
  <2>3. /\ UNCHANGED <<pump, written, logged>> /\ pump = "scan"
        /\ miner' = IF miner = "blocked" THEN "alive" ELSE miner
    BY <1>16 DEF PumpReads
  <2> QED
    BY <2>1, <2>2, <2>3
<1>17. CASE PumpAdds
  BY <1>17 DEF PumpAdds, vars, clockVars, superVars, watchVars, pipeVars, logVars
<1>18. CASE PumpChokes
  BY <1>18 DEF PumpChokes, vars, clockVars, superVars, watchVars, pipeVars, logVars
<1>19. CASE PumpEnds
  BY <1>19 DEF PumpEnds, OutputEnds, Rest, vars, clockVars, superVars, watchVars, pipeVars,
          logVars
<1>20. CASE MinerWrites
  BY <1>20 DEF MinerWrites, vars, clockVars, superVars, watchVars, pipeVars, logVars
<1>21. CASE MinerBlocks
  BY <1>21 DEF MinerBlocks, vars, clockVars, superVars, watchVars, pipeVars, logVars
<1>22. CASE MinerHangs
  BY <1>22 DEF MinerHangs, vars, clockVars, superVars, watchVars, pipeVars, logVars
<1>23. CASE MinerExits
  BY <1>23 DEF MinerExits, Live, vars, clockVars, superVars, watchVars, pipeVars, logVars
<1>24. CASE TimerFires
  BY <1>24 DEF TimerFires, Live, vars, clockVars, superVars, watchVars, pipeVars, logVars
<1>25. CASE TimePasses
  BY <1>25 DEF TimePasses, Quiet, Down, vars, clockVars, superVars, watchVars, pipeVars, logVars
<1>26. CASE UNCHANGED vars
  BY <1>26 DEF vars, clockVars, superVars, watchVars, pipeVars, logVars
<1> QED
  BY <1>1, <1>2, <1>3, <1>4, <1>5, <1>6, <1>7, <1>8, <1>9, <1>10, <1>11, <1>12, <1>13,
     <1>14, <1>15, <1>16, <1>17, <1>18, <1>19, <1>20, <1>21, <1>22, <1>23, <1>24, <1>25,
     <1>26
     DEF Next

\* The watchdog decides in time.
LEMMA SilenceStep ==
  ASSUME ScalarInv, SilenceInv, [Next]_vars
  PROVE  SilenceInv'
<1> USE TimeAssumption DEF ScalarInv, SilenceInv, Never, Live, Deadline
<1>1. CASE Stop
  BY <1>1 DEF Stop, KillProcess, vars, clockVars, superVars, watchVars, pipeVars, logVars
<1>2. CASE Start
  BY <1>2 DEF Start, vars, clockVars, superVars, watchVars, pipeVars, logVars
<1>3. CASE ChangeConfig
  BY <1>3 DEF ChangeConfig, KillProcess, vars, clockVars, superVars, watchVars, pipeVars,
          logVars
<1>4. CASE Reap
  BY <1>4 DEF Reap, OutputEnds, vars, clockVars, superVars, watchVars, pipeVars, logVars
<1>5. CASE CutShort
  BY <1>5 DEF CutShort, vars, clockVars, superVars, watchVars, pipeVars, logVars
<1>6. CASE WakeUp
  BY <1>6 DEF WakeUp, vars, clockVars, superVars, watchVars, pipeVars, logVars
<1>7. CASE Leave
  BY <1>7 DEF Leave, vars, clockVars, superVars, watchVars, pipeVars, logVars
<1>8. CASE NextRun
  BY <1>8 DEF NextRun, vars, clockVars, superVars, watchVars, pipeVars, logVars
<1>9. CASE CheckStarts
  BY <1>9 DEF CheckStarts, vars, clockVars, superVars, watchVars, pipeVars, logVars
<1>10. CASE FetchOk
  BY <1>10 DEF FetchOk, vars, clockVars, superVars, watchVars, pipeVars, logVars
<1>11. CASE FetchMisses
  BY <1>11 DEF FetchMisses, vars, clockVars, superVars, watchVars, pipeVars, logVars
<1>12. CASE Strike
  BY <1>12 DEF Strike, KillProcess, vars, clockVars, superVars, watchVars, pipeVars, logVars
<1>13. CASE WatchDone
  BY <1>13 DEF WatchDone, vars, clockVars, superVars, watchVars, pipeVars, logVars
<1>14. CASE StaleCheckEnds
  BY <1>14 DEF StaleCheckEnds, vars, clockVars, superVars, watchVars, pipeVars, logVars
<1>15. CASE StaleStrike
  BY <1>15 DEF StaleStrike, KillProcess, vars, clockVars, superVars, watchVars, pipeVars,
          logVars
<1>16. CASE PumpReads
  BY <1>16 DEF PumpReads, vars, clockVars, superVars, watchVars, pipeVars, logVars
<1>17. CASE PumpAdds
  BY <1>17 DEF PumpAdds, vars, clockVars, superVars, watchVars, pipeVars, logVars
<1>18. CASE PumpChokes
  BY <1>18 DEF PumpChokes, vars, clockVars, superVars, watchVars, pipeVars, logVars
<1>19. CASE PumpEnds
  BY <1>19 DEF PumpEnds, OutputEnds, vars, clockVars, superVars, watchVars, pipeVars, logVars
<1>20. CASE MinerWrites
  BY <1>20 DEF MinerWrites, vars, clockVars, superVars, watchVars, pipeVars, logVars
<1>21. CASE MinerBlocks
  BY <1>21 DEF MinerBlocks, vars, clockVars, superVars, watchVars, pipeVars, logVars
<1>22. CASE MinerHangs
  BY <1>22 DEF MinerHangs, vars, clockVars, superVars, watchVars, pipeVars, logVars
<1>23. CASE MinerExits
  BY <1>23 DEF MinerExits, vars, clockVars, superVars, watchVars, pipeVars, logVars
<1>24. CASE TimerFires
  BY <1>24 DEF TimerFires, vars, clockVars, superVars, watchVars, pipeVars, logVars
<1>25. CASE TimePasses
  BY <1>25 DEF TimePasses, Quiet, Down, vars, clockVars, superVars, watchVars, pipeVars, logVars
<1>26. CASE UNCHANGED vars
  BY <1>26 DEF vars, clockVars, superVars, watchVars, pipeVars, logVars
<1> QED
  BY <1>1, <1>2, <1>3, <1>4, <1>5, <1>6, <1>7, <1>8, <1>9, <1>10, <1>11, <1>12, <1>13,
     <1>14, <1>15, <1>16, <1>17, <1>18, <1>19, <1>20, <1>21, <1>22, <1>23, <1>24, <1>25,
     <1>26
     DEF Next

\* A silence takes its number of failed checks.
LEMMA MissStep ==
  ASSUME ScalarInv, SilenceInv, MissInv, [Next]_vars
  PROVE  MissInv'
<1> USE TimeAssumption DEF ScalarInv, MissInv, Live
<1>1. CASE Stop
  BY <1>1 DEF Stop, KillProcess, vars, clockVars, superVars, watchVars, pipeVars, logVars
<1>2. CASE Start
  BY <1>2 DEF Start, vars, clockVars, superVars, watchVars, pipeVars, logVars
<1>3. CASE ChangeConfig
  BY <1>3 DEF ChangeConfig, KillProcess, vars, clockVars, superVars, watchVars, pipeVars,
          logVars
<1>4. CASE Reap
  BY <1>4 DEF Reap, OutputEnds, vars, clockVars, superVars, watchVars, pipeVars, logVars
<1>5. CASE CutShort
  BY <1>5 DEF CutShort, vars, clockVars, superVars, watchVars, pipeVars, logVars
<1>6. CASE WakeUp
  BY <1>6 DEF WakeUp, vars, clockVars, superVars, watchVars, pipeVars, logVars
<1>7. CASE Leave
  BY <1>7 DEF Leave, vars, clockVars, superVars, watchVars, pipeVars, logVars
<1>8. CASE NextRun
  BY <1>8 DEF NextRun, vars, clockVars, superVars, watchVars, pipeVars, logVars
<1>9. CASE CheckStarts
  BY <1>9 DEF CheckStarts, vars, clockVars, superVars, watchVars, pipeVars, logVars
<1>10. CASE FetchOk
  BY <1>10 DEF FetchOk, vars, clockVars, superVars, watchVars, pipeVars, logVars
<1>11. CASE FetchMisses
  BY <1>11 DEF FetchMisses, vars, clockVars, superVars, watchVars, pipeVars, logVars
<1>12. CASE Strike
  BY <1>12 DEF Strike, KillProcess, vars, clockVars, superVars, watchVars, pipeVars, logVars
<1>13. CASE WatchDone
  BY <1>13 DEF WatchDone, vars, clockVars, superVars, watchVars, pipeVars, logVars
<1>14. CASE StaleCheckEnds
  BY <1>14 DEF StaleCheckEnds, vars, clockVars, superVars, watchVars, pipeVars, logVars
<1>15. CASE StaleStrike
  BY <1>15 DEF StaleStrike, KillProcess, vars, clockVars, superVars, watchVars, pipeVars,
          logVars
<1>16. CASE PumpReads
  BY <1>16 DEF PumpReads, vars, clockVars, superVars, watchVars, pipeVars, logVars
<1>17. CASE PumpAdds
  BY <1>17 DEF PumpAdds, vars, clockVars, superVars, watchVars, pipeVars, logVars
<1>18. CASE PumpChokes
  BY <1>18 DEF PumpChokes, vars, clockVars, superVars, watchVars, pipeVars, logVars
<1>19. CASE PumpEnds
  BY <1>19 DEF PumpEnds, OutputEnds, vars, clockVars, superVars, watchVars, pipeVars, logVars
<1>20. CASE MinerWrites
  BY <1>20 DEF MinerWrites, vars, clockVars, superVars, watchVars, pipeVars, logVars
<1>21. CASE MinerBlocks
  BY <1>21 DEF MinerBlocks, vars, clockVars, superVars, watchVars, pipeVars, logVars
<1>22. CASE MinerHangs
  BY <1>22 DEF MinerHangs, vars, clockVars, superVars, watchVars, pipeVars, logVars
<1>23. CASE MinerExits
  BY <1>23 DEF MinerExits, vars, clockVars, superVars, watchVars, pipeVars, logVars
<1>24. CASE TimerFires
  BY <1>24 DEF TimerFires, vars, clockVars, superVars, watchVars, pipeVars, logVars
<1>25. CASE TimePasses
  BY <1>25 DEF TimePasses, Quiet, Down, vars, clockVars, superVars, watchVars, pipeVars, logVars
<1>26. CASE UNCHANGED vars
  BY <1>26 DEF vars, clockVars, superVars, watchVars, pipeVars, logVars
<1> QED
  BY <1>1, <1>2, <1>3, <1>4, <1>5, <1>6, <1>7, <1>8, <1>9, <1>10, <1>11, <1>12, <1>13,
     <1>14, <1>15, <1>16, <1>17, <1>18, <1>19, <1>20, <1>21, <1>22, <1>23, <1>24, <1>25,
     <1>26
     DEF Next

\* The checks of earlier runs run out.
LEMMA StaleStep ==
  ASSUME ScalarInv, StaleInv, [Next]_vars
  PROVE  StaleInv'
<1> USE TimeAssumption DEF ScalarInv, StaleInv, StaleCheck
<1>1. ASSUME stale' \subseteq stale
      PROVE  StaleInv'
  BY <1>1
<1>2. CASE NextRun
  BY <1>2 DEF NextRun, Leftover, Runs
<1>3. CASE TimePasses
  <2>1. stale' = {Older(s) : s \in stale}
    BY <1>3 DEF TimePasses
  <2>2. ASSUME NEW s \in stale
        PROVE  Older(s) \in StaleCheck /\ Older(s).age + Older(s).check <= Timeout
    <3>1. s \in StaleCheck /\ s.check > 0 /\ s.age + s.check <= Timeout
      BY <1>3 DEF TimePasses, Quiet
    <3> QED
      BY <3>1 DEF Older, Down
  <2> QED
    BY <2>1, <2>2
<1> QED
  BY <1>1, <1>2, <1>3
     DEF Next, Stop, Start, ChangeConfig, Reap, CutShort, WakeUp, Leave, CheckStarts, FetchOk,
         FetchMisses, Strike, WatchDone, StaleCheckEnds, StaleStrike, PumpReads, PumpAdds,
         PumpChokes, PumpEnds, MinerWrites, MinerBlocks, MinerHangs, MinerExits, TimerFires, vars,
         watchVars

\* The pause outlasts the runs before it.
LEMMA PauseStep ==
  ASSUME ScalarInv, OutputInv, MissInv, StaleInv, PauseInv, [Next]_vars
  PROVE  PauseInv'
<1> USE TimeAssumption, SizeAssumption DEF ScalarInv, PauseInv, Live
<1>1. CASE Stop
  BY <1>1 DEF Stop, KillProcess, vars, clockVars, superVars, watchVars, pipeVars, logVars
<1>2. CASE Start
  BY <1>2 DEF Start, vars, clockVars, superVars, watchVars, pipeVars, logVars
<1>3. CASE ChangeConfig
  BY <1>3 DEF ChangeConfig, KillProcess, vars, clockVars, superVars, watchVars, pipeVars,
          logVars
<1>4. CASE Reap
  <2>1. \A s \in stale : s.check \in 0 .. Timeout
    BY DEF StaleInv, StaleCheck
  <2> QED
    BY <2>1, <1>4 DEF Reap, watchVars
<1>5. CASE CutShort
  BY <1>5 DEF CutShort, vars, clockVars, superVars, watchVars, pipeVars, logVars
<1>6. CASE WakeUp
  <2>1. \A s \in stale : s.check \in 0 .. Timeout
    BY DEF StaleInv, StaleCheck
  <2> QED
    BY <2>1, <1>6 DEF WakeUp, clockVars, watchVars, pipeVars
<1>7. CASE Leave
  BY <1>7 DEF Leave, vars, clockVars, superVars, watchVars, pipeVars, logVars
<1>8. CASE NextRun
  <2>1. Leftover = {} \/ watch = "fetch"
    BY DEF Leftover
  <2>2. run' \in Runs
    BY <1>8 DEF NextRun, Runs
  <2>3. supervisor' = "run" /\ run' = run + 1 /\ UNCHANGED <<hasty, held>>
    BY <1>8 DEF NextRun
  <2>4. supervisor = "loop" /\ stale' = stale \union Leftover
    BY <1>8 DEF NextRun
  <2>5. \A r \in 1 .. run' - 1 : r \in Runs
    BY <2>3 DEF Runs
  <2> QED
    BY <2>1, <2>3, <2>4, <2>5
<1>9. CASE CheckStarts
  BY <1>9 DEF CheckStarts, vars, clockVars, superVars, watchVars, pipeVars, logVars
<1>10. CASE FetchOk
  BY <1>10 DEF FetchOk, vars, clockVars, superVars, watchVars, pipeVars, logVars
<1>11. CASE FetchMisses
  BY <1>11 DEF MissInv, FetchMisses, superVars, pipeVars
<1>12. CASE Strike
  BY <1>12 DEF Strike, KillProcess, vars, clockVars, superVars, watchVars, pipeVars, logVars
<1>13. CASE WatchDone
  BY <1>13 DEF WatchDone, vars, clockVars, superVars, watchVars, pipeVars, logVars
<1>14. CASE StaleCheckEnds
  BY <1>14 DEF StaleCheckEnds, vars, clockVars, superVars, watchVars, pipeVars, logVars
<1>15. CASE StaleStrike
  BY <1>15 DEF StaleStrike, KillProcess, vars, clockVars, superVars, watchVars, pipeVars,
          logVars
<1>16. CASE PumpReads
  <2>1. PICK k \in Nat : held' = [held EXCEPT ![run] = k]
    BY <1>16, ReadResult
  <2>2. pump = "scan" /\ UNCHANGED <<tick, check, pause, watch, stale, superVars>>
    BY <1>16 DEF PumpReads, watchVars
  <2>3. supervisor = "run"
    BY <2>2 DEF OutputInv
  <2>4. \A r \in 1 .. run - 1 : r \in Runs /\ r # run
    BY DEF Runs
  <2>5. held \in [Runs -> Nat]
    BY DEF OutputInv
  <2> QED
    BY <2>1, <2>2, <2>3, <2>4, <2>5 DEF superVars
<1>17. CASE PumpAdds
  BY <1>17 DEF PumpAdds, vars, clockVars, superVars, watchVars, pipeVars, logVars
<1>18. CASE PumpChokes
  BY <1>18 DEF PumpChokes, vars, clockVars, superVars, watchVars, pipeVars, logVars
<1>19. CASE PumpEnds
  BY <1>19 DEF PumpEnds, OutputEnds, vars, clockVars, superVars, watchVars, pipeVars, logVars
<1>20. CASE MinerWrites
  BY <1>20 DEF MinerWrites, vars, clockVars, superVars, watchVars, pipeVars, logVars
<1>21. CASE MinerBlocks
  BY <1>21 DEF MinerBlocks, vars, clockVars, superVars, watchVars, pipeVars, logVars
<1>22. CASE MinerHangs
  BY <1>22 DEF MinerHangs, vars, clockVars, superVars, watchVars, pipeVars, logVars
<1>23. CASE MinerExits
  BY <1>23 DEF MinerExits, vars, clockVars, superVars, watchVars, pipeVars, logVars
<1>24. CASE TimerFires
  BY <1>24 DEF TimerFires, vars, clockVars, superVars, watchVars, pipeVars, logVars
<1>25. CASE TimePasses
  <2>1. /\ supervisor = "sleep" => pause > 0
        /\ supervisor = "loop" => desired
        /\ watch = "idle" => miner # "gone"
        /\ watch = "fetch" => check > 0
        /\ \A r \in Runs : held[r] = 0
        /\ check' = Down(check) /\ pause' = Down(pause)
        /\ UNCHANGED <<watch, supervisor, run, hasty, held, miner>>
    BY <1>25 DEF TimePasses, Quiet, superVars, pipeVars
  <2>2. stale' = {Older(s) : s \in stale} /\ \A s \in stale : s.check > 0
    BY <1>25 DEF TimePasses, Quiet
  <2>3. stale = {} => stale' = {}
    BY <2>2
  <2>4. 1 .. run - 1 \subseteq Runs
    BY DEF Runs
  <2>5. ASSUME Timeout < RestartDelay, supervisor = "sleep", NEW t \in stale'
        PROVE  t.check + RestartDelay <= pause' + Timeout
    <3>1. PICK s \in stale : t = Older(s)
      BY <2>2
    <3>2. s.check \in 0 .. Timeout /\ s.check > 0
      BY <2>2 DEF StaleInv, StaleCheck
    <3>3. s.check + RestartDelay <= pause + Timeout
      BY <2>5
    <3>4. t.check = s.check - 1 /\ pause' = pause - 1
      BY <2>1, <2>5, <3>1, <3>2 DEF Older, Down
    <3> QED
      BY <3>2, <3>3, <3>4
  <2>6. ASSUME Timeout < RestartDelay, supervisor = "sleep", watch = "fetch"
        PROVE  check' + RestartDelay <= pause' + Timeout
    BY <2>1, <2>6 DEF Down
  <2> QED
    BY <2>1, <2>3, <2>4, <2>5, <2>6
<1>26. CASE UNCHANGED vars
  BY <1>26 DEF vars, clockVars, superVars, watchVars, pipeVars, logVars
<1> QED
  BY <1>1, <1>2, <1>3, <1>4, <1>5, <1>6, <1>7, <1>8, <1>9, <1>10, <1>11, <1>12, <1>13,
     <1>14, <1>15, <1>16, <1>17, <1>18, <1>19, <1>20, <1>21, <1>22, <1>23, <1>24, <1>25,
     <1>26
     DEF Next

\* The log stays the tail of what was added.
LEMMA LogStep ==
  ASSUME LogInv, [Next]_vars
  PROVE  LogInv'
<1>1. CASE UNCHANGED logVars
  BY <1>1 DEF LogInv, LogIsTail, logVars
<1>2. CASE Add
  BY <1>2, AddKeepsLogInv
<1> QED
  BY <1>1, <1>2
     DEF Next, Stop, Start, ChangeConfig, Reap, CutShort, WakeUp, Leave, NextRun, CheckStarts,
         FetchOk, FetchMisses, Strike, WatchDone, StaleCheckEnds, StaleStrike, PumpReads, PumpAdds,
         PumpChokes, PumpEnds, MinerWrites, MinerBlocks, MinerHangs, MinerExits, TimerFires,
         TimePasses, vars

\* No line is lost between scanner and log.
LEMMA LineStep ==
  ASSUME ScalarInv, OutputInv, LineInv, [Next]_vars
  PROVE  LineInv'
<1> USE DEF ScalarInv, OutputInv, LineInv
<1>1. CASE UNCHANGED <<held, taken, logged>>
  BY <1>1
<1>2. CASE OutputEnds
  BY <1>2 DEF OutputEnds, Rest
<1>3. CASE PumpReads
  <2>1. PICK k \in Nat : /\ held' = [held EXCEPT ![run] = k]
                         /\ taken' = [taken EXCEPT ![run] = @ + k]
    BY <1>3, ReadResult
  <2>2. held[run] = 0 /\ logged' = logged
    BY <1>3 DEF PumpReads
  <2> QED
    BY <2>1, <2>2
<1>4. CASE PumpAdds
  BY <1>4 DEF PumpAdds
<1> QED
  BY <1>1, <1>2, <1>3, <1>4
     DEF Next, Stop, Start, ChangeConfig, Reap, CutShort, WakeUp, Leave, NextRun, CheckStarts,
         FetchOk, FetchMisses, Strike, WatchDone, StaleCheckEnds, StaleStrike, PumpChokes,
         PumpEnds, MinerWrites, MinerBlocks, MinerHangs, MinerExits, TimerFires, TimePasses, vars,
         pipeVars

-----------------------------------------------------------------------------
(* The theorems.                                                            *)

LEMMA Inductive == Spec => []IInv
<1>1. Init => IInv
  <2> SUFFICES ASSUME Init PROVE IInv
    OBVIOUS
  <2> USE TimeAssumption, SizeAssumption DEF Init, Runs
  <2>1. ScalarInv
    BY DEF ScalarInv
  <2>2. OutputInv
    BY DEF OutputInv
  <2>3. SilenceInv
    BY DEF SilenceInv, Live, Never, Deadline
  <2>4. MissInv
    BY DEF MissInv, Live
  <2>5. StaleInv /\ PauseInv
    BY DEF StaleInv, PauseInv
  <2>6. LogInv
    BY DEF LogInv, LogIsTail
  <2>7. LineInv
    BY DEF LineInv
  <2> QED
    BY <2>1, <2>2, <2>3, <2>4, <2>5, <2>6, <2>7 DEF IInv
<1>2. IInv /\ [Next]_vars => IInv'
  BY ScalarStep, OutputStep, SilenceStep, MissStep, StaleStep, PauseStep, LogStep, LineStep
     DEF IInv
<1> QED
  BY <1>1, <1>2, PTL DEF Spec

\* Every variable keeps its type; the silence of a miner is bounded by Deadline.
THEOREM RunTypeCorrect == Spec => []TypeOK
<1>1. IInv => TypeOK
  BY TimeAssumption
     DEF IInv, ScalarInv, OutputInv, SilenceInv, StaleInv, LogInv, TypeOK, Deadline
<1> QED
  BY <1>1, Inductive, PTL

\* A miner that does not answer is dead by the deadline (watchHealth, killProcess).
THEOREM DeafMinerEnds == Spec => []DeafMinerEndsInTime
<1>1. IInv => DeafMinerEndsInTime
  BY TimeAssumption DEF IInv, ScalarInv, SilenceInv, DeafMinerEndsInTime, Deadline
<1> QED
  BY <1>1, Inductive, PTL

\* A run's watchdog strikes only after as many failed checks as fit into the grace period.
THEOREM WatchdogIsPatient == Spec => []SlowMinerIsSpared
<1>1. IInv => SlowMinerIsSpared
  BY DEF IInv, MissInv, SlowMinerIsSpared
<1> QED
  BY <1>1, Inductive, PTL

\* A run that began after the pause is alone; after a Stop and Start what is left of the
\* runs before it is over within a timeout.
THEOREM LeftoversAreBrief == Spec => []RunsOverlapBriefly
<1>1. IInv => RunsOverlapBriefly
  BY DEF IInv, PauseInv, StaleInv, RunsOverlapBriefly
<1> QED
  BY <1>1, Inductive, PTL

\* The ring buffer holds the last lines of all that were added.
THEOREM LogIsTheTail == Spec => []LogIsTail
<1>1. IInv => LogIsTail
  BY DEF IInv, LogInv
<1> QED
  BY <1>1, Inductive, PTL

\* Each line that a scanner found is logged, once, however its run and its scanner ended.
THEOREM LinesReachTheLog == Spec => []FoundLinesAreLogged
<1>1. IInv => FoundLinesAreLogged
  BY DEF IInv, OutputInv, LineInv, FoundLinesAreLogged
<1> QED
  BY <1>1, Inductive, PTL
=============================================================================
