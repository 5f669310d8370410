SPECIFICATION Spec
CONSTANTS
  Period = 3
  Timeout = 1
  Grace = 6
  Escalation = 2
  RestartDelay = 2
  PipeSize = 1
  ScanLimit = 2
  LogSize = 3
  MaxChunks = 3
  MaxRuns = 2
INVARIANTS
  TypeOK
  DeafMinerEndsInTime
  SlowMinerIsSpared
  RunsOverlapBriefly
  LogIsTail
  FoundLinesAreLogged
