---------------------------- MODULE MinerService ----------------------------
(***************************************************************************)
(* What the miner Manager promises the rest of the agent, without          *)
(* goroutines, commands or signals: while the service is supervised a      *)
(* miner is launched, one process at a time, each time with complete       *)
(* settings, as often as it exits; and supervision only ends when none is  *)
(* running.                                                                *)
(***************************************************************************)
CONSTANTS Miners         \* the processes that may run, with the settings they may have

VARIABLES
  supervised,            \* is somebody keeping a miner alive?
  running                \* the miner that runs, {} if none does

vars == <<supervised, running>>

Init == supervised = FALSE /\ running = {}

Begin ==
  /\ ~supervised
  /\ supervised' = TRUE
  /\ UNCHANGED running

Launch(m) ==
  /\ supervised
  /\ running = {}
  /\ running' = {m}
  /\ UNCHANGED supervised

Exit ==
  /\ supervised
  /\ running # {}
  /\ running' = {}
  /\ UNCHANGED supervised

End ==
  /\ supervised
  /\ running = {}
  /\ supervised' = FALSE
  /\ UNCHANGED running

Next == Begin \/ (\E m \in Miners : Launch(m)) \/ Exit \/ End

Spec == Init /\ [][Next]_vars
=============================================================================
