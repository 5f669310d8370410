----------------------------- MODULE DurableStore -----------------------------
(***************************************************************************)
(* What a process promises that keeps data in memory and writes them       *)
(* through to a file: the settings of the agent (internal/config,          *)
(* internal/web/server.go) and the registry of the hub                     *)
(* (internal/hub/store.go).  Without files, steps of a save or requests:   *)
(* after a good save the end of the process takes nothing away; a start    *)
(* finds exactly what was left; and what a start cannot read keeps the     *)
(* process down until somebody repairs it.                                 *)
(***************************************************************************)
CONSTANTS Data           \* what can be kept

VARIABLES
  running,               \* does the process run?
  data,                  \* what it holds, or would load if it started now
  readable,              \* could it start now, or when it ends?
  safe                   \* was all of it saved, so that an end takes nothing away?

vars == <<running, data, readable, safe>>

Init ==
  /\ running \in BOOLEAN
  /\ data \in Data
  /\ readable = TRUE
  /\ safe = TRUE

\* A request changes the data, or may do so from now on.
Change ==
  /\ running
  /\ data' \in Data
  /\ safe' = FALSE
  /\ UNCHANGED <<running, readable>>

\* A good save, together with the last change it covers.
Save ==
  /\ running
  /\ ~safe
  /\ data' \in Data
  /\ safe' = TRUE
  /\ UNCHANGED <<running, readable>>

\* The process ends, in the middle of a change or not.
Stop ==
  /\ running
  /\ running' = FALSE
  /\ data' \in Data
  /\ readable' \in BOOLEAN
  /\ safe' = TRUE
  /\ safe => data' = data /\ readable'

\* It starts with the data there are.
Start ==
  /\ ~running
  /\ readable
  /\ running' = TRUE
  /\ safe' \in BOOLEAN
  /\ UNCHANGED <<data, readable>>

\* The owner writes the file while the process is down.
Edit ==
  /\ ~running
  /\ data' \in Data
  /\ readable' = TRUE
  /\ UNCHANGED <<running, safe>>

Next == Change \/ Save \/ Stop \/ Start \/ Edit

Spec == Init /\ [][Next]_vars
=============================================================================
