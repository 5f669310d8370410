-------------------------------- MODULE Hub --------------------------------
(***************************************************************************)
(* The community dashboard: the reporter in every agent                    *)
(* (internal/community/reporter.go), the network between, and the hub's    *)
(* registry with its file (internal/hub, cmd/vhnw-hub), with lost and      *)
(* delayed heartbeats, crashes of the hub at any step and failing writes.  *)
(*                                                                         *)
(* Time is counted in units of the smallest constant.  What a heartbeat    *)
(* reports is represented by the moment it was put together, so that the   *)
(* model can tell old news from new; names, rates and totals are left out. *)
(***************************************************************************)
EXTENDS Integers

CONSTANTS
  Devices,       \* devices with an agent
  Interval,      \* community.interval_seconds
  MaxDelay,      \* the longest a report takes, from its making to its place in the registry
  MaxLost,       \* reports in a row that may get lost
  OfflineAfter,  \* the hub's --offline
  DiskMayFail,   \* may writing the registry fail?
  MaxTime,       \* bound: length of a behaviour
  Unknown        \* no entry for a device

ASSUME TimeAssumption ==
  /\ Interval \in Nat \ {0} /\ MaxDelay \in Nat /\ MaxLost \in Nat
  /\ OfflineAfter \in Nat /\ MaxTime \in Nat
  /\ MaxDelay <= Interval
  /\ (MaxLost + 1) * Interval + MaxDelay <= OfflineAfter
ASSUME DiskAssumption == DiskMayFail \in BOOLEAN

VARIABLES
  now,           \* the time, on every clock
  reporting,     \* devices whose reporter runs with community reporting on
  known,         \* those with a device id and the hub's token in their settings
  due,           \* when its ticker ticks next (0: it has none)
  flight,        \* reports under way
  hub,           \* "up", "down", or where it is in save()
  devices,       \* Store.devices
  file,          \* the registry's file
  lost,          \* history: reports in a row a reporter got no answer to
  heard,         \* history: reporters that got an answer since they started
  saved,         \* history: did the last save, or load, succeed?
  intact,        \* history: no crash hit a save or followed a failed one
  born           \* history: when each device was first accepted

clockVars    == <<now>>
reporterVars == <<reporting, known, due>>
answerVars   == <<lost, heard>>
saveHistory  == <<saved, intact, born>>
storeVars    == <<hub, devices, file>>
history      == <<answerVars, saveHistory>>
vars == <<clockVars, reporterVars, flight, storeVars, history>>

Time == 0 .. MaxTime
Report == [dev : Devices, at : Time, known : BOOLEAN, awaited : BOOLEAN]
Entry == [first : Time, last : Time, at : Time]
Registry == [Devices -> Entry \union {Unknown}]

ASSUME UnknownAssumption == Unknown \notin Entry

Nobody == [d \in Devices |-> Unknown]
Json(r) == [kind |-> "json", registry |-> r]
NoFile  == [kind |-> "absent", registry |-> Nobody]
Empty   == [kind |-> "empty", registry |-> Nobody]

\* Store.load: whatever is wrong with the file, the registry starts empty.
Load(f) == IF f.kind = "json" THEN f.registry ELSE Nobody

\* sendOnce of d is still waiting for the hub's answer.
Sending(d) == \E m \in flight : m.dev = d /\ m.awaited

Answered(m) == IF m.awaited THEN [lost EXCEPT ![m.dev] = 0] ELSE lost

Abandoned(m) == [m EXCEPT !.awaited = FALSE]

-----------------------------------------------------------------------------
Init ==
  /\ now = 0
  /\ reporting = {} /\ known = {}
  /\ due = [d \in Devices |-> 0]
  /\ flight = {}
  /\ lost = [d \in Devices |-> 0] /\ heard = {}
  /\ hub = "up" /\ devices = Nobody /\ file = NoFile
  /\ saved = TRUE /\ intact = TRUE
  /\ born = [d \in Devices |-> -1]

\* Time passes when no ticker is due and no report has reached its timeout; save() is
\* instantaneous.
Tick ==
  /\ now < MaxTime
  /\ \A d \in reporting : now < due[d]
  /\ \A m \in flight : now < m.at + MaxDelay
  /\ hub \in {"up", "down"}
  /\ now' = now + 1
  /\ UNCHANGED <<reporterVars, flight, storeVars, history>>

-----------------------------------------------------------------------------
(* The reporter of a device.                                                *)

\* Reporter.Run, which sends its first report at once.  A change of the community settings
\* is a stop and a start.
StartReporter(d) ==
  /\ d \notin reporting
  /\ reporting' = reporting \union {d}
  /\ known' \in {known, known \union {d}}
  /\ due' = [due EXCEPT ![d] = now]
  /\ UNCHANGED <<clockVars, flight, storeVars, history>>

\* The agent stops, or community reporting is switched off; a report on its way may
\* still arrive.
StopReporter(d) ==
  /\ d \in reporting
  /\ reporting' = reporting \ {d}
  /\ flight' = {IF m.dev = d THEN Abandoned(m) ELSE m : m \in flight}
  /\ known' = known \ {d}
  /\ due' = [due EXCEPT ![d] = 0]
  /\ lost' = [lost EXCEPT ![d] = 0]
  /\ heard' = heard \ {d}
  /\ UNCHANGED <<clockVars, storeVars, saveHistory>>

\* build: what a report carries.
Heartbeat(d) == [dev |-> d, at |-> now, known |-> d \in known, awaited |-> TRUE]

\* Seeded fault: the next report does not wait for the answer to the last.
SendAnyway(d) ==
  /\ d \in reporting
  /\ now >= due[d]
  /\ flight' = flight \union {Heartbeat(d)}
  /\ due' = [due EXCEPT ![d] = now + Interval]
  /\ UNCHANGED <<clockVars, reporting, known, storeVars, history>>

\* sendOnce: build the heartbeat and wait for the hub's answer, the loop's only report.
SendOnce(d) ==
  /\ d \in reporting
  /\ now >= due[d]
  /\ ~Sending(d)
  /\ flight' = flight \union {Heartbeat(d)}
  /\ due' = [due EXCEPT ![d] = now + Interval]
  /\ UNCHANGED <<clockVars, reporting, known, storeVars, history>>

\* The client's timeout: the loop goes on, there is no retry before the next tick, and a
\* report that reached the hub's handler is still processed.
GiveUp(m) ==
  /\ m \in flight
  /\ m.awaited
  /\ lost[m.dev] < MaxLost
  /\ flight' = (flight \ {m}) \union {Abandoned(m)}
  /\ lost' = [lost EXCEPT ![m.dev] = @ + 1]
  /\ UNCHANGED <<clockVars, reporterVars, heard, storeVars, saveHistory>>

\* A report nobody waits for any more is lost: in the network, or with the hub down.
Lose(m) ==
  /\ m \in flight
  /\ ~m.awaited
  /\ flight' = flight \ {m}
  /\ UNCHANGED <<clockVars, reporterVars, storeVars, history>>

-----------------------------------------------------------------------------
(* The hub.                                                                 *)

\* handleReport: no device id or not the hub's token.
Refuse(m) ==
  /\ m \in flight
  /\ hub = "up"
  /\ ~m.known
  /\ flight' = flight \ {m}
  /\ lost' = Answered(m)
  /\ UNCHANGED <<clockVars, reporterVars, storeVars, heard, saveHistory>>

\* Seeded fault: only the time of a known device is updated.
EntryTouched(d, at) ==
  IF devices[d] = Unknown
    THEN [first |-> now, last |-> now, at |-> at]
    ELSE [devices[d] EXCEPT !.last = now]

\* Seeded fault: first seen is set by every report.
EntryReborn(d, at) == [first |-> now, last |-> now, at |-> at]

\* The entry of a device after a report.
EntryFor(d, at) ==
  [first |-> IF devices[d] = Unknown THEN now ELSE devices[d].first,
   last |-> now, at |-> at]

\* Seeded fault: a report is not saved at once.
AcceptUnsaved(m) ==
  /\ m \in flight
  /\ hub = "up"
  /\ m.known
  /\ devices' = [devices EXCEPT ![m.dev] = EntryFor(m.dev, m.at)]
  /\ flight' = flight \ {m}
  /\ lost' = Answered(m)
  /\ heard' = IF m.awaited THEN heard \union {m.dev} ELSE heard
  /\ born' = [born EXCEPT ![m.dev] = IF @ = -1 THEN now ELSE @]
  /\ UNCHANGED <<clockVars, reporterVars, hub, file, saved, intact>>

\* Store.Report, up to its save(), which runs under the same lock.
Accept(m) ==
  /\ m \in flight
  /\ hub = "up"
  /\ m.known
  /\ devices' = [devices EXCEPT ![m.dev] = EntryFor(m.dev, m.at)]
  /\ hub' = "open"
  /\ flight' = flight \ {m}
  /\ lost' = Answered(m)
  /\ heard' = IF m.awaited THEN heard \union {m.dev} ELSE heard
  /\ born' = [born EXCEPT ![m.dev] = IF @ = -1 THEN now ELSE @]
  /\ UNCHANGED <<clockVars, reporterVars, file, saved, intact>>

\* os.WriteFile truncates the file and writes it anew.
Truncate ==
  /\ hub = "open"
  /\ file' = Empty
  /\ hub' = "write"
  /\ UNCHANGED <<clockVars, reporterVars, flight, devices, history>>

Write ==
  /\ hub = "write"
  /\ file' = Json(devices)
  /\ hub' = "up"
  /\ saved' = TRUE
  /\ UNCHANGED <<clockVars, reporterVars, flight, devices, answerVars, intact, born>>

\* The error is ignored; after a truncation the file stays empty.
SaveFails ==
  /\ DiskMayFail
  /\ hub \in {"open", "write"}
  /\ hub' = "up"
  /\ saved' = FALSE
  /\ UNCHANGED <<clockVars, reporterVars, flight, devices, file, answerVars, intact, born>>

\* The end of the process: a shutdown, which lets a report be saved first, log.Fatalf of the
\* web server, or a crash at any moment.
Crash ==
  /\ hub # "down"
  /\ hub' = "down"
  /\ devices' = Nobody
  /\ intact' = (intact /\ hub = "up" /\ saved)
  /\ UNCHANGED <<clockVars, reporterVars, flight, file, answerVars, saved, born>>

Restart ==
  /\ hub = "down"
  /\ hub' = "up"
  /\ devices' = Load(file)
  /\ saved' = TRUE
  /\ UNCHANGED <<clockVars, reporterVars, flight, file, answerVars, intact, born>>

Next ==
  \/ Tick
  \/ \E d \in Devices : StartReporter(d) \/ StopReporter(d) \/ SendOnce(d)
  \/ \E m \in flight : GiveUp(m) \/ Lose(m) \/ Refuse(m) \/ Accept(m)
  \/ Truncate \/ Write \/ SaveFails \/ Crash \/ Restart

Spec == Init /\ [][Next]_vars

-----------------------------------------------------------------------------
\* Seeded fault: the limit itself counts as offline.
OnlineStrictly(e) == now - e.last < OfflineAfter

\* Snapshot's test.
Online(e) == now - e.last <= OfflineAfter

Listed(d) == hub = "up" /\ devices[d] # Unknown

\* What the hub knows, or will know when it starts again.
Store == IF hub = "down" THEN Load(file) ELSE devices

TypeOK ==
  /\ now \in Time
  /\ known \subseteq reporting /\ reporting \subseteq Devices
  /\ due \in [Devices -> 0 .. MaxTime + Interval]
  /\ flight \subseteq Report
  /\ \A m, n \in flight : m.awaited /\ n.awaited /\ m.dev = n.dev => m = n
  /\ hub \in {"up", "down", "open", "write"}
  /\ devices \in Registry
  /\ file \in [kind : {"json", "absent", "empty"}, registry : Registry]
  /\ lost \in [Devices -> 0 .. MaxLost] /\ heard \subseteq Devices
  /\ saved \in BOOLEAN /\ intact \in BOOLEAN
  /\ born \in [Devices -> Time \union {-1}]

\* A device that keeps reporting is online on the dashboard from its first answered
\* report on, with up to MaxLost reports in a row unanswered, each as late as the timeouts
\* allow, and the hub stopped and started in between: "een apparaat staat offline zodra het
\* langer dan --offline seconden niets meer heeft gestuurd" (docs/LAAG3-HUB.md:73), and not
\* earlier.
ReportingDeviceIsOnline ==
  intact /\ hub = "up" =>
    \A d \in reporting \intersect heard : devices[d] # Unknown /\ Online(devices[d])

\* What the dashboard counts as online, and adds to the hashrate, was measured at most
\* OfflineAfter and a report's delay ago, also right after a restart from the file.  That
\* a report is processed or lost within MaxDelay is the network's part: its sender gives up
\* after its timeout (reporter.go:81-85), the hub's handler knows no deadline.
OnlineReadingIsFresh ==
  \A d \in Devices :
    Listed(d) /\ Online(devices[d]) => now - devices[d].at <= OfflineAfter + MaxDelay

\* Unless a crash hits a save or follows a failed one, every device that was ever
\* accepted is listed, with the moment it was first seen.
RegistryIsKept ==
  intact /\ hub = "up" =>
    \A d \in Devices : born[d] # -1 => devices[d] # Unknown /\ devices[d].first = born[d]

\* While the hub runs, the reading it has of a device goes back to an older one only through
\* a report whose sender had given up on it (reporter.go:81): nothing in a report or in
\* Store.Report (store.go:63-85) orders the reports of a device, only that sendOnce waits.
ReadingsInOrder ==
  [][\A d \in Devices :
       devices[d] # Unknown /\ devices'[d] # Unknown /\ devices'[d].at < devices[d].at =>
         \E m \in flight : m.dev = d /\ ~m.awaited /\ Accept(m)]_vars

\* An end of the hub would lose nothing.
Safe == hub = "down" \/ (hub = "up" /\ saved)

\* "De hub bewaart de laatste stand per apparaat" (docs/LAAG3-HUB.md:5): seen as a whole, the
\* hub keeps its registry over every end and start but one that hits a save, or follows a
\* save that failed.
Durable == INSTANCE DurableStore WITH
             Data <- Registry,
             running <- hub # "down",
             data <- Store,
             readable <- TRUE,
             safe <- Safe

ImplementsDurableStore == Durable!Spec
=============================================================================
