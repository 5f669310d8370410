----------------------------- MODULE HubProofs -----------------------------
(***************************************************************************)
(* Proofs about Hub, for any set of devices and any intervals and limits   *)
(* that TimeAssumption allows: types, the registry that is kept, the       *)
(* freshness of what counts as online, that who reports is online, the     *)
(* order of a device's readings, and the hub as a DurableStore.            *)
(***************************************************************************)
EXTENDS Hub, TLAPS

\* Reports are delivered or given up in time, and those somebody waits for are the ones
\* that the reporters sent last.
FlightInv ==
  /\ \A m \in flight : m.at <= now /\ now <= m.at + MaxDelay
  /\ \A m \in flight : m.awaited =>
       /\ m.dev \in reporting
       /\ m.known <=> m.dev \in known
       /\ due[m.dev] = m.at + Interval
  /\ heard \subseteq known
  /\ \A d \in reporting : now <= due[d]

\* Entries are not from the future, nor older by more than a report's delay than their
\* last reading.
GoodEntry(e) == e # Unknown => e.last <= now /\ e.last <= e.at + MaxDelay

FreshInv == \A d \in Devices : GoodEntry(devices[d]) /\ GoodEntry(file.registry[d])

\* The registry, in memory and in the file, holds accepted devices only; and, as long as
\* nothing was interrupted, all of them, with the file up to date after a good save.
KeptInv ==
  /\ \A d \in Devices : devices[d] # Unknown \/ file.registry[d] # Unknown => born[d] # -1
  /\ intact => \A d \in Devices : born[d] # -1 => Store[d] # Unknown /\ Store[d].first = born[d]
  /\ hub = "up" /\ saved => Load(file) = devices
  /\ file.kind # "json" => file.registry = Nobody
  /\ hub = "down" => devices = Nobody

\* How old the entry of a reporting device can be.
OnlineInv ==
  intact => \A d \in heard :
    /\ Store[d] # Unknown
    /\ due[d] <= Store[d].last + lost[d] * Interval + Interval
                   + (IF Sending(d) THEN Interval ELSE 0)

\* The report a reporter waits for is its newest: nothing that is under way, in memory or in the
\* file is newer.
NotAfter(e, at) == e # Unknown => e.at <= at

OrderInv ==
  /\ \A m, n \in flight : m.awaited /\ n.dev = m.dev => n.at <= m.at
  /\ \A m \in flight : m.awaited =>
       NotAfter(devices[m.dev], m.at) /\ NotAfter(file.registry[m.dev], m.at)
  /\ \A d \in Devices : NotAfter(devices[d], now) /\ NotAfter(file.registry[d], now)

HubInv == TypeOK /\ FlightInv /\ FreshInv /\ KeptInv /\ OnlineInv /\ OrderInv

-----------------------------------------------------------------------------
(* Numbers and entries.                                                     *)

LEMMA OneMore == \A n \in Nat : (n + 1) * Interval = n * Interval + Interval /\ n * Interval \in Nat
  BY TimeAssumption

LEMMA LimitHolds == \A n \in 0 .. MaxLost : n * Interval + Interval + MaxDelay <= OfflineAfter
<1> SUFFICES ASSUME NEW n \in 0 .. MaxLost
             PROVE  n * Interval + Interval + MaxDelay <= OfflineAfter
  OBVIOUS
<1>1. n * Interval <= MaxLost * Interval
  BY TimeAssumption
<1>2. (MaxLost + 1) * Interval = MaxLost * Interval + Interval
  BY TimeAssumption
<1> QED
  BY <1>1, <1>2, TimeAssumption

\* What an accepted report makes of the registry.
LEMMA AcceptEntry ==
  ASSUME TypeOK, FlightInv, NEW m \in flight, Accept(m)
  PROVE  /\ m.dev \in Devices /\ EntryFor(m.dev, m.at) \in Entry
         /\ devices' \in Registry
         /\ \A d \in Devices :
              devices'[d] = IF d = m.dev THEN EntryFor(m.dev, m.at) ELSE devices[d]
         /\ EntryFor(m.dev, m.at).last = now /\ EntryFor(m.dev, m.at).at = m.at
         /\ EntryFor(m.dev, m.at).first = IF devices[m.dev] = Unknown THEN now
                                          ELSE devices[m.dev].first
<1>1. m.dev \in Devices /\ m.at \in Time
  BY DEF TypeOK, Report
<1>2. EntryFor(m.dev, m.at) \in Entry
  BY <1>1, UnknownAssumption DEF TypeOK, Registry, EntryFor, Entry
<1>3. devices' \in Registry
  BY <1>1, <1>2 DEF Accept, TypeOK, Registry
<1>4. \A d \in Devices : devices'[d] = IF d = m.dev THEN EntryFor(m.dev, m.at) ELSE devices[d]
  BY <1>1 DEF Accept, TypeOK, Registry
<1> QED
  BY <1>1, <1>2, <1>3, <1>4 DEF EntryFor

LEMMA AnsweredType ==
  ASSUME TypeOK, NEW m \in flight
  PROVE  /\ Answered(m) \in [Devices -> 0 .. MaxLost]
         /\ \A d \in Devices :
              Answered(m)[d] = IF m.awaited /\ d = m.dev THEN 0 ELSE lost[d]
  BY TimeAssumption DEF TypeOK, Answered, Report

LEMMA LoadType == ASSUME TypeOK PROVE Load(file) \in Registry /\ Nobody \in Registry
  BY DEF TypeOK, Load, Nobody, Registry

-----------------------------------------------------------------------------
(* Types.                                                                   *)

LEMMA TypeInit == Init => TypeOK
  BY TimeAssumption DEF Init, TypeOK, Time, Nobody, NoFile, Registry

LEMMA TypeStep == ASSUME TypeOK, FlightInv, [Next]_vars PROVE TypeOK'
<1> USE DEF TypeOK, clockVars, reporterVars, answerVars, saveHistory, storeVars, history
<1>1. CASE Tick
  BY <1>1, TimeAssumption DEF Tick, Time
<1>2. ASSUME NEW d \in Devices, StartReporter(d)
      PROVE  TypeOK'
  BY <1>2, TimeAssumption DEF StartReporter, Time
<1>3. ASSUME NEW d \in Devices, StopReporter(d)
      PROVE  TypeOK'
  <2>1. \A m \in flight : (IF m.dev = d THEN Abandoned(m) ELSE m) \in Report
    BY DEF Abandoned, Report
  <2>2. flight' \subseteq Report
    BY <1>3, <2>1 DEF StopReporter
  <2>3. \A m \in flight' : m.awaited => m \in flight
    BY <1>3 DEF StopReporter, Abandoned, Report
  <2>4. \A m, n \in flight' : m.awaited /\ n.awaited /\ m.dev = n.dev => m = n
    BY <2>3
  <2>5. /\ due' \in [Devices -> 0 .. MaxTime + Interval]
        /\ lost' \in [Devices -> 0 .. MaxLost]
    BY <1>3, TimeAssumption DEF StopReporter
  <2> QED
    BY <1>3, <2>2, <2>4, <2>5 DEF StopReporter
<1>4. ASSUME NEW d \in Devices, SendOnce(d)
      PROVE  TypeOK'
  <2> DEFINE k == d \in known
  <2>0. k \in BOOLEAN /\ Heartbeat(d) = [dev |-> d, at |-> now, known |-> k, awaited |-> TRUE]
    BY DEF Heartbeat
  <2> HIDE DEF k
  <2>1. Heartbeat(d) \in Report
    BY <2>0 DEF Report
  <2>2. \A m, n \in flight' : m.awaited /\ n.awaited /\ m.dev = n.dev => m = n
    <3>1. Heartbeat(d).dev = d /\ \A m \in flight : ~(m.awaited /\ m.dev = d)
      BY <1>4, <2>0 DEF SendOnce, Sending
    <3>2. flight' = flight \union {Heartbeat(d)}
      BY <1>4 DEF SendOnce
    <3> QED
      BY <3>1, <3>2
  <2>3. due' \in [Devices -> 0 .. MaxTime + Interval]
    BY <1>4, TimeAssumption DEF SendOnce, Time
  <2> QED
    BY <1>4, <2>1, <2>2, <2>3 DEF SendOnce
<1>5. ASSUME NEW m \in flight, GiveUp(m)
      PROVE  TypeOK'
  <2>1. Abandoned(m) \in Report /\ ~Abandoned(m).awaited /\ m.dev \in Devices
    BY DEF Abandoned, Report
  <2>2. flight' \subseteq Report
    BY <1>5, <2>1 DEF GiveUp
  <2>3. \A k, n \in flight' : k.awaited /\ n.awaited /\ k.dev = n.dev => k = n
    BY <1>5, <2>1 DEF GiveUp
  <2>4. lost' \in [Devices -> 0 .. MaxLost]
    BY <1>5, <2>1, TimeAssumption DEF GiveUp
  <2> QED
    BY <1>5, <2>2, <2>3, <2>4 DEF GiveUp
<1>6. ASSUME NEW m \in flight, Lose(m)
      PROVE  TypeOK'
  BY <1>6 DEF Lose
<1>7. ASSUME NEW m \in flight, Refuse(m)
      PROVE  TypeOK'
  <2>1. flight' \subseteq flight
    BY <1>7 DEF Refuse
  <2>2. lost' \in [Devices -> 0 .. MaxLost]
    BY <1>7, AnsweredType DEF Refuse
  <2> QED
    BY <1>7, <2>1, <2>2 DEF Refuse
<1>8. ASSUME NEW m \in flight, Accept(m)
      PROVE  TypeOK'
  <2>1. flight' \subseteq flight /\ m.dev \in Devices
    BY <1>8 DEF Accept, Report
  <2>2. lost' \in [Devices -> 0 .. MaxLost]
    BY <1>8, AnsweredType DEF Accept
  <2>3. devices' \in Registry
    BY <1>8, AcceptEntry
  <2>4. heard' \subseteq Devices
    BY <1>8, <2>1 DEF Accept
  <2>5. born' \in [Devices -> Time \union {-1}]
    BY <1>8, <2>1 DEF Accept
  <2> QED
    BY <1>8, <2>1, <2>2, <2>3, <2>4, <2>5 DEF Accept
<1>9. CASE Truncate \/ Write \/ SaveFails
  <2>1. Json(devices) \in [kind : {"json", "absent", "empty"}, registry : Registry]
    BY DEF Json
  <2>2. Empty \in [kind : {"json", "absent", "empty"}, registry : Registry]
    BY LoadType DEF Empty
  <2> QED
    BY <1>9, <2>1, <2>2 DEF Truncate, Write, SaveFails
<1>10. CASE Crash \/ Restart
  BY <1>10, LoadType DEF Crash, Restart
<1>11. CASE UNCHANGED vars
  BY <1>11 DEF vars
<1> QED
  BY <1>1, <1>2, <1>3, <1>4, <1>5, <1>6, <1>7, <1>8, <1>9, <1>10, <1>11 DEF Next

-----------------------------------------------------------------------------
(* Reports under way.                                                       *)

LEMMA FlightStep == ASSUME TypeOK, FlightInv, [Next]_vars PROVE FlightInv'
<1> USE DEF FlightInv, clockVars, reporterVars, answerVars, saveHistory, storeVars, history
<1>0. /\ now \in Nat /\ Interval \in Nat /\ MaxDelay \in Nat
      /\ \A m \in flight : m.at \in Nat /\ m.dev \in Devices
      /\ \A d \in Devices : due[d] \in Nat
      /\ reporting \subseteq Devices
  BY TimeAssumption DEF TypeOK, Time, Report
<1>1. CASE Tick
  BY <1>0, <1>1 DEF Tick
<1>2. ASSUME NEW d \in Devices, StartReporter(d)
      PROVE  FlightInv'
  BY <1>0, <1>2 DEF StartReporter, TypeOK
<1>3. ASSUME NEW d \in Devices, StopReporter(d)
      PROVE  FlightInv'
  <2>1. \A m \in flight' : \E n \in flight :
          m.at = n.at /\ m.dev = n.dev /\ (m.awaited => m = n /\ n.dev # d)
    BY <1>3 DEF StopReporter, Abandoned, TypeOK, Report
  <2>2. /\ reporting' = reporting \ {d} /\ known' = known \ {d} /\ heard' = heard \ {d}
        /\ now' = now
        /\ \A e \in Devices : e # d => due'[e] = due[e]
    BY <1>3 DEF StopReporter, TypeOK
  <2>3. \A m \in flight' : m.at <= now' /\ now' <= m.at + MaxDelay
    BY <2>1, <2>2
  <2>4. \A m \in flight' : m.awaited =>
          m.dev \in reporting' /\ (m.known <=> m.dev \in known') /\ due'[m.dev] = m.at + Interval
    BY <2>1, <2>2, <1>0
  <2>5. \A e \in reporting' : now' <= due'[e]
    BY <2>2, <1>0
  <2> QED
    BY <2>2, <2>3, <2>4, <2>5
<1>4. ASSUME NEW d \in Devices, SendOnce(d)
      PROVE  FlightInv'
  <2>1. /\ Heartbeat(d).dev = d /\ Heartbeat(d).at = now
        /\ Heartbeat(d).known <=> d \in known
    BY DEF Heartbeat
  <2>2. /\ flight' = flight \union {Heartbeat(d)}
        /\ d \in reporting /\ UNCHANGED <<now, reporting, known, heard>>
        /\ \A m \in flight : ~(m.awaited /\ m.dev = d)
    BY <1>4 DEF SendOnce, Sending
  <2>3. \A e \in Devices : due'[e] = IF e = d THEN now + Interval ELSE due[e]
    BY <1>4 DEF SendOnce, TypeOK
  <2>4. \A m \in flight' : m.at <= now' /\ now' <= m.at + MaxDelay
    BY <2>1, <2>2, <1>0
  <2>5. \A m \in flight' : m.awaited =>
          m.dev \in reporting' /\ (m.known <=> m.dev \in known') /\ due'[m.dev] = m.at + Interval
    BY <2>1, <2>2, <2>3, <1>0
  <2> QED
    BY <2>2, <2>3, <2>4, <2>5, <1>0
<1>5. ASSUME NEW m \in flight, GiveUp(m)
      PROVE  FlightInv'
  <2>1. \A k \in flight' : \E n \in flight :
          k.at = n.at /\ k.dev = n.dev /\ (k.awaited => k = n)
    BY <1>5 DEF GiveUp, Abandoned, TypeOK, Report
  <2> QED
    BY <1>5, <2>1 DEF GiveUp
<1>6. ASSUME NEW m \in flight, Lose(m) \/ Refuse(m)
      PROVE  FlightInv'
  BY <1>6 DEF Lose, Refuse
<1>7. ASSUME NEW m \in flight, Accept(m)
      PROVE  FlightInv'
  BY <1>7 DEF Accept
<1>8. CASE Truncate \/ Write \/ SaveFails \/ Crash \/ Restart
  BY <1>8 DEF Truncate, Write, SaveFails, Crash, Restart
<1>9. CASE UNCHANGED vars
  BY <1>9 DEF vars
<1> QED
  BY <1>1, <1>2, <1>3, <1>4, <1>5, <1>6, <1>7, <1>8, <1>9 DEF Next

-----------------------------------------------------------------------------
(* The entries.                                                             *)

LEMMA FreshStep == ASSUME TypeOK, FlightInv, FreshInv, [Next]_vars PROVE FreshInv'
<1> USE DEF clockVars, reporterVars, answerVars, saveHistory, storeVars, history
<1>0. /\ now \in Nat /\ MaxDelay \in Nat
      /\ \A d \in Devices :
           /\ devices[d] # Unknown => devices[d].last \in Nat /\ devices[d].at \in Nat
           /\ file.registry[d] # Unknown =>
                file.registry[d].last \in Nat /\ file.registry[d].at \in Nat
  BY TimeAssumption DEF TypeOK, Time, Registry, Entry
<1>1. CASE Tick
  BY <1>0, <1>1 DEF Tick, FreshInv, GoodEntry
<1>2. CASE UNCHANGED <<now, devices, file>>
  BY <1>2 DEF FreshInv, GoodEntry
<1>3. ASSUME NEW m \in flight, Accept(m)
      PROVE  FreshInv'
  <2>1. m.at \in Nat /\ now <= m.at + MaxDelay
    BY <1>3 DEF FlightInv, TypeOK, Report, Time
  <2>2. now' = now /\ file' = file
    BY <1>3 DEF Accept
  <2>3. \A d \in Devices : GoodEntry(devices[d])'
    BY <1>0, <1>3, <2>1, <2>2, AcceptEntry DEF FreshInv, GoodEntry
  <2> QED
    BY <2>2, <2>3 DEF FreshInv, GoodEntry
<1>4. CASE Truncate
  BY <1>4 DEF Truncate, Empty, Nobody, FreshInv, GoodEntry
<1>5. CASE Write
  BY <1>5 DEF Write, Json, FreshInv, GoodEntry
<1>6. CASE Crash
  BY <1>6 DEF Crash, Nobody, FreshInv, GoodEntry
<1>7. CASE Restart
  BY <1>7 DEF Restart, Load, Nobody, FreshInv, GoodEntry
<1>8. CASE \/ \E d \in Devices : StartReporter(d) \/ StopReporter(d) \/ SendOnce(d)
           \/ \E m \in flight : GiveUp(m) \/ Lose(m) \/ Refuse(m)
           \/ SaveFails \/ UNCHANGED vars
  BY <1>2, <1>8 DEF StartReporter, StopReporter, SendOnce, GiveUp, Lose, Refuse, SaveFails, vars
<1> QED
  BY <1>1, <1>3, <1>4, <1>5, <1>6, <1>7, <1>8 DEF Next

LEMMA KeptStep == ASSUME TypeOK, FlightInv, KeptInv, [Next]_vars PROVE KeptInv'
<1> USE DEF clockVars, reporterVars, answerVars, saveHistory, storeVars, history
<1>1. CASE UNCHANGED <<hub, devices, file, saved, intact, born>>
  BY <1>1 DEF KeptInv, Store
<1>2. CASE \/ Tick
           \/ \E d \in Devices : StartReporter(d) \/ StopReporter(d) \/ SendOnce(d)
           \/ \E m \in flight : GiveUp(m) \/ Lose(m) \/ Refuse(m)
           \/ UNCHANGED vars
  BY <1>1, <1>2 DEF Tick, StartReporter, StopReporter, SendOnce, GiveUp, Lose, Refuse, vars
<1>3. ASSUME NEW m \in flight, Accept(m)
      PROVE  KeptInv'
  <2>1. /\ hub = "up" /\ hub' = "open" /\ UNCHANGED <<now, file, intact>>
        /\ m.dev \in Devices /\ now \in Nat
    BY <1>3 DEF Accept, TypeOK, Report, Time
  <2>2. \A d \in Devices :
          born'[d] = IF d = m.dev /\ born[d] = -1 THEN now ELSE born[d]
    BY <1>3 DEF Accept, TypeOK
  <2>3. \A d \in Devices : devices'[d] # Unknown \/ file'.registry[d] # Unknown => born'[d] # -1
    BY <1>3, <2>1, <2>2, AcceptEntry DEF KeptInv
  <2>4. ASSUME intact', NEW d \in Devices, born'[d] # -1
        PROVE  Store'[d] # Unknown /\ Store'[d].first = born'[d]
    <3>1. Store = devices /\ Store' = devices'
      BY <2>1 DEF Store
    <3>2. CASE d = m.dev
      BY <1>3, <2>1, <2>2, <2>4, <3>1, <3>2, AcceptEntry, UnknownAssumption DEF KeptInv
    <3>3. CASE d # m.dev
      BY <1>3, <2>1, <2>2, <2>4, <3>1, <3>3, AcceptEntry DEF KeptInv
    <3> QED
      BY <3>2, <3>3
  <2> QED
    BY <2>1, <2>3, <2>4 DEF KeptInv
<1>4. CASE Truncate
  BY <1>4 DEF Truncate, Empty, Nobody, KeptInv, Store
<1>5. CASE Write
  BY <1>5 DEF Write, Json, Load, KeptInv, Store
<1>6. CASE SaveFails
  BY <1>6 DEF SaveFails, KeptInv, Store
<1>7. CASE Crash
  BY <1>7 DEF Crash, Nobody, KeptInv, Store
<1>8. CASE Restart
  BY <1>8 DEF Restart, Load, Nobody, KeptInv, Store
<1> QED
  BY <1>2, <1>3, <1>4, <1>5, <1>6, <1>7, <1>8 DEF Next

-----------------------------------------------------------------------------
(* Who reports is online.                                                   *)

\* A step that leaves the entries and the answers alone.
LEMMA OnlineSame ==
  ASSUME OnlineInv, intact' => intact /\ Store' = Store,
         heard' \subseteq heard,
         \A d \in heard' : due'[d] = due[d] /\ lost'[d] = lost[d] /\ Sending(d)' = Sending(d)
  PROVE  OnlineInv'
  BY DEF OnlineInv

LEMMA OnlineStep ==
  ASSUME TypeOK, FlightInv, FreshInv, KeptInv, OnlineInv, [Next]_vars
  PROVE  OnlineInv'
<1> USE DEF clockVars, reporterVars, answerVars, saveHistory, storeVars, history
<1>0. /\ now \in Nat /\ Interval \in Nat
      /\ heard \subseteq reporting /\ reporting \subseteq Devices
      /\ \A d \in Devices : due[d] \in Nat /\ lost[d] \in Nat /\ lost[d] * Interval \in Nat
      /\ \A d \in Devices : Store[d] # Unknown => Store[d].last \in Nat /\ Store[d].last <= now
  <2>1. \A d \in Devices : Store[d] # Unknown => Store[d].last \in Nat /\ Store[d].last <= now
    <3>1. Store \in Registry
      BY LoadType DEF Store, TypeOK
    <3>2. \A d \in Devices : Store[d] # Unknown => Store[d].last \in Nat
      BY <3>1, TimeAssumption DEF Registry, Entry, Time
    <3>3. \A d \in Devices : Store[d] # Unknown => Store[d].last <= now
      BY DEF Store, Load, Nobody, FreshInv, GoodEntry
    <3> QED
      BY <3>2, <3>3
  <2>2. \A d \in Devices : due[d] \in Nat /\ lost[d] \in Nat
    BY TimeAssumption DEF TypeOK
  <2>3. heard \subseteq reporting /\ reporting \subseteq Devices
    BY DEF TypeOK, FlightInv
  <2> QED
    BY <2>1, <2>2, <2>3, OneMore, TimeAssumption DEF TypeOK, Time
<1>1. CASE Tick
  BY <1>1, OnlineSame DEF Tick, Store, Sending
<1>2. ASSUME NEW d \in Devices, StartReporter(d)
      PROVE  OnlineInv'
  <2>1. \A e \in heard' : due'[e] = due[e]
    BY <1>0, <1>2 DEF StartReporter, TypeOK
  <2> QED
    BY <1>2, <2>1, OnlineSame DEF StartReporter, Store, Sending
<1>3. ASSUME NEW d \in Devices, StopReporter(d)
      PROVE  OnlineInv'
  <2>1. heard' = heard \ {d}
    BY <1>3 DEF StopReporter
  <2>2. \A e \in Devices : e # d => due'[e] = due[e] /\ lost'[e] = lost[e]
    BY <1>3 DEF StopReporter, TypeOK
  <2>3. \A e \in Devices : e # d => Sending(e)' = Sending(e)
    <3> SUFFICES ASSUME NEW e \in Devices, e # d
                 PROVE  (\E m \in flight' : m.dev = e /\ m.awaited)
                          <=> (\E m \in flight : m.dev = e /\ m.awaited)
      BY DEF Sending
    <3>1. flight' = {IF m.dev = d THEN Abandoned(m) ELSE m : m \in flight}
      BY <1>3 DEF StopReporter
    <3>2. \A m \in flight : Abandoned(m).dev = m.dev
      BY DEF Abandoned, TypeOK, Report
    <3> QED
      BY <3>1, <3>2
  <2> QED
    BY <1>0, <1>3, <2>1, <2>2, <2>3, OnlineSame DEF StopReporter, Store
<1>4. ASSUME NEW d \in Devices, SendOnce(d)
      PROVE  OnlineInv'
  <2>1. /\ flight' = flight \union {Heartbeat(d)} /\ ~Sending(d) /\ d \in reporting
        /\ now >= due[d] /\ UNCHANGED <<heard, lost, intact, hub, devices, file>>
    BY <1>4 DEF SendOnce
  <2>2. \A e \in Devices : due'[e] = IF e = d THEN now + Interval ELSE due[e]
    BY <1>4 DEF SendOnce, TypeOK
  <2>3. Heartbeat(d).dev = d /\ Heartbeat(d).awaited
    BY DEF Heartbeat
  <2>4. Sending(d)' /\ \A e \in Devices : e # d => Sending(e)' = Sending(e)
    BY <2>1, <2>3 DEF Sending
  <2>5. now = due[d]
    BY <1>0, <2>1 DEF FlightInv
  <2>6. Store' = Store
    BY <2>1 DEF Store
  <2> QED
    BY <1>0, <2>1, <2>2, <2>4, <2>5, <2>6 DEF OnlineInv
<1>5. ASSUME NEW m \in flight, GiveUp(m)
      PROVE  OnlineInv'
  <2> DEFINE d == m.dev
  <2>1. /\ d \in Devices /\ Abandoned(m).dev = d /\ ~Abandoned(m).awaited
        /\ m.awaited /\ flight' = (flight \ {m}) \union {Abandoned(m)}
        /\ UNCHANGED <<heard, due, intact, hub, devices, file>>
    BY <1>5 DEF GiveUp, TypeOK, Report, Abandoned
  <2>2. \A e \in Devices : lost'[e] = IF e = d THEN lost[e] + 1 ELSE lost[e]
    BY <1>5 DEF GiveUp, TypeOK
  <2>3. Sending(d) /\ ~Sending(d)'
    BY <2>1 DEF Sending, TypeOK
  <2>4. \A e \in Devices : e # d => Sending(e)' = Sending(e)
    BY <2>1 DEF Sending
  <2>5. lost'[d] * Interval = lost[d] * Interval + Interval
    BY <1>0, <2>1, <2>2, OneMore
  <2>6. Store' = Store
    BY <2>1 DEF Store
  <2> HIDE DEF d
  <2>7. ASSUME intact', NEW e \in heard'
        PROVE  /\ Store'[e] # Unknown
               /\ due'[e] <= Store'[e].last + lost'[e] * Interval + Interval
                               + (IF Sending(e)' THEN Interval ELSE 0)
    <3>1. CASE e = d
      BY <1>0, <2>1, <2>3, <2>5, <2>6, <2>7, <3>1 DEF OnlineInv
    <3>2. CASE e # d
      BY <1>0, <2>1, <2>2, <2>4, <2>6, <2>7, <3>2 DEF OnlineInv
    <3> QED
      BY <3>1, <3>2
  <2> QED
    BY <2>7 DEF OnlineInv
<1>6. ASSUME NEW m \in flight, Lose(m)
      PROVE  OnlineInv'
  <2>1. \A e \in Devices : Sending(e)' = Sending(e)
    BY <1>6 DEF Lose, Sending
  <2> QED
    BY <1>0, <1>6, <2>1, OnlineSame DEF Lose, Store
<1>7. ASSUME NEW m \in flight, Refuse(m)
      PROVE  OnlineInv'
  <2>1. \A e \in heard : m.awaited => e # m.dev
    BY <1>7 DEF Refuse, FlightInv
  <2>2. \A e \in heard : lost'[e] = lost[e]
    BY <1>0, <1>7, <2>1, AnsweredType DEF Refuse
  <2>3. \A e \in heard : Sending(e)' = Sending(e)
    BY <1>7, <2>1 DEF Refuse, Sending
  <2> QED
    BY <1>7, <2>2, <2>3, OnlineSame DEF Refuse, Store
<1>8. ASSUME NEW m \in flight, Accept(m)
      PROVE  OnlineInv'
  <2> DEFINE d == m.dev
  <2>1. /\ d \in Devices /\ flight' = flight \ {m} /\ UNCHANGED <<due, intact, now, reporting>>
        /\ hub = "up" /\ hub' = "open"
        /\ heard' = IF m.awaited THEN heard \union {d} ELSE heard
        /\ m.at \in Nat /\ m.at <= now
    BY <1>8, TimeAssumption DEF Accept, TypeOK, Report, Time, FlightInv
  <2>2. Store = devices /\ Store' = devices'
    BY <2>1 DEF Store
  <2>3. Store'[d] # Unknown /\ Store'[d].last = now
    BY <1>8, <2>1, <2>2, AcceptEntry, UnknownAssumption
  <2>4. \A e \in Devices : e # d => Store'[e] = Store[e]
    BY <1>8, <2>2, AcceptEntry
  <2>5. \A e \in Devices : lost'[e] = IF m.awaited /\ e = d THEN 0 ELSE lost[e]
    BY <1>8, AnsweredType DEF Accept
  <2>6. \A e \in Devices : e # d \/ ~m.awaited => Sending(e)' = Sending(e)
    BY <2>1 DEF Sending
  <2> HIDE DEF d
  <2>7. ASSUME intact', NEW e \in heard'
        PROVE  /\ Store'[e] # Unknown
               /\ due'[e] <= Store'[e].last + lost'[e] * Interval + Interval
                               + (IF Sending(e)' THEN Interval ELSE 0)
    <3>1. CASE e # d
      BY <1>0, <2>1, <2>4, <2>5, <2>6, <2>7, <3>1 DEF OnlineInv
    <3>2. CASE e = d /\ m.awaited
      <4>1. due[d] = m.at + Interval
        BY <3>2 DEF FlightInv, d
      <4>2. lost'[e] * Interval = 0
        BY <1>0, <2>1, <2>5, <3>2
      <4> QED
        BY <1>0, <2>1, <2>3, <3>2, <4>1, <4>2
    <3>3. CASE e = d /\ ~m.awaited
      <4>1. /\ Store[e] # Unknown
            /\ due[e] <= Store[e].last + lost[e] * Interval + Interval
                           + (IF Sending(e) THEN Interval ELSE 0)
        BY <2>1, <2>7, <3>3 DEF OnlineInv
      <4>2. lost'[e] = lost[e] /\ Sending(e)' = Sending(e) /\ Store[e].last <= now
        BY <1>0, <2>1, <2>5, <2>6, <3>3, <4>1
      <4> QED
        BY <1>0, <2>1, <2>3, <3>3, <4>1, <4>2
    <3> QED
      BY <3>1, <3>2, <3>3
  <2> QED
    BY <2>7 DEF OnlineInv
<1>9. CASE Truncate \/ Write \/ SaveFails
  BY <1>9, OnlineSame DEF Truncate, Write, SaveFails, Store, Sending
<1>10. CASE Crash
  <2>1. intact' => intact /\ Store' = Store
    BY <1>10 DEF Crash, Store, KeptInv
  <2> QED
    BY <1>10, <2>1, OnlineSame DEF Crash, Sending
<1>11. CASE Restart
  BY <1>11, OnlineSame DEF Restart, Store, Sending
<1>12. CASE UNCHANGED vars
  BY <1>12, OnlineSame DEF vars, Store, Sending
<1> QED
  BY <1>1, <1>2, <1>3, <1>4, <1>5, <1>6, <1>7, <1>8, <1>9, <1>10, <1>11, <1>12 DEF Next

-----------------------------------------------------------------------------
(* The order of a device's readings.                                        *)

LEMMA OrderStep ==
  ASSUME TypeOK, FlightInv, OrderInv, [Next]_vars
  PROVE  OrderInv'
<1> USE DEF clockVars, reporterVars, answerVars, saveHistory, storeVars, history
<1>0. /\ now \in Nat
      /\ \A m \in flight : m.dev \in Devices /\ m.at \in Nat /\ m.at <= now
      /\ \A d \in Devices :
           /\ devices[d] # Unknown => devices[d].at \in Nat
           /\ file.registry[d] # Unknown => file.registry[d].at \in Nat
  BY TimeAssumption DEF TypeOK, Time, Report, Registry, Entry, FlightInv
<1>1. CASE Tick
  <2>1. now' = now + 1 /\ UNCHANGED <<flight, devices, file>>
    BY <1>1 DEF Tick
  <2> QED
    BY <1>0, <2>1 DEF OrderInv, NotAfter
\* Reports are only taken away or abandoned.
<1>2. ASSUME UNCHANGED <<now, devices, file>>,
             \A m \in flight' : \E n \in flight :
               m.at = n.at /\ m.dev = n.dev /\ (m.awaited => n.awaited)
      PROVE  OrderInv'
  BY <1>2 DEF OrderInv, NotAfter
<1>3. ASSUME NEW d \in Devices, StopReporter(d)
      PROVE  OrderInv'
  <2>1. \A m \in flight' : \E n \in flight :
          m.at = n.at /\ m.dev = n.dev /\ (m.awaited => n.awaited)
    BY <1>3 DEF StopReporter, Abandoned, TypeOK, Report
  <2> QED
    BY <1>2, <1>3, <2>1 DEF StopReporter
<1>4. ASSUME NEW m \in flight, GiveUp(m) \/ Lose(m) \/ Refuse(m)
      PROVE  OrderInv'
  <2>1. \A k \in flight' : \E n \in flight :
          k.at = n.at /\ k.dev = n.dev /\ (k.awaited => n.awaited)
    BY <1>4 DEF GiveUp, Lose, Refuse, Abandoned, TypeOK, Report
  <2> QED
    BY <1>2, <1>4, <2>1 DEF GiveUp, Lose, Refuse
<1>5. ASSUME NEW d \in Devices, SendOnce(d)
      PROVE  OrderInv'
  <2>1. /\ flight' = flight \union {Heartbeat(d)} /\ UNCHANGED <<now, devices, file>>
        /\ Heartbeat(d).dev = d /\ Heartbeat(d).at = now
        /\ \A m \in flight : ~(m.awaited /\ m.dev = d)
    BY <1>5 DEF SendOnce, Sending, Heartbeat
  <2> QED
    BY <1>0, <2>1 DEF OrderInv, NotAfter
<1>6. ASSUME NEW m \in flight, Accept(m)
      PROVE  OrderInv'
  <2>1. /\ flight' \subseteq flight /\ UNCHANGED <<now, file>>
    BY <1>6 DEF Accept
  <2>2. \A d \in Devices : d # m.dev => devices'[d] = devices[d]
    BY <1>6, AcceptEntry
  <2>3. devices'[m.dev].at = m.at
    BY <1>6, AcceptEntry
  <2>4. \A k \in flight' : k.awaited => NotAfter(devices[k.dev], k.at)'
    BY <1>0, <2>1, <2>2, <2>3 DEF OrderInv, NotAfter
  <2>5. \A d \in Devices : NotAfter(devices[d], now)'
    BY <1>0, <2>1, <2>2, <2>3 DEF OrderInv, NotAfter
  <2> QED
    BY <2>1, <2>4, <2>5 DEF OrderInv, NotAfter
<1>7. CASE Truncate \/ Write \/ SaveFails \/ Crash \/ Restart
  <2>1. UNCHANGED <<now, flight>>
    BY <1>7 DEF Truncate, Write, SaveFails, Crash, Restart
  <2>2. \A d \in Devices :
          /\ devices'[d] \in {devices[d], file.registry[d], Unknown}
          /\ file'.registry[d] \in {devices[d], file.registry[d], Unknown}
    BY <1>7 DEF Truncate, Write, SaveFails, Crash, Restart, Load, Empty, Json, Nobody
  <2> QED
    BY <1>0, <2>1, <2>2 DEF OrderInv, NotAfter
<1>8. CASE UNCHANGED vars \/ \E d \in Devices : StartReporter(d)
  BY <1>2, <1>8 DEF vars, StartReporter
<1> QED
  BY <1>1, <1>3, <1>4, <1>5, <1>6, <1>7, <1>8 DEF Next

-----------------------------------------------------------------------------
(* The theorems.                                                            *)

LEMMA Inductive == Spec => []HubInv
<1>1. Init => HubInv
  <2> SUFFICES ASSUME Init
               PROVE  HubInv
    OBVIOUS
  <2>1. FlightInv /\ OnlineInv
    BY DEF Init, FlightInv, OnlineInv
  <2>2. FreshInv /\ KeptInv
    BY DEF Init, FreshInv, GoodEntry, KeptInv, NoFile, Nobody, Load
  <2>3. OrderInv
    BY DEF Init, OrderInv, NotAfter, NoFile, Nobody
  <2> QED
    BY <2>1, <2>2, <2>3, TypeInit DEF HubInv
<1>2. HubInv /\ [Next]_vars => HubInv'
  BY TypeStep, FlightStep, FreshStep, KeptStep, OnlineStep, OrderStep DEF HubInv
<1> QED
  BY <1>1, <1>2, PTL DEF Spec

\* The hub, its file, the reporters and the reports under way keep their types; no
\* reporter waits for two answers at once (reporter.go:59).
THEOREM HubTypeCorrect == Spec => []TypeOK
<1>1. HubInv => TypeOK
  BY DEF HubInv
<1> QED
  BY <1>1, Inductive, PTL

\* Who reports is online, through lost, late and refused reports and clean restarts of
\* the hub (store.go:96, reporter.go:48).
THEOREM ReporterIsOnline == Spec => []ReportingDeviceIsOnline
<1>1. HubInv => ReportingDeviceIsOnline
  <2> SUFFICES ASSUME HubInv, intact, hub = "up", NEW d \in reporting \intersect heard
               PROVE  devices[d] # Unknown /\ Online(devices[d])
    BY DEF ReportingDeviceIsOnline
  <2>1. d \in Devices /\ lost[d] \in 0 .. MaxLost /\ due[d] \in Nat /\ now \in Nat
    BY TimeAssumption DEF HubInv, TypeOK, Time
  <2>2. /\ devices[d] # Unknown
        /\ due[d] <= devices[d].last + lost[d] * Interval + Interval
                       + (IF Sending(d) THEN Interval ELSE 0)
    BY DEF HubInv, OnlineInv, Store
  <2>3. devices[d].last \in Nat
    BY <2>1, <2>2, TimeAssumption DEF HubInv, TypeOK, Registry, Entry, Time
  <2>4. lost[d] * Interval + Interval + MaxDelay <= OfflineAfter /\ lost[d] * Interval \in Nat
    BY <2>1, LimitHolds, OneMore
  <2>5. CASE Sending(d)
    <3>1. PICK m \in flight : m.dev = d /\ m.awaited
      BY <2>5 DEF Sending
    <3>2. m.at \in Nat /\ now <= m.at + MaxDelay /\ due[d] = m.at + Interval
      BY <3>1, TimeAssumption DEF HubInv, FlightInv, TypeOK, Report, Time
    <3> QED
      BY <2>1, <2>2, <2>3, <2>4, <2>5, <3>2, TimeAssumption DEF Online
  <2>6. CASE ~Sending(d)
    <3>1. now <= due[d]
      BY DEF HubInv, FlightInv
    <3> QED
      BY <2>1, <2>2, <2>3, <2>4, <2>6, <3>1, TimeAssumption DEF Online
  <2> QED
    BY <2>5, <2>6
<1> QED
  BY <1>1, Inductive, PTL

\* What counts as online was measured recently (store.go:96).
THEOREM OnlineIsFresh == Spec => []OnlineReadingIsFresh
<1>1. HubInv => OnlineReadingIsFresh
  BY TimeAssumption
     DEF HubInv, FreshInv, GoodEntry, TypeOK, Time, Registry, Entry, OnlineReadingIsFresh, Online,
         Listed
<1> QED
  BY <1>1, Inductive, PTL

\* Outside interrupted and failed saves the registry loses nobody (store.go:63-85, 120-147).
THEOREM RegistryKept == Spec => []RegistryIsKept
<1>1. HubInv => RegistryIsKept
  BY DEF HubInv, KeptInv, Store, RegistryIsKept
<1> QED
  BY <1>1, Inductive, PTL

\* What the dashboard shows of a device only goes back in time through a report that its
\* agent had given up on: the loop that waits (reporter.go:59-92) is all the order there is,
\* and it is enough for every report it still waits for.
THEOREM ReadingsAreOrdered == Spec => ReadingsInOrder
<1>1. HubInv /\ [Next]_vars =>
        [\A d \in Devices :
           devices[d] # Unknown /\ devices'[d] # Unknown /\ devices'[d].at < devices[d].at =>
             \E m \in flight : m.dev = d /\ ~m.awaited /\ Accept(m)]_vars
  <2> SUFFICES ASSUME HubInv, Next, NEW d \in Devices,
                      devices[d] # Unknown, devices'[d] # Unknown,
                      devices'[d].at < devices[d].at
               PROVE  \E m \in flight : m.dev = d /\ ~m.awaited /\ Accept(m)
    OBVIOUS
  <2> USE DEF clockVars, reporterVars, storeVars, history
  <2>1. devices[d].at \in Nat
    BY TimeAssumption DEF HubInv, TypeOK, Time, Registry, Entry
  <2>2. devices' # devices
    BY <2>1
  <2>3. ~Crash /\ ~Restart
    BY DEF Crash, Restart, Nobody, HubInv, KeptInv
  <2>4. PICK m \in flight : Accept(m)
    BY <2>2, <2>3 DEF Next, Tick, StartReporter, StopReporter, SendOnce, GiveUp, Lose, Refuse,
                      Truncate, Write, SaveFails
  <2>5. m.dev = d
    BY <2>1, <2>4, AcceptEntry DEF HubInv
  <2>6. m.at \in Nat /\ devices'[d].at = m.at
    BY <2>4, <2>5, AcceptEntry, TimeAssumption DEF HubInv, TypeOK, Report, Time
  <2>7. ~m.awaited
    BY <2>1, <2>5, <2>6 DEF HubInv, OrderInv, NotAfter
  <2> QED
    BY <2>4, <2>5, <2>7
<1> QED
  BY <1>1, Inductive, PTL DEF Spec, ReadingsInOrder

-----------------------------------------------------------------------------
(***************************************************************************)
(* Refinement: a report and its save are a Change and a Save, the ends and *)
(* starts of the hub Stop and Start; everything else leaves the registry   *)
(* alone.                                                                  *)
(***************************************************************************)
LEMMA StoreType == TypeOK => Store \in Registry
  BY LoadType DEF Store, TypeOK

\* What happens between reporters and network.
LEMMA OutsideStore ==
  ASSUME UNCHANGED <<storeVars, saved>>
  PROVE  UNCHANGED Durable!vars
  BY DEF Durable!vars, storeVars, Store, Safe

StoreInv == HubInv /\ Store \in Registry

LEMMA StoreStep == StoreInv /\ StoreInv' /\ [Next]_vars => [Durable!Next]_(Durable!vars)
<1> SUFFICES ASSUME StoreInv, StoreInv', [Next]_vars
             PROVE  [Durable!Next]_(Durable!vars)
  OBVIOUS
<1> USE DEF storeVars, history, saveHistory
<1>1. CASE \/ Tick
           \/ \E d \in Devices : StartReporter(d) \/ StopReporter(d) \/ SendOnce(d)
           \/ \E m \in flight : GiveUp(m) \/ Lose(m) \/ Refuse(m)
           \/ UNCHANGED vars
  BY <1>1, OutsideStore
     DEF Tick, StartReporter, StopReporter, SendOnce, GiveUp, Lose, Refuse, vars
<1>2. ASSUME NEW m \in flight, Accept(m)
      PROVE  Durable!Change
  <2>1. hub = "up" /\ hub' = "open"
    BY <1>2 DEF Accept
  <2>2. Store' \in Registry
    BY DEF StoreInv
  <2> QED
    BY <2>1, <2>2 DEF Durable!Change, Safe
<1>3. CASE Truncate \/ SaveFails
  <2>1. hub # "down" /\ hub' # "down" /\ Store' = Store
    BY <1>3 DEF Truncate, SaveFails, Store
  <2>2. (hub # "down")' = (hub # "down")
    BY <2>1
  <2>3. Safe' = Safe
    BY <1>3 DEF Truncate, SaveFails, Safe
  <2> QED
    BY <2>1, <2>2, <2>3 DEF Durable!vars
<1>4. CASE Write
  <2>1. hub = "write" /\ hub' = "up" /\ ~Safe /\ Safe'
    BY <1>4 DEF Write, Safe
  <2>2. Store' \in Registry
    BY DEF StoreInv
  <2> QED
    BY <2>1, <2>2 DEF Durable!Next, Durable!Save
<1>5. CASE Crash
  <2>1. hub # "down" /\ hub' = "down" /\ Safe'
    BY <1>5 DEF Crash, Safe
  <2>2. Store' \in Registry
    BY DEF StoreInv
  <2>3. Safe => Store' = Store
    BY <1>5, <2>1 DEF Crash, Safe, Store, StoreInv, HubInv, KeptInv
  <2> QED
    BY <2>1, <2>2, <2>3 DEF Durable!Next, Durable!Stop
<1>6. CASE Restart
  <2>1. hub = "down" /\ hub' = "up" /\ Safe' /\ Store' = Store
    BY <1>6 DEF Restart, Safe, Store
  <2> QED
    BY <2>1 DEF Durable!Next, Durable!Start
<1> QED
  BY <1>1, <1>2, <1>3, <1>4, <1>5, <1>6 DEF Next, Durable!Next

\* The registry as a whole is a durable store: it changes by accepted reports only, every
\* start finds what the last end left, and an end takes something away only when it hits a
\* save or follows a failed one (store.go:63-85, 120-147).
THEOREM HubImplementsStore == Spec => ImplementsDurableStore
<1>1. Init => Durable!Init
  BY LoadType, TypeInit DEF Init, Durable!Init, Store, Safe
<1>2. HubInv => StoreInv
  BY StoreType DEF StoreInv, HubInv
<1> QED
  BY <1>1, <1>2, Inductive, StoreStep, PTL DEF Spec, ImplementsDurableStore, Durable!Spec
=============================================================================
