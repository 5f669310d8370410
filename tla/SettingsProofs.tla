--------------------------- MODULE SettingsProofs ---------------------------
(***************************************************************************)
(* Proofs about Settings, for any number of handlers, any forms and field  *)
(* values, with and without disk errors.                                   *)
(***************************************************************************)
EXTENDS Settings, TLAPS

USE FormAssumption, HiddenAssumption, IdAssumption, MainAssumption, DiskAssumption

LEMMA DefaultIsConfig ==
  /\ Default \in Config /\ Default.hidden # 0
  /\ ApplyDefaults(Default) = Default
<1>1. NoCommunity(DefaultHidden) \in Community
  BY DEF Community, NoCommunity, NoId
<1>2. NoCommunity(DefaultHidden).interval = DefaultHidden
  BY DEF NoCommunity
<1>3. [NoCommunity(DefaultHidden) EXCEPT !.interval = DefaultHidden]
        = NoCommunity(DefaultHidden)
  BY <1>1, <1>2 DEF Community
<1> QED
  BY <1>1, <1>2, <1>3 DEF ApplyDefaults, Filled, Default, Config

\* Filling in gives a configuration without absent hidden fields.
LEMMA FillIsComplete ==
  ASSUME NEW c \in Config, NEW hidden \in Hiddens \ {0}
  PROVE  /\ FillHidden(c, hidden) \in Config
         /\ FillHidden(c, hidden).hidden # 0
  BY DEF FillHidden, Filled, Config

\* Defaults are filled in once and for all.
LEMMA DefaultsAreStable ==
  ASSUME NEW c \in Config
  PROVE  /\ ApplyDefaults(c) \in Config
         /\ ApplyDefaults(c).hidden # 0
         /\ ApplyDefaults(ApplyDefaults(c)) = ApplyDefaults(c)
<1> DEFINE d == ApplyDefaults(c)
<1>1. d.form \in Forms \ {Emptied} /\ d.hidden \in Hiddens \ {0}
  BY DEF ApplyDefaults, Filled, Config
<1>2. d.community \in Community /\ d.community.interval # 0
  BY DEF ApplyDefaults, Filled, Config, Community
<1>3. d = [form |-> d.form, hidden |-> d.hidden, community |-> d.community]
  BY DEF ApplyDefaults
<1>4. d \in Config /\ d.hidden # 0
  BY <1>1, <1>2, <1>3 DEF Config
<1>5. ApplyDefaults(d) = d
  <2> HIDE DEF d
  <2>1. [d.community EXCEPT !.interval = Filled(d.community.interval, DefaultHidden)]
          = d.community
    BY <1>2 DEF Filled, Community
  <2> QED
    BY <1>1, <1>3, <2>1 DEF ApplyDefaults, Filled
<1> QED
  BY <1>4, <1>5

LEMMA LoadIsComplete ==
  ASSUME NEW f \in File
  PROVE  Load(f) \in Config /\ Load(f).hidden # 0
  BY DefaultIsConfig, DefaultsAreStable DEF Load, File

LEMMA FileForms ==
  /\ \A c \in Config : Json(c) \in File
  /\ Absent \in File /\ Empty \in File /\ Garbled \in File
  BY DefaultIsConfig DEF Json, Absent, Empty, Garbled, File

\* Whatever goroutine it is for, the id added at start-up makes a configuration.
LEMMA IdIsConfig ==
  ASSUME NEW c \in Config, ids \in 0 .. MaxId, ids < MaxId
  PROVE  /\ [c EXCEPT !.community.id = ids + 1] \in Config
         /\ [c EXCEPT !.community.id = ids + 1].hidden = c.hidden
  BY DEF Config, Community

(***************************************************************************)
(* Types and completeness: what goroutines carry is complete throughout.   *)
(***************************************************************************)
CompleteInv ==
  /\ TypeOK
  /\ mem.hidden # 0
  /\ \A w \in Writers : body[w].hidden # 0

LEMMA CompleteInit == Init => CompleteInv
<1> SUFFICES ASSUME Init
             PROVE  CompleteInv
  OBVIOUS
<1>1. pc \in [Writers -> {"idle", "update", "open", "write"}]
  BY DEF Init
<1>2. body \in [Writers -> Config] /\ \A w \in Writers : body[w].hidden # 0
  BY DefaultIsConfig DEF Init
<1>3. mem \in Config /\ mem.hidden # 0 /\ file \in File
  BY DefaultIsConfig, FileForms DEF Init
<1>4. ids \in 0 .. MaxId
  BY DEF Init
<1>5. agent \in {"down", "booting", "up"} /\ answer \in {"ok", "error"} /\ overlap \in BOOLEAN
  BY DEF Init
<1> QED
  BY <1>1, <1>2, <1>3, <1>4, <1>5 DEF CompleteInv, TypeOK

LEMMA CompleteStep == CompleteInv /\ [Next]_vars => CompleteInv'
<1> SUFFICES ASSUME CompleteInv, [Next]_vars
             PROVE  CompleteInv'
  OBVIOUS
<1> USE DEF CompleteInv, TypeOK, Writers, ghosts
<1>1. CASE Boot
  <2>1. Load(file) \in Config /\ Load(file).hidden # 0
    BY LoadIsComplete
  <2>2. CASE agent' = "up"
    BY <1>1, <2>1, <2>2 DEF Boot
  <2>3. CASE agent' = "booting"
    <3>1. /\ ids < MaxId /\ ids' = ids + 1
          /\ body' = [body EXCEPT ![Main] = [Load(file) EXCEPT !.community.id = ids + 1]]
          /\ pc' = [pc EXCEPT ![Main] = "open"]
          /\ UNCHANGED <<mem, file, answer, overlap>>
      BY <1>1, <2>3 DEF Boot
    <3>2. /\ [Load(file) EXCEPT !.community.id = ids + 1] \in Config
          /\ [Load(file) EXCEPT !.community.id = ids + 1].hidden # 0
      BY <2>1, <3>1, IdIsConfig
    <3> QED
      BY <2>3, <3>1, <3>2
  <2> QED
    BY <1>1, <2>2, <2>3 DEF Boot
<1>2. ASSUME NEW c \in Config, EditFile(c)
      PROVE  CompleteInv'
  BY <1>2, FileForms DEF EditFile
<1>3. ASSUME NEW h \in Handlers, NEW c \in Config, Receive(h, c)
      PROVE  CompleteInv'
  <2>1. mem.hidden \in Hiddens \ {0}
    BY DEF Config
  <2>2. FillHidden(c, mem.hidden) \in Config /\ FillHidden(c, mem.hidden).hidden # 0
    BY <2>1, FillIsComplete
  <2> QED
    BY <1>3, <2>2 DEF Receive
<1>4. ASSUME NEW h \in Handlers, NEW f \in Forms, PostForm(h, f)
      PROVE  CompleteInv'
  <2>1. [form |-> f, hidden |-> 0, community |-> NoCommunity(0)] \in Config
    BY DEF Config, Community, NoCommunity, NoId
  <2> QED
    BY <1>3, <1>4, <2>1 DEF PostForm
<1>5. ASSUME NEW h \in Handlers, UpdateConfig(h)
      PROVE  CompleteInv'
  BY <1>5 DEF UpdateConfig
<1>6. ASSUME NEW w \in Writers, Truncate(w)
      PROVE  CompleteInv'
  BY <1>6, FileForms DEF Truncate
<1>7. ASSUME NEW w \in Writers, Write(w)
      PROVE  CompleteInv'
  BY <1>7, FileForms, DefaultIsConfig DEF Write, Return
<1>8. ASSUME NEW w \in Writers, SaveFails(w)
      PROVE  CompleteInv'
  BY <1>8, DefaultIsConfig DEF SaveFails, Return
<1>9. CASE Crash
  BY <1>9, DefaultIsConfig DEF Crash
<1>10. CASE UNCHANGED vars
  BY <1>10 DEF vars
<1> QED
  BY <1>1, <1>2, <1>3, <1>4, <1>5, <1>6, <1>7, <1>8, <1>9, <1>10
     DEF Next, PostConfig, Given

\* Memory, file and the requests under way hold configurations, whatever overlaps.
THEOREM SettingsTypeCorrect == Spec => []TypeOK
<1>1. CompleteInv => TypeOK
  BY DEF CompleteInv
<1> QED
  BY <1>1, CompleteInit, CompleteStep, PTL DEF Spec

\* No request, restart or race makes the agent work with an absent restart delay, health
\* grace, miner path or address (server.go:174-200, config.go:168-205).
THEOREM HiddenFieldsStay == Spec => []HiddenFieldsArePresent
<1>1. CompleteInv => HiddenFieldsArePresent
  BY DEF CompleteInv, HiddenFieldsArePresent, Writers
<1> QED
  BY <1>1, CompleteInit, CompleteStep, PTL DEF Spec

-----------------------------------------------------------------------------
(***************************************************************************)
(* Durability: with no overlap one writer is busy, it has put its settings *)
(* in memory before it opens the file, and between its truncation and its  *)
(* write the file is empty, so what it writes is what the file holds.      *)
(***************************************************************************)
PhaseInv ==
  /\ agent = "down" => \A w \in Writers : pc[w] = "idle"
  /\ agent = "booting" => pc[Main] \in {"open", "write"}
                          /\ \A h \in Handlers : pc[h] = "idle"
  /\ agent = "up" => pc[Main] = "idle"
  /\ agent # "up" => ~overlap
  /\ ~overlap => \A g, h \in Handlers : pc[g] # "idle" /\ pc[h] # "idle" => g = h

WriterInv ==
  ~overlap =>
    /\ \A h \in Handlers : pc[h] \in {"open", "write"} => mem = body[h]
    /\ \A w \in Writers : pc[w] = "write" => file = Empty

DurableInv == CompleteInv /\ PhaseInv /\ WriterInv /\ RestartKeepsSettings

LEMMA DurableInit == Init => DurableInv
  BY CompleteInit, DefaultIsConfig
     DEF Init, DurableInv, PhaseInv, WriterInv, RestartKeepsSettings, Quiet,
                       Writers

LEMMA DurableStep == DurableInv /\ [Next]_vars => DurableInv'
<1> SUFFICES ASSUME DurableInv, [Next]_vars
             PROVE  DurableInv'
  OBVIOUS
<1> USE DEF Writers, ghosts
<1>0. CompleteInv /\ CompleteInv'
  BY CompleteStep DEF DurableInv
<1>1. CASE Boot
  <2>1. PhaseInv' /\ WriterInv'
    BY <1>0, <1>1 DEF Boot, DurableInv, PhaseInv, WriterInv, CompleteInv, TypeOK
  <2>2. ASSUME agent' = "booting"
        PROVE  RestartKeepsSettings'
    BY <2>2 DEF RestartKeepsSettings, Quiet
  <2>3. ASSUME agent' = "up"
        PROVE  RestartKeepsSettings'
    <3>1. mem' = Load(file) /\ file' = file /\ ~Broken(file)
      BY <1>1, <2>3 DEF Boot
    <3>2. Load(file) = ApplyDefaults(Load(file))
      BY <1>0, DefaultIsConfig, DefaultsAreStable DEF Load, File, CompleteInv, TypeOK
    <3> QED
      BY <3>1, <3>2 DEF RestartKeepsSettings, FileHasSettings
  <2>4. RestartKeepsSettings'
    BY <1>1, <2>2, <2>3 DEF Boot
  <2> QED
    BY <1>0, <2>1, <2>4 DEF DurableInv
<1>2. ASSUME NEW c \in Config, EditFile(c)
      PROVE  DurableInv'
  BY <1>0, <1>2
     DEF EditFile, DurableInv, PhaseInv, WriterInv, RestartKeepsSettings, Quiet
<1>3. ASSUME NEW h \in Handlers, NEW c, Receive(h, c)
      PROVE  DurableInv'
  <2> USE <1>0, <1>3 DEF Receive, CompleteInv, TypeOK
  <2>1. PhaseInv'
    BY DEF DurableInv, PhaseInv
  <2>2. WriterInv'
    BY DEF DurableInv, PhaseInv, WriterInv
  <2>3. RestartKeepsSettings'
    BY DEF RestartKeepsSettings, Quiet
  <2> QED
    BY <2>1, <2>2, <2>3 DEF DurableInv
<1>4. ASSUME NEW h \in Handlers, UpdateConfig(h)
      PROVE  DurableInv'
  <2> USE <1>0, <1>4 DEF UpdateConfig, CompleteInv, TypeOK
  <2>1. PhaseInv'
    BY DEF DurableInv, PhaseInv
  <2>2. WriterInv'
    BY DEF DurableInv, PhaseInv, WriterInv
  <2>3. RestartKeepsSettings'
    BY DEF RestartKeepsSettings, Quiet
  <2> QED
    BY <2>1, <2>2, <2>3 DEF DurableInv
<1>5. ASSUME NEW w \in Writers, Truncate(w)
      PROVE  DurableInv'
  <2> USE <1>0, <1>5 DEF Truncate, CompleteInv, TypeOK
  <2>1. PhaseInv'
    BY DEF DurableInv, PhaseInv
  <2>2. WriterInv'
    BY DEF DurableInv, WriterInv
  <2>3. RestartKeepsSettings'
    BY DEF RestartKeepsSettings, Quiet
  <2> QED
    BY <2>1, <2>2, <2>3 DEF DurableInv
<1>6. ASSUME NEW w \in Writers, Write(w)
      PROVE  DurableInv'
  <2> USE <1>0, <1>6 DEF Write, Return, CompleteInv, TypeOK
  <2>1. PhaseInv'
    BY DEF DurableInv, PhaseInv
  <2>2. WriterInv'
    BY DEF DurableInv, PhaseInv, WriterInv
  <2>3. ASSUME Quiet', ~overlap'
        PROVE  FileHasSettings'
    <3>1. ~overlap /\ file = Empty
      BY <2>3 DEF DurableInv, WriterInv
    <3>2. file' = Json(body[w])
      BY <3>1
    <3>3. mem' = body[w]
      BY <2>3, <3>1 DEF DurableInv, WriterInv, PhaseInv
    <3> QED
      BY <3>2, <3>3 DEF FileHasSettings, Broken, Load, Json
  <2> QED
    BY <2>1, <2>2, <2>3 DEF DurableInv, RestartKeepsSettings
<1>7. ASSUME NEW w \in Writers, SaveFails(w)
      PROVE  DurableInv'
  <2> USE <1>0, <1>7 DEF SaveFails, Return, CompleteInv, TypeOK
  <2>1. PhaseInv'
    BY DEF DurableInv, PhaseInv
  <2>2. WriterInv'
    BY DEF DurableInv, PhaseInv, WriterInv
  <2>3. RestartKeepsSettings'
    BY DEF RestartKeepsSettings, Quiet
  <2> QED
    BY <2>1, <2>2, <2>3 DEF DurableInv
<1>8. CASE Crash
  BY <1>0, <1>8 DEF Crash, DurableInv, PhaseInv, WriterInv, RestartKeepsSettings, Quiet
<1>9. CASE UNCHANGED vars
  BY <1>0, <1>9
     DEF vars, DurableInv, PhaseInv, WriterInv, RestartKeepsSettings, FileHasSettings, Quiet,
         Broken, Load
<1> QED
  BY <1>1, <1>2, <1>3, <1>4, <1>5, <1>6, <1>7, <1>8, <1>9
     DEF Next, PostForm, PostConfig, Given

\* After a save that did not fail and did not overlap another, a restart loads the
\* settings the agent works with, with the defaults for what they leave empty, wherever it
\* was interrupted before
\* (server.go:201-208, config.go:108-135).
THEOREM SettingsAreDurable == Spec => []RestartKeepsSettings
<1>1. DurableInv => RestartKeepsSettings
  BY DEF DurableInv
<1> QED
  BY <1>1, DurableInit, DurableStep, PTL DEF Spec

-----------------------------------------------------------------------------
(* What torn_config and concurrent_saves show has one cause each.           *)

\* The agent ends between two saves, the last of which was good and alone.
EndsWhenSafe == [][Crash => Safe]_vars

\* "zodat de agent altijd kan starten" (config.go:107) is true of an agent that does not
\* end in the middle of a save or after one that failed or overlapped another: what
\* torn_config shows comes from there alone, and no start, edit or request adds to it.
THEOREM AgentCanStartAfterSafeEnd == Spec /\ EndsWhenSafe => []AgentCanAlwaysStart
<1>1. Init => DurableInv /\ AgentCanAlwaysStart
  BY DurableInit DEF Init, AgentCanAlwaysStart, Broken, Absent, Empty, Garbled
<1>2. DurableInv /\ AgentCanAlwaysStart /\ [Next]_vars /\ [Crash => Safe]_vars
        => (DurableInv /\ AgentCanAlwaysStart)'
  <2> SUFFICES ASSUME DurableInv, AgentCanAlwaysStart, [Next]_vars, [Crash => Safe]_vars,
                      agent' = "down"
               PROVE  ~Broken(file')
    BY DurableStep DEF AgentCanAlwaysStart, Broken
  <2>1. CASE Crash
    <3>1. Safe /\ agent # "down" /\ file' = file
      BY <2>1 DEF Crash, vars
    <3> QED
      BY <3>1 DEF Safe, DurableInv, RestartKeepsSettings, FileHasSettings
  <2>2. ASSUME NEW c \in Config, EditFile(c)
        PROVE  ~Broken(file')
    BY <2>2 DEF EditFile, Broken, Json, Empty, Garbled
  <2>3. CASE UNCHANGED vars
    BY <2>3 DEF vars, AgentCanAlwaysStart
  <2> QED
    BY <2>1, <2>2, <2>3
       DEF Next, Boot, PostForm, PostConfig, Receive, UpdateConfig, Truncate, Write, SaveFails,
           Return, Given, DurableInv, PhaseInv, Writers
<1> QED
  BY <1>1, <1>2, PTL DEF Spec, EndsWhenSafe

\* Requests are served one by one, as under a lock around handleConfig.
OneByOne ==
  [][\A h \in Handlers : pc[h] = "idle" /\ pc'[h] = "update" =>
       \A g \in Handlers : pc[g] = "idle"]_vars

\* With one request at a time an answer of "opgeslagen" is kept (server.go:30-31, 208):
\* what concurrent_saves shows comes from the missing lock alone, not from crashes,
\* failed writes or the save at start-up.
THEOREM SavesAreKeptOneByOne == Spec /\ OneByOne => []SavedIsInForce
<1>1. Init => DurableInv /\ ~overlap
  BY DurableInit DEF Init
<1>2. /\ DurableInv /\ ~overlap /\ [Next]_vars
      /\ [\A h \in Handlers : pc[h] = "idle" /\ pc'[h] = "update" =>
            \A g \in Handlers : pc[g] = "idle"]_vars
      => (DurableInv /\ ~overlap)'
  <2> SUFFICES ASSUME DurableInv, ~overlap, [Next]_vars,
                      [\A h \in Handlers : pc[h] = "idle" /\ pc'[h] = "update" =>
                         \A g \in Handlers : pc[g] = "idle"]_vars
               PROVE  ~overlap'
    BY DurableStep
  <2>1. ASSUME NEW h \in Handlers, NEW c, Receive(h, c)
        PROVE  ~overlap'
    <3>1. pc[h] = "idle" /\ pc'[h] = "update"
      BY <2>1 DEF Receive, DurableInv, CompleteInv, TypeOK, Writers
    <3>2. \A g \in Handlers : pc[g] = "idle"
      BY <3>1 DEF vars
    <3> QED
      BY <2>1, <3>2 DEF Receive
  <2> QED
    BY <2>1
       DEF Next, Boot, EditFile, PostForm, PostConfig, UpdateConfig, Truncate, Write, SaveFails,
           Return, Crash, ghosts, vars
<1>3. DurableInv /\ ~overlap => SavedIsInForce
  BY DEF DurableInv, RestartKeepsSettings, SavedIsInForce
<1> QED
  BY <1>1, <1>2, <1>3, PTL DEF Spec, OneByOne

-----------------------------------------------------------------------------
(***************************************************************************)
(* Refinement: every step is one of DurableStore or leaves it alone.  Only *)
(* the end of the agent and its start take the invariant; every other step *)
(* runs while something is unsaved.                                        *)
(***************************************************************************)
LEMMA ForceIsConfig ==
  ASSUME TypeOK
  PROVE  InForce \in Config
<1>1. ApplyDefaults(mem) \in Config
  BY DefaultsAreStable DEF TypeOK
<1>2. [body[Main] EXCEPT !.community.id = NoId] \in Config
  BY DEF TypeOK, Writers, Config, Community, NoId
<1>3. Default \in Config /\ Load(file) \in Config
  BY DefaultIsConfig, LoadIsComplete DEF TypeOK
<1> QED
  BY <1>1, <1>2, <1>3 DEF InForce

StoreInv == DurableInv /\ InForce \in Config

\* An id that was just added is all that start-up changes.
LEMMA IdForgotten ==
  ASSUME NEW c \in Config, c.community.id = NoId, NEW i
  PROVE  [[c EXCEPT !.community.id = i] EXCEPT !.community.id = NoId] = c
<1>1. [[c.community EXCEPT !.id = i] EXCEPT !.id = NoId] = c.community
  BY DEF Config, Community
<1> DEFINE d == [c EXCEPT !.community.id = i]
<1>2. /\ d.form = c.form /\ d.hidden = c.hidden
      /\ d.community = [c.community EXCEPT !.id = i]
      /\ d = [form |-> d.form, hidden |-> d.hidden, community |-> d.community]
  BY DEF Config
<1>3. c = [form |-> c.form, hidden |-> c.hidden, community |-> c.community]
  BY DEF Config
<1> HIDE DEF d
<1>4. [d EXCEPT !.community.id = NoId]
        = [form |-> d.form, hidden |-> d.hidden, community |-> [d.community EXCEPT !.id = NoId]]
  BY <1>2
<1>5. [d EXCEPT !.community.id = NoId] = c
  BY <1>1, <1>2, <1>3, <1>4
<1> QED
  BY <1>5 DEF d

\* What is unsaved may change, or have been saved, at any step of a request.
LEMMA RequestStep ==
  ASSUME StoreInv, StoreInv', agent # "down", agent' # "down", ~Safe \/ ~Safe'
  PROVE  [Durable!Next]_(Durable!vars)
<1>1. InForce' \in Config
  BY DEF StoreInv
<1>2. Readable /\ Readable'
  BY DEF Readable
<1>3. CASE Safe'
  BY <1>1, <1>2, <1>3 DEF Durable!Next, Durable!Save
<1>4. CASE ~Safe'
  BY <1>1, <1>2, <1>4 DEF Durable!Next, Durable!Change
<1> QED
  BY <1>3, <1>4

LEMMA BootIsStart ==
  ASSUME StoreInv, Boot
  PROVE  Durable!Start
<1>1. /\ agent = "down" /\ ~Broken(file) /\ file' = file /\ agent' # "down"
      /\ Readable /\ Readable'
  BY DEF Boot, Readable
<1>2. Load(file) \in Config /\ InForce = Load(file)
  BY <1>1, LoadIsComplete DEF InForce, StoreInv, DurableInv, CompleteInv, TypeOK
<1>3. CASE agent' = "up"
  <2>1. InForce' = ApplyDefaults(Load(file))
    BY <1>1, <1>3 DEF Boot, InForce
  <2>2. ApplyDefaults(Load(file)) = Load(file)
    BY DefaultIsConfig, DefaultsAreStable
       DEF Load, File, StoreInv, DurableInv, CompleteInv, TypeOK
  <2> QED
    BY <1>1, <1>2, <2>1, <2>2 DEF Durable!Start, Safe
<1>4. CASE agent' = "booting"
  <2>1. /\ Load(file).community.id = NoId
        /\ body'[Main] = [Load(file) EXCEPT !.community.id = ids + 1]
    BY <1>1, <1>4 DEF Boot, StoreInv, DurableInv, CompleteInv, TypeOK, Writers
  <2>2. InForce' = [body'[Main] EXCEPT !.community.id = NoId]
    BY <1>4 DEF InForce
  <2>3. [[Load(file) EXCEPT !.community.id = ids + 1] EXCEPT !.community.id = NoId] = Load(file)
    BY <1>2, <2>1, IdForgotten
  <2>4. InForce' = Load(file)
    BY <2>1, <2>2, <2>3
  <2> QED
    BY <1>1, <1>2, <2>4 DEF Durable!Start, Safe
<1> QED
  BY <1>3, <1>4 DEF Boot

LEMMA CrashIsStop ==
  ASSUME StoreInv, StoreInv', Crash
  PROVE  Durable!Stop
<1>1. agent # "down" /\ agent' = "down" /\ file' = file
  BY DEF Crash
<1>2. InForce' \in Config
  BY DEF StoreInv
<1>3. ASSUME Safe
      PROVE  InForce' = InForce /\ Readable'
  <2>1. agent = "up" /\ FileHasSettings
    BY <1>1, <1>3 DEF Safe, Quiet, StoreInv, DurableInv, RestartKeepsSettings
  <2> QED
    BY <1>1, <2>1 DEF FileHasSettings, InForce, Readable
<1>4. Safe' /\ Readable' \in BOOLEAN
  BY <1>1 DEF Safe, Readable
<1> QED
  BY <1>1, <1>2, <1>3, <1>4 DEF Durable!Stop

LEMMA EditIsEdit ==
  ASSUME NEW c \in Config, EditFile(c)
  PROVE  Durable!Edit
<1>1. agent = "down" /\ agent' = "down" /\ file' = Json(c)
  BY DEF EditFile
<1>2. Json(c) \in File /\ ~Broken(Json(c))
  BY FileForms DEF Json, Broken
<1>3. InForce' = Load(Json(c))
  BY <1>1, <1>2 DEF InForce
<1> QED
  BY <1>1, <1>2, <1>3, LoadIsComplete DEF Durable!Edit, Readable, Safe

LEMMA StoreStep ==
  StoreInv /\ StoreInv' /\ [Next]_vars => [Durable!Next]_(Durable!vars)
<1> SUFFICES ASSUME StoreInv, StoreInv', [Next]_vars
             PROVE  [Durable!Next]_(Durable!vars)
  OBVIOUS
<1> USE DEF Writers
<1>1. CASE Boot \/ Crash \/ \E c \in Given : EditFile(c)
  BY <1>1, BootIsStart, CrashIsStop, EditIsEdit DEF Given, Durable!Next
<1>2. ASSUME NEW h \in Handlers, NEW c, Receive(h, c)
      PROVE  [Durable!Next]_(Durable!vars)
  <2>1. agent = "up" /\ agent' = "up" /\ pc'[h] = "update"
    BY <1>2 DEF Receive, StoreInv, DurableInv, CompleteInv, TypeOK
  <2> QED
    BY <2>1, RequestStep DEF Safe, Quiet
<1>3. ASSUME NEW w \in Writers, pc[w] # "idle", agent' \in {agent, "up"}
      PROVE  [Durable!Next]_(Durable!vars)
  <2>1. agent # "down" /\ ~Safe
    BY <1>3 DEF StoreInv, DurableInv, PhaseInv, Safe, Quiet
  <2> QED
    BY <1>3, <2>1, RequestStep
<1>4. ASSUME NEW h \in Handlers, UpdateConfig(h)
      PROVE  [Durable!Next]_(Durable!vars)
  BY <1>3, <1>4 DEF UpdateConfig
<1>5. ASSUME NEW w \in Writers, Truncate(w) \/ Write(w) \/ SaveFails(w)
      PROVE  [Durable!Next]_(Durable!vars)
  BY <1>3, <1>5 DEF Truncate, Write, SaveFails, Return
<1>6. CASE UNCHANGED vars
  BY <1>6 DEF vars, Durable!vars, InForce, Readable, Safe, Quiet
<1> QED
  BY <1>1, <1>2, <1>4, <1>5, <1>6 DEF Next, PostForm, PostConfig

\* The settings as a whole are a durable store: they change by requests and the owner's
\* edits only, never by the agent's start, and by its end only when that hits a save, or
\* follows one that failed or overlapped another (server.go:201-208, config.go:105-135).
THEOREM SettingsImplementStore == Spec => ImplementsDurableStore
<1>1. Init => Durable!Init
  <2> SUFFICES ASSUME Init
               PROVE  Durable!Init
    OBVIOUS
  <2>1. agent = "down" /\ ~Broken(file) /\ InForce = Load(file) /\ file \in File
    BY FileForms DEF Init, Broken, Absent, InForce
  <2> QED
    BY <2>1, LoadIsComplete DEF Durable!Init, Readable, Safe
<1>2. DurableInv => StoreInv
  BY ForceIsConfig DEF StoreInv, DurableInv, CompleteInv
<1> QED
  BY <1>1, <1>2, DurableInit, DurableStep, StoreStep, PTL
     DEF Spec, ImplementsDurableStore, Durable!Spec
=============================================================================
