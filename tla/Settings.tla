------------------------------ MODULE Settings ------------------------------
(***************************************************************************)
(* The agent's settings: the copy in the Manager, the JSON file it is      *)
(* saved to, the POST /api/config handlers that change both, and main's    *)
(* load at start-up (internal/config, internal/web/server.go,              *)
(* cmd/vhnw-agent/main.go), with crashes between any two steps.            *)
(*                                                                         *)
(* A configuration has one field for each way the code treats its fields:  *)
(*   form       the fields of the web form (wallet, worker, pool, ...), of *)
(*              which applyDefaults fills in an emptied worker, pool, algo *)
(*              or password, and handleConfig nothing;                     *)
(*   hidden     a field that is not in the form, 0 when absent, filled in  *)
(*              by handleConfig and applyDefaults (the two delays, the     *)
(*              miner's path and API address, the web address);            *)
(*   community  the community block: enabled, the device id, and the       *)
(*              interval, 0 when absent and filled in by applyDefaults.    *)
(* os.WriteFile is not atomic: it truncates the file, then writes at its   *)
(* start, so two of them at the same time overlay each other.              *)
(***************************************************************************)
EXTENDS Naturals

CONSTANTS
  Handlers,      \* handler goroutines of POST /api/config
  Main,          \* the main goroutine
  Forms,         \* values of the form's fields
  DefaultForm,   \* what Default() puts there
  Emptied,       \* a form with worker, pool, algo or password left empty
  Hiddens,       \* values of the fields outside the form, 0 for absent
  DefaultHidden,
  MaxId,         \* bound: device ids generated in a behaviour
  DiskMayFail    \* may writing the file fail?

ASSUME FormAssumption   == DefaultForm \in Forms /\ Emptied \in Forms \ {DefaultForm}
ASSUME HiddenAssumption == Hiddens \subseteq Nat /\ 0 \in Hiddens
                           /\ DefaultHidden \in Hiddens \ {0}
ASSUME IdAssumption     == MaxId \in Nat
ASSUME MainAssumption   == Main \notin Handlers
ASSUME DiskAssumption   == DiskMayFail \in BOOLEAN

VARIABLES
  agent,         \* the process: "down", "booting" or "up"
  mem,           \* m.cfg of the Manager
  file,          \* contents of config.json
  pc,            \* where each goroutine that saves is
  body,          \* the configuration it is about to save
  ids,           \* device ids generated so far: 1 .. ids
  answer,        \* how the last save ended: "ok" or "error"
  overlap        \* history: did the last request overlap another one?

vars == <<agent, mem, file, pc, body, ids, answer, overlap>>
ghosts == <<answer, overlap>>

Writers == Handlers \union {Main}
NoId == 0
Community == [enabled : BOOLEAN, id : 0 .. MaxId, interval : Hiddens]
Config == [form : Forms, hidden : Hiddens, community : Community]

NoCommunity(interval) == [enabled |-> FALSE, id |-> NoId, interval |-> interval]
Default == [form |-> DefaultForm, hidden |-> DefaultHidden,
            community |-> NoCommunity(DefaultHidden)]

\* What is at the path: a configuration, nothing yet, a file just truncated, or one
\* save's text with the end of another's.
Json(c) == [kind |-> "json", config |-> c]
Absent  == [kind |-> "absent", config |-> Default]
Empty   == [kind |-> "empty", config |-> Default]
Garbled == [kind |-> "garbled", config |-> Default]
File    == [kind : {"json", "absent", "empty", "garbled"}, config : Config]

\* os.ReadFile or json.Unmarshal fails.
Broken(f) == f.kind \in {"empty", "garbled"}

\* Seeded fault: absent fields stay absent.
FillNothing(c, hidden) == c

Filled(value, default) == IF value = 0 THEN default ELSE value

\* handleConfig: the fields outside the form keep their current value when the request
\* lacks them.
FillHidden(c, hidden) == [c EXCEPT !.hidden = Filled(@, hidden)]

ApplyDefaults(c) ==
  [form |-> IF c.form = Emptied THEN DefaultForm ELSE c.form,
   hidden |-> Filled(c.hidden, DefaultHidden),
   community |-> [c.community EXCEPT !.interval = Filled(@, DefaultHidden)]]

\* config.Load: the defaults when there is no file.  Only for a file that parses.
Load(f) == IF f.kind = "absent" THEN Default ELSE ApplyDefaults(f.config)

-----------------------------------------------------------------------------
Init ==
  /\ agent = "down"
  /\ mem = Default
  /\ file = Absent
  /\ pc = [w \in Writers |-> "idle"]
  /\ body = [w \in Writers |-> Default]
  /\ ids = 0
  /\ answer = "ok" /\ overlap = FALSE

\* Seeded fault: every start makes an id.
BootRenamed ==
  /\ agent = "down"
  /\ ~Broken(file)
  /\ ids' = ids + 1
  /\ agent' = "booting"
  /\ body' = [body EXCEPT ![Main] = [Load(file) EXCEPT !.community.id = ids + 1]]
  /\ pc' = [pc EXCEPT ![Main] = "open"]
  /\ UNCHANGED <<mem, file, ghosts>>

\* main up to web.New.  A file that does not parse is fatal; a device that takes part
\* in the community without an id gets one, which is saved first.
Boot ==
  /\ agent = "down"
  /\ ~Broken(file)
  /\ LET loaded == Load(file)
         needsId == loaded.community.enabled /\ loaded.community.id = NoId
     IN  \/ /\ ~needsId
            /\ agent' = "up"
            /\ mem' = loaded
            /\ UNCHANGED <<pc, body, ids>>
         \/ /\ needsId
            /\ ids < MaxId
            /\ ids' = ids + 1
            /\ agent' = "booting"
            /\ body' = [body EXCEPT ![Main] = [loaded EXCEPT !.community.id = ids + 1]]
            /\ pc' = [pc EXCEPT ![Main] = "open"]
            /\ UNCHANGED mem
  /\ UNCHANGED <<file, ghosts>>

\* The owner writes a configuration while the agent does not run, as the documentation
\* of the community block says.
EditFile(c) ==
  /\ agent = "down"
  /\ file' = Json(c)
  /\ UNCHANGED <<agent, mem, pc, body, ids, ghosts>>

\* handleConfig: decode, read the current configuration, fill in.
Receive(h, c) ==
  /\ agent = "up"
  /\ pc[h] = "idle"
  /\ body' = [body EXCEPT ![h] = FillHidden(c, mem.hidden)]
  /\ pc' = [pc EXCEPT ![h] = "update"]
  /\ overlap' = (\E g \in Handlers : pc[g] # "idle")
  /\ UNCHANGED <<agent, mem, file, ids, answer>>

\* The form of app.js sends neither the hidden fields nor the community block ...
PostForm(h, f) ==
  Receive(h, [form |-> f, hidden |-> 0, community |-> NoCommunity(0)])

\* ... another client of the API can send any configuration.
PostConfig(h, c) == Receive(h, c)

\* Seeded fault: the request is saved, but the Manager keeps its settings.
UpdateNothing(h) ==
  /\ pc[h] = "update"
  /\ pc' = [pc EXCEPT ![h] = "open"]
  /\ UNCHANGED <<agent, mem, file, body, ids, ghosts>>

\* Manager.UpdateConfig, as far as the settings go.
UpdateConfig(h) ==
  /\ pc[h] = "update"
  /\ mem' = body[h]
  /\ pc' = [pc EXCEPT ![h] = "open"]
  /\ UNCHANGED <<agent, file, body, ids, ghosts>>

\* Done with Save: the handler answers "opgeslagen" or a 500; main only logs a failure
\* and goes on.
Return(w, result) ==
  /\ pc' = [pc EXCEPT ![w] = "idle"]
  /\ body' = [body EXCEPT ![w] = Default]
  /\ answer' = result
  /\ IF w = Main THEN agent' = "up" /\ mem' = body[Main]
                 ELSE UNCHANGED <<agent, mem>>
  /\ UNCHANGED <<ids, overlap>>

\* Save: os.WriteFile opens the file and truncates it ...
Truncate(w) ==
  /\ pc[w] = "open"
  /\ file' = Empty
  /\ pc' = [pc EXCEPT ![w] = "write"]
  /\ UNCHANGED <<agent, mem, body, ids, ghosts>>

\* ... and writes from its start: over what another save put there meanwhile, whose
\* end sticks out when it is longer.
Write(w) ==
  /\ pc[w] = "write"
  /\ \/ file' = Json(body[w])
     \/ file \notin {Empty, Json(body[w])} /\ file' = Garbled
  /\ Return(w, "ok")

\* The open fails, or the write does: the disk is full, and the file stays truncated.
SaveFails(w) ==
  /\ DiskMayFail
  /\ pc[w] \in {"open", "write"}
  /\ Return(w, "error")
  /\ UNCHANGED file

\* The process dies, by a signal or with the power; systemd starts it again.
Crash ==
  /\ agent # "down"
  /\ agent' = "down"
  /\ mem' = Default
  /\ pc' = [w \in Writers |-> "idle"]
  /\ body' = [w \in Writers |-> Default]
  /\ answer' = "ok" /\ overlap' = FALSE
  /\ UNCHANGED <<file, ids>>

\* What the owner can write down: with no device id, or one the agent made.
Given == {c \in Config : c.community.id <= ids}

Next ==
  \/ Boot
  \/ \E c \in Given : EditFile(c)
  \/ \E h \in Handlers, f \in Forms : PostForm(h, f)
  \/ \E h \in Handlers, c \in Given : PostConfig(h, c)
  \/ \E h \in Handlers : UpdateConfig(h)
  \/ \E w \in Writers : Truncate(w) \/ Write(w) \/ SaveFails(w)
  \/ Crash

Spec == Init /\ [][Next]_vars

-----------------------------------------------------------------------------
TypeOK ==
  /\ agent \in {"down", "booting", "up"}
  /\ mem \in Config
  /\ file \in File
  /\ pc \in [Writers -> {"idle", "update", "open", "write"}]
  /\ body \in [Writers -> Config]
  /\ ids \in 0 .. MaxId
  /\ answer \in {"ok", "error"} /\ overlap \in BOOLEAN

Quiet == agent = "up" /\ \A w \in Writers : pc[w] = "idle"

\* A restart gives the agent the settings it works with, with the defaults for what is
\* empty.
FileHasSettings == ~Broken(file) /\ Load(file) = ApplyDefaults(mem)

\* While no request is under way, a restart would load the settings the agent works
\* with, up to the defaults for what they leave empty, provided that the last save did
\* not fail and did not overlap another: none is lost, none comes back, and an earlier
\* failure or race leaves nothing behind.  UpdateConfig and Save are separate steps
\* (server.go:201-203) and a crash can fall between any two steps.
RestartKeepsSettings == Quiet /\ answer = "ok" /\ ~overlap => FileHasSettings

\* The settings in force, up to the defaults for empty fields; those a start would find, while
\* the agent is down; and, while main saves a new device id, those without it.
InForce ==
  CASE agent = "up"      -> ApplyDefaults(mem)
    [] agent = "booting" -> [body[Main] EXCEPT !.community.id = NoId]
    [] OTHER             -> IF Broken(file) THEN Default ELSE Load(file)

\* Would a start succeed, now or after the end of the agent?  And would an end of the agent
\* lose nothing: are no request and no save under way that did not succeed?
Readable == agent # "down" \/ ~Broken(file)
Safe == agent = "down" \/ (Quiet /\ answer = "ok" /\ ~overlap)

\* Seen as a whole, the agent keeps its settings over every end and start but those that hit
\* a save or follow one that failed or overlapped another; and a start changes nothing in
\* them (config.go:105-122, main.go:35-49).
Durable == INSTANCE DurableStore WITH
             Data <- Config,
             running <- agent # "down",
             data <- InForce,
             readable <- Readable,
             safe <- Safe

ImplementsDurableStore == Durable!Spec

\* "om wijzigingen in de instellingen te bewaren" (server.go:31): what was answered with
\* "opgeslagen" is in the file, also when two requests came at the same time.
SavedIsInForce == Quiet /\ answer = "ok" => FileHasSettings

\* The agent never works with settings that lack a field the form does not have: a
\* restart delay or health grace of 0, whatever requests and restarts overlap
\* (server.go:174-200, config.go:168-205).
HiddenFieldsArePresent ==
  agent = "up" => mem.hidden # 0 /\ \A h \in Handlers : body[h].hidden # 0

\* "Velden die niet in het formulier zitten behouden hun huidige waarde"
\* (server.go:194): saving the form does not change them.
FormKeepsOtherFields ==
  [][\A h \in Handlers, f \in Forms :
       PostForm(h, f) => body'[h].community = mem.community]_vars

\* "zodat de agent altijd kan starten" (config.go:107): whenever the agent is down, its
\* file can be loaded.
AgentCanAlwaysStart == agent = "down" => ~Broken(file)
=============================================================================
