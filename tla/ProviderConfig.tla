--------------------------- MODULE ProviderConfig ---------------------------
(***************************************************************************)
(* The web-managed research provider: ProviderManager in the API server    *)
(* and in the worker, the runtime configuration file both of them load,    *)
(* the secret store, the provider endpoints and the settings panel that    *)
(* drives them, and the binding of a run to the provider captured when it  *)
(* was submitted.                                                          *)
(*                                                                         *)
(* A process loads the configuration once, in its constructor, and never   *)
(* looks at the file again.  fs.writeFileSync truncates the file before it *)
(* fills it, so another process can read it torn and a crash can leave it  *)
(* torn.  Handlers only await promises that are already settled (the       *)
(* secret store is synchronous inside), so requests of one process do not  *)
(* interleave; the steps of the two processes do.                          *)
(***************************************************************************)
EXTENDS Naturals, Sequences, FiniteSets

CONSTANTS Providers,   \* catalog ids that need an api key
          Alias,       \* the catalog id the legacy id "google" stands for
          Models,      \* model names a user may type
          EnvKey,      \* [Providers -> {"unset", "blank", "set"}]
          Panels,      \* open settings panels
          Runs,        \* submitted runs
          MaxEdits,    \* bound on buttons pressed and patches sent
          MaxCrashes,  \* bound on processes that die
          MaxFaults    \* bound on file operations that throw

ASSUME ProviderAssumption ==
    /\ Alias \in Providers
    /\ "<default>" \notin Providers /\ "google" \notin Providers
    /\ {"none", "start"} \intersect Panels = {}
    /\ EnvKey \in [Providers -> {"unset", "blank", "set"}]
    /\ {MaxEdits, MaxCrashes, MaxFaults} \subseteq Nat

VARIABLES
    file,     \* config/providers.json: absent, torn or whole
    secret,   \* [Providers -> {"none", "torn", "stored"}]: the secret files
    proc,     \* [Procs -> process record]: memory of the two managers
    panel,    \* [Panels -> panel record]
    bound,    \* [Runs -> what the run captured and what it was given]
    edits,    \* buttons pressed and patches sent so far
    crashes,  \* processes that died so far
    faults,   \* file operations that threw so far
    mishap,   \* history: a crash cut the change of a key, a write of the worker
              \* was cut, or loading and saving of the two overlapped
    unsaved,  \* history: the last save of the running server threw
    spoiled   \* history: providers whose key was lost in a request that threw

provVars == <<file, secret, proc, panel, bound, edits, crashes, faults,
              mishap, unsaved, spoiled>>

Procs == {"server", "worker"}
None == "<default>"
DefaultModel == "model"
AllModels == Models \cup {DefaultModel}
Settings == [enabled : BOOLEAN, model : AllModels]
Config == [active : Providers \cup {None, "google"},
           settings : [Providers -> Settings],
           revision : Nat]
Server == proc["server"]
NoSettings == [enabled |-> FALSE, model |-> DefaultModel]

(* A fresh configuration: every catalog provider enabled with its default *)
(* model, none of them active.                                             *)
seedConfig == [active |-> None,
               settings |-> [p \in Providers |-> [enabled |-> TRUE, model |-> DefaultModel]],
               revision |-> 0]

Absent == [state |-> "absent", cfg |-> seedConfig]
Torn == [state |-> "torn", cfg |-> seedConfig]
Whole(c) == [state |-> "whole", cfg |-> c]

(* What load() makes of the file: anything it cannot parse is a fresh seed, *)
(* which it saves at once.                                                 *)
validateStructural(f) == IF f.state = "whole" THEN f.cfg ELSE seedConfig

(* The constructor's normalisation of what was loaded. *)
Normalised(c) == [c EXCEPT !.active = IF c.active = "google" THEN Alias ELSE c.active]
Bumped(c) == [c EXCEPT !.revision = @ + 1]

(* A key file that cannot be parsed counts as no key. *)
HasStoredKey(p) == secret[p] = "stored"

(* Where a credential comes from.  An environment value of blanks counts as *)
(* configured here, though credentialValue trims it away.                  *)
resolveCredentialSource(p) ==
    CASE EnvKey[p] # "unset" -> "env-var"
      [] EnvKey[p] = "unset" /\ HasStoredKey(p) -> "local-secret-store"
      [] OTHER -> "none"
credentialValue(p) == EnvKey[p] = "set" \/ HasStoredKey(p)

(* What activate and the runtime-config endpoint ask of their target. *)
Activatable(p) == Server.cfg.settings[p].enabled /\ resolveCredentialSource(p) # "none"

(* The part of saveRuntimeConfigPatch after the changes were merged: an    *)
(* active provider that is not enabled falls back to none.                 *)
Patched(c) ==
    Bumped(IF c.active # None /\ ~c.settings[c.active].enabled
           THEN [c EXCEPT !.active = None] ELSE c)

Updated(c, p, m) == Patched([c EXCEPT !.settings[p].model = m])

Idle == [pc |-> "up", cfg |-> seedConfig, read |-> Absent,
         client |-> "none", target |-> "none"]
Down == [Idle EXCEPT !.pc = "down"]
Closed == [todo |-> <<>>, prov |-> "none"]
Unbound == [state |-> "new", id |-> None, settings |-> NoSettings, revision |-> 0,
            used |-> NoSettings, key |-> FALSE]
(* A run submitted by an earlier version: id, model and revision only. *)
OldEnvelope == [Unbound EXCEPT !.state = "old", !.id = Alias,
                    !.settings = [enabled |-> TRUE, model |-> DefaultModel]]

ProvInit ==
    /\ file \in {Absent, Whole([seedConfig EXCEPT !.active = "google"])}
    /\ secret \in [Providers -> {"none", "stored"}]
    /\ file # Absent => EnvKey[Alias] # "unset" \/ secret[Alias] = "stored"
    /\ proc = [p \in Procs |-> Down]
    /\ panel = [c \in Panels |-> Closed]
    /\ bound \in [Runs -> IF file = Absent THEN {Unbound} ELSE {Unbound, OldEnvelope}]
    /\ edits = 0 /\ crashes = 0 /\ faults = 0
    /\ mishap = FALSE /\ unsaved = FALSE /\ spoiled = {}

-----------------------------------------------------------------------------
(* Saving the configuration and starting a process *)

(* The panel whose request just ended well goes on with its next one. *)
Answered(client) ==
    IF client \in Panels
    THEN panel' = [panel EXCEPT ![client].todo = Tail(@)]
    ELSE UNCHANGED panel
(* A failed request throws in the panel: the rest of its plan is dropped. *)
Refused(client) ==
    IF client \in Panels
    THEN panel' = [panel EXCEPT ![client] = Closed]
    ELSE UNCHANGED panel

(* writeFileSync opened the file: its contents are gone until FinishSave. *)
BeginSave(p, c, client) ==
    /\ proc' = [proc EXCEPT ![p] = [@ EXCEPT !.pc = "saving", !.cfg = c, !.read = Absent,
                                    !.client = client]]
    /\ file' = Torn
    /\ mishap' = (mishap \/ \E q \in Procs \ {p} : proc[q].pc \in {"loading", "saving"})
    /\ UNCHANGED <<panel, faults, unsaved>>

(* A save throws.  The manager has changed its memory before and keeps the *)
(* change; a constructor that throws ends its process.                     *)
Failed(x, c, client) ==
    IF client = "start" THEN Down
    ELSE [x EXCEPT !.pc = "up", !.cfg = c, !.client = "none", !.target = "none"]
SaveThrows(p, c, client) ==
    /\ faults < MaxFaults
    /\ faults' = faults + 1
    /\ proc' = [proc EXCEPT ![p] = Failed(@, c, client)]
    /\ unsaved' = (unsaved \/ client # "start")
    /\ Refused(client)
    /\ UNCHANGED file

(* The directory or the file could not be opened at all. *)
OpenFails(p, c, client) == SaveThrows(p, c, client) /\ UNCHANGED mishap

Save(p, c, client) == BeginSave(p, c, client) \/ OpenFails(p, c, client)

(* The bytes arrive.  When the other process filled the file after this    *)
(* one had opened it, the tail of the longer text may remain.              *)
FinishSave(p) ==
    /\ proc[p].pc = "saving"
    /\ \/ file' = Whole(proc[p].cfg)
       \/ file.state = "whole" /\ file.cfg # proc[p].cfg /\ file' = Torn
    /\ proc' = [proc EXCEPT ![p] = [@ EXCEPT !.pc = "up", !.client = "none", !.target = "none"]]
    /\ Answered(proc[p].client)
    /\ unsaved' = (unsaved /\ p # "server")
    /\ UNCHANGED <<secret, bound, edits, crashes, faults, mishap, spoiled>>

(* ... or the write throws after the file was opened and truncated. *)
FailSave(p) ==
    /\ proc[p].pc = "saving"
    /\ SaveThrows(p, proc[p].cfg, proc[p].client)
    /\ mishap' = (mishap \/ p = "worker")
    /\ UNCHANGED <<secret, bound, edits, crashes, spoiled>>

(* new ProviderManager: the file is read ... *)
StartLoad(p) ==
    /\ proc[p].pc = "down"
    /\ proc' = [proc EXCEPT ![p] = [Idle EXCEPT !.pc = "loading", !.read = file,
                                    !.cfg = validateStructural(file)]]
    /\ mishap' = (mishap \/ \E q \in Procs : proc[q].pc = "saving")
    /\ UNCHANGED <<file, secret, panel, bound, edits, crashes, faults, unsaved, spoiled>>

(* ... and, when it had to be seeded or its active provider replaced,       *)
(* written back, whatever the other process wrote meanwhile.               *)
StartNormalise(p) ==
    /\ proc[p].pc = "loading"
    /\ LET c == Normalised(proc[p].cfg)
           seeded == proc[p].read.state # "whole"
           changed == c.active # proc[p].cfg.active
       IN IF seeded \/ changed
          THEN Save(p, IF changed THEN Bumped(c) ELSE c, "start")
          ELSE /\ proc' = [proc EXCEPT ![p] = [@ EXCEPT !.pc = "up", !.read = Absent]]
               /\ UNCHANGED <<file, panel, faults, mishap, unsaved>>
    /\ UNCHANGED <<secret, bound, edits, crashes, spoiled>>

(* A process dies at any point: what it had begun to write stays torn, and *)
(* the request it was serving gets no answer.                              *)
CrashProcess(p) ==
    /\ proc[p].pc # "down" /\ crashes < MaxCrashes
    /\ crashes' = crashes + 1
    /\ mishap' = (mishap \/ proc[p].pc \in {"removing", "keying"}
                            \/ (p = "worker" /\ proc[p].pc = "saving"))
    /\ unsaved' = (unsaved /\ p # "server")
    /\ Refused(proc[p].client)
    /\ proc' = [proc EXCEPT ![p] = Down]
    /\ UNCHANGED <<file, secret, bound, edits, faults, spoiled>>

-----------------------------------------------------------------------------
(* The endpoints of the API server *)

Serving(c) == Server.pc = "up" /\ panel[c].todo # <<>>
Request(c) == Head(panel[c].todo)

(* PUT /api/providers/:id: an invalid model is refused before any change. *)
Update(c) ==
    /\ Serving(c) /\ Request(c).op = "update"
    /\ IF Request(c).model \in AllModels
       THEN Save("server", Updated(Server.cfg, panel[c].prov, Request(c).model), c)
       ELSE Refused(c) /\ UNCHANGED <<file, proc, faults, mishap, unsaved>>
    /\ UNCHANGED <<secret, bound, edits, crashes, spoiled>>

(* PUT /api/providers/:id/credential: the secret file is rewritten, then   *)
(* the revision is bumped.                                                 *)
SetCredential(c) ==
    /\ Serving(c) /\ Request(c).op = "setKey"
    /\ secret' = [secret EXCEPT ![panel[c].prov] = "torn"]
    /\ proc' = [proc EXCEPT !["server"] = [@ EXCEPT !.pc = "keying", !.client = c,
                                           !.target = panel[c].prov]]
    /\ UNCHANGED <<file, panel, bound, edits, crashes, faults, mishap, unsaved, spoiled>>

FinishSetCredential ==
    /\ Server.pc = "keying"
    /\ secret' = [secret EXCEPT ![Server.target] = "stored"]
    /\ spoiled' = spoiled \ {Server.target}
    /\ Save("server", Bumped(Server.cfg), Server.client)
    /\ UNCHANGED <<bound, edits, crashes>>

(* The write of the key throws after its file was truncated. *)
KeyWriteFails ==
    /\ Server.pc = "keying" /\ faults < MaxFaults
    /\ faults' = faults + 1
    /\ spoiled' = spoiled \union {Server.target}
    /\ proc' = [proc EXCEPT !["server"] = [@ EXCEPT !.pc = "up", !.client = "none",
                                           !.target = "none"]]
    /\ Refused(Server.client)
    /\ UNCHANGED <<file, secret, bound, edits, crashes, mishap, unsaved>>

(* DELETE /api/providers/:id/credential: the secret file goes first, the   *)
(* selection that depended on it afterwards.                               *)
DeleteCredential(c) ==
    /\ Serving(c) /\ Request(c).op = "removeKey"
    /\ secret' = [secret EXCEPT ![panel[c].prov] = "none"]
    /\ proc' = [proc EXCEPT !["server"] = [@ EXCEPT !.pc = "removing", !.client = c,
                                           !.target = panel[c].prov]]
    /\ UNCHANGED <<file, panel, bound, edits, crashes, faults, mishap, unsaved, spoiled>>

(* When the file cannot be opened now, it goes on naming the provider whose *)
(* key is gone.                                                             *)
FinishDeleteCredential ==
    /\ Server.pc = "removing"
    /\ LET c == Server.cfg
           orphan == c.active = Server.target /\ ~credentialValue(Server.target)
           d == Bumped(IF orphan THEN [c EXCEPT !.active = None] ELSE c)
       IN \/ /\ BeginSave("server", d, Server.client)
             /\ spoiled' = spoiled \ {Server.target}
          \/ /\ OpenFails("server", d, Server.client)
             /\ spoiled' = spoiled \union {Server.target}
    /\ UNCHANGED <<secret, bound, edits, crashes>>

(* The key file cannot be opened or removed: nothing changes. *)
KeyFileFails(c) ==
    /\ Serving(c) /\ Request(c).op \in {"setKey", "removeKey"} /\ faults < MaxFaults
    /\ faults' = faults + 1
    /\ Refused(c)
    /\ UNCHANGED <<file, secret, proc, bound, edits, crashes, mishap, unsaved, spoiled>>

\* Mutant: the new selection is not persisted.
ActivateInMemory(c) ==
    /\ Serving(c) /\ Request(c).op = "activate"
    /\ LET p == panel[c].prov
       IN IF Activatable(p)
          THEN /\ proc' = [proc EXCEPT !["server"].cfg = Patched([@ EXCEPT !.active = p])]
               /\ Answered(c)
          ELSE Refused(c) /\ UNCHANGED proc
    /\ UNCHANGED <<file, secret, bound, edits, crashes, faults, mishap, unsaved, spoiled>>

(* POST /api/providers/:id/activate *)
Activate(c) ==
    /\ Serving(c) /\ Request(c).op = "activate"
    /\ LET p == panel[c].prov
       IN IF Activatable(p)
          THEN Save("server", Patched([Server.cfg EXCEPT !.active = p]), c)
          ELSE Refused(c) /\ UNCHANGED <<file, proc, faults, mishap, unsaved>>
    /\ UNCHANGED <<secret, bound, edits, crashes, spoiled>>

(* POST /api/providers/:id/test: a live provider is built with the typed or *)
(* the stored key and asked; whatever it says, nothing is saved.           *)
TestConnection(c) ==
    /\ Serving(c) /\ Request(c).op = "test"
    /\ panel' = [panel EXCEPT ![c] = Closed]
    /\ UNCHANGED <<file, secret, proc, bound, edits, crashes, faults, mishap, unsaved, spoiled>>

(* POST /api/providers/runtime-config: enable or disable a provider, drop  *)
(* or change the selection.  The target of a selection is tested first.    *)
SaveRuntimeConfigPatch ==
    /\ Server.pc = "up" /\ edits < MaxEdits
    /\ edits' = edits + 1
    /\ \E p \in Providers, e \in BOOLEAN, a \in Providers \cup {None, Server.cfg.active} :
          /\ a \in Providers \ {Server.cfg.active} => Activatable(a)
          /\ Save("server", Patched([Server.cfg EXCEPT !.active = a,
                                     !.settings[p].enabled = e]), "none")
    /\ UNCHANGED <<secret, bound, crashes, spoiled>>

-----------------------------------------------------------------------------
(* The settings panel *)

(* A button is pressed; while one action is under way the others are        *)
(* disabled.  Save & Activate is two or three requests in a row, and the    *)
(* list of providers is fetched again after every change.                  *)
Press(c) ==
    /\ panel[c].todo = <<>> /\ edits < MaxEdits
    /\ edits' = edits + 1
    /\ \E p \in Providers, m \in Models \cup {"invalid"}, typed \in BOOLEAN,
          action \in {"activate", "replace", "remove", "test"} :
         LET up == [op |-> "update", model |-> m]
             req(o) == [op |-> o, model |-> "invalid"]
         IN /\ action = "replace" => typed
            /\ action \in {"remove", "test"} => ~typed
            /\ action = "remove" => resolveCredentialSource(p) = "local-secret-store"
            /\ action # "activate" => m = "invalid"  \* not sent, or saved nowhere
            /\ panel' = [panel EXCEPT ![c] = [prov |-> p, todo |->
                 CASE action = "activate" ->
                        (IF typed THEN <<up, req("setKey")>> ELSE <<up>>)
                           \o <<req("activate"), req("list")>>
                   [] action = "replace" -> <<req("setKey"), req("list")>>
                   [] action = "remove" -> <<req("removeKey"), req("list")>>
                   [] OTHER -> <<req("test")>>]]
    /\ UNCHANGED <<file, secret, proc, bound, crashes, faults, mishap, unsaved, spoiled>>

(* GET /api/providers *)
RefreshAndRender(c) ==
    /\ Serving(c) /\ Request(c).op = "list"
    /\ panel' = [panel EXCEPT ![c] = Closed]
    /\ UNCHANGED <<file, secret, proc, bound, edits, crashes, faults, mishap, unsaved, spoiled>>

(* The server does not answer at all. *)
FetchFails(c) ==
    /\ panel[c].todo # <<>> /\ Server.pc = "down"
    /\ Refused(c)
    /\ UNCHANGED <<file, secret, proc, bound, edits, crashes, faults, mishap, unsaved, spoiled>>

-----------------------------------------------------------------------------
(* Binding a run *)

(* submitRun: the run keeps a copy of the active provider's settings. *)
CaptureForRun(r) ==
    /\ Server.pc = "up" /\ bound[r].state = "new"
    /\ Server.cfg.active # None /\ Server.cfg.settings[Server.cfg.active].enabled
    /\ bound' = [bound EXCEPT ![r] = [@ EXCEPT !.state = "captured",
                    !.id = Server.cfg.active,
                    !.revision = Server.cfg.revision,
                    !.settings = Server.cfg.settings[Server.cfg.active]]]
    /\ UNCHANGED <<file, secret, proc, panel, edits, crashes, faults, mishap, unsaved, spoiled>>

(* The researcher stage in the worker: the captured settings build the     *)
(* provider, the key is read now.                                          *)
ResolveForRun(r) ==
    /\ proc["worker"].pc = "up" /\ bound[r].state = "captured"
    /\ bound' = [bound EXCEPT ![r].state = "resolved", ![r].used = bound[r].settings,
                              ![r].key = credentialValue(bound[r].id)]
    /\ UNCHANGED <<file, secret, proc, panel, edits, crashes, faults, mishap, unsaved, spoiled>>

(* An envelope without settings is refused when this process loaded        *)
(* another revision, or when the provider has been disabled.               *)
ResolveOldEnvelope(r) ==
    /\ proc["worker"].pc = "up" /\ bound[r].state = "old"
    /\ LET now == proc["worker"].cfg
           s == [now.settings[bound[r].id] EXCEPT !.model = bound[r].settings.model]
       IN bound' = [bound EXCEPT ![r] =
              IF now.revision # bound[r].revision \/ ~s.enabled
              THEN [@ EXCEPT !.state = "refused"]
              ELSE [@ EXCEPT !.state = "resolved", !.used = s,
                             !.key = credentialValue(bound[r].id)]]
    /\ UNCHANGED <<file, secret, proc, panel, edits, crashes, faults, mishap, unsaved, spoiled>>

-----------------------------------------------------------------------------
PanelStep(c) ==
    \/ Press(c) \/ Update(c) \/ SetCredential(c) \/ DeleteCredential(c) \/ Activate(c)
    \/ TestConnection(c) \/ RefreshAndRender(c) \/ FetchFails(c) \/ KeyFileFails(c)
ServerStep == FinishSetCredential \/ FinishDeleteCredential \/ KeyWriteFails
ProcStep(p) == FinishSave(p) \/ FailSave(p) \/ StartLoad(p) \/ StartNormalise(p)

ProvNext ==
    \/ \E c \in Panels : PanelStep(c)
    \/ \E p \in Procs : ProcStep(p) \/ CrashProcess(p)
    \/ ServerStep \/ SaveRuntimeConfigPatch
    \/ \E r \in Runs : CaptureForRun(r) \/ ResolveForRun(r) \/ ResolveOldEnvelope(r)

ProvSpec == ProvInit /\ [][ProvNext]_provVars

-----------------------------------------------------------------------------
(* Properties *)

(* Types of the configuration file, the managers, the panels and the runs. *)
ProvTypeOK ==
    /\ file \in [state : {"absent", "torn", "whole"}, cfg : Config]
    /\ secret \in [Providers -> {"none", "torn", "stored"}]
    /\ \A p \in Procs :
          /\ proc[p].pc \in {"down", "loading", "up", "saving", "keying", "removing"}
          /\ proc[p].cfg \in Config
          /\ proc[p].pc # "loading" => proc[p].cfg.active # "google"
    /\ \A c \in Panels : panel[c].prov \in Providers \cup {"none"}
    /\ \A r \in Runs : bound[r].id \in Providers \cup {None}
    /\ spoiled \subseteq Providers

(* A running manager never has a disabled provider selected: neither a     *)
(* patch that disables it, nor a restart on an old, torn or missing file   *)
(* leaves one behind (provider-manager.ts:saveRuntimeConfigPatch).         *)
ActiveEnabled ==
    \A p \in Procs : proc[p].pc \in {"up", "saving", "keying", "removing"} =>
        LET a == proc[p].cfg.active
        IN a = None \/ (a \in Providers /\ proc[p].cfg.settings[a].enabled)

(* The server's selection always has a credential behind it when it can    *)
(* serve a request, except after a crash in the middle of replacing or     *)
(* removing a key, after loading and saving of the two processes           *)
(* overlapped, and for a provider whose key was lost in a request that     *)
(* threw (provider-manager.ts:setCredential, activate).                    *)
ActiveHasCredential ==
    Server.pc = "up" /\ Server.cfg.active \notin {None} \union spoiled /\ ~mishap
        => resolveCredentialSource(Server.cfg.active) # "none"

(* What the user chose survives a restart: when the server is idle and the  *)
(* worker is not starting, the file holds the server's memory, under the   *)
(* same exceptions.  When the last save threw the two differ, but the next *)
(* one that ends well repairs whatever failed saves and the worker's start *)
(* left behind (provider-manager.ts:bumpRevisionAndPersist).               *)
DurableSelection ==
    Server.pc = "up" /\ proc["worker"].pc \in {"up", "down"} /\ ~mishap /\ ~unsaved
        => file = Whole(Server.cfg)

(* The selection the user is told of can be relied on: it is typed, enabled,*)
(* has a credential, and is what the next start will find, through edits   *)
(* from the panel, restarts, crashes and failed writes.                    *)
SelectionHolds == ProvTypeOK /\ ActiveEnabled /\ ActiveHasCredential /\ DurableSelection
=============================================================================
