----------------------- MODULE ProviderConfig_proofs -----------------------
(***************************************************************************)
(* Proofs about the managed provider: what the user selected is enabled,   *)
(* has a credential and survives a restart, for any number of providers,   *)
(* models, panels, runs, edits, crashes and file operations that throw.    *)
(***************************************************************************)
EXTENDS ProviderConfig, SequenceTheorems, TLAPS

Files == [state : {"absent", "torn", "whole"}, cfg : Config]
ProcRecords == [pc : {"down", "loading", "up", "saving", "keying", "removing"}, cfg : Config,
                read : Files, client : Panels \cup {"none", "start"},
                target : Providers \cup {"none"}]
RequestRecords == [op : {"update", "setKey", "removeKey", "activate", "test", "list"},
                   model : AllModels \cup {"invalid"}]
PanelRecords == [todo : Seq(RequestRecords), prov : Providers \cup {"none"}]
BoundRecords == [state : {"new", "old", "captured", "resolved", "refused"},
                 id : Providers \cup {None}, settings : Settings, revision : Nat,
                 used : Settings, key : BOOLEAN]

ProvTypes ==
    /\ file \in Files /\ secret \in [Providers -> {"none", "torn", "stored"}]
    /\ proc \in [Procs -> ProcRecords] /\ panel \in [Panels -> PanelRecords]
    /\ bound \in [Runs -> BoundRecords] /\ mishap \in BOOLEAN
    /\ unsaved \in BOOLEAN /\ spoiled \subseteq Providers

\* The provider a configuration selects, once "google" is normalised: none, or one that
\* is enabled.
Selected(c) == IF c.active = "google" THEN Alias ELSE c.active
Sane(c) == c.active # None => c.settings[Selected(c)].enabled

\* A manager of the server or of the worker.
ManagerOK(p, x) ==
    /\ Sane(x.cfg)
    /\ x.pc # "loading" => x.cfg.active # "google"
    /\ x.pc \in {"keying", "removing"} => p = "server" /\ x.target \in Providers
                                         /\ x.client \in Panels
    /\ p = "worker" => x.client = IF x.pc = "saving" THEN "start" ELSE "none"
    /\ x.pc \in {"down", "loading", "up"} => x.client = "none"
ManagersOK == Sane(file.cfg) /\ \A p \in Procs : ManagerOK(p, proc[p])

\* A panel with requests to send has a provider, and the one being served still has its
\* request.
PanelsOK ==
    /\ \A c \in Panels : panel[c].todo # <<>> => panel[c].prov \in Providers
    /\ Server.client \in Panels => panel[Server.client].todo # <<>>

\* As long as nothing overlapped or was cut short: who loads has read the file as it is,
\* nobody loads or saves beside one who saves, the worker saves beside a running server
\* only after a save of the server threw, and a server that is not saving has its
\* configuration on disk unless its last save threw.
FileAgrees ==
    /\ \A p \in Procs : proc[p].pc = "loading" =>
           proc[p].read = file /\ proc[p].cfg = validateStructural(file)
    /\ \A p \in Procs : proc[p].pc = "saving" =>
           file = Torn /\ \A q \in Procs \ {p} : proc[q].pc \notin {"loading", "saving"}
    /\ proc["worker"].pc = "saving" =>
           Server.pc = "down" \/ (unsaved /\ proc["worker"].cfg.active = None)
    /\ Server.pc \in {"up", "keying", "removing"} =>
           /\ unsaved \/ file = Whole(Server.cfg)
           /\ file.state = "whole" => file.cfg.active # "google"

\* And the selection has a credential or lost it in a request that threw, in memory and
\* on disk, except between the two writes that change a key.
Backed(c, sec, sp) ==
    c.active # None => \/ EnvKey[Selected(c)] # "unset" \/ sec[Selected(c)] = "stored"
                       \/ Selected(c) \in sp
KeyAgrees ==
    /\ Server.pc \in {"up", "saving"} => Backed(Server.cfg, secret, spoiled)
    /\ Server.pc \in {"keying", "removing"} =>
           Backed(Server.cfg, secret, spoiled) \/ Server.cfg.active = Server.target
    /\ proc["worker"].pc = "saving" => Backed(proc["worker"].cfg, secret, spoiled)
    /\ file.state = "whole" =>
           \/ Backed(file.cfg, secret, spoiled)
           \/ Server.pc \in {"keying", "removing"} /\ Selected(file.cfg) = Server.target

\* A run that waits for its provider has one.
BoundOK(b) == b.state \in {"old", "captured"} => b.id # None

ProvInv ==
    /\ ProvTypes /\ ManagersOK /\ PanelsOK
    /\ ~mishap => FileAgrees /\ KeyAgrees
    /\ \A r \in Runs : BoundOK(bound[r])

-----------------------------------------------------------------------------
(* What the operators make of a configuration. *)

LEMMA SeedOK ==
    /\ seedConfig \in Config /\ seedConfig.active = None /\ Sane(seedConfig)
    /\ Absent \in Files /\ Torn \in Files /\ Torn.state = "torn" /\ Torn.cfg = seedConfig
  <1>1. [p \in Providers |-> [enabled |-> TRUE, model |-> DefaultModel]] \in [Providers -> Settings]
    BY DEF Settings, AllModels
  <1>2. seedConfig \in Config /\ seedConfig.active = None
    BY <1>1 DEF seedConfig, Config
  <1> QED
    BY <1>2 DEF Sane, Absent, Torn, Files

LEMMA ConfigFacts ==
    ASSUME NEW c \in Config
    PROVE  /\ c.active \in Providers \cup {None, "google"} /\ c.settings \in [Providers -> Settings]
           /\ c.revision \in Nat
           /\ Selected(c) \in Providers \cup {None}
           /\ c.active # None => Selected(c) \in Providers
           /\ Whole(c) \in Files /\ Whole(c).state = "whole" /\ Whole(c).cfg = c
  BY ProviderAssumption DEF Config, Selected, Whole, Files, None

LEMMA BumpedOK ==
    ASSUME NEW c \in Config
    PROVE  Bumped(c) \in Config /\ Bumped(c).active = c.active /\ Bumped(c).settings = c.settings
  BY DEF Bumped, Config

LEMMA ActiveOK ==
    ASSUME NEW c \in Config, NEW a \in Providers \cup {None, "google"}
    PROVE  /\ [c EXCEPT !.active = a] \in Config /\ [c EXCEPT !.active = a].active = a
           /\ [c EXCEPT !.active = a].settings = c.settings
  BY DEF Config

LEMMA NormalisedOK ==
    ASSUME NEW c \in Config, Sane(c)
    PROVE  /\ Normalised(c) \in Config /\ Normalised(c).active = Selected(c)
           /\ Normalised(c).active # "google" /\ Sane(Normalised(c))
           /\ Selected(Normalised(c)) = Selected(c)
           /\ Normalised(c).active # None <=> c.active # None
  <1>1. Selected(c) \in Providers \cup {None, "google"}
    BY ConfigFacts
  <1>2. Normalised(c) = [c EXCEPT !.active = Selected(c)]
    BY DEF Normalised, Selected
  <1>3. Normalised(c) \in Config /\ Normalised(c).active = Selected(c)
        /\ Normalised(c).settings = c.settings
    BY <1>1, <1>2, ActiveOK
  <1>4. Selected(c) # "google" /\ (Selected(c) # None <=> c.active # None)
    BY ConfigFacts, ProviderAssumption DEF Selected, None
  <1>5. Selected(Normalised(c)) = Selected(c)
    BY <1>3, <1>4 DEF Selected
  <1> QED
    BY <1>3, <1>4, <1>5 DEF Sane

\* Whatever was merged, the selection is enabled or falls back to none.
LEMMA PatchedOK ==
    ASSUME NEW c \in Config, c.active # "google"
    PROVE  /\ Patched(c) \in Config /\ Patched(c).active # "google" /\ Sane(Patched(c))
           /\ Patched(c).active \in {None, c.active}
  <1> DEFINE d == IF c.active # None /\ ~c.settings[c.active].enabled
                  THEN [c EXCEPT !.active = None] ELSE c
  <1>1. d \in Config /\ d.active \in {None, c.active} /\ d.settings = c.settings
        /\ (d.active # None => c.settings[c.active].enabled)
    BY ActiveOK
  <1>2. Patched(c) = Bumped(d)
    BY DEF Patched
  <1> HIDE DEF d
  <1>3. Patched(c) \in Config /\ Patched(c).active = d.active /\ Patched(c).settings = c.settings
    BY <1>1, <1>2, BumpedOK
  <1>4. Patched(c).active # "google"
    BY <1>1, <1>3 DEF None
  <1>5. Sane(Patched(c))
    BY <1>1, <1>3, <1>4 DEF Sane, Selected
  <1> QED
    BY <1>1, <1>3, <1>4, <1>5

LEMMA LoadedOK ==
    ASSUME ProvInv
    PROVE  validateStructural(file) \in Config /\ Sane(validateStructural(file))
  BY SeedOK DEF validateStructural, ProvInv, ProvTypes, ManagersOK, Files

LEMMA ManagerFacts ==
    ASSUME ProvInv, NEW p \in Procs
    PROVE  proc[p] \in ProcRecords /\ ManagerOK(p, proc[p]) /\ proc[p].cfg \in Config
  BY DEF ProvInv, ProvTypes, ManagersOK, ProcRecords

-----------------------------------------------------------------------------
(* The steps. *)

\* The panel of a request that is answered or refused, or a button that is pressed.
LEMMA PanelKeeps ==
    ASSUME ProvInv, NEW c \in Panels, NEW x \in PanelRecords,
           panel' = [panel EXCEPT ![c] = x], x.todo # <<>> => x.prov \in Providers,
           Server.client \notin Panels,
           UNCHANGED <<file, secret, proc, bound, mishap, unsaved, spoiled>>
    PROVE  ProvInv'
  <1>1. ProvTypes'
    BY DEF ProvInv, ProvTypes
  <1>2. \A d \in Panels : panel'[d] = IF d = c THEN x ELSE panel[d]
    BY DEF ProvInv, ProvTypes
  <1>3. PanelsOK'
    BY <1>2, ProviderAssumption DEF ProvInv, PanelsOK, Server
  <1>4. ManagersOK' /\ (~mishap' => FileAgrees' /\ KeyAgrees')
    BY DEF ProvInv, ManagersOK, ManagerOK, FileAgrees, KeyAgrees, Backed, Server
  <1> QED
    BY <1>1, <1>3, <1>4 DEF ProvInv

LEMMA ClosedOK == Closed \in PanelRecords /\ Closed.todo = <<>>
  BY DEF Closed, PanelRecords

LEMMA RefusedKeeps ==
    ASSUME ProvInv, NEW c \in Panels, Refused(c), Server.client \notin Panels,
           UNCHANGED <<file, secret, proc, bound, mishap, unsaved, spoiled>>
    PROVE  ProvInv'
  BY PanelKeeps, ClosedOK DEF Refused

LEMMA ServerFree ==
    ASSUME ProvInv, Server.pc \in {"down", "up"}
    PROVE  Server.client \notin Panels
  BY ProviderAssumption DEF ProvInv, ManagersOK, ManagerOK, Server, Procs

\* writeFileSync opens the file: by the server at any time, by the worker only when it
\* starts.
LEMMA SaveKeeps ==
    ASSUME ProvInv, NEW p \in Procs, NEW c \in Config, NEW client \in Panels \cup {"none", "start"},
           BeginSave(p, c, client), Sane(c), c.active # "google",
           client \in Panels => p = "server" /\ panel[client].todo # <<>>,
           p = "worker" => client = "start" /\ UNCHANGED <<secret, spoiled>>,
           secret' \in [Providers -> {"none", "torn", "stored"}], spoiled' \subseteq Providers,
           ~mishap' => Backed(c, secret', spoiled'),
           p = "worker" /\ ~mishap' => Server.pc = "down" \/ (unsaved /\ c.active = None),
           UNCHANGED bound
    PROVE  ProvInv'
  <1> DEFINE x == [proc[p] EXCEPT !.pc = "saving", !.cfg = c, !.read = Absent, !.client = client]
  <1>1. proc' = [proc EXCEPT ![p] = x] /\ file' = Torn
        /\ mishap' = (mishap \/ \E q \in Procs \ {p} : proc[q].pc \in {"loading", "saving"})
        /\ UNCHANGED <<panel, unsaved>>
    BY DEF BeginSave
  <1>2. x \in ProcRecords /\ x.pc = "saving" /\ x.cfg = c /\ x.client = client
    BY ManagerFacts, SeedOK DEF ProcRecords
  <1> HIDE DEF x
  <1>3. proc' \in [Procs -> ProcRecords] /\ proc'[p] = x
        /\ \A q \in Procs \ {p} : proc'[q] = proc[q]
    BY <1>1, <1>2 DEF ProvInv, ProvTypes
  <1>4. ProvTypes'
    BY <1>1, <1>3, SeedOK DEF ProvInv, ProvTypes
  <1>5. ManagersOK'
    <2>1. ManagerOK(p, x)
      BY <1>2, ProviderAssumption DEF ManagerOK, Procs
    <2>2. \A q \in Procs \ {p} : ManagerOK(q, proc[q])
      BY DEF ProvInv, ManagersOK
    <2>3. Sane(file.cfg)'
      BY <1>1, SeedOK DEF Sane
    <2>4. \A q \in Procs : ManagerOK(q, proc'[q])
      BY <1>3, <2>1, <2>2
    <2> QED
      BY <2>3, <2>4 DEF ManagersOK
  <1>6. PanelsOK'
    <2>1. CASE p = "server"
      BY <1>1, <1>2, <1>3, <2>1 DEF ProvInv, PanelsOK, Server
    <2>2. CASE p = "worker"
      <3>1. Server' = Server
        BY <1>3, <2>2 DEF Server, Procs
      <3> QED
        BY <1>1, <3>1 DEF ProvInv, PanelsOK
    <2> QED
      BY <2>1, <2>2 DEF Procs
  <1>7. ASSUME ~mishap' PROVE FileAgrees' /\ KeyAgrees'
    <2>1. ~mishap /\ \A q \in Procs \ {p} : proc[q].pc \notin {"loading", "saving"}
      BY <1>1, <1>7
    <2>2. file'.state # "whole"
      BY <1>1, SeedOK
    <2>3. CASE p = "server"
      <3>1. Server' = x /\ proc'["worker"] = proc["worker"]
            /\ proc["worker"].pc \notin {"loading", "saving"}
        BY <1>3, <2>1, <2>3 DEF Server, Procs
      <3>2. FileAgrees'
        BY <1>1, <1>2, <1>3, <2>3, <3>1 DEF FileAgrees, Procs, Server
      <3>3. KeyAgrees'
        BY <1>2, <1>7, <2>2, <3>1 DEF KeyAgrees
      <3> QED
        BY <3>2, <3>3
    <2>4. CASE p = "worker"
      <3>1. Server' = Server /\ proc'["worker"] = x /\ Server.pc \notin {"loading", "saving"}
            /\ (Server.pc = "down" \/ (unsaved /\ c.active = None))
        BY <1>3, <1>7, <2>1, <2>4 DEF Server, Procs
      <3>2. FileAgrees'
        BY <1>1, <1>2, <1>3, <2>1, <2>2, <2>4, <3>1 DEF FileAgrees, Procs, Server
      <3>3. KeyAgrees /\ UNCHANGED <<secret, spoiled>>
        BY <2>1, <2>4 DEF ProvInv
      <3>4. KeyAgrees'
        BY <1>2, <1>7, <2>2, <3>1, <3>3 DEF KeyAgrees
      <3> QED
        BY <3>2, <3>4
    <2> QED
      BY <2>3, <2>4 DEF Procs
  <1>8. \A r \in Runs : BoundOK(bound[r])'
    BY DEF ProvInv
  <1> QED
    BY <1>4, <1>5, <1>6, <1>7, <1>8 DEF ProvInv

LEMMA FinishSaveKeeps ==
    ASSUME ProvInv, NEW p \in Procs, FinishSave(p)
    PROVE  ProvInv'
  <1> DEFINE x == [proc[p] EXCEPT !.pc = "up", !.client = "none", !.target = "none"]
  <1>1. /\ proc[p].pc = "saving" /\ proc' = [proc EXCEPT ![p] = x] /\ Answered(proc[p].client)
        /\ file' = Whole(proc[p].cfg) \/ (file.state = "whole" /\ file' = Torn)
        /\ unsaved' = (unsaved /\ p # "server")
        /\ UNCHANGED <<secret, bound, mishap, spoiled>>
    BY DEF FinishSave
  <1>2. proc[p] \in ProcRecords /\ ManagerOK(p, proc[p]) /\ proc[p].cfg \in Config
    BY ManagerFacts
  <1>3. x \in ProcRecords /\ x.pc = "up" /\ x.cfg = proc[p].cfg /\ x.client = "none"
    BY <1>2 DEF ProcRecords
  <1> HIDE DEF x
  <1>4. proc' \in [Procs -> ProcRecords] /\ proc'[p] = x
        /\ \A q \in Procs \ {p} : proc'[q] = proc[q]
    BY <1>1, <1>3 DEF ProvInv, ProvTypes
  <1>5. file' \in Files /\ Sane(file'.cfg)
    <2>1. Whole(proc[p].cfg) \in Files /\ Whole(proc[p].cfg).cfg = proc[p].cfg
      BY <1>2, ConfigFacts
    <2>2. Sane(proc[p].cfg)
      BY <1>2 DEF ManagerOK
    <2> QED
      BY <1>1, <2>1, <2>2, SeedOK
  <1>6. /\ panel' \in [Panels -> PanelRecords]
        /\ \A c \in Panels : panel'[c].todo # <<>> => panel'[c].prov \in Providers
        /\ p = "worker" => panel' = panel
    <2>1. CASE proc[p].client \in Panels
      <3> DEFINE c == proc[p].client
                 t == Tail(panel[c].todo)
                 y == [panel[c] EXCEPT !.todo = t]
      <3>1. panel' = [panel EXCEPT ![c] = y]
        BY <1>1, <2>1 DEF Answered
      <3>2. p = "server"
        BY <1>2, <2>1, ProviderAssumption DEF ManagerOK, Procs
      <3>3. c \in Panels /\ panel[c] \in PanelRecords /\ panel[c].todo # <<>>
            /\ panel[c].prov \in Providers
        BY <2>1, <3>2 DEF ProvInv, ProvTypes, PanelsOK, Server
      <3> HIDE DEF c
      <3>4. t \in Seq(RequestRecords)
        BY <3>3 DEF PanelRecords
      <3> HIDE DEF t
      <3>5. y \in PanelRecords /\ y.prov = panel[c].prov
        BY <3>3, <3>4 DEF PanelRecords
      <3> HIDE DEF y
      <3> QED
        BY <3>1, <3>2, <3>3, <3>5 DEF ProvInv, ProvTypes, PanelsOK
    <2>2. CASE proc[p].client \notin Panels
      <3>1. panel' = panel
        BY <1>1, <2>2 DEF Answered
      <3> QED
        BY <3>1 DEF ProvInv, ProvTypes, PanelsOK
    <2> QED
      BY <2>1, <2>2
  <1>7. ProvTypes'
    BY <1>1, <1>4, <1>5, <1>6 DEF ProvInv, ProvTypes
  <1>8. ManagersOK'
    <2>1. ManagerOK(p, x)
      BY <1>1, <1>2, <1>3 DEF ManagerOK
    <2>2. \A q \in Procs : ManagerOK(q, proc'[q])
      BY <1>4, <2>1 DEF ProvInv, ManagersOK
    <2> QED
      BY <1>5, <2>2 DEF ManagersOK
  <1>9. PanelsOK'
    <2>1. CASE p = "server"
      BY <1>3, <1>4, <1>6, <2>1, ProviderAssumption DEF PanelsOK, Server
    <2>2. CASE p = "worker"
      <3>1. Server' = Server /\ panel' = panel
        BY <1>4, <1>6, <2>2 DEF Server, Procs
      <3> QED
        BY <3>1 DEF ProvInv, PanelsOK
    <2> QED
      BY <2>1, <2>2 DEF Procs
  <1>10. ASSUME ~mishap' PROVE FileAgrees' /\ KeyAgrees'
    <2>1. ~mishap /\ FileAgrees /\ KeyAgrees
      BY <1>1, <1>10 DEF ProvInv
    <2>2. file = Torn /\ \A q \in Procs \ {p} : proc[q].pc \notin {"loading", "saving"}
      BY <1>1, <2>1 DEF FileAgrees
    <2>3. file' = Whole(proc[p].cfg) /\ file'.state = "whole" /\ file'.cfg = proc[p].cfg
      BY <1>1, <1>2, <2>2, SeedOK, ConfigFacts
    <2>4. CASE p = "server"
      <3>1. Server' = x /\ proc'["worker"] = proc["worker"]
            /\ proc["worker"].pc \notin {"loading", "saving"} /\ Server = proc[p]
        BY <1>4, <2>2, <2>4 DEF Server, Procs
      <3>2. FileAgrees'
        <4>1. proc[p].cfg.active # "google"
          BY <1>1, <1>2 DEF ManagerOK
        <4> QED
          BY <1>3, <1>4, <2>3, <2>4, <3>1, <4>1 DEF FileAgrees, Procs
      <3>3. Backed(proc[p].cfg, secret', spoiled')
        BY <1>1, <2>1, <3>1 DEF KeyAgrees, Backed
      <3>4. KeyAgrees'
        BY <1>3, <2>3, <3>1, <3>3 DEF KeyAgrees
      <3> QED
        BY <3>2, <3>4
    <2>5. CASE p = "worker"
      <3>1. Server' = Server /\ proc'["worker"] = x /\ UNCHANGED unsaved
            /\ (Server.pc = "down" \/ unsaved) /\ Server.pc \notin {"loading", "saving"}
            /\ proc[p].cfg.active # "google"
        BY <1>1, <1>2, <1>4, <2>1, <2>2, <2>5 DEF Server, Procs, FileAgrees, ManagerOK, ProvInv, ProvTypes
      <3>2. FileAgrees'
        BY <1>3, <1>4, <2>3, <2>5, <3>1 DEF FileAgrees, Procs, Server
      <3>3. Backed(proc[p].cfg, secret', spoiled')
        BY <1>1, <2>1, <2>5 DEF KeyAgrees, Backed
      <3>4. KeyAgrees'
        BY <1>1, <1>3, <2>1, <2>3, <3>1, <3>3 DEF KeyAgrees
      <3> QED
        BY <3>2, <3>4
    <2> QED
      BY <2>4, <2>5 DEF Procs
  <1>11. \A r \in Runs : BoundOK(bound[r])'
    BY <1>1 DEF ProvInv
  <1> QED
    BY <1>7, <1>8, <1>9, <1>10, <1>11 DEF ProvInv

\* A manager changes, and neither the file nor the secrets nor the panels do.
LEMMA ManagerKeeps ==
    ASSUME ProvInv, NEW p \in Procs, NEW x \in ProcRecords, proc' = [proc EXCEPT ![p] = x],
           ManagerOK(p, x), x.client = "none", mishap' \in BOOLEAN,
           ~mishap' => FileAgrees' /\ KeyAgrees',
           UNCHANGED <<file, secret, panel, bound, unsaved, spoiled>>
    PROVE  ProvInv'
  <1>1. proc' \in [Procs -> ProcRecords] /\ proc'[p] = x
        /\ \A q \in Procs \ {p} : proc'[q] = proc[q]
    BY DEF ProvInv, ProvTypes
  <1>2. ProvTypes'
    BY <1>1 DEF ProvInv, ProvTypes
  <1>3. ManagersOK'
    <2>1. \A q \in Procs : ManagerOK(q, proc'[q])
      BY <1>1 DEF ProvInv, ManagersOK
    <2> QED
      BY <2>1 DEF ProvInv, ManagersOK
  <1>4. PanelsOK'
    <2>1. Server'.client = Server.client \/ Server'.client = "none"
      BY <1>1 DEF Server, Procs
    <2> QED
      BY <2>1, ProviderAssumption DEF ProvInv, PanelsOK
  <1>5. \A r \in Runs : BoundOK(bound[r])'
    BY DEF ProvInv
  <1> QED
    BY <1>2, <1>3, <1>4, <1>5 DEF ProvInv

LEMMA StartLoadKeeps ==
    ASSUME ProvInv, NEW p \in Procs, StartLoad(p)
    PROVE  ProvInv'
  <1> DEFINE x == [Idle EXCEPT !.pc = "loading", !.read = file, !.cfg = validateStructural(file)]
  <1>1. /\ proc[p].pc = "down" /\ proc' = [proc EXCEPT ![p] = x]
        /\ mishap' = (mishap \/ \E q \in Procs : proc[q].pc = "saving")
        /\ UNCHANGED <<file, secret, panel, bound, unsaved, spoiled>>
    BY DEF StartLoad
  <1>2. validateStructural(file) \in Config /\ Sane(validateStructural(file)) /\ file \in Files
    BY LoadedOK DEF ProvInv, ProvTypes
  <1>3. x \in ProcRecords /\ x.pc = "loading" /\ x.client = "none" /\ x.read = file
        /\ x.cfg = validateStructural(file)
    BY <1>2, SeedOK DEF ProcRecords, Idle
  <1> HIDE DEF x
  <1>4. ManagerOK(p, x)
    BY <1>2, <1>3 DEF ManagerOK
  <1>5. proc'[p] = x /\ \A q \in Procs \ {p} : proc'[q] = proc[q]
    BY <1>1, <1>3 DEF ProvInv, ProvTypes
  <1>6. ASSUME ~mishap' PROVE FileAgrees' /\ KeyAgrees'
    <2>1. FileAgrees /\ KeyAgrees /\ \A q \in Procs : proc[q].pc # "saving"
      BY <1>1, <1>6 DEF ProvInv
    <2>2. validateStructural(file)' = validateStructural(file)
      BY <1>1
    <2>3. \A q \in Procs : proc'[q].pc # "saving"
      BY <1>3, <1>5, <2>1
    <2>4. Server'.pc \in {"up", "keying", "removing", "saving"} => Server' = Server
      BY <1>3, <1>5 DEF Server, Procs
    <2>5. Server'.pc \in {"keying", "removing"} <=> Server.pc \in {"keying", "removing"}
      BY <1>1, <1>3, <1>5 DEF Server, Procs
    <2>6. FileAgrees'
      BY <1>1, <1>3, <1>5, <2>1, <2>2, <2>3, <2>4 DEF FileAgrees, Procs
    <2>7. KeyAgrees'
      BY <1>1, <2>1, <2>3, <2>4, <2>5 DEF KeyAgrees, Backed, Procs
    <2> QED
      BY <2>6, <2>7
  <1>7. mishap' \in BOOLEAN
    BY <1>1
  <1> QED
    BY <1>1, <1>3, <1>4, <1>6, <1>7, ManagerKeeps

\* A request that failed ends what its panel had planned.
LEMMA RefusedPanel ==
    ASSUME ProvInv, NEW k, Refused(k)
    PROVE  /\ panel' \in [Panels -> PanelRecords]
           /\ \A c \in Panels : panel'[c].todo # <<>> => panel'[c].prov \in Providers
           /\ k \notin Panels => panel' = panel
  <1>1. CASE k \in Panels
    BY <1>1, ClosedOK DEF Refused, ProvInv, ProvTypes, PanelsOK
  <1>2. CASE k \notin Panels
    BY <1>2 DEF Refused, ProvInv, ProvTypes, PanelsOK
  <1> QED
    BY <1>1, <1>2

\* A process is gone: it died, or its constructor threw.
LEMMA DownKeeps ==
    ASSUME ProvInv, NEW p \in Procs, NEW k, Refused(k), p = "worker" => k \notin Panels,
           proc' = [proc EXCEPT ![p] = Down],
           mishap' \in BOOLEAN, ~mishap' => ~mishap /\ proc[p].pc \notin {"removing", "keying"},
           unsaved' \in BOOLEAN, p = "worker" => UNCHANGED unsaved,
           UNCHANGED <<file, secret, bound, spoiled>>
    PROVE  ProvInv'
  <1>1. Down \in ProcRecords /\ Down.pc = "down" /\ Down.client = "none" /\ Down.cfg = seedConfig
    BY SeedOK DEF Down, Idle, ProcRecords
  <1>2. proc' \in [Procs -> ProcRecords] /\ proc'[p] = Down
        /\ \A q \in Procs \ {p} : proc'[q] = proc[q]
    BY <1>1 DEF ProvInv, ProvTypes
  <1>3. /\ panel' \in [Panels -> PanelRecords]
        /\ \A c \in Panels : panel'[c].todo # <<>> => panel'[c].prov \in Providers
        /\ p = "worker" => panel' = panel
    BY RefusedPanel
  <1>4. ProvTypes'
    BY <1>2, <1>3 DEF ProvInv, ProvTypes
  <1>5. ManagersOK'
    <2>1. ManagerOK(p, Down)
      BY <1>1, SeedOK DEF ManagerOK, None
    <2>2. \A q \in Procs : ManagerOK(q, proc'[q])
      BY <1>2, <2>1 DEF ProvInv, ManagersOK
    <2> QED
      BY <2>2 DEF ProvInv, ManagersOK
  <1>6. PanelsOK'
    <2>1. CASE p = "server"
      BY <1>1, <1>2, <1>3, <2>1, ProviderAssumption DEF PanelsOK, Server
    <2>2. CASE p = "worker"
      <3>1. Server' = Server /\ panel' = panel
        BY <1>2, <1>3, <2>2 DEF Server, Procs
      <3> QED
        BY <3>1 DEF ProvInv, PanelsOK
    <2> QED
      BY <2>1, <2>2 DEF Procs
  <1>7. ASSUME ~mishap' PROVE FileAgrees' /\ KeyAgrees'
    <2>1. FileAgrees /\ KeyAgrees /\ proc[p].pc \notin {"removing", "keying"}
      BY <1>7 DEF ProvInv
    <2>2. validateStructural(file)' = validateStructural(file)
      OBVIOUS
    <2>3. CASE p = "server"
      <3>1. Server' = Down /\ proc'["worker"] = proc["worker"] /\ Server = proc[p]
        BY <1>2, <2>3 DEF Server, Procs
      <3>2. FileAgrees'
        BY <1>1, <1>2, <2>1, <2>2, <2>3, <3>1 DEF FileAgrees, Procs
      <3>3. KeyAgrees'
        BY <1>1, <2>1, <3>1 DEF KeyAgrees, Backed
      <3> QED
        BY <3>2, <3>3
    <2>4. CASE p = "worker"
      <3>1. Server' = Server /\ proc'["worker"] = Down
        BY <1>2, <2>4 DEF Server, Procs
      <3>2. FileAgrees'
        BY <1>1, <1>2, <2>1, <2>2, <2>4, <3>1 DEF FileAgrees, Procs
      <3>3. KeyAgrees'
        BY <1>1, <2>1, <3>1 DEF KeyAgrees, Backed
      <3> QED
        BY <3>2, <3>3
    <2> QED
      BY <2>3, <2>4 DEF Procs
  <1>8. \A r \in Runs : BoundOK(bound[r])'
    BY DEF ProvInv
  <1> QED
    BY <1>4, <1>5, <1>6, <1>7, <1>8 DEF ProvInv

\* A request of the server threw: what it had changed in memory stays, and the file keeps
\* what it had or stays torn.
LEMMA ServerThrowKeeps ==
    ASSUME ProvInv, Server.pc \in {"up", "keying", "removing", "saving"},
           NEW c \in Config, NEW k, Refused(k),
           proc' = [proc EXCEPT !["server"] = [Server EXCEPT !.pc = "up", !.cfg = c,
                                                             !.client = "none", !.target = "none"]],
           Sane(c), c.active # "google",
           UNCHANGED <<file, bound, mishap>>, secret' \in [Providers -> {"none", "torn", "stored"}],
           spoiled' \subseteq Providers, unsaved' \in BOOLEAN, unsaved => unsaved',
           ~mishap => unsaved' \/ file = Whole(c),
           ~mishap => Backed(c, secret', spoiled'),
           ~mishap /\ file.state = "whole" => Backed(file.cfg, secret', spoiled')
    PROVE  ProvInv'
  <1> DEFINE x == [Server EXCEPT !.pc = "up", !.cfg = c, !.client = "none", !.target = "none"]
  <1>1. "server" \in Procs /\ Server = proc["server"]
    BY DEF Server, Procs
  <1>2. x \in ProcRecords /\ x.pc = "up" /\ x.cfg = c /\ x.client = "none"
    BY <1>1, ManagerFacts DEF ProcRecords
  <1>3. proc' = [proc EXCEPT !["server"] = x]
    OBVIOUS
  <1> HIDE DEF x
  <1>4. proc' \in [Procs -> ProcRecords] /\ Server' = x /\ proc'["worker"] = proc["worker"]
    BY <1>2, <1>3 DEF ProvInv, ProvTypes, Server, Procs
  <1>5. /\ panel' \in [Panels -> PanelRecords]
        /\ \A d \in Panels : panel'[d].todo # <<>> => panel'[d].prov \in Providers
    BY RefusedPanel
  <1>7. ProvTypes'
    BY <1>4, <1>5 DEF ProvInv, ProvTypes
  <1>8. ManagersOK'
    <2>1. ManagerOK("server", x)
      BY <1>2 DEF ManagerOK
    <2>2. ManagerOK("worker", proc["worker"])
      BY DEF ProvInv, ManagersOK, Procs
    <2> QED
      BY <1>4, <2>1, <2>2 DEF ProvInv, ManagersOK, Procs, Server
  <1>9. PanelsOK'
    BY <1>2, <1>4, <1>5, ProviderAssumption DEF PanelsOK
  <1>10. ASSUME ~mishap' PROVE FileAgrees' /\ KeyAgrees'
    <2>1. ~mishap /\ FileAgrees /\ KeyAgrees
      BY <1>10 DEF ProvInv
    <2>2. validateStructural(file)' = validateStructural(file)
      OBVIOUS
    <2>3. file.state = "whole" => file.cfg.active # "google"
      BY <1>1, <2>1, SeedOK DEF FileAgrees
    <2>4. proc["worker"].pc = "saving" => unsaved /\ proc["worker"].cfg.active = None
      BY <2>1 DEF FileAgrees
    <2>5. proc["worker"].pc \in {"loading", "saving"} => Server.pc # "saving"
      BY <1>1, <2>1 DEF FileAgrees, Procs
    <2>6. FileAgrees'
      BY <1>1, <1>2, <1>4, <2>1, <2>2, <2>3, <2>4, <2>5 DEF FileAgrees, Procs, Server
    <2>7. KeyAgrees'
      BY <1>2, <1>4, <2>1, <2>4 DEF KeyAgrees, Backed
    <2> QED
      BY <2>6, <2>7
  <1>11. \A r \in Runs : BoundOK(bound[r])'
    BY DEF ProvInv
  <1> QED
    BY <1>7, <1>8, <1>9, <1>10, <1>11 DEF ProvInv

LEMMA CrashKeeps ==
    ASSUME ProvInv, NEW p \in Procs, CrashProcess(p)
    PROVE  ProvInv'
  <1>1. /\ Refused(proc[p].client) /\ proc' = [proc EXCEPT ![p] = Down]
        /\ mishap' = (mishap \/ proc[p].pc \in {"removing", "keying"}
                             \/ (p = "worker" /\ proc[p].pc = "saving"))
        /\ unsaved' = (unsaved /\ p # "server")
        /\ UNCHANGED <<file, secret, bound, spoiled>>
    BY DEF CrashProcess
  <1>2. p = "worker" => proc[p].client \notin Panels
    <2>1. ManagerOK(p, proc[p])
      BY ManagerFacts
    <2> QED
      BY <2>1, ProviderAssumption DEF ManagerOK
  <1>3. mishap \in BOOLEAN /\ unsaved \in BOOLEAN
    BY DEF ProvInv, ProvTypes
  <1>4. mishap' \in BOOLEAN /\ unsaved' \in BOOLEAN /\ (p = "worker" => UNCHANGED unsaved)
    BY <1>1, <1>3
  <1>5. ~mishap' => ~mishap /\ proc[p].pc \notin {"removing", "keying"}
    BY <1>1
  <1> DEFINE k == proc[p].client
  <1>6. Refused(k) /\ (p = "worker" => k \notin Panels)
    BY <1>1, <1>2
  <1> HIDE DEF k
  <1> QED
    BY <1>1, <1>4, <1>5, <1>6, DownKeeps

\* A constructor whose save throws takes its process down.
LEMMA StartThrowKeeps ==
    ASSUME ProvInv, NEW p \in Procs, NEW c, SaveThrows(p, c, "start"),
           proc[p].pc \in {"loading", "saving"}, mishap' \in BOOLEAN, ~mishap' => ~mishap,
           UNCHANGED <<secret, bound, spoiled>>
    PROVE  ProvInv'
  <1>1. /\ proc' = [proc EXCEPT ![p] = Down] /\ Refused("start") /\ UNCHANGED file
        /\ unsaved' = unsaved
    BY DEF SaveThrows, Failed, ProvInv, ProvTypes
  <1>2. "start" \notin Panels /\ unsaved' \in BOOLEAN
    BY <1>1, ProviderAssumption DEF ProvInv, ProvTypes
  <1> DEFINE k == "start"
  <1>3. Refused(k) /\ k \notin Panels
    BY <1>1, <1>2
  <1> HIDE DEF k
  <1> QED
    BY <1>1, <1>2, <1>3, DownKeeps

LEMMA FailSaveKeeps ==
    ASSUME ProvInv, NEW p \in Procs, FailSave(p)
    PROVE  ProvInv'
  <1> DEFINE k == proc[p].client
             c == proc[p].cfg
  <1>1. /\ proc[p].pc = "saving" /\ SaveThrows(p, c, k)
        /\ mishap' = (mishap \/ p = "worker") /\ UNCHANGED <<secret, bound, spoiled>>
    BY DEF FailSave
  <1>2. proc[p] \in ProcRecords /\ ManagerOK(p, proc[p]) /\ c \in Config
    BY ManagerFacts
  <1>3. Sane(c) /\ c.active # "google"
    BY <1>1, <1>2 DEF ManagerOK
  <1>4. mishap \in BOOLEAN /\ unsaved \in BOOLEAN /\ mishap' \in BOOLEAN
    BY <1>1 DEF ProvInv, ProvTypes
  <1>5. CASE k = "start"
    BY <1>1, <1>4, <1>5, StartThrowKeeps
  <1>6. CASE k # "start" /\ p = "server"
    <2>1. Server = proc[p] /\ Server.pc = "saving" /\ UNCHANGED mishap
      BY <1>1, <1>4, <1>6 DEF Server
    <2>2. /\ proc' = [proc EXCEPT !["server"] = [Server EXCEPT !.pc = "up", !.cfg = c,
                                                    !.client = "none", !.target = "none"]]
          /\ Refused(k) /\ UNCHANGED file /\ unsaved'
      BY <1>1, <1>6, <2>1 DEF SaveThrows, Failed
    <2>3. ~mishap => Backed(c, secret', spoiled') /\ file.state # "whole"
      <3>1. ~mishap => Backed(c, secret, spoiled) /\ file = Torn
        BY <1>1, <1>6, <2>1 DEF ProvInv, KeyAgrees, FileAgrees
      <3> QED
        BY <1>1, <3>1, SeedOK DEF Backed
    <2>4. spoiled \subseteq Providers /\ unsaved' \in BOOLEAN
          /\ secret \in [Providers -> {"none", "torn", "stored"}]
      BY <2>2, <1>1, <1>4 DEF ProvInv, ProvTypes, SaveThrows
    <2> HIDE DEF k, c
    <2> QED
      BY <1>1, <1>2, <1>3, <2>1, <2>2, <2>3, <2>4, ServerThrowKeeps
  <1>7. CASE k # "start" /\ p = "worker"
    BY <1>1, <1>2, <1>7 DEF ManagerOK
  <1> QED
    BY <1>5, <1>6, <1>7 DEF Procs

LEMMA NormaliseKeeps ==
    ASSUME ProvInv, NEW p \in Procs, StartNormalise(p)
    PROVE  ProvInv'
  <1> DEFINE c == Normalised(proc[p].cfg)
             seeded == proc[p].read.state # "whole"
             changed == c.active # proc[p].cfg.active
             d == IF changed THEN Bumped(c) ELSE c
             x == [proc[p] EXCEPT !.pc = "up", !.read = Absent]
  <1>1. /\ proc[p].pc = "loading" /\ UNCHANGED <<secret, bound, spoiled>>
        /\ IF seeded \/ changed THEN Save(p, d, "start")
           ELSE proc' = [proc EXCEPT ![p] = x] /\ UNCHANGED <<file, panel, mishap, unsaved>>
    BY DEF StartNormalise
  <1>2. proc[p] \in ProcRecords /\ proc[p].cfg \in Config /\ Sane(proc[p].cfg)
        /\ proc[p].client = "none"
    <2>1. ManagerOK(p, proc[p])
      BY ManagerFacts
    <2>2. Sane(proc[p].cfg) /\ proc[p].client = "none"
      BY <1>1, <2>1 DEF ManagerOK
    <2> QED
      BY <2>2, ManagerFacts
  <1>3. c \in Config /\ c.active = Selected(proc[p].cfg) /\ c.active # "google" /\ Sane(c)
        /\ Selected(c) = Selected(proc[p].cfg) /\ (c.active # None <=> proc[p].cfg.active # None)
    BY <1>2, NormalisedOK
  <1> HIDE DEF c
  <1>4. d \in Config /\ d.active = c.active /\ d.settings = c.settings
    BY <1>3, BumpedOK
  <1> HIDE DEF d
  <1>5. Sane(d) /\ Selected(d) = Selected(c)
    BY <1>3, <1>4 DEF Sane, Selected
  <1>6. ASSUME ~mishap
        PROVE  /\ proc[p].read = file /\ proc[p].cfg = validateStructural(file)
               /\ FileAgrees /\ KeyAgrees
    BY <1>1, <1>6 DEF ProvInv, FileAgrees
  <1>7. CASE (seeded \/ changed) /\ BeginSave(p, d, "start")
    <2>1. BeginSave(p, d, "start")
      BY <1>7
    <2>2. ASSUME ~mishap'
          PROVE  ~mishap /\ (p = "worker" => Server.pc = "down" \/ (unsaved /\ d.active = None))
      <3>1. ~mishap /\ \A q \in Procs \ {p} : proc[q].pc \notin {"loading", "saving"}
        BY <2>1, <2>2 DEF BeginSave
      <3>2. ASSUME p = "worker", Server.pc # "down" PROVE unsaved /\ d.active = None
        <4>1. Server.pc \notin {"loading", "saving"}
          BY <3>1, <3>2 DEF Server, Procs
        <4>2. Server.pc \in {"down", "loading", "up", "saving", "keying", "removing"}
          BY ManagerFacts DEF Server, Procs, ProcRecords
        <4>3. Server.pc \in {"up", "keying", "removing"}
          BY <3>2, <4>1, <4>2
        <4>4. unsaved \/ file = Whole(Server.cfg)
          BY <1>6, <3>1, <4>3 DEF FileAgrees
        <4>5. file.state = "whole" => file.cfg.active # "google"
          BY <1>6, <3>1, <4>3 DEF FileAgrees
        <4>6. CASE file.state = "whole"
          <5>1. proc[p].cfg = file.cfg /\ ~seeded
            BY <1>6, <3>1, <4>6 DEF validateStructural
          <5>2. c.active = proc[p].cfg.active
            BY <1>3, <4>5, <4>6, <5>1 DEF Selected
          <5> QED
            BY <1>7, <5>1, <5>2
        <4>7. CASE file.state # "whole"
          <5>1. proc[p].cfg.active = None
            BY <1>6, <3>1, <4>7, SeedOK DEF validateStructural
          <5>2. Server.cfg \in Config
            BY ManagerFacts DEF Server, Procs
          <5> QED
            BY <1>3, <1>4, <4>4, <4>7, <5>1, <5>2, ConfigFacts
        <4> QED
          BY <4>6, <4>7
      <3> QED
        BY <3>1, <3>2
    <2>3. ASSUME ~mishap' PROVE Backed(d, secret', spoiled')
      <3>1. KeyAgrees /\ proc[p].cfg = validateStructural(file)
        BY <1>6, <2>2, <2>3
      <3>2. CASE file.state # "whole" \/ d.active = None
        BY <1>3, <1>4, <3>1, <3>2, SeedOK DEF validateStructural, Backed
      <3>3. CASE file.state = "whole" /\ d.active # None
        <4>1. p = "server" \/ Server.pc = "down"
          BY <2>2, <2>3, <3>3 DEF Procs
        <4>2. Server.pc \notin {"keying", "removing"}
          BY <1>1, <4>1 DEF Server
        <4>3. Backed(proc[p].cfg, secret, spoiled)
          BY <3>1, <3>3, <4>2 DEF KeyAgrees, validateStructural
        <4> QED
          BY <1>1, <1>3, <1>4, <1>5, <4>3 DEF Backed
      <3> QED
        BY <3>2, <3>3
    <2>4. secret' \in [Providers -> {"none", "torn", "stored"}] /\ spoiled' \subseteq Providers
      BY <1>1 DEF ProvInv, ProvTypes
    <2> DEFINE k == "start"
    <2>5. BeginSave(p, d, k) /\ k \notin Panels /\ k \in Panels \cup {"none", "start"}
          /\ (p = "worker" => k = "start")
      BY <2>1, ProviderAssumption
    <2> HIDE DEF k
    <2> QED
      BY <1>1, <1>3, <1>4, <1>5, <2>2, <2>3, <2>4, <2>5, SaveKeeps
  <1>9. CASE (seeded \/ changed) /\ OpenFails(p, d, "start")
    <2>1. SaveThrows(p, d, "start") /\ UNCHANGED mishap /\ mishap' \in BOOLEAN
      BY <1>9 DEF OpenFails, ProvInv, ProvTypes
    <2> QED
      BY <1>1, <2>1, StartThrowKeeps
  <1>8. CASE ~(seeded \/ changed)
    <2>1. proc' = [proc EXCEPT ![p] = x]
          /\ UNCHANGED <<file, mishap, secret, panel, bound, unsaved, spoiled>>
      BY <1>1, <1>8
    <2>2. x \in ProcRecords /\ x.pc = "up" /\ x.cfg = proc[p].cfg /\ x.client = "none"
      BY <1>2, SeedOK DEF ProcRecords
    <2> HIDE DEF x
    <2>3. ManagerOK(p, x)
      BY <1>2, <1>3, <1>8, <2>2 DEF ManagerOK
    <2>4. proc'[p] = x /\ \A q \in Procs \ {p} : proc'[q] = proc[q]
      BY <2>1, <2>2 DEF ProvInv, ProvTypes
    <2>5. ASSUME ~mishap' PROVE FileAgrees' /\ KeyAgrees'
      <3>1. ~mishap /\ FileAgrees /\ KeyAgrees
        BY <1>6, <2>1, <2>5
      <3>2. file.state = "whole" /\ proc[p].cfg = file.cfg
        BY <1>6, <1>8, <3>1 DEF validateStructural
      <3>3. file = Whole(proc[p].cfg)
        <4>1. file \in Files
          BY DEF ProvInv, ProvTypes
        <4> QED
          BY <3>2, <4>1 DEF Files, Whole
      <3>4. validateStructural(file)' = validateStructural(file)
        BY <2>1
      <3>5. CASE p = "server"
        <4>1. Server' = x /\ proc'["worker"] = proc["worker"] /\ Server = proc[p]
          BY <2>4, <3>5 DEF Server, Procs
        <4>2. proc["worker"].pc # "saving"
          BY <1>1, <3>1, <3>5 DEF FileAgrees, Procs
        <4>3. FileAgrees'
          BY <1>8, <1>3, <2>1, <2>2, <2>4, <3>1, <3>2, <3>3, <3>4, <3>5, <4>1, <4>2
             DEF FileAgrees, Procs
        <4>4. Backed(x.cfg, secret, spoiled)
          BY <1>1, <2>2, <3>1, <3>2, <4>1 DEF KeyAgrees
        <4>5. KeyAgrees'
          BY <2>1, <2>2, <3>2, <4>1, <4>2, <4>4 DEF KeyAgrees, Backed
        <4> QED
          BY <4>3, <4>5
      <3>6. CASE p = "worker"
        <4>1. Server' = Server /\ proc'["worker"] = x
          BY <2>4, <3>6 DEF Server, Procs
        <4>2. FileAgrees'
          BY <1>1, <2>1, <2>2, <2>4, <3>1, <3>4, <3>6, <4>1 DEF FileAgrees, Procs, Server
        <4>3. KeyAgrees'
          BY <2>1, <2>2, <3>1, <4>1 DEF KeyAgrees, Backed
        <4> QED
          BY <4>2, <4>3
      <3> QED
        BY <3>5, <3>6 DEF Procs
    <2>6. mishap' \in BOOLEAN
      BY <2>1 DEF ProvInv, ProvTypes
    <2> QED
      BY <2>1, <2>2, <2>3, <2>5, <2>6, ManagerKeeps
  <1> QED
    BY <1>1, <1>7, <1>8, <1>9 DEF Save

\* The facts a request to a server that is up begins from.
LEMMA ServingFacts ==
    ASSUME ProvInv, Server.pc = "up"
    PROVE  /\ Server \in ProcRecords /\ Server.cfg \in Config /\ Sane(Server.cfg)
           /\ Server.cfg.active # "google" /\ Server.client = "none"
           /\ \A c \in Panels : panel[c].todo # <<>> => panel[c].prov \in Providers
           /\ ~mishap => FileAgrees /\ KeyAgrees /\ Backed(Server.cfg, secret, spoiled)
           /\ Server = proc["server"] /\ "server" \in Procs
           /\ secret \in [Providers -> {"none", "torn", "stored"}]
  <1>1. "server" \in Procs /\ Server = proc["server"]
    BY DEF Server, Procs
  <1>2. Server \in ProcRecords /\ ManagerOK("server", Server) /\ Server.cfg \in Config
    BY <1>1, ManagerFacts
  <1>3. Sane(Server.cfg) /\ Server.cfg.active # "google" /\ Server.client = "none"
    BY <1>2 DEF ManagerOK
  <1>4. ~mishap => FileAgrees /\ KeyAgrees /\ Backed(Server.cfg, secret, spoiled)
    BY DEF ProvInv, KeyAgrees
  <1> QED
    BY <1>1, <1>2, <1>3, <1>4 DEF ProvInv, ProvTypes, PanelsOK

\* A save of the server whose file cannot be opened.
LEMMA OpenFailsKeeps ==
    ASSUME ProvInv, Server.pc \in {"up", "keying", "removing"}, NEW c \in Config,
           NEW k \in Panels \cup {"none"}, OpenFails("server", c, k), Sane(c), c.active # "google",
           secret' \in [Providers -> {"none", "torn", "stored"}], spoiled' \subseteq Providers,
           ~mishap => Backed(c, secret', spoiled'),
           ~mishap /\ file.state = "whole" => Backed(file.cfg, secret', spoiled'),
           UNCHANGED bound
    PROVE  ProvInv'
  <1>1. k # "start"
    BY ProviderAssumption
  <1>2. /\ proc' = [proc EXCEPT !["server"] = [Server EXCEPT !.pc = "up", !.cfg = c,
                                                    !.client = "none", !.target = "none"]]
        /\ Refused(k) /\ UNCHANGED <<file, mishap>> /\ unsaved' = TRUE
    BY <1>1 DEF OpenFails, SaveThrows, Failed, Server, ProvInv, ProvTypes
  <1> QED
    BY <1>2, ServerThrowKeeps

\* A patch keeps or drops the selection, or selects a provider that has a credential.
LEMMA PatchKeeps ==
    ASSUME ProvInv, Server.pc = "up", NEW d \in Config, d.active # "google",
           NEW client \in Panels \cup {"none"}, client \in Panels => panel[client].todo # <<>>,
           Save("server", Patched(d), client),
           \/ d.active \in {None, Server.cfg.active}
           \/ d.active \in Providers /\ Activatable(d.active),
           UNCHANGED <<secret, bound, spoiled>>
    PROVE  ProvInv'
  <1> DEFINE c == Patched(d)
  <1>1. c \in Config /\ c.active # "google" /\ Sane(c) /\ c.active \in {None, d.active}
    BY PatchedOK
  <1>2. Save("server", c, client)
    OBVIOUS
  <1> HIDE DEF c
  <1>3. ASSUME ~mishap PROVE Backed(c, secret', spoiled')
    <2>2. Backed(Server.cfg, secret, spoiled) /\ Server.cfg.active # "google"
      BY <1>3, ServingFacts
    <2>3. CASE c.active \in {None, Server.cfg.active}
      BY <1>1, <2>2, <2>3 DEF Backed, Selected
    <2>4. CASE c.active = d.active /\ d.active \in Providers /\ Activatable(d.active)
      <3>1. EnvKey[d.active] # "unset" \/ secret[d.active] = "stored"
        BY <2>4 DEF Activatable, resolveCredentialSource, HasStoredKey
      <3> QED
        BY <1>1, <2>4, <3>1 DEF Backed, Selected
    <2> QED
      BY <1>1, <2>3, <2>4
  <1>4. "server" \in Procs /\ secret' \in [Providers -> {"none", "torn", "stored"}]
        /\ spoiled' \subseteq Providers
    BY ServingFacts DEF ProvInv, ProvTypes
  <1>5. CASE BeginSave("server", c, client)
    <2>1. ~mishap' => ~mishap
      BY <1>5 DEF BeginSave
    <2> QED
      BY <1>1, <1>3, <1>4, <1>5, <2>1, SaveKeeps
  <1>6. CASE OpenFails("server", c, client)
    <2>1. ~mishap /\ file.state = "whole" => Backed(file.cfg, secret', spoiled')
      BY ServingFacts DEF KeyAgrees, Backed
    <2> QED
      BY <1>1, <1>3, <1>4, <1>6, <2>1, OpenFailsKeeps
  <1> QED
    BY <1>2, <1>5, <1>6 DEF Save

LEMMA UpdateKeeps ==
    ASSUME ProvInv, NEW c \in Panels, Update(c)
    PROVE  ProvInv'
  <1>1. Server.pc = "up" /\ panel[c].todo # <<>> /\ UNCHANGED <<secret, bound, spoiled>>
    BY DEF Update, Serving
  <1>2. CASE Request(c).model \in AllModels
    <2> DEFINE d == [Server.cfg EXCEPT !.settings[panel[c].prov].model = Request(c).model]
    <2>1. Save("server", Patched(d), c)
      BY <1>2 DEF Update, Updated
    <2>2. panel[c].prov \in Providers /\ Server.cfg \in Config /\ Server.cfg.active # "google"
      BY <1>1, ServingFacts
    <2>3. d \in Config /\ d.active = Server.cfg.active
      <3> DEFINE st == [Server.cfg.settings EXCEPT ![panel[c].prov].model = Request(c).model]
      <3>1. st \in [Providers -> Settings]
        BY <1>2, <2>2 DEF Config, Settings
      <3>2. d = [Server.cfg EXCEPT !.settings = st]
        BY <2>2 DEF Config
      <3> HIDE DEF st, d
      <3> QED
        BY <2>2, <3>1, <3>2 DEF Config
    <2> HIDE DEF d
    <2> QED
      BY <1>1, <2>1, <2>2, <2>3, PatchKeeps
  <1>3. CASE Request(c).model \notin AllModels
    <2>1. Refused(c) /\ UNCHANGED <<file, proc, mishap, unsaved>>
      BY <1>3 DEF Update
    <2> QED
      BY <1>1, <2>1, RefusedKeeps, ServerFree
  <1> QED
    BY <1>2, <1>3

LEMMA ActivateKeeps ==
    ASSUME ProvInv, NEW c \in Panels, Activate(c)
    PROVE  ProvInv'
  <1> DEFINE p == panel[c].prov
             d == [Server.cfg EXCEPT !.active = p]
  <1>1. Server.pc = "up" /\ panel[c].todo # <<>> /\ UNCHANGED <<secret, bound, spoiled>>
    BY DEF Activate, Serving
  <1>2. p \in Providers /\ Server.cfg \in Config
    BY <1>1, ServingFacts
  <1>3. d \in Config /\ d.active = p /\ p # "google"
    BY <1>2, ActiveOK, ProviderAssumption
  <1>4. CASE Activatable(p)
    <2>1. Save("server", Patched(d), c)
      BY <1>4 DEF Activate
    <2> HIDE DEF d, p
    <2> QED
      BY <1>1, <1>2, <1>3, <1>4, <2>1, PatchKeeps
  <1>5. CASE ~Activatable(p)
    <2>1. Refused(c) /\ UNCHANGED <<file, proc, mishap, unsaved>>
      BY <1>5 DEF Activate
    <2> QED
      BY <1>1, <2>1, RefusedKeeps, ServerFree
  <1> QED
    BY <1>4, <1>5

LEMMA RuntimeConfigKeeps ==
    ASSUME ProvInv, SaveRuntimeConfigPatch
    PROVE  ProvInv'
  <1>1. Server.pc = "up" /\ UNCHANGED <<secret, bound, spoiled>>
    BY DEF SaveRuntimeConfigPatch
  <1>2. PICK p \in Providers, e \in BOOLEAN, a \in Providers \cup {None, Server.cfg.active} :
            /\ a \in Providers \ {Server.cfg.active} => Activatable(a)
            /\ Save("server", Patched([Server.cfg EXCEPT !.active = a,
                                       !.settings[p].enabled = e]), "none")
    BY DEF SaveRuntimeConfigPatch
  <1> DEFINE d == [Server.cfg EXCEPT !.active = a, !.settings[p].enabled = e]
  <1>3. Server.cfg \in Config /\ Server.cfg.active # "google"
    BY <1>1, ServingFacts
  <1>4. a # "google" /\ a \in Providers \cup {None, "google"}
    BY <1>3, ProviderAssumption DEF Config, None
  <1>5. d \in Config /\ d.active = a
    <2> DEFINE st == [Server.cfg.settings EXCEPT ![p].enabled = e]
    <2>1. st \in [Providers -> Settings]
      BY <1>3 DEF Config, Settings
    <2>2. d = [Server.cfg EXCEPT !.active = a, !.settings = st]
      BY <1>3 DEF Config
    <2> HIDE DEF st, d
    <2> QED
      BY <1>3, <1>4, <2>1, <2>2 DEF Config
  <1>6. Save("server", Patched(d), "none")
    BY <1>2
  <1> HIDE DEF d
  <1> QED
    BY <1>1, <1>2, <1>4, <1>5, <1>6, PatchKeeps, ProviderAssumption

\* The secret file is rewritten or removed first.
LEMMA KeyChangeKeeps ==
    ASSUME ProvInv, NEW c \in Panels, SetCredential(c) \/ DeleteCredential(c)
    PROVE  ProvInv'
  <1> DEFINE t == panel[c].prov
  <1>1. PICK pc \in {"keying", "removing"}, st \in {"torn", "none"} :
            /\ secret' = [secret EXCEPT ![t] = st]
            /\ proc' = [proc EXCEPT !["server"] = [@ EXCEPT !.pc = pc, !.client = c, !.target = t]]
    BY DEF SetCredential, DeleteCredential
  <1>2. Server.pc = "up" /\ panel[c].todo # <<>> /\ UNCHANGED <<file, panel, bound, mishap, unsaved, spoiled>>
    BY DEF SetCredential, DeleteCredential, Serving
  <1>3. t \in Providers /\ Server \in ProcRecords /\ Sane(Server.cfg)
        /\ Server.cfg.active # "google" /\ Server = proc["server"]
        /\ secret \in [Providers -> {"none", "torn", "stored"}]
    BY <1>2, ServingFacts
  <1> HIDE DEF t
  <1> DEFINE x == [Server EXCEPT !.pc = pc, !.client = c, !.target = t]
  <1>4. proc' = [proc EXCEPT !["server"] = x]
    BY <1>1 DEF Server
  <1>5. x \in ProcRecords /\ x.pc = pc /\ x.client = c /\ x.target = t /\ x.cfg = Server.cfg
    BY <1>3 DEF ProcRecords
  <1> HIDE DEF x
  <1>6. proc' \in [Procs -> ProcRecords] /\ Server' = x /\ proc'["worker"] = proc["worker"]
    BY <1>4, <1>5 DEF ProvInv, ProvTypes, Server, Procs
  <1>7. secret' \in [Providers -> {"none", "torn", "stored"}]
        /\ \A a \in Providers : a # t => secret'[a] = secret[a]
    BY <1>1, <1>3
  <1>8. ProvTypes'
    BY <1>2, <1>6, <1>7 DEF ProvInv, ProvTypes
  <1>9. ManagersOK'
    <2>1. ManagerOK("server", x)
      BY <1>3, <1>5 DEF ManagerOK
    <2>2. ManagerOK("worker", proc["worker"])
      BY DEF ProvInv, ManagersOK, Procs
    <2> QED
      BY <1>2, <1>6, <2>1, <2>2 DEF ProvInv, ManagersOK, Procs, Server
  <1>10. PanelsOK'
    BY <1>2, <1>5, <1>6 DEF ProvInv, PanelsOK
  <1>11. ASSUME ~mishap' PROVE FileAgrees' /\ KeyAgrees'
    <2>1. FileAgrees /\ KeyAgrees /\ Backed(Server.cfg, secret, spoiled)
      BY <1>2, <1>11, ServingFacts
    <2>2. proc["worker"].pc = "saving" => proc["worker"].cfg.active = None
      BY <1>2, <2>1 DEF FileAgrees
    <2>3. validateStructural(file)' = validateStructural(file)
      BY <1>2
    <2>4. Server'.pc \in {"keying", "removing"} /\ Server'.cfg = Server.cfg
      BY <1>5, <1>6
    <2>5. FileAgrees'
      BY <1>2, <1>6, <2>1, <2>2, <2>3, <2>4 DEF FileAgrees, Procs, Server
    <2>6. Backed(Server.cfg, secret', spoiled') \/ Server.cfg.active = t
      <3>1. Server.cfg \in Config
        BY <1>2, ServingFacts
      <3>2. Selected(Server.cfg) = Server.cfg.active
        BY <1>3 DEF Selected
      <3>3. Server.cfg.active # None => Server.cfg.active \in Providers
        BY <3>1, <3>2, ConfigFacts
      <3> QED
        BY <1>2, <1>7, <2>1, <3>2, <3>3 DEF Backed
    <2>8. file.state = "whole" => Backed(file.cfg, secret', spoiled') \/ Selected(file.cfg) = t
      <3> SUFFICES ASSUME file.state = "whole", file.cfg.active # None, Selected(file.cfg) # t
                   PROVE  Backed(file.cfg, secret', spoiled')
        BY DEF Backed
      <3>1. file.cfg \in Config
        BY DEF ProvInv, ProvTypes, Files
      <3>2. Selected(file.cfg) \in Providers
        BY <3>1, ConfigFacts
      <3>3. Backed(file.cfg, secret, spoiled)
        BY <1>2, <2>1 DEF KeyAgrees
      <3> QED
        BY <1>2, <1>7, <3>2, <3>3 DEF Backed
    <2>7. KeyAgrees'
      BY <1>2, <1>5, <1>6, <2>2, <2>4, <2>6, <2>8 DEF KeyAgrees, Backed
    <2> QED
      BY <2>5, <2>7
  <1>12. \A r \in Runs : BoundOK(bound[r])'
    BY <1>2 DEF ProvInv
  <1> QED
    BY <1>8, <1>9, <1>10, <1>11, <1>12 DEF ProvInv

\* ... and the configuration that depends on it follows.
LEMMA KeyChangedKeeps ==
    ASSUME ProvInv, FinishSetCredential \/ FinishDeleteCredential \/ KeyWriteFails
    PROVE  ProvInv'
  <1> DEFINE t == Server.target
             c == Server.cfg
             k == Server.client
  <1>1. Server.pc \in {"keying", "removing"} /\ UNCHANGED bound
    BY DEF FinishSetCredential, FinishDeleteCredential, KeyWriteFails
  <1>2. "server" \in Procs /\ Server = proc["server"]
    BY DEF Server, Procs
  <1>3. c \in Config /\ ManagerOK("server", Server) /\ Server \in ProcRecords
    BY <1>2, ManagerFacts
  <1>4. Sane(c) /\ c.active # "google" /\ t \in Providers /\ k \in Panels
    BY <1>1, <1>3 DEF ManagerOK, ProcRecords
  <1>5. k \in Panels => panel[k].todo # <<>>
    BY DEF ProvInv, PanelsOK
  <1>6. ~mishap => Backed(c, secret, spoiled) \/ c.active = t
    BY <1>1 DEF ProvInv, KeyAgrees
  <1>11. ~mishap /\ file.state = "whole" => Backed(file.cfg, secret, spoiled) \/ Selected(file.cfg) = t
    BY <1>1 DEF ProvInv, KeyAgrees
  <1>12. spoiled \subseteq Providers /\ file.cfg \in Config
    BY DEF ProvInv, ProvTypes, Files
  <1>13. Selected(file.cfg) \in Providers \cup {None}
    BY <1>12, ConfigFacts
  <1>7. secret \in [Providers -> {"none", "torn", "stored"}]
    BY DEF ProvInv, ProvTypes
  <1>8. Selected(c) = c.active /\ (c.active # None => c.active \in Providers)
    BY <1>3, <1>4, ConfigFacts DEF Selected
  <1>9. CASE FinishSetCredential
    <2>1. secret' = [secret EXCEPT ![t] = "stored"] /\ Save("server", Bumped(c), k)
          /\ spoiled' = spoiled \ {t}
      BY <1>9 DEF FinishSetCredential
    <2>2. Bumped(c) \in Config /\ Bumped(c).active = c.active /\ Bumped(c).settings = c.settings
      BY <1>3, BumpedOK
    <2>3. Sane(Bumped(c)) /\ Selected(Bumped(c)) = c.active
      BY <1>4, <2>2 DEF Sane, Selected
    <2>4. secret' \in [Providers -> {"none", "torn", "stored"}] /\ secret'[t] = "stored"
          /\ \A a \in Providers : a # t => secret'[a] = secret[a]
      BY <1>4, <1>7, <2>1
    <2> HIDE DEF t, c, k
    <2>5. ASSUME ~mishap PROVE Backed(Bumped(c), secret', spoiled')
      BY <1>6, <1>8, <2>1, <2>2, <2>3, <2>4, <2>5 DEF Backed
    <2>6. ~mishap /\ file.state = "whole" => Backed(file.cfg, secret', spoiled')
      BY <1>11, <1>13, <2>1, <2>4, ProviderAssumption DEF Backed, None
    <2>7. spoiled' \subseteq Providers /\ k \in Panels \cup {"none", "start"}
      BY <1>4, <1>12, <2>1
    <2>8. CASE BeginSave("server", Bumped(c), k)
      <3>1. ~mishap' => ~mishap
        BY <2>8 DEF BeginSave
      <3> QED
        BY <1>1, <1>2, <1>4, <1>5, <2>2, <2>3, <2>4, <2>5, <2>7, <2>8, <3>1, SaveKeeps
    <2>9. CASE OpenFails("server", Bumped(c), k)
      BY <1>1, <1>4, <2>2, <2>3, <2>4, <2>5, <2>6, <2>7, <2>9, OpenFailsKeeps
    <2> QED
      BY <2>1, <2>8, <2>9 DEF Save
  <1>10. CASE FinishDeleteCredential
    <2> DEFINE orphan == c.active = t /\ ~credentialValue(t)
               d == IF orphan THEN [c EXCEPT !.active = None] ELSE c
               b == Bumped(d)
    <2>1. secret' = secret
          /\ \/ BeginSave("server", b, k) /\ spoiled' = spoiled \ {t}
             \/ OpenFails("server", b, k) /\ spoiled' = spoiled \union {t}
      BY <1>10 DEF FinishDeleteCredential
    <2>2. d \in Config /\ d.settings = c.settings
          /\ (d.active = None \/ (d.active = c.active /\ ~orphan))
      BY <1>3, ActiveOK
    <2> HIDE DEF d
    <2>3. b \in Config /\ b.active = d.active /\ b.settings = d.settings
      BY <2>2, BumpedOK
    <2> HIDE DEF b, t, c, k
    <2>4. Sane(b) /\ b.active # "google" /\ Selected(b) = b.active
      BY <1>4, <1>8, <2>2, <2>3 DEF Sane, Selected, None
    <2>5. ASSUME ~mishap PROVE Backed(b, secret', spoiled')
      <3>1. Backed(c, secret, spoiled) \/ c.active = t
        BY <1>6, <2>5
      <3>2. c.active = t /\ ~orphan => EnvKey[t] = "set" \/ secret[t] = "stored"
        BY DEF credentialValue, HasStoredKey
      <3> QED
        BY <1>8, <2>1, <2>2, <2>3, <2>4, <3>1, <3>2 DEF Backed
    <2>6. spoiled' \subseteq Providers /\ k \in Panels \cup {"none", "start"}
          /\ secret' \in [Providers -> {"none", "torn", "stored"}]
      BY <1>4, <1>7, <1>12, <2>1
    <2>7. CASE BeginSave("server", b, k)
      <3>1. ~mishap' => ~mishap
        BY <2>7 DEF BeginSave
      <3> QED
        BY <1>1, <1>2, <1>4, <1>5, <2>3, <2>4, <2>5, <2>6, <2>7, <3>1, SaveKeeps
    <2>8. CASE OpenFails("server", b, k) /\ spoiled' = spoiled \union {t}
      <3>1. ~mishap /\ file.state = "whole" => Backed(file.cfg, secret', spoiled')
        BY <1>11, <2>1, <2>8 DEF Backed
      <3> QED
        BY <1>1, <1>4, <2>3, <2>4, <2>5, <2>6, <2>8, <3>1, OpenFailsKeeps
    <2> QED
      BY <2>1, <2>7, <2>8
  <1>14. CASE KeyWriteFails
    <2>1. /\ Refused(k) /\ spoiled' = spoiled \union {t}
          /\ UNCHANGED <<file, secret, bound, mishap, unsaved>>
          /\ proc' = [proc EXCEPT !["server"] = [Server EXCEPT !.pc = "up", !.client = "none",
                                                              !.target = "none"]]
      BY <1>2, <1>14 DEF KeyWriteFails
    <2>2. [Server EXCEPT !.pc = "up", !.client = "none", !.target = "none"]
            = [Server EXCEPT !.pc = "up", !.cfg = c, !.client = "none", !.target = "none"]
      BY <1>3 DEF ProcRecords
    <2>3. ~mishap => unsaved \/ file = Whole(c)
      BY <1>1 DEF ProvInv, FileAgrees
    <2>4. unsaved \in BOOLEAN /\ secret \in [Providers -> {"none", "torn", "stored"}]
      BY DEF ProvInv, ProvTypes
    <2>5. proc' = [proc EXCEPT !["server"] = [Server EXCEPT !.pc = "up", !.cfg = c,
                                                    !.client = "none", !.target = "none"]]
      BY <2>1, <2>2
    <2> HIDE DEF t, c, k
    <2>6. ~mishap => Backed(c, secret', spoiled')
      BY <1>6, <1>8, <2>1 DEF Backed
    <2>7. ~mishap /\ file.state = "whole" => Backed(file.cfg, secret', spoiled')
      BY <1>11, <2>1 DEF Backed
    <2>8. spoiled' \subseteq Providers
      BY <1>4, <1>12, <2>1
    <2> QED
      BY <1>1, <1>3, <1>4, <2>1, <2>3, <2>4, <2>5, <2>6, <2>7, <2>8, ServerThrowKeeps
  <1> QED
    BY <1>9, <1>10, <1>14

LEMMA PanelStepsKeep ==
    ASSUME ProvInv, NEW c \in Panels,
           Press(c) \/ TestConnection(c) \/ RefreshAndRender(c) \/ FetchFails(c) \/ KeyFileFails(c)
    PROVE  ProvInv'
  <1>1. CASE TestConnection(c) \/ RefreshAndRender(c) \/ FetchFails(c) \/ KeyFileFails(c)
    <2>1. Server.pc \in {"down", "up"} /\ UNCHANGED <<file, secret, proc, bound, mishap, unsaved, spoiled>>
      BY <1>1 DEF TestConnection, RefreshAndRender, FetchFails, KeyFileFails, Serving
    <2>2. panel' = [panel EXCEPT ![c] = Closed]
      BY <1>1 DEF TestConnection, RefreshAndRender, FetchFails, KeyFileFails, Refused, Serving
    <2> QED
      BY <2>1, <2>2, ClosedOK, ServerFree, PanelKeeps
  <1>2. CASE Press(c)
    <2>1. panel[c].todo = <<>> /\ UNCHANGED <<file, secret, proc, bound, mishap, unsaved, spoiled>>
      BY <1>2 DEF Press
    <2> DEFINE up(m) == [op |-> "update", model |-> m]
               req(o) == [op |-> o, model |-> "invalid"]
               plan(action, typed, m) ==
                   CASE action = "activate" ->
                          (IF typed THEN <<up(m), req("setKey")>> ELSE <<up(m)>>)
                             \o <<req("activate"), req("list")>>
                     [] action = "replace" -> <<req("setKey"), req("list")>>
                     [] action = "remove" -> <<req("removeKey"), req("list")>>
                     [] OTHER -> <<req("test")>>
    <2>2. PICK p \in Providers, m \in Models \cup {"invalid"}, typed \in BOOLEAN,
               action \in {"activate", "replace", "remove", "test"} :
              panel' = [panel EXCEPT ![c] = [prov |-> p, todo |-> plan(action, typed, m)]]
      BY <1>2 DEF Press
    <2>3. up(m) \in RequestRecords
      BY DEF RequestRecords, AllModels
    <2>4. \A o \in {"setKey", "removeKey", "activate", "test", "list"} : req(o) \in RequestRecords
      BY DEF RequestRecords
    <2> HIDE DEF up, req
    <2>5. plan(action, typed, m) \in Seq(RequestRecords)
      <3>1. <<req("activate"), req("list")>> \in Seq(RequestRecords)
            /\ <<up(m), req("setKey")>> \in Seq(RequestRecords) /\ <<up(m)>> \in Seq(RequestRecords)
            /\ <<req("setKey"), req("list")>> \in Seq(RequestRecords)
            /\ <<req("removeKey"), req("list")>> \in Seq(RequestRecords)
            /\ <<req("test")>> \in Seq(RequestRecords)
        BY <2>3, <2>4
      <3>2. \A s \in {<<up(m), req("setKey")>>, <<up(m)>>} :
                s \o <<req("activate"), req("list")>> \in Seq(RequestRecords)
        BY <3>1, ConcatProperties
      <3> QED
        BY <3>1, <3>2
    <2> DEFINE t == plan(action, typed, m)
               x == [prov |-> p, todo |-> t]
    <2>6. panel' = [panel EXCEPT ![c] = x]
      BY <2>2
    <2>7. t \in Seq(RequestRecords)
      BY <2>5
    <2> HIDE DEF t
    <2>8. x \in PanelRecords /\ x.prov = p
      BY <2>7 DEF PanelRecords
    <2> HIDE DEF x
    <2>9. CASE Server.client \notin Panels
      BY <2>1, <2>6, <2>8, <2>9, PanelKeeps
    <2>10. CASE Server.client \in Panels
      <3>1. Server.client # c
        BY <2>1, <2>10 DEF ProvInv, PanelsOK
      <3>2. \A d \in Panels : panel'[d] = IF d = c THEN x ELSE panel[d]
        BY <2>6 DEF ProvInv, ProvTypes
      <3>3. ProvTypes'
        BY <2>1, <2>6, <2>8 DEF ProvInv, ProvTypes
      <3>4. PanelsOK'
        BY <2>1, <2>8, <2>10, <3>1, <3>2 DEF ProvInv, PanelsOK, Server
      <3>5. ManagersOK' /\ (~mishap' => FileAgrees' /\ KeyAgrees')
        BY <2>1 DEF ProvInv, ManagersOK, ManagerOK, FileAgrees, KeyAgrees, Backed, Server
      <3>6. \A r \in Runs : BoundOK(bound[r])'
        BY <2>1 DEF ProvInv
      <3> QED
        BY <3>3, <3>4, <3>5, <3>6 DEF ProvInv
    <2> QED
      BY <2>9, <2>10
  <1> QED
    BY <1>1, <1>2

\* A run is bound.
LEMMA BindKeeps ==
    ASSUME ProvInv, NEW r \in Runs, NEW b \in BoundRecords, BoundOK(b),
           bound' = [bound EXCEPT ![r] = b],
           UNCHANGED <<file, secret, proc, panel, mishap, unsaved, spoiled>>
    PROVE  ProvInv'
  <1>1. bound' \in [Runs -> BoundRecords] /\ \A q \in Runs : bound'[q] = IF q = r THEN b ELSE bound[q]
    BY DEF ProvInv, ProvTypes
  <1>2. ProvTypes'
    BY <1>1 DEF ProvInv, ProvTypes
  <1>3. ManagersOK' /\ PanelsOK' /\ (~mishap' => FileAgrees' /\ KeyAgrees')
    BY DEF ProvInv, ManagersOK, ManagerOK, PanelsOK, FileAgrees, KeyAgrees, Backed, Server
  <1>4. \A q \in Runs : BoundOK(bound[q])'
    <2>1. \A q \in Runs : BoundOK(bound'[q])
      BY <1>1 DEF ProvInv
    <2> QED
      BY <2>1
  <1> QED
    BY <1>2, <1>3, <1>4 DEF ProvInv

LEMMA BoundFacts ==
    ASSUME ProvInv, NEW r \in Runs
    PROVE  /\ bound[r] \in BoundRecords /\ BoundOK(bound[r])
           /\ bound[r].settings \in Settings /\ bound[r].id \in Providers \cup {None}
           /\ credentialValue(bound[r].id) \in BOOLEAN
  BY DEF ProvInv, ProvTypes, BoundRecords, credentialValue

LEMMA CaptureKeeps ==
    ASSUME ProvInv, NEW r \in Runs, CaptureForRun(r)
    PROVE  ProvInv'
  <1> DEFINE c == Server.cfg
             st == c.settings[c.active]
             b == [bound[r] EXCEPT !.state = "captured", !.id = c.active,
                                   !.revision = c.revision, !.settings = st]
  <1>1. /\ Server.pc = "up" /\ c.active # None /\ bound' = [bound EXCEPT ![r] = b]
        /\ UNCHANGED <<file, secret, proc, panel, mishap, unsaved, spoiled>>
    BY DEF CaptureForRun
  <1>2. c \in Config /\ c.active # "google"
    BY <1>1, ServingFacts
  <1> HIDE DEF c
  <1>3. c.active \in Providers /\ c.revision \in Nat /\ st \in Settings
    BY <1>1, <1>2, ConfigFacts
  <1> HIDE DEF st
  <1>4. b \in BoundRecords /\ b.state = "captured" /\ b.id = c.active
    BY <1>3, BoundFacts DEF BoundRecords
  <1> HIDE DEF b
  <1>5. BoundOK(b)
    BY <1>1, <1>4 DEF BoundOK
  <1> QED
    BY <1>1, <1>4, <1>5, BindKeeps

LEMMA ResolveKeeps ==
    ASSUME ProvInv, NEW r \in Runs, ResolveForRun(r) \/ ResolveOldEnvelope(r)
    PROVE  ProvInv'
  <1> DEFINE k == credentialValue(bound[r].id)
  <1>0. UNCHANGED <<file, secret, proc, panel, mishap, unsaved, spoiled>>
    BY DEF ResolveForRun, ResolveOldEnvelope
  <1>1. bound[r] \in BoundRecords /\ BoundOK(bound[r]) /\ bound[r].settings \in Settings
        /\ bound[r].id \in Providers \cup {None} /\ k \in BOOLEAN
    BY BoundFacts
  <1> HIDE DEF k
  <1>2. ASSUME NEW u \in Settings,
               bound' = [bound EXCEPT ![r] = [bound[r] EXCEPT !.state = "resolved", !.used = u, !.key = k]]
        PROVE  ProvInv'
    <2> DEFINE b == [bound[r] EXCEPT !.state = "resolved", !.used = u, !.key = k]
    <2>1. b \in BoundRecords /\ b.state = "resolved"
      BY <1>1, <1>2 DEF BoundRecords
    <2>2. bound' = [bound EXCEPT ![r] = b]
      BY <1>2
    <2> HIDE DEF b
    <2>3. BoundOK(b)
      BY <2>1 DEF BoundOK
    <2> QED
      BY <1>0, <2>1, <2>2, <2>3, BindKeeps
  <1>3. CASE ResolveForRun(r)
    <2>1. bound' = [bound EXCEPT ![r] = [bound[r] EXCEPT !.state = "resolved",
                                             !.used = bound[r].settings, !.key = k]]
      BY <1>3 DEF ResolveForRun, k
    <2> QED
      BY <1>1, <1>2, <2>1
  <1>4. CASE ResolveOldEnvelope(r)
    <2> DEFINE now == proc["worker"].cfg
               s == [now.settings[bound[r].id] EXCEPT !.model = bound[r].settings.model]
    <2>1. bound[r].id # None
      BY <1>1, <1>4 DEF ResolveOldEnvelope, BoundOK
    <2>2. now \in Config
      BY ManagerFacts DEF Procs
    <2>3. now.settings[bound[r].id] \in Settings
      BY <1>1, <2>1, <2>2, ConfigFacts
    <2>4. s \in Settings
      BY <1>1, <2>3 DEF Settings
    <2>5. CASE now.revision # bound[r].revision \/ ~s.enabled
      <3> DEFINE b == [bound[r] EXCEPT !.state = "refused"]
      <3>1. bound' = [bound EXCEPT ![r] = b]
        BY <1>4, <2>5 DEF ResolveOldEnvelope
      <3>2. b \in BoundRecords /\ b.state = "refused"
        BY <1>1 DEF BoundRecords
      <3> HIDE DEF b
      <3>3. BoundOK(b)
        BY <3>2 DEF BoundOK
      <3> QED
        BY <1>0, <3>1, <3>2, <3>3, BindKeeps
    <2>6. CASE ~(now.revision # bound[r].revision \/ ~s.enabled)
      <3>1. bound' = [bound EXCEPT ![r] = [bound[r] EXCEPT !.state = "resolved", !.used = s, !.key = k]]
        BY <1>4, <2>6 DEF ResolveOldEnvelope, k
      <3> HIDE DEF s
      <3> QED
        BY <1>2, <2>4, <3>1
    <2> QED
      BY <2>5, <2>6
  <1> QED
    BY <1>3, <1>4

-----------------------------------------------------------------------------
LEMMA ProvInduction == ProvSpec => []ProvInv
  <1>1. ProvInit => ProvInv
    <2> SUFFICES ASSUME ProvInit PROVE ProvInv
      OBVIOUS
    <2> DEFINE g == [seedConfig EXCEPT !.active = "google"]
    <2>1. g \in Config /\ g.active = "google" /\ g.settings = seedConfig.settings
      BY SeedOK, ActiveOK
    <2>2. seedConfig.settings[Alias].enabled
      BY ProviderAssumption DEF seedConfig
    <2>3. Sane(g) /\ Selected(g) = Alias
      BY <2>1, <2>2 DEF Sane, Selected
    <2>4. file = Absent \/ file = Whole(g)
      BY DEF ProvInit
    <2> HIDE DEF g
    <2>5. file \in Files /\ Sane(file.cfg)
      BY <2>1, <2>3, <2>4, SeedOK, ConfigFacts DEF Absent
    <2>6. Down \in ProcRecords /\ Down.pc = "down" /\ Down.client = "none" /\ Down.cfg = seedConfig
      BY SeedOK DEF Down, Idle, ProcRecords
    <2>7. \A p \in Procs : proc[p] = Down
      BY DEF ProvInit
    <2>8. Unbound \in BoundRecords /\ OldEnvelope \in BoundRecords
          /\ BoundOK(Unbound) /\ BoundOK(OldEnvelope)
      <3>1. NoSettings \in Settings /\ [enabled |-> TRUE, model |-> DefaultModel] \in Settings
        BY DEF NoSettings, Settings, AllModels
      <3>2. Unbound \in BoundRecords /\ BoundOK(Unbound)
        BY <3>1 DEF Unbound, BoundRecords, BoundOK
      <3>3. OldEnvelope \in BoundRecords /\ OldEnvelope.state = "old" /\ OldEnvelope.id = Alias
        BY <3>1, ProviderAssumption DEF OldEnvelope, Unbound, BoundRecords
      <3> QED
        BY <3>2, <3>3, ProviderAssumption DEF BoundOK, None
    <2>9. bound \in [Runs -> {Unbound, OldEnvelope}]
      BY DEF ProvInit
    <2>10. ProvTypes
      BY <2>5, <2>6, <2>8, <2>9, ClosedOK DEF ProvInit, ProvTypes
    <2>11. ManagersOK
      <3>1. \A p \in Procs : ManagerOK(p, Down)
        BY <2>6, SeedOK DEF ManagerOK, None
      <3> QED
        BY <2>5, <2>7, <3>1 DEF ManagersOK
    <2>12. PanelsOK
      BY <2>6, <2>7, ClosedOK, ProviderAssumption DEF ProvInit, PanelsOK, Server, Procs
    <2>13. FileAgrees
      BY <2>6, <2>7 DEF FileAgrees, Server, Procs
    <2>14. KeyAgrees
      <3>1. file.state = "whole" => Backed(file.cfg, secret, spoiled)
        <4>1. CASE file = Absent
          BY <4>1 DEF Absent
        <4>2. CASE file = Whole(g)
          <5>1. file # Absent
            BY <2>1, <4>2, ConfigFacts DEF Absent
          <5>2. EnvKey[Alias] # "unset" \/ secret[Alias] = "stored"
            BY <5>1 DEF ProvInit
          <5> QED
            BY <2>1, <2>3, <4>2, <5>2, ConfigFacts DEF Backed
        <4> QED
          BY <2>4, <4>1, <4>2
      <3> QED
        BY <2>6, <2>7, <3>1 DEF KeyAgrees, Server, Procs
    <2>15. \A r \in Runs : BoundOK(bound[r])
      BY <2>8, <2>9
    <2> QED
      BY <2>10, <2>11, <2>12, <2>13, <2>14, <2>15 DEF ProvInv
  <1>2. ProvInv /\ [ProvNext]_provVars => ProvInv'
    <2> SUFFICES ASSUME ProvInv, [ProvNext]_provVars PROVE ProvInv'
      OBVIOUS
    <2>1. ASSUME NEW c \in Panels, PanelStep(c) PROVE ProvInv'
      BY <2>1, PanelStepsKeep, UpdateKeeps, KeyChangeKeeps, ActivateKeeps DEF PanelStep
    <2>2. ASSUME NEW p \in Procs, ProcStep(p) \/ CrashProcess(p) PROVE ProvInv'
      BY <2>2, FinishSaveKeeps, FailSaveKeeps, StartLoadKeeps, NormaliseKeeps, CrashKeeps DEF ProcStep
    <2>3. ASSUME NEW r \in Runs, CaptureForRun(r) \/ ResolveForRun(r) \/ ResolveOldEnvelope(r)
          PROVE  ProvInv'
      BY <2>3, CaptureKeeps, ResolveKeeps
    <2>4. CASE UNCHANGED provVars
      <3>1. UNCHANGED <<file, secret, proc, panel, bound, mishap, unsaved, spoiled>>
        BY <2>4 DEF provVars
      <3>2. ProvTypes' /\ ManagersOK' /\ PanelsOK'
        BY <3>1 DEF ProvInv, ProvTypes, ManagersOK, ManagerOK, PanelsOK, Server
      <3>3. ~mishap' => FileAgrees' /\ KeyAgrees'
        BY <3>1 DEF ProvInv, FileAgrees, KeyAgrees, Backed, Server
      <3>4. \A r \in Runs : BoundOK(bound[r])'
        BY <3>1 DEF ProvInv
      <3> QED
        BY <3>2, <3>3, <3>4 DEF ProvInv
    <2> QED
      BY <2>1, <2>2, <2>3, <2>4, KeyChangedKeeps, RuntimeConfigKeeps DEF ProvNext, ServerStep
  <1> QED
    BY <1>1, <1>2, PTL DEF ProvSpec

\* Through edits from any number of panels, restarts, crashes and file operations that
\* throw, a running manager has no disabled provider selected; and unless a crash cut the
\* change of a key or the two processes loaded and saved at once, the server's selection
\* has a credential, but for a provider whose key was lost in a request that threw, and
\* once a save has ended well it is what the next start will find (provider-manager.ts,
\* provider-secret-store.ts).
THEOREM Selection == ProvSpec => []SelectionHolds
  <1>1. ProvInv => SelectionHolds
    <2> SUFFICES ASSUME ProvInv PROVE SelectionHolds
      OBVIOUS
    <2>1. ASSUME NEW p \in Procs
          PROVE  /\ proc[p] \in ProcRecords /\ proc[p].cfg \in Config /\ Sane(proc[p].cfg)
                 /\ proc[p].pc # "loading" => proc[p].cfg.active # "google"
      BY ManagerFacts DEF ManagerOK
    <2>2. ProvTypeOK
      BY <2>1 DEF ProvTypeOK, ProvInv, ProvTypes, ProcRecords, PanelRecords, BoundRecords, Files
    <2>3. ActiveEnabled
      <3> SUFFICES ASSUME NEW p \in Procs, proc[p].pc \in {"up", "saving", "keying", "removing"},
                          proc[p].cfg.active # None
                   PROVE  /\ proc[p].cfg.active \in Providers
                          /\ proc[p].cfg.settings[proc[p].cfg.active].enabled
        BY DEF ActiveEnabled
      <3>1. Selected(proc[p].cfg) = proc[p].cfg.active
        BY <2>1 DEF Selected
      <3> QED
        BY <2>1, <3>1, ConfigFacts DEF Sane
    <2>4. Server = proc["server"] /\ "server" \in Procs
      BY DEF Server, Procs
    <2>5. ActiveHasCredential
      <3> SUFFICES ASSUME Server.pc = "up", Server.cfg.active \notin {None} \union spoiled, ~mishap
                   PROVE  resolveCredentialSource(Server.cfg.active) # "none"
        BY DEF ActiveHasCredential
      <3>1. Selected(Server.cfg) = Server.cfg.active
        BY <2>1, <2>4 DEF Selected
      <3>2. Backed(Server.cfg, secret, spoiled)
        BY DEF ProvInv, KeyAgrees
      <3> QED
        BY <3>1, <3>2 DEF Backed, resolveCredentialSource, HasStoredKey
    <2>6. DurableSelection
      BY DEF ProvInv, FileAgrees, DurableSelection
    <2> QED
      BY <2>2, <2>3, <2>5, <2>6 DEF SelectionHolds
  <1> QED
    BY <1>1, ProvInduction, PTL
=============================================================================
