------------------------------- MODULE Launch -------------------------------
(***************************************************************************)
(* Starting and stopping the system.  A launch is one of the scripts that  *)
(* start it: "oneshot" (scripts/oneshot.mjs), "judge" (scripts/judge.mjs), *)
(* "demo" (app/bootstrap/demo.mjs), "bootstrap" (scripts/bootstrap/, which *)
(* prepares and starts no server) or "start" (npm start: the server        *)
(* alone).  A script works on one tree of files, starts a backend          *)
(* (backend/index.ts) as its child, and asks whoever holds the port        *)
(* whether it is healthy.  Scripts, backends and a worker process meet     *)
(* through the files, the port and Redis.  What a command prints, and the  *)
(* versions it compares, are left out: a command works or fails.           *)
(***************************************************************************)
EXTENDS Naturals

CONSTANTS Launches,      \* the launches, positive numbers
          Environments,  \* environment variables and installed programs
          LaunchFaults,  \* bound on commands that fail, crashes, changes of Redis or the source
          MaxSource      \* bound on versions of the source

ASSUME LaunchAssumption ==
    /\ Launches \subseteq Nat \ {0} /\ LaunchFaults \in Nat /\ MaxSource \in Nat \ {0}
    /\ Environments \subseteq [required : BOOLEAN, redisServer : BOOLEAN, docker : BOOLEAN,
                               remote : BOOLEAN, inlineWorker : BOOLEAN, skipTests : BOOLEAN,
                               forceBuild : BOOLEAN, provider : BOOLEAN, python : BOOLEAN,
                               worker : {"none", "pipeline", "run"},
                               kind : [Launches -> {"oneshot", "judge", "demo", "bootstrap", "start", "none"}]]

VARIABLES env,      \* a member of Environments
          launch,   \* [Launches -> the script: how far it is and how it ended]
          server,   \* [Launches -> the backend it started]
          disk,     \* .venv, Python and Node packages, versions in dist/ and app/web/dist/
          source,   \* version of the source tree
          port,     \* the launch whose backend listens, 0 if none
          redis,    \* which Redis is reachable: the local one, the one REDIS_URL names
          beat,     \* a heartbeat key of a pipeline worker is in Redis
          worker,   \* the separate worker process
          crowded,  \* a backend was started beside another launch that was not over
          faults

launchVars == <<env, launch, server, disk, source, port, redis, beat, worker, crowded, faults>>
Machine == <<env, source, redis, beat, worker>>

NoServer == [at |-> "none", code |-> 0, pipeline |-> FALSE, legacy |-> FALSE,
             held |-> FALSE, python |-> FALSE]
Script == [at |-> "idle", since |-> 0, built |-> FALSE, quitting |-> FALSE,
           by |-> 0, proof |-> "none", end |-> "none"]

LaunchInit ==
    /\ env \in Environments
    /\ launch = [i \in Launches |-> Script] /\ server = [i \in Launches |-> NoServer]
    /\ disk \in {[venv |-> v, python |-> v, node |-> v, dist |-> IF v THEN 1 ELSE 0,
                  ui |-> IF v THEN 1 ELSE 0] : v \in {FALSE, env.python}}
    /\ source = 1 /\ port = 0
    /\ redis \in [local : BOOLEAN, remote : {FALSE}]
    /\ beat = FALSE /\ worker = "off" /\ crowded = FALSE /\ faults = 0

-----------------------------------------------------------------------------
(* A script. *)
At(i, kinds, a) == env.kind[i] \in kinds /\ launch[i].at = a
Go(i, a) == launch' = [launch EXCEPT ![i].at = a]
Stopped(i, how) == launch' = [launch EXCEPT ![i].at = "exited", ![i].end = how]
Starters == {"oneshot", "judge", "demo"}
Running(i) == launch[i].at \notin {"idle", "complete", "direct", "exited"}
Alive(j) == server[j].at \notin {"none", "gone"}
Unharmed == UNCHANGED faults
Mishap == faults < LaunchFaults /\ faults' = faults + 1

(* fail and run: a command that fails ends the script. *)
fail(i) == Mishap /\ Stopped(i, "failed")
Then(i, a) == (Go(i, a) /\ Unharmed) \/ fail(i)

(* The script is started.  judge looks for dist/ now and decides by it      *)
(* later.                                                                   *)
Begin(i) ==
    /\ env.kind[i] # "none" /\ launch[i].at = "idle"
    /\ launch' = [launch EXCEPT ![i].at = "begin", ![i].since = source,
                                ![i].built = (disk.dist # 0)]
    /\ UNCHANGED <<Machine, server, disk, port, crowded, faults>>

(* oneshot wants an operating system and a Node it knows. *)
checkPlatform(i) ==
    /\ At(i, {"oneshot"}, "begin") /\ Then(i, "venv")
    /\ UNCHANGED <<Machine, server, disk, port, crowded>>

(* judge wants Node and npm, and goes on without Python. *)
inspectEnvironment(i) ==
    /\ At(i, {"judge"}, "begin") /\ Then(i, "node")
    /\ UNCHANGED <<Machine, server, disk, port, crowded>>

(* The bootstrap fails without Python too. *)
runPreflight(i) ==
    /\ At(i, {"bootstrap"}, "begin")
    /\ IF env.python THEN Then(i, "node") ELSE Stopped(i, "failed") /\ Unharmed
    /\ UNCHANGED <<Machine, server, disk, port, crowded>>

(* A Python 3.11 or later is installed. *)
findSystemPython == env.python

(* .venv is created once; its interpreter must run. *)
ensureVenv(i) ==
    /\ At(i, {"oneshot"}, "venv")
    /\ \/ /\ disk.venv \/ findSystemPython
          /\ Go(i, "profiles") /\ disk' = [disk EXCEPT !.venv = TRUE] /\ Unharmed
       \/ (disk.venv \/ findSystemPython) /\ fail(i) /\ UNCHANGED disk
       \/ ~(disk.venv \/ findSystemPython) /\ Stopped(i, "failed") /\ UNCHANGED <<disk, faults>>
    /\ UNCHANGED <<Machine, server, port, crowded>>

(* The pinned Python packages are installed unless they are there. *)
ensurePythonProfile(i) ==
    /\ At(i, {"oneshot"}, "profiles")
    /\ \/ Go(i, "node") /\ disk' = [disk EXCEPT !.python = TRUE] /\ Unharmed
       \/ ~disk.python /\ fail(i) /\ UNCHANGED disk
    /\ UNCHANGED <<Machine, server, port, crowded>>

(* Node packages, root and web. *)
ensureNodeDependencies(i) ==
    /\ At(i, {"oneshot"}, "node")
    /\ \/ Go(i, "backend") /\ disk' = [disk EXCEPT !.node = TRUE] /\ Unharmed
       \/ ~disk.node /\ fail(i) /\ UNCHANGED disk
    /\ UNCHANGED <<Machine, server, port, crowded>>

(* judge installs when packages or the build it looked for are missing, and *)
(* nothing for Python.                                                      *)
judgeInstall(i) ==
    /\ At(i, {"judge"}, "node")
    /\ \/ Go(i, "backend") /\ disk' = [disk EXCEPT !.node = TRUE] /\ Unharmed
       \/ ~(disk.node /\ launch[i].built) /\ fail(i) /\ UNCHANGED disk
    /\ UNCHANGED <<Machine, server, port, crowded>>

(* runInstall of the bootstrap: Python packages may be skipped. *)
runInstall(i) ==
    /\ At(i, {"bootstrap"}, "node")
    /\ \/ /\ Go(i, "redis") /\ Unharmed
          /\ disk' = [disk EXCEPT !.node = TRUE, !.python = TRUE]
       \/ Go(i, "redis") /\ disk' = [disk EXCEPT !.node = TRUE] /\ Mishap
       \/ ~disk.node /\ fail(i) /\ UNCHANGED disk
    /\ UNCHANGED <<Machine, server, port, crowded>>

(* demo removes dist/ before it compiles. *)
cleanDist(i) ==
    /\ At(i, {"demo"}, "begin")
    /\ Go(i, "backend") /\ Unharmed
    /\ disk' = [disk EXCEPT !.dist = 0]
    /\ UNCHANGED <<Machine, server, port, crowded>>

(* A build fails by itself, or because demo found no packages. *)
buildFails(i) == IF disk.node THEN fail(i) ELSE Stopped(i, "failed") /\ Unharmed

\* Mutant: a build that is there is not made again.
BuildIfMissing(i) ==
    /\ launch[i].at = "backend"
    /\ \/ disk.dist = 0 /\ disk.node /\ Go(i, "ui") /\ disk' = [disk EXCEPT !.dist = source] /\ Unharmed
       \/ disk.dist = 0 /\ buildFails(i) /\ UNCHANGED disk
       \/ disk.dist # 0 /\ Go(i, "ui") /\ UNCHANGED <<disk, faults>>
    /\ UNCHANGED <<Machine, server, port, crowded>>

(* The backend is compiled; judge keeps a build it found, unless forced. *)
KeepsBuild(i) == env.kind[i] = "judge" /\ launch[i].built /\ ~env.forceBuild
buildBackend(i) ==
    /\ launch[i].at = "backend"
    /\ LET kept == KeepsBuild(i)
       IN \/ ~kept /\ disk.node /\ Go(i, "ui") /\ disk' = [disk EXCEPT !.dist = source] /\ Unharmed
          \/ ~kept /\ buildFails(i) /\ UNCHANGED disk
          \/ kept /\ Go(i, "ui") /\ UNCHANGED <<disk, faults>>
    /\ UNCHANGED <<Machine, server, port, crowded>>

(* The web interface; demo keeps one that is there, judge with the backend. *)
buildUi(i) ==
    /\ launch[i].at = "ui"
    /\ LET kept == KeepsBuild(i) \/ (env.kind[i] = "demo" /\ disk.ui # 0)
           next == CASE env.kind[i] = "oneshot" -> "contracts"
                     [] env.kind[i] = "judge" -> "tests"
                     [] env.kind[i] = "demo" -> "spawn"
                     [] OTHER -> "complete"
       IN \/ ~kept /\ disk.node /\ Go(i, next) /\ disk' = [disk EXCEPT !.ui = source] /\ Unharmed
          \/ ~kept /\ buildFails(i) /\ UNCHANGED disk
          \/ kept /\ Go(i, next) /\ UNCHANGED <<disk, faults>>
    /\ UNCHANGED <<Machine, server, port, crowded>>

(* Step 5: contracts and manifest. *)
verifyContracts(i) ==
    /\ At(i, {"oneshot"}, "contracts")
    /\ Then(i, "tests")
    /\ UNCHANGED <<Machine, server, disk, port, crowded>>

(* Step 6: only oneshot stops when tests fail. *)
runTests(i) ==
    /\ At(i, {"oneshot", "judge"}, "tests")
    /\ IF env.kind[i] = "judge" \/ env.skipTests THEN Go(i, "spawn") /\ Unharmed
       ELSE Then(i, "spawn")
    /\ UNCHANGED <<Machine, server, disk, port, crowded>>

(* The backend is started; npm start has nothing before it. *)
spawnBackend(i) ==
    /\ \/ At(i, Starters, "spawn") \/ At(i, {"start"}, "begin")
    /\ Go(i, CASE env.kind[i] = "demo" -> "watching"
               [] env.kind[i] = "start" -> "direct"
               [] OTHER -> "polling")
    /\ server' = [server EXCEPT ![i] = [NoServer EXCEPT !.at = "loading", !.code = disk.dist]]
    /\ crowded' = (crowded \/ \E j \in Launches \ {i} :
                                  Alive(j) \/ (Running(j) /\ ~launch[j].quitting))
    /\ UNCHANGED <<Machine, disk, port, faults>>

-----------------------------------------------------------------------------
(* Redis as the bootstrap proves it (ensureQueueReadiness). *)
Reached == IF env.remote THEN redis.remote ELSE redis.local
Proved(i, p) == launch' = [launch EXCEPT ![i].at = "backend", ![i].proof = p]

(* The configured Redis answers, or a queue is not required. *)
probeRedis(i) ==
    /\ At(i, {"bootstrap"}, "redis")
    /\ CASE Reached -> Proved(i, "configured")
         [] ~Reached /\ ~env.required -> Go(i, "backend")
         [] OTHER -> Go(i, "localRedis")
    /\ UNCHANGED <<Machine, server, disk, port, crowded, faults>>

(* A local redis-server: it answers, or did not start. *)
startLocalRedis(i) ==
    /\ At(i, {"bootstrap"}, "localRedis")
    /\ \/ /\ env.redisServer
          /\ redis' = [redis EXCEPT !.local = TRUE] /\ Proved(i, "local") /\ Unharmed
       \/ /\ IF env.redisServer THEN ~redis.local /\ Mishap ELSE Unharmed
          /\ Go(i, "dockerRedis") /\ UNCHANGED redis
    /\ UNCHANGED <<env, source, beat, worker, server, disk, port, crowded>>

(* docker removes the container of an earlier bootstrap first. *)
startDockerRedis(i) ==
    /\ At(i, {"bootstrap"}, "dockerRedis")
    /\ \/ /\ env.docker
          /\ redis' = [redis EXCEPT !.local = TRUE] /\ Proved(i, "local") /\ Unharmed
       \/ /\ IF env.docker THEN Mishap ELSE Unharmed
          /\ Stopped(i, "failed")
          /\ \E up \in {FALSE, redis.local} : redis' = [redis EXCEPT !.local = IF env.docker THEN up ELSE @]
    /\ UNCHANGED <<env, source, beat, worker, server, disk, port, crowded>>

-----------------------------------------------------------------------------
(* The backend. *)
Move(i, a) == server' = [server EXCEPT ![i].at = a]
Released(i) == IF port = i THEN 0 ELSE port
(* The process ends; a Python child loses its stdin and ends later.         *)
Die(i) == Move(i, "gone") /\ port' = Released(i)

(* The modules are loaded and the runtime directories made. *)
loadBackend(i) ==
    /\ server[i].at = "loading"
    /\ IF server[i].code = 0 \/ ~disk.node THEN Move(i, "gone") ELSE Move(i, "contracts")
    /\ UNCHANGED <<Machine, launch, disk, port, crowded, faults>>

(* The tools and the registry as Python sees them: needs the packages. *)
verifyStatic == disk.python

(* A skill is resolved by its exact id and bound; the first one has Python. *)
activate(i, next) == server' = [server EXCEPT ![i].at = next, ![i].python = TRUE]

(* The contracts skill starts its Python worker and verifyStatic asks it;   *)
(* without Python the top-level await rejects and the process ends.         *)
activateContracts(i) ==
    /\ server[i].at = "contracts"
    /\ \/ verifyStatic /\ activate(i, "skills") /\ Unharmed
       \/ verifyStatic /\ activate(i, "gone") /\ Mishap
       \/ ~verifyStatic /\ Move(i, "gone") /\ Unharmed
    /\ UNCHANGED <<Machine, launch, disk, port, crowded>>

(* The other skills are bound to services that exist by now. *)
activateSkills(i) ==
    /\ server[i].at = "skills"
    /\ activate(i, "pipeline")
    /\ UNCHANGED <<Machine, launch, disk, port, crowded, faults>>

(* The pipeline queue is ready, or its time is up: decided once.            *)
waitPipelineQueue(i) ==
    /\ server[i].at = "pipeline"
    /\ server' = [server EXCEPT ![i].at = "queue", ![i].pipeline = Reached]
    /\ UNCHANGED <<Machine, launch, disk, port, crowded, faults>>

(* The same for the single queue. *)
waitRunQueue(i) ==
    /\ server[i].at = "queue"
    /\ server' = [server EXCEPT ![i].at = "listen", ![i].legacy = Reached]
    /\ UNCHANGED <<Machine, launch, disk, port, crowded, faults>>

(* listen: nobody handles the error of a port in use. *)
listen(i) ==
    /\ server[i].at = "listen"
    /\ IF port = 0 THEN Move(i, "serving") /\ port' = i ELSE Move(i, "gone") /\ UNCHANGED port
    /\ UNCHANGED <<Machine, launch, disk, crowded, faults>>

(* A browser opens or leaves an event stream, a job begins or ends: what    *)
(* close waits for.                                                         *)
hold(i) ==
    /\ \/ server[i].at = "serving" \/ (server[i].at = "closing" /\ server[i].held)
    /\ server' = [server EXCEPT ![i].held = ~@]
    /\ UNCHANGED <<Machine, launch, disk, port, crowded, faults>>

(* What a signal does: a handler once the backend listens, death before.    *)
(* close stops listening at once.                                           *)
Handled(s) == [s EXCEPT !.at = CASE s.at \in {"serving", "closing"} -> "closing"
                                 [] s.at = "none" -> "none"
                                 [] OTHER -> "gone"]
Signalled(i) ==
    /\ server' = [server EXCEPT ![i] = Handled(@)]
    /\ port' = Released(i)

(* The callback of server.close, once every connection has ended: queues    *)
(* (which let their job end), provider, lanes and bridge are closed.        *)
closeBackend(i) ==
    /\ server[i].at = "closing" /\ ~server[i].held
    /\ server' = [server EXCEPT ![i].at = "gone", ![i].python = FALSE]
    /\ UNCHANGED <<Machine, launch, disk, port, crowded, faults>>

(* The Python child of a backend that is gone reads the end of its stdin. *)
pythonEnds(i) ==
    /\ server[i].at = "gone" /\ server[i].python
    /\ server' = [server EXCEPT ![i].python = FALSE]
    /\ UNCHANGED <<Machine, launch, disk, port, crowded, faults>>

(* The backend dies by itself. *)
crashBackend(i) ==
    /\ Alive(i) /\ Mishap /\ Die(i)
    /\ UNCHANGED <<Machine, launch, disk, crowded>>

-----------------------------------------------------------------------------
checkWorkerHealth == Reached /\ beat

(* GET /api/health.  The flags are those of the start; only the heartbeat   *)
(* is looked up.                                                            *)
health(s) ==
    /\ s.pipeline \/ s.legacy
    /\ IF s.pipeline THEN checkWorkerHealth ELSE s.legacy
    /\ env.provider

(* The port is asked, whoever holds it. *)
Healthy == port # 0 /\ health(server[port])

(* The script found a healthy backend, whoever's it is. *)
Ready(i) == launch' = [launch EXCEPT ![i].at = "ready", ![i].by = port]

(* oneshot polls until the deadline, which ends the script without a word   *)
(* to the backend.                                                          *)
pollHealth(i) ==
    /\ At(i, {"oneshot"}, "polling")
    /\ (Healthy /\ Ready(i)) \/ Stopped(i, "timeout")
    /\ UNCHANGED <<Machine, server, disk, port, crowded, faults>>

(* judge does the same and looks again whether the queue it requires is     *)
(* there.                                                                   *)
proveReadiness(i) ==
    /\ At(i, {"judge"}, "polling")
    /\ \/ /\ Healthy
          /\ IF env.required /\ ~(server[port].pipeline \/ server[port].legacy)
             THEN Stopped(i, "unproven") ELSE Ready(i)
       \/ Stopped(i, "timeout")
    /\ UNCHANGED <<Machine, server, disk, port, crowded, faults>>

(* demo waits for the line its backend prints, and then asks once; if the   *)
(* answer is not ok it kills the backend.                                   *)
watchOutput(i) ==
    /\ At(i, {"demo"}, "watching")
    /\ server[i].at \in {"serving", "closing"}
    /\ Go(i, "probing")
    /\ UNCHANGED <<Machine, server, disk, port, crowded, faults>>
probeOnce(i) ==
    /\ At(i, {"demo"}, "probing")
    /\ \/ Healthy /\ Ready(i) /\ UNCHANGED <<server, port>>
       \/ ~Healthy /\ Stopped(i, "failed") /\ Signalled(i)
    /\ UNCHANGED <<Machine, disk, crowded, faults>>

\* Mutant: the end of the backend is only logged.
ExitIgnored(i) ==
    /\ Running(i) /\ server[i].at = "gone"
    /\ env.kind[i] # "oneshot" /\ Stopped(i, "stopped")
    /\ UNCHANGED <<Machine, server, disk, port, crowded, faults>>

(* The script hears of its backend's end.  A oneshot that is quitting while *)
(* it polls goes on polling; otherwise nothing is left to wait for.         *)
onBackendExit(i) ==
    /\ Running(i) /\ server[i].at = "gone"
    /\ ~(env.kind[i] = "oneshot" /\ launch[i].quitting /\ launch[i].at = "polling")
    /\ Stopped(i, IF launch[i].at = "ready" /\ (env.kind[i] = "oneshot" => launch[i].quitting)
                  THEN "stopped" ELSE "failed")
    /\ UNCHANGED <<Machine, server, disk, port, crowded, faults>>

(* Ctrl-C reaches script and backend, kill only the script.  oneshot and    *)
(* demo handle signals once they have a backend and pass them on; judge and *)
(* the bootstrap die.                                                       *)
signalScript(i, group) ==
    /\ Running(i)
    /\ LET handles == env.kind[i] \in {"oneshot", "demo"} /\ server[i].at # "none"
       IN /\ IF handles THEN launch' = [launch EXCEPT ![i].quitting = TRUE]
             ELSE Stopped(i, "signal")
          /\ IF handles \/ group THEN Signalled(i) ELSE UNCHANGED <<server, port>>
    /\ UNCHANGED <<Machine, disk, crowded, faults>>

(* A backend on its own, or left behind, is stopped. *)
signalBackend(i) ==
    /\ launch[i].at \in {"direct", "exited"} /\ Alive(i)
    /\ Signalled(i)
    /\ UNCHANGED <<Machine, launch, disk, crowded, faults>>

-----------------------------------------------------------------------------
(* The worker process: run-pipeline-worker.ts or run-worker-cli.ts. *)
Elsewhere == <<env, launch, server, disk, source, port, redis, crowded>>

startWorker ==
    /\ env.worker # "none" /\ worker = "off"
    /\ worker' = "contracts"
    /\ UNCHANGED <<Elsewhere, beat, faults>>

(* The contracts are verified; the run worker also waits for Redis, or ends *)
(* when its time is up.                                                     *)
bootWorker ==
    /\ worker = "contracts"
    /\ worker' = IF disk.dist # 0 /\ disk.python /\ (env.worker = "run" => Reached)
                 THEN "running" ELSE "gone"
    /\ UNCHANGED <<Elsewhere, beat, faults>>

(* A first signal lets the jobs end; the pipeline worker dies of a second.  *)
signalWorker ==
    /\ worker \in {"contracts", "running", "closing"}
    /\ worker' = CASE worker = "running" -> "closing"
                   [] worker = "closing" /\ env.worker = "run" -> "closing"
                   [] OTHER -> "gone"
    /\ UNCHANGED <<Elsewhere, beat, faults>>

closeWorker ==
    /\ worker = "closing"
    /\ worker' = "gone"
    /\ UNCHANGED <<Elsewhere, beat, faults>>

crashWorker ==
    /\ worker \in {"contracts", "running", "closing"} /\ Mishap
    /\ worker' = "gone"
    /\ UNCHANGED <<Elsewhere, beat>>

(* A pipeline worker, in its own process or in a backend. *)
Beats == \/ worker = "running" /\ env.worker = "pipeline"
         \/ \E i \in Launches : /\ env.inlineWorker /\ server[i].pipeline
                                /\ server[i].at \in {"queue", "listen", "serving", "closing"}

(* Every 5 s the key is set for 15 s; it is there that long after a death.  *)
heartbeat ==
    /\ Beats /\ Reached /\ ~beat
    /\ beat' = TRUE
    /\ UNCHANGED <<Elsewhere, worker, faults>>
expireHeartbeat ==
    /\ beat /\ ~(Beats /\ Reached)
    /\ beat' = FALSE
    /\ UNCHANGED <<Elsewhere, worker, faults>>

(* Redis comes or goes; somebody edits the source. *)
redisChanges(r) ==
    /\ Mishap
    /\ redis' = [redis EXCEPT ![r] = ~@]
    /\ UNCHANGED <<env, launch, server, disk, source, port, beat, worker, crowded>>
editSource ==
    /\ source < MaxSource /\ Mishap
    /\ source' = source + 1
    /\ UNCHANGED <<env, launch, server, disk, port, redis, beat, worker, crowded>>

-----------------------------------------------------------------------------
ScriptStep(i) ==
    \/ checkPlatform(i) \/ inspectEnvironment(i) \/ runPreflight(i)
    \/ ensureVenv(i) \/ ensurePythonProfile(i) \/ ensureNodeDependencies(i)
    \/ judgeInstall(i) \/ runInstall(i) \/ cleanDist(i) \/ buildBackend(i) \/ buildUi(i)
    \/ verifyContracts(i) \/ runTests(i) \/ spawnBackend(i)
    \/ probeRedis(i) \/ startLocalRedis(i) \/ startDockerRedis(i)
    \/ pollHealth(i) \/ proveReadiness(i) \/ watchOutput(i) \/ probeOnce(i) \/ onBackendExit(i)
BackendStep(i) ==
    \/ loadBackend(i) \/ activateContracts(i) \/ activateSkills(i)
    \/ waitPipelineQueue(i) \/ waitRunQueue(i) \/ listen(i) \/ closeBackend(i) \/ pythonEnds(i)

LaunchNext ==
    \/ \E i \in Launches :
          \/ Begin(i) \/ ScriptStep(i) \/ BackendStep(i)
          \/ hold(i) \/ crashBackend(i) \/ signalBackend(i)
          \/ \E group \in BOOLEAN : signalScript(i, group)
    \/ startWorker \/ bootWorker \/ signalWorker \/ closeWorker \/ crashWorker
    \/ heartbeat \/ expireHeartbeat \/ editSource
    \/ \E r \in {"local", "remote"} : redisChanges(r)

(* Processes go on; users, browsers and faults need not do anything. *)
LaunchFairness ==
    \A i \in Launches : WF_launchVars(ScriptStep(i)) /\ WF_launchVars(BackendStep(i))

LaunchSpec == LaunchInit /\ [][LaunchNext]_launchVars /\ LaunchFairness

-----------------------------------------------------------------------------
Points == {"idle", "begin", "venv", "profiles", "node", "redis", "localRedis", "dockerRedis",
           "backend", "ui", "contracts", "tests", "spawn", "polling", "watching", "probing",
           "ready", "complete", "direct", "exited"}

(* Values of the state: who holds the port listens. *)
LaunchTypeOK ==
    /\ env \in Environments /\ source \in 1..MaxSource /\ faults \in 0..LaunchFaults
    /\ launch \in [Launches -> [at : Points, since : 0..MaxSource, built : BOOLEAN,
                                quitting : BOOLEAN, by : Launches \union {0},
                                proof : {"none", "configured", "local"},
                                end : {"none", "failed", "timeout", "unproven", "signal", "stopped"}]]
    /\ server \in [Launches -> [at : {"none", "loading", "contracts", "skills", "pipeline", "queue",
                                      "listen", "serving", "closing", "gone"},
                                code : 0..MaxSource, pipeline : BOOLEAN, legacy : BOOLEAN,
                                held : BOOLEAN, python : BOOLEAN]]
    /\ disk \in [venv : BOOLEAN, python : BOOLEAN, node : BOOLEAN, dist : 0..MaxSource, ui : 0..MaxSource]
    /\ port \in Launches \union {0}
    /\ redis \in [local : BOOLEAN, remote : BOOLEAN] /\ beat \in BOOLEAN /\ crowded \in BOOLEAN
    /\ worker \in {"off", "contracts", "running", "closing", "gone"}

(* The port is held by exactly the backend that serves. *)
PortIsServed == \A i \in Launches : port = i <=> server[i].at = "serving"

(* "Ready" is said of the script's own backend, although the port is all it *)
(* asks: unless another launch was not over when it started its own, or it  *)
(* was told to quit and went on polling.                                    *)
ReadyIsOwn ==
    \A i \in Launches : launch[i].by \notin {0, i} => crowded \/ launch[i].quitting

(* No script reports a backend ready that found no Redis when it started,   *)
(* required or not.                                                         *)
ReadyHasQueue ==
    \A i \in Launches : launch[i].by # 0 =>
        server[launch[i].by].pipeline \/ server[launch[i].by].legacy

(* oneshot and demo never run code older than their own start, whatever     *)
(* other launches build or remove meanwhile.                                *)
RunsCurrentSource ==
    \A i \in Launches :
        env.kind[i] \in {"oneshot", "demo"} /\ server[i].code # 0 => server[i].code >= launch[i].since

(* A script that has ended leaves a backend that was not told to stop only  *)
(* when its polling timed out, or as a judge that was killed: never because *)
(* the queue a judge requires is not there, which health saw before.        *)
OrphansExplained ==
    \A i \in Launches :
        launch[i].at = "exited" /\ Alive(i) /\ server[i].at # "closing" =>
            launch[i].end = "timeout" \/ (launch[i].end = "signal" /\ env.kind[i] = "judge")

(* A bootstrap that completes with a queue required has seen a Redis answer,*)
(* and it is the one the server will use unless REDIS_URL names another.    *)
QueueProven ==
    \A i \in Launches :
        env.kind[i] = "bootstrap" /\ launch[i].at = "complete" /\ env.required =>
            launch[i].proof = "configured" \/ (launch[i].proof = "local" /\ (env.redisServer \/ env.docker))

(* What a launch reports, runs and leaves behind (scripts/oneshot.mjs,      *)
(* scripts/judge.mjs, app/bootstrap/demo.mjs, scripts/bootstrap/).          *)
LaunchIsSound ==
    LaunchTypeOK /\ PortIsServed /\ ReadyIsOwn /\ ReadyHasQueue /\ RunsCurrentSource
        /\ OrphansExplained /\ QueueProven

(* Every launch gets ready or ends, and a backend told to stop is gone, its *)
(* Python child too, unless a browser keeps an event stream open or a job   *)
(* does not end (shutdown of backend/index.ts waits for both).              *)
LaunchEnds ==
    []<>(\A i \in Launches :
            /\ launch[i].at \in {"idle", "ready", "complete", "direct", "exited"}
            /\ launch[i].at = "ready" => server[i].at # "gone"
            /\ server[i].at \in {"none", "serving", "gone"} \/ (server[i].at = "closing" /\ server[i].held)
            /\ server[i].at = "gone" => ~server[i].python)
=============================================================================
