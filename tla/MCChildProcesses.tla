-------------------------- MODULE MCChildProcesses --------------------------
(***************************************************************************)
(* The processes of the system: two sandbox executions of one run, one by  *)
(* the process runner and one by docker (part "sandbox"), the bridges to   *)
(* Python workers (part "bridge"), and launches of the system itself       *)
(* (part "launch").  They share no state.                                  *)
(***************************************************************************)
EXTENDS SandboxExecution, WorkerBridge, Launch, TLC
CONSTANTS e1, e2
VARIABLE part

MCRunner == (e1 :> "process") @@ (e2 :> "container")

Bare == [required |-> FALSE, redisServer |-> FALSE, docker |-> FALSE, remote |-> FALSE,
         inlineWorker |-> FALSE, skipTests |-> TRUE, forceBuild |-> FALSE, provider |-> TRUE,
         python |-> TRUE, worker |-> "none", kind |-> <<"none", "none">>]

(* A launch beside a server that is started meanwhile, and each script     *)
(* alone with the machines it differs on.                                  *)
MCEnvironments ==
    {[Bare EXCEPT !.kind = <<"oneshot", "start">>, !.inlineWorker = TRUE],
     [Bare EXCEPT !.kind = <<"judge", "start">>],
     [Bare EXCEPT !.kind = <<"oneshot", "none">>, !.worker = "pipeline", !.skipTests = FALSE],
     [Bare EXCEPT !.kind = <<"demo", "none">>, !.inlineWorker = TRUE],
     [Bare EXCEPT !.kind = <<"judge", "none">>, !.inlineWorker = TRUE, !.required = TRUE,
                  !.forceBuild = TRUE],
     [Bare EXCEPT !.kind = <<"bootstrap", "start">>, !.required = TRUE, !.remote = TRUE,
                  !.redisServer = TRUE, !.docker = TRUE],
     [Bare EXCEPT !.kind = <<"bootstrap", "none">>, !.required = TRUE],
     [Bare EXCEPT !.kind = <<"bootstrap", "oneshot">>, !.python = FALSE],
     [Bare EXCEPT !.kind = <<"bootstrap", "none">>, !.worker = "run"]}

(* Two launches meet on a machine that has been used before; every part a  *)
(* behaviour leaves alone starts in one state.                             *)
MCInit ==
    /\ part \in {"sandbox", "bridge", "launch"}
    /\ SandboxInit /\ BridgeInit /\ LaunchInit
    /\ part # "bridge" => use.mode = "test"
    /\ part = "launch" /\ env.kind[2] # "none" => disk.python = env.python /\ redis.local # env.remote
    /\ part # "launch" => env.worker = "run" /\ disk.python /\ redis.local

MCNext ==
    /\ UNCHANGED part
    /\ \/ part = "sandbox" /\ SandboxNext /\ UNCHANGED <<bridgeVars, launchVars>>
       \/ part = "bridge" /\ BridgeNext /\ UNCHANGED <<sandboxVars, launchVars>>
       \/ part = "launch" /\ LaunchNext /\ UNCHANGED <<sandboxVars, bridgeVars>>

(* In the parts that are left alone nothing of the fairness is ever enabled. *)
MCSpec ==
    /\ MCInit /\ [][MCNext]_<<part, sandboxVars, bridgeVars, launchVars>>
    /\ SandboxFairness /\ BridgeFairness /\ LaunchFairness
=============================================================================
