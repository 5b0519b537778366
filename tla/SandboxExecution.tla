-------------------------- MODULE SandboxExecution --------------------------
(***************************************************************************)
(* The sandbox: admission of a confirmed package, the nine stages of an    *)
(* execution, the two runners (a shell per plan step, or one docker        *)
(* container) with their children, the time and output limits, the         *)
(* evidence, the clean-up of the workspace and the graph projected from    *)
(* the events.  Several executions of one run may be under way at once.    *)
(*                                                                         *)
(* A child is a shell (or the docker client) and the processes it started. *)
(* The shell is spawned without a process group of its own, so on POSIX    *)
(* only the shell is killed at the time limit; docker kill is started and  *)
(* not waited for.  Children run as long as they like: only the timer      *)
(* bounds them.                                                            *)
(***************************************************************************)
EXTENDS Naturals, Sequences, FiniteSets

CONSTANTS Executions,  \* calls of SandboxService.execute for one run
          Runner,      \* [Executions -> {"process", "container"}]
          Platform,    \* "posix" or "win32"
          Steps,       \* steps of the plan
          MaxFiles,    \* auth.max_files_changed, one byte a file
          FileBound,   \* bound on the files children write
          Tries        \* rmWithRetry's attempts

ASSUME SandboxAssumption ==
    /\ Runner \in [Executions -> {"process", "container"}]
    /\ Platform \in {"posix", "win32"}
    /\ Steps \in Nat \ {0} /\ MaxFiles \in Nat /\ FileBound \in Nat
    /\ Tries \in Nat \ {0}

VARIABLES ex,      \* [Executions -> the frame of execute and its evidence]
          child,   \* [Executions -> the child of the step under way]
          space,   \* [Executions -> the workspace directory]
          shown    \* stages of the run that have an event

sandboxVars == <<ex, child, space, shown>>

STAGES == << "SandboxHandoffReceived", "SandboxAdmissionVerified", "SandboxCreated",
             "ExecutionStarted", "ExecutionCompleted", "ExecutionEvidenceRecorded",
             "SandboxHashCreated", "SandboxHashVerified", "SandboxCleaned" >>
ev(first, last) == shown' = shown \cup {STAGES[i] : i \in first..last}

(* The projected node of a stage: it has an event or it is pending. *)
projectSandboxGraph == [s \in {STAGES[i] : i \in 1..9} |-> s \in shown]

Inputs == {"genuine", "forged", "malformed"}
NoChild == [shell |-> "none", tree |-> "none", signalled |-> FALSE]
NoSpace == [exists |-> FALSE, files |-> 0]
Fresh == [pc |-> "idle", input |-> "genuine", late |-> FALSE, codes |-> <<>>,
          condition |-> "success", files |-> 0, cleaned |-> FALSE,
          killed |-> FALSE, tries |-> 0, result |-> "none"]

SandboxInit ==
    /\ ex = [e \in Executions |-> Fresh]
    /\ child = [e \in Executions |-> NoChild]
    /\ space = [e \in Executions |-> NoSpace]
    /\ shown = {}

-----------------------------------------------------------------------------
(* Handoff and admission *)

Handoff(e) ==
    /\ ex[e].pc = "idle"
    /\ \E i \in Inputs : ex' = [ex EXCEPT ![e].pc = "admission", ![e].input = i]
    /\ ev(1, 2)
    /\ UNCHANGED <<child, space>>

(* The package must be confirmed, the hash well formed, and equal to the   *)
(* one recomputed from the core.                                           *)
Admits(i) == i = "genuine"

(* A refused package, or a bridge that fails, ends the execution before    *)
(* anything exists; an admitted one gets its directory.                    *)
VerifySandboxAdmission(e) ==
    /\ ex[e].pc = "admission"
    /\ \E bridgeOk \in BOOLEAN :
         IF bridgeOk /\ Admits(ex[e].input)
         THEN /\ ex' = [ex EXCEPT ![e].pc = "steps"]
              /\ space' = [space EXCEPT ![e].exists = TRUE]
              /\ ev(2, 4)
         ELSE /\ ex' = [ex EXCEPT ![e].pc = "returned", ![e].result = "Failed"]
              /\ ev(2, 2)
              /\ UNCHANGED space
    /\ UNCHANGED child

-----------------------------------------------------------------------------
(* The steps and their children *)

Process(e) == Runner[e] = "process"
Container(e) == Runner[e] = "container"
StepCount(e) == IF Container(e) THEN 1 ELSE Steps
Ended(e, code, cond) ==
    ex' = [ex EXCEPT ![e].codes = Append(@, code), ![e].condition = cond,
                     ![e].pc = IF code # 0 \/ Len(ex[e].codes) + 1 = StepCount(e)
                               THEN "scan" ELSE "steps",
                     ![e].killed = @ \/ child[e].signalled]

(* Time passes. *)
DeadlinePasses(e) ==
    /\ ex[e].pc \in {"steps", "waiting"} /\ ~ex[e].late
    /\ ex' = [ex EXCEPT ![e].late = TRUE]
    /\ UNCHANGED <<child, space, shown>>

(* The next step: refused when no time is left, an error when the shell    *)
(* cannot be started.  Earlier steps may have left processes behind.       *)
StartStep(e) ==
    /\ ex[e].pc = "steps" /\ Process(e)
    /\ \/ /\ ex[e].late
          /\ ex' = [ex EXCEPT ![e].pc = "scan", ![e].condition = "timeout"]
          /\ UNCHANGED child
       \/ /\ ~ex[e].late
          /\ ex' = [ex EXCEPT ![e].pc = "waiting"]
          /\ child' = [child EXCEPT ![e].shell = "running", ![e].signalled = FALSE]
       \/ /\ ~ex[e].late
          /\ Ended(e, 1, "failure")
          /\ UNCHANGED child
    /\ UNCHANGED <<space, shown>>

(* docker run: the client is the child, the container its tree.  The       *)
(* timer is armed when it starts.                                          *)
RunContainer(e) ==
    /\ ex[e].pc = "steps" /\ Container(e)
    /\ \/ /\ ex' = [ex EXCEPT ![e].pc = "waiting", ![e].late = FALSE]
          /\ child' = [child EXCEPT ![e].shell = "running"]
       \/ Ended(e, 1, "failure") /\ UNCHANGED child
    /\ UNCHANGED <<space, shown>>

(* A command starts a process of its own, which keeps the shell's output   *)
(* pipes open (attached) or not.                                           *)
Fork(e) ==
    /\ child[e].shell = "running" /\ child[e].tree = "none"
    /\ \E t \in {"attached", "detached"} : child' = [child EXCEPT ![e].tree = t]
    /\ UNCHANGED <<ex, space, shown>>

(* Output of a container is not looked at, so only the process runner's is  *)
(* modelled.                                                               *)
WriteFile(e) ==
    /\ Process(e)
    /\ child[e].shell = "running" \/ child[e].tree # "none"
    /\ space[e].exists /\ space[e].files < FileBound
    /\ space' = [space EXCEPT ![e].files = @ + 1]
    /\ UNCHANGED <<ex, child, shown>>

(* The shell ends by itself or by a signal from outside (the OOM killer). *)
ShellExits(e) ==
    /\ child[e].shell = "running"
    /\ \E how \in {"zero", "nonzero", "signal"} :
          child' = [child EXCEPT ![e].shell = how, ![e].signalled = (how = "signal")]
    /\ UNCHANGED <<ex, space, shown>>

TreeExits(e) ==
    /\ child[e].tree # "none"
    /\ child' = [child EXCEPT ![e].tree = "none"]
    /\ UNCHANGED <<ex, space, shown>>

(* The close event: the shell is gone and nobody holds its pipes.  A shell *)
(* ended by a signal has no code, and code ?? 0 makes that a zero.         *)
ChildCloses(e) ==
    /\ ex[e].pc = "waiting"
    /\ child[e].shell \in {"zero", "nonzero", "signal"} /\ child[e].tree # "attached"
    /\ IF child[e].shell = "nonzero" THEN Ended(e, 1, "failure") ELSE Ended(e, 0, "success")
    /\ child' = [child EXCEPT ![e].shell = "none"]
    /\ UNCHANGED <<space, shown>>

\* Mutant: no timer is armed.
NoTimer(e) == FALSE /\ UNCHANGED sandboxVars
(* The timer settles the step.  taskkill /T takes the whole tree; on POSIX *)
(* the shell leads no process group and is killed alone.                   *)
TimedOut(e) == ex' = [ex EXCEPT ![e].codes = Append(@, 124), ![e].condition = "timeout",
                                ![e].pc = "scan"]
TimerFires(e) ==
    /\ ex[e].pc = "waiting" /\ ex[e].late /\ Process(e)
    /\ TimedOut(e)
    /\ child' = [child EXCEPT ![e] = IF Platform = "win32" THEN NoChild
                                     ELSE [@ EXCEPT !.shell = "none"]]
    /\ UNCHANGED <<space, shown>>

(* docker kill is started, nobody waits for it: client and container go on *)
(* for a while.                                                            *)
ContainerTimerFires(e) ==
    /\ ex[e].pc = "waiting" /\ ex[e].late /\ Container(e)
    /\ TimedOut(e)
    /\ child' = [child EXCEPT ![e].shell = "none",
                     ![e].tree = IF child[e].shell = "running" THEN "detached" ELSE @]
    /\ UNCHANGED <<space, shown>>

(* The ledger of the process runner, taken while left-over processes may   *)
(* still be writing; too much output overrides any other condition.        *)
ScanWorkspace(e) ==
    /\ ex[e].pc = "scan"
    /\ LET n == IF Process(e) THEN space[e].files ELSE 0
       IN ex' = [ex EXCEPT ![e].pc = "hash", ![e].files = n,
                     ![e].condition = IF n > MaxFiles THEN "resource_exhausted" ELSE @]
    /\ ev(5, 5)
    /\ UNCHANGED <<child, space>>

-----------------------------------------------------------------------------
(* Evidence, clean-up and the outcome *)

(* createHash goes through the Python bridge; when it throws, execute      *)
(* rejects and the workspace stays.                                        *)
RecordEvidence(e) ==
    /\ ex[e].pc = "hash"
    /\ \/ ex' = [ex EXCEPT ![e].pc = "cleanup"] /\ ev(6, 8)
       \/ ex' = [ex EXCEPT ![e].pc = "returned", ![e].result = "thrown"] /\ UNCHANGED shown
    /\ UNCHANGED <<child, space>>

\* Mutant: a failed removal is reported as a clean workspace.
CleanupAlwaysTrue(e) ==
    /\ ex[e].pc = "cleanup"
    /\ \E removed \in BOOLEAN :
         /\ removed => space' = [space EXCEPT ![e] = NoSpace]
         /\ ~removed => UNCHANGED space
    /\ ex' = [ex EXCEPT ![e].pc = "outcome", ![e].cleaned = TRUE]
    /\ ev(9, 9)
    /\ UNCHANGED child

Removed(e) ==
    /\ space' = [space EXCEPT ![e] = NoSpace]
    /\ ex' = [ex EXCEPT ![e].pc = "outcome", ![e].cleaned = TRUE]
    /\ ev(9, 9)
LeftBehind(e) ==
    /\ child[e].tree # "none" \/ child[e].shell = "running"
    /\ ex' = [ex EXCEPT ![e].pc = "outcome", ![e].cleaned = FALSE]
    /\ ev(9, 9)
    /\ UNCHANGED space

(* One removal of the directory, which can fail while something writes in  *)
(* it; the process runner tries again.                                     *)
Cleanup(e) ==
    /\ ex[e].pc = "cleanup" /\ Process(e)
    /\ \/ Removed(e)
       \/ ex[e].tries + 1 = Tries /\ LeftBehind(e)
       \/ /\ ex[e].tries + 1 < Tries /\ child[e].tree # "none"
          /\ ex' = [ex EXCEPT ![e].tries = @ + 1]
          /\ UNCHANGED <<space, shown>>
    /\ UNCHANGED child

(* docker rm -f is started, the directory is removed once. *)
CleanupContainer(e) ==
    /\ ex[e].pc = "cleanup" /\ Container(e)
    /\ Removed(e) \/ LeftBehind(e)
    /\ UNCHANGED child

(* The failure conditions in their order; what is left has passed. *)
Passes(x) ==
    /\ x.condition \notin {"timeout", "resource_exhausted", "failure"}
    /\ \A i \in DOMAIN x.codes : x.codes[i] = 0

Return(e) ==
    /\ ex[e].pc = "outcome"
    /\ ex' = [ex EXCEPT ![e].pc = "returned",
                        ![e].result = IF Passes(ex[e]) THEN "Passed" ELSE "Failed"]
    /\ UNCHANGED <<child, space, shown>>

ServiceStep(e) ==
    \/ VerifySandboxAdmission(e) \/ StartStep(e) \/ RunContainer(e) \/ ChildCloses(e)
    \/ TimerFires(e) \/ ContainerTimerFires(e) \/ ScanWorkspace(e) \/ RecordEvidence(e)
    \/ Cleanup(e) \/ CleanupContainer(e) \/ Return(e)
ChildStep(e) == Fork(e) \/ WriteFile(e) \/ ShellExits(e) \/ TreeExits(e)

SandboxNext == \E e \in Executions :
    Handoff(e) \/ ServiceStep(e) \/ ChildStep(e) \/ DeadlinePasses(e)

(* The event loop and the clock go on; nothing makes a child end. *)
SandboxFairness == \A e \in Executions :
    WF_sandboxVars(ServiceStep(e)) /\ WF_sandboxVars(DeadlinePasses(e))

SandboxSpec == SandboxInit /\ [][SandboxNext]_sandboxVars /\ SandboxFairness

-----------------------------------------------------------------------------
(* Properties *)

(* Types of the execution frames, children and workspaces. *)
SandboxTypeOK ==
    /\ \A e \in Executions :
          /\ ex[e].pc \in {"idle", "admission", "steps", "waiting", "scan", "hash",
                           "cleanup", "outcome", "returned"}
          /\ ex[e].codes \in Seq({0, 1, 124}) /\ Len(ex[e].codes) <= StepCount(e)
          /\ ex[e].tries < Tries
          /\ child[e].tree \in {"none", "attached", "detached"}
          /\ space[e].files <= FileBound
    /\ shown \subseteq {STAGES[i] : i \in 1..9}

(* "If unequal, execution must NOT start under any circumstances"          *)
(* (admission.ts): no process and no directory ever exists for a package   *)
(* whose hash does not match.                                              *)
AdmittedOnly ==
    \A e \in Executions :
        space[e].exists \/ child[e].shell # "none" \/ child[e].tree # "none"
            => ex[e].input = "genuine"

(* A Passed execution ran every step, none of them failed or was timed     *)
(* out, and the ledger is within the limits, although the limits are only  *)
(* looked at afterwards (sandbox-service.ts, the failure conditions).      *)
PassedWithinLimits ==
    \A e \in Executions : ex[e].result = "Passed" =>
        /\ Len(ex[e].codes) = StepCount(e)
        /\ \A i \in DOMAIN ex[e].codes : ex[e].codes[i] = 0
        /\ ex[e].files <= MaxFiles /\ ex[e].condition = "success"

(* The evidence says the workspace was cleaned exactly when it is gone,    *)
(* processes that outlive their step included (rmWithRetry).               *)
CleanedMeansGone ==
    \A e \in Executions : ex[e].result \in {"Passed", "Failed"} /\ ex[e].codes # <<>> =>
        (ex[e].cleaned <=> ~space[e].exists)

(* The projected graph never shows a stage whose predecessors have no      *)
(* event, however the executions of the run interleave.                    *)
GraphIsPrefix ==
    \A i, j \in 1..9 : i < j /\ projectSandboxGraph[STAGES[j]] => projectSandboxGraph[STAGES[i]]

(* Nothing runs that was not admitted, nothing passes that did not run to  *)
(* its end within the limits, and what the execution says of its clean-up  *)
(* and of its stages is so (admission.ts, sandbox-service.ts).             *)
ExecutionIsGoverned ==
    SandboxTypeOK /\ AdmittedOnly /\ PassedWithinLimits /\ CleanedMeansGone /\ GraphIsPrefix

(* Every execution that was handed over ends, whatever its children do:    *)
(* the timer settles a step that never closes.                             *)
ExecutionEnds == []<>(\A e \in Executions : ex[e].pc \in {"idle", "returned"})
=============================================================================
