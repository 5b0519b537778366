------------------------------ MODULE RunQueue ------------------------------
(***************************************************************************)
(* One run on the single-queue path: POST /api/runs (submitRun), the BullMQ *)
(* run queue (runtime/queue.ts), the inline fallback, and WorkflowRuntime   *)
(* walking the canonical Strands graph past its two human gates.            *)
(*                                                                         *)
(* A step is what Node runs between two awaits.  The server is one process  *)
(* with an in-memory RunRepository that is written through to disk, so a    *)
(* crash ends the request, all executions and all waiting review requests,  *)
(* and keeps the snapshot, the artifacts and Redis.                         *)
(***************************************************************************)
EXTENDS Naturals

CONSTANTS
    Slots,          \* concurrent jobs of the run-queue worker
    Inline,         \* the execution started by the request itself
    Deciders,       \* concurrent POST /api/runs/:id/review requests
    Packages,       \* confirmed packages an execution may arrive at
    None,           \* no owner, no package
    MaxStalled,     \* maxStalledCount, 1 in the code
    MaxCrashes,     \* bounds on adversity: server processes killed ...
    MaxStalls       \*   ... live executions that lose their BullMQ lock

Executors == Slots \union {Inline}

ASSUME QueueAssumption ==
    /\ Inline \notin Slots
    /\ None \notin Executors \union Deciders \union Packages
    /\ MaxStalled \in Nat /\ MaxCrashes \in Nat /\ MaxStalls \in Nat

VARIABLES
    cfg,            \* ONESHOT_QUEUE_REQUIRED, queue readiness, review_plan
    req, answer,    \* submitRun's program point and its HTTP answer
    inFlight,       \* queue.add sent and not yet executed by Redis
    job,            \* BullMQ job of the run
    pipelineJob,    \* researcher job of the per-stage pipeline
    run,            \* snapshot: status, test_result, and whether it has events
    requested,      \* review.request and build-review.request artifacts
    review,         \* status of the review artifact
    lock, deciding, \* PlanReviewService.locks and its decide() calls
    confirmedPkg,   \* the confirmed artifact
    gate,           \* package in the build-review artifact
    approval,       \* package whose hash the build-approval artifact holds
    pc, pkg,        \* per execution: program point, confirmed package
    failedEvent,    \* a QueueEvents "failed" event not yet handled
    seen,           \* what happened: executions entered, drafts opened and
                    \* decided, job cancelled, failed event lost
    budget          \* adversity left

vars == <<cfg, req, answer, inFlight, job, pipelineJob, run, requested, review,
          lock, deciding, confirmedPkg, gate, approval, pc, pkg, failedEvent,
          seen, budget>>

\* Groups of variables that most actions leave alone.
reqVars == <<cfg, req, answer, inFlight, pipelineJob, requested>>
reviewVars == <<review, lock, deciding>>
gateVars == <<confirmedPkg, gate, approval>>

-----------------------------------------------------------------------------
Working == {"binding", "deps", "research", "review", "reviewing", "plan",
            "gate", "gating", "builder", "hash", "done", "failed"}
Points == Working \union {"idle", "return"}

AbsentJob == [state |-> "absent", stalls |-> 0, owner |-> None]

\* The graph has been entered: nothing before this has side effects.
PastBinding == Working \ {"binding"}

\* Mutant: the result is written and the status forgotten.
Finished_KeepsRunning(result) == [run EXCEPT !.result = result]

\* What runs.finish writes; the caller has checked what it checks.
Finished(result) == [run EXCEPT !.status = "Done", !.result = result]

\* finalizeFailure, markRunQueueUnavailable and the "failed" listener: finish
\* only a run that is not Done, and emit an event in any case.
FinalizedFailure ==
    [(IF run.status = "Done" THEN run ELSE Finished("Failed")) EXCEPT !.events = TRUE]

Init ==
    /\ cfg \in [required : BOOLEAN, legacy : BOOLEAN, pipeline : BOOLEAN, review : BOOLEAN]
    /\ req = "new"
    /\ answer = "none"
    /\ inFlight = FALSE
    /\ job = AbsentJob
    /\ pipelineJob = "absent"
    /\ run = [status |-> "absent", result |-> "none", events |-> FALSE]
    /\ requested = FALSE
    /\ review = "none"
    /\ lock = None
    /\ deciding = [d \in Deciders |-> FALSE]
    /\ confirmedPkg = None
    /\ gate = None
    /\ approval = None
    /\ pc = [e \in Executors |-> "idle"]
    /\ pkg = [e \in Executors |-> None]
    /\ failedEvent = FALSE
    /\ seen = [executions |-> 0, opened |-> 0, decided |-> 0,
               cancelled |-> FALSE, lost |-> FALSE]
    /\ budget = [crash |-> MaxCrashes, stall |-> MaxStalls]

Step(e, from, to) == pc[e] = from /\ pc' = [pc EXCEPT ![e] = to]

-----------------------------------------------------------------------------
(* executeRunJob up to its first await. *)

\* Mutant: a partially executed run is skipped instead of finalized.
GuardedRun_SkipsPartial == [run EXCEPT !.events = run.events \/ run.status = "Done"]

\* The snapshot once the guards ran: a Done run only gains an event, a run
\* with events is finalized as partially executed.
GuardedRun ==
    IF run.status = "Done" \/ run.events THEN FinalizedFailure ELSE run

\* Create the snapshot if it is missing, then the two guards.  The payload is
\* built by addRun or submitRun and passes validateRunJobV1.
BeginRun(e) ==
    LET fresh == run.status # "Done" /\ ~run.events
    IN /\ run' = GuardedRun
       /\ pc' = [pc EXCEPT ![e] = IF fresh THEN "binding" ELSE "return"]

-----------------------------------------------------------------------------
(* POST /api/runs: submitRun. *)

\* Until the first await: refuse without a queue, refuse without a provider,
\* or create the run.
Submit ==
    /\ req = "new"
    /\ IF cfg.required /\ ~cfg.pipeline /\ ~cfg.legacy
         THEN /\ run' = [status |-> "Done", result |-> "Failed", events |-> TRUE]
              /\ answer' = "unavailable"
              /\ req' = "answered"
         ELSE \/ /\ answer' = "noProvider"      \* captureForRun throws
                 /\ req' = "answered"
                 /\ UNCHANGED run
              \/ /\ run' = [run EXCEPT !.status = "Running"]
                 /\ req' = IF cfg.review THEN "enable"
                           ELSE IF cfg.pipeline THEN "pipeline" ELSE "mode"
                 /\ UNCHANGED answer
    /\ UNCHANGED <<cfg, inFlight, job, pipelineJob, requested, reviewVars,
                   gateVars, pc, pkg, failedEvent, seen, budget>>

EnableReviews ==
    /\ req = "enable"
    /\ requested' = TRUE
    /\ req' = IF cfg.pipeline THEN "pipeline" ELSE "mode"
    /\ UNCHANGED <<cfg, answer, inFlight, job, pipelineJob, run, reviewVars,
                   gateVars, pc, pkg, failedEvent, seen, budget>>

\* The artifacts and pipeline.enqueue.  An error may follow an enqueue that
\* Redis executed: without ONESHOT_QUEUE_REQUIRED the request then goes on to
\* the single queue.
SubmitPipeline ==
    /\ req = "pipeline"
    /\ \E landed, failed \in BOOLEAN :
         /\ landed \/ failed
         /\ pipelineJob' = IF landed THEN "queued" ELSE "absent"
         /\ \/ /\ ~failed
               /\ answer' = "pipeline"
               /\ req' = "answered"
               /\ UNCHANGED run
            \/ /\ failed /\ cfg.required
               /\ run' = FinalizedFailure
               /\ answer' = "unavailable"
               /\ req' = "answered"
            \/ /\ failed /\ ~cfg.required
               /\ req' = "mode"
               /\ UNCHANGED <<run, answer>>
    /\ UNCHANGED <<cfg, inFlight, job, requested, reviewVars, gateVars, pc, pkg,
                   failedEvent, seen, budget>>

\* The request executes the run itself and answers without waiting for it.
RunInline ==
    /\ BeginRun(Inline)
    /\ answer' = "inline"
    /\ req' = "answered"

\* execution-mode is saved; then queue.add is sent, or the run starts inline.
SubmitMode ==
    /\ req = "mode"
    /\ \/ /\ cfg.legacy
          /\ inFlight' = TRUE
          /\ req' = "adding"
          /\ UNCHANGED <<run, pc, answer>>
       \/ /\ ~cfg.legacy
          /\ RunInline
          /\ UNCHANGED inFlight
    /\ UNCHANGED <<cfg, job, pipelineJob, requested, reviewVars, gateVars, pkg,
                   failedEvent, seen, budget>>

AddReplied ==
    /\ req = "adding" /\ ~inFlight /\ job.state # "absent"
    /\ answer' = "queued"
    /\ req' = "answered"
    /\ UNCHANGED <<cfg, inFlight, job, pipelineJob, run, requested, reviewVars,
                   gateVars, pc, pkg, failedEvent, seen, budget>>

\* addRun rejects: after 5 s, with the command still on its way or executed
\* and its reply lost, or because Redis refused it.
AddRejected ==
    /\ req = "adding"
    /\ inFlight' \in IF inFlight THEN BOOLEAN ELSE {FALSE}
    /\ IF cfg.required
         THEN /\ run' = FinalizedFailure
              /\ answer' = "unavailable"
              /\ req' = "answered"
              /\ UNCHANGED pc
         ELSE RunInline
    /\ UNCHANGED <<cfg, job, pipelineJob, requested, reviewVars, gateVars, pkg,
                   failedEvent, seen, budget>>

\* Redis executes queue.add.
AddLands ==
    /\ inFlight
    /\ inFlight' = FALSE
    /\ job' = [AbsentJob EXCEPT !.state = "waiting"]
    /\ UNCHANGED <<cfg, req, answer, pipelineJob, run, requested, reviewVars,
                   gateVars, pc, pkg, failedEvent, seen, budget>>

\* The pipeline's worker starts the researcher stage: its events reach the
\* snapshot, where the guards of executeRunJob see them.
PipelineTakes ==
    /\ pipelineJob = "queued"
    /\ pipelineJob' = "taken"
    /\ run' = [run EXCEPT !.events = TRUE]
    /\ UNCHANGED <<cfg, req, answer, inFlight, job, requested, reviewVars,
                   gateVars, pc, pkg, failedEvent, seen, budget>>

\* DELETE /api/runs/:id on a waiting job.  BullMQ refuses to remove a job that
\* became active since its state was read, so reading and removing is one step.
CancelRun ==
    /\ job.state = "waiting"
    /\ job' = AbsentJob
    /\ seen' = [seen EXCEPT !.cancelled = TRUE]
    /\ UNCHANGED <<reqVars, run, reviewVars, gateVars, pc, pkg, failedEvent, budget>>

-----------------------------------------------------------------------------
(* The run queue's worker, BullMQ's stalled check and the queue listener. *)

Take(s) ==
    /\ s \in Slots
    /\ pc[s] = "idle"
    /\ job.state = "waiting"
    /\ job' = [job EXCEPT !.state = "active", !.owner = s]
    /\ BeginRun(s)
    /\ UNCHANGED <<reqVars, reviewVars, gateVars, pkg, failedEvent, seen, budget>>

\* executeRunJob returns: it never throws, so a job whose lock is still held
\* completes.
Return(e) ==
    /\ Step(e, "return", "idle")
    /\ pkg' = [pkg EXCEPT ![e] = None]
    /\ job' = IF job.state = "active" /\ job.owner = e
              THEN [AbsentJob EXCEPT !.state = "completed"] ELSE job
    /\ UNCHANGED <<reqVars, run, reviewVars, gateVars, failedEvent, seen, budget>>

\* BullMQ finds an active job whose lock ran out.
Restalled ==
    IF job.stalls < MaxStalled
    THEN /\ job' = [AbsentJob EXCEPT !.state = "waiting", !.stalls = job.stalls + 1]
         /\ UNCHANGED failedEvent
    ELSE /\ job' = [AbsentJob EXCEPT !.state = "failed"]
         /\ failedEvent' = TRUE

StallDead ==
    /\ job.state = "active"
    /\ pc[job.owner] = "idle"
    /\ Restalled
    /\ UNCHANGED <<reqVars, run, reviewVars, gateVars, pc, pkg, seen, budget>>

StallLive ==
    /\ job.state = "active"
    /\ pc[job.owner] # "idle"
    /\ budget.stall > 0
    /\ budget' = [budget EXCEPT !.stall = @ - 1]
    /\ Restalled
    /\ UNCHANGED <<reqVars, run, reviewVars, gateVars, pc, pkg, seen>>

OnFailed ==
    /\ failedEvent
    /\ failedEvent' = FALSE
    /\ run' = IF run.status = "Done" THEN run ELSE FinalizedFailure
    /\ UNCHANGED <<reqVars, job, reviewVars, gateVars, pc, pkg, seen, budget>>

-----------------------------------------------------------------------------
(* WorkflowRuntime.run and the nodes of the canonical graph. *)

\* Any node may end the graph: a root cause makes the later nodes skip
\* themselves, an exception fails the graph.  Either way finishRoot follows.
NodeEnds(e, from, to) == \E next \in {to, "failed"} : Step(e, from, next)

\* After resolveProvider nothing is checked again: the binding events are
\* emitted and the runtime is entered.
ResolveProvider(e) ==
    /\ \/ /\ Step(e, "binding", "deps")
          /\ run' = [run EXCEPT !.events = TRUE]
          /\ seen' = [seen EXCEPT !.executions = @ + 1]
       \/ /\ Step(e, "binding", "return")
          /\ run' = FinalizedFailure
          /\ UNCHANGED seen
    /\ UNCHANGED <<reqVars, job, reviewVars, gateVars, pkg, failedEvent, budget>>

BindDependencies(e) ==
    /\ NodeEnds(e, "deps", "research")
    /\ UNCHANGED <<reqVars, job, run, reviewVars, gateVars, pkg, failedEvent, seen, budget>>

RunResearcher(e) ==
    /\ NodeEnds(e, "research", "review")
    /\ UNCHANGED <<reqVars, job, run, reviewVars, gateVars, pkg, failedEvent, seen, budget>>

\* PlanReviewService.open: a pending draft, over whatever review there was.
OpenReview(e) ==
    /\ IF requested
         THEN /\ Step(e, "review", "reviewing")
              /\ review' = "pending"
              /\ seen' = [seen EXCEPT !.opened = @ + 1]
         ELSE /\ Step(e, "review", "plan")
              /\ UNCHANGED <<review, seen>>
    /\ UNCHANGED <<reqVars, job, run, lock, deciding, gateVars, pkg, failedEvent, budget>>

\* PlanReviewService.wait: approved, or cancelled, the run Done or 24 h over.
\* The run may become Done between the test and the read, so an approved
\* draft may still be taken then.
WaitReview(e) ==
    /\ \/ review = "approved" /\ Step(e, "reviewing", "plan")
       \/ Step(e, "reviewing", "failed")
    /\ UNCHANGED <<reqVars, job, run, reviewVars, gateVars, pkg, failedEvent, seen, budget>>

\* Planner to CreateHash: the package this execution arrives at is saved.
ProvePlan(e) ==
    /\ \/ /\ Step(e, "plan", "gate")
          /\ \E p \in Packages : pkg' = [pkg EXCEPT ![e] = p] /\ confirmedPkg' = p
       \/ /\ Step(e, "plan", "failed")
          /\ UNCHANGED <<pkg, confirmedPkg>>
    /\ UNCHANGED <<reqVars, job, run, reviewVars, gate, approval, failedEvent, seen, budget>>

\* BuildReviewService.open: the first package to arrive is the one on record.
OpenGate(e) ==
    /\ IF requested
         THEN /\ gate' = IF gate = None THEN pkg[e] ELSE gate
              /\ Step(e, "gate", IF gate' = pkg[e] THEN "gating" ELSE "failed")
         ELSE /\ Step(e, "gate", "builder")
              /\ UNCHANGED gate
    /\ UNCHANGED <<reqVars, job, run, reviewVars, confirmedPkg, approval, pkg,
                   failedEvent, seen, budget>>

\* Mutant: the end of the wait is taken for the authorization.
WaitGate_EndIsApproval(e) ==
    /\ Step(e, "gating", "builder")
    /\ UNCHANGED <<reqVars, job, run, reviewVars, gateVars, pkg, failedEvent, seen, budget>>

\* BuildReviewService.wait and requireApproved.
WaitGate(e) ==
    /\ \/ approval = gate /\ gate = pkg[e] /\ Step(e, "gating", "builder")
       \/ Step(e, "gating", "failed")
    /\ UNCHANGED <<reqVars, job, run, reviewVars, gateVars, pkg, failedEvent, seen, budget>>

RunBuilder(e) ==
    /\ NodeEnds(e, "builder", "hash")
    /\ UNCHANGED <<reqVars, job, run, reviewVars, gateVars, pkg, failedEvent, seen, budget>>

VerifyHash(e) ==
    /\ NodeEnds(e, "hash", "done")
    /\ UNCHANGED <<reqVars, job, run, reviewVars, gateVars, pkg, failedEvent, seen, budget>>

\* Mutant: the result is written without looking at the run.
FinishPassed_Unguarded(e) ==
    /\ Step(e, "done", "return")
    /\ run' = [Finished("Passed") EXCEPT !.events = TRUE]
    /\ UNCHANGED <<reqVars, job, reviewVars, gateVars, pkg, failedEvent, seen, budget>>

FinishPassed(e) ==
    /\ Step(e, "done", "return")
    /\ run' = [(IF run.status = "Done" THEN run ELSE Finished("Passed")) EXCEPT !.events = TRUE]
    /\ UNCHANGED <<reqVars, job, reviewVars, gateVars, pkg, failedEvent, seen, budget>>

FinishRoot(e) ==
    /\ Step(e, "failed", "return")
    /\ run' = FinalizedFailure
    /\ UNCHANGED <<reqVars, job, reviewVars, gateVars, pkg, failedEvent, seen, budget>>

-----------------------------------------------------------------------------
(* The human: POST /review (decide) and POST /build-review (decide). *)

\* Mutant: requests do not wait for each other.
DecideRead_NoLock(d) ==
    /\ ~deciding[d]
    /\ run.status # "Done" /\ review = "pending"
    /\ deciding' = [deciding EXCEPT ![d] = TRUE]
    /\ UNCHANGED <<reqVars, job, run, review, lock, gateVars, pc, pkg, failedEvent,
                   seen, budget>>

\* The previous decision's promise is awaited, then the draft is read: one
\* that is not pending is refused and nothing is written.
DecideRead(d) ==
    /\ lock = None
    /\ run.status # "Done" /\ review = "pending"
    /\ lock' = d
    /\ deciding' = [deciding EXCEPT ![d] = TRUE]
    /\ UNCHANGED <<reqVars, job, run, review, gateVars, pc, pkg, failedEvent, seen, budget>>

DecideSave(d) ==
    /\ deciding[d]
    /\ review' \in {"approved", "cancelled"}
    /\ lock' = None
    /\ deciding' = [deciding EXCEPT ![d] = FALSE]
    /\ seen' = [seen EXCEPT !.decided = @ + 1]
    /\ UNCHANGED <<reqVars, job, run, gateVars, pc, pkg, failedEvent, budget>>

\* Approval of the package on record, if it is still the confirmed one.  The
\* "return" action changes nothing.
ApproveBuild ==
    /\ run.status # "Done"
    /\ gate # None /\ confirmedPkg = gate
    /\ approval' = IF approval = None THEN gate ELSE approval
    /\ UNCHANGED <<reqVars, job, run, reviewVars, confirmedPkg, gate, pc, pkg,
                   failedEvent, seen, budget>>

-----------------------------------------------------------------------------
\* The server is killed and restarted.
Crash ==
    /\ budget.crash > 0
    /\ budget' = [budget EXCEPT !.crash = @ - 1]
    /\ req' = "answered"
    /\ pc' = [e \in Executors |-> "idle"]
    /\ pkg' = [e \in Executors |-> None]
    /\ lock' = None
    /\ deciding' = [d \in Deciders |-> FALSE]
    /\ failedEvent' = FALSE
    /\ seen' = [seen EXCEPT !.lost = @ \/ failedEvent]
    /\ UNCHANGED <<cfg, answer, inFlight, job, pipelineJob, run, requested, review, gateVars>>

Submission == Submit \/ EnableReviews \/ SubmitPipeline \/ SubmitMode \/ AddReplied
              \/ AddRejected \/ AddLands \/ PipelineTakes

Execute(e) ==
    \/ ResolveProvider(e) \/ BindDependencies(e) \/ RunResearcher(e) \/ OpenReview(e)
    \/ WaitReview(e) \/ ProvePlan(e) \/ OpenGate(e) \/ WaitGate(e) \/ RunBuilder(e)
    \/ VerifyHash(e) \/ FinishPassed(e) \/ FinishRoot(e) \/ Return(e)

Decide(d) == DecideRead(d) \/ DecideSave(d)

Next ==
    \/ Submission
    \/ CancelRun
    \/ \E s \in Slots : Take(s)
    \/ \E e \in Executors : Execute(e)
    \/ StallDead \/ StallLive \/ OnFailed
    \/ \E d \in Deciders : Decide(d)
    \/ ApproveBuild
    \/ Crash

Spec == Init /\ [][Next]_vars

\* Node runs every callback that is ready, agents and providers answer or time
\* out, BullMQ delivers waiting jobs, checks for stalled ones and publishes its
\* events.  Nothing makes a human decide.
Fairness ==
    /\ WF_vars(\E s \in Slots : Take(s))
    /\ \A e \in Executors : WF_vars(Execute(e))
    /\ WF_vars(StallDead)
    /\ WF_vars(OnFailed)

FairSpec == Spec /\ Fairness

-----------------------------------------------------------------------------
(* Properties. *)

\* Nothing executes before submitRun has sent the run to a queue or started it.
BeforeExecution ==
    /\ req = "new" => run.status = "absent" /\ ~requested
    /\ req \in {"new", "enable", "pipeline", "mode"} =>
          job = AbsentJob /\ ~inFlight /\ ~failedEvent /\ \A e \in Executors : pc[e] = "idle"

\* Whoever is deciding holds the lock, and an undecided draft is outstanding
\* while one is pending or being decided.
DraftOutstanding ==
    /\ seen \in [executions : Nat, opened : Nat, decided : Nat,
                cancelled : BOOLEAN, lost : BOOLEAN]
    /\ failedEvent \in BOOLEAN
    /\ lock \in Deciders \union {None}
    /\ deciding \in [Deciders -> BOOLEAN]
    /\ \A d \in Deciders : deciding[d] => lock = d
    /\ seen.decided <= seen.opened
    /\ (review = "pending" \/ lock # None) => seen.decided < seen.opened

HasPackage ==
    \A e \in Executors : pc[e] \in {"gate", "gating", "builder", "hash", "done"} => pkg[e] # None

RequestType ==
    /\ req \in {"new", "enable", "pipeline", "mode", "adding", "answered"}
    /\ answer \in {"none", "unavailable", "noProvider", "pipeline", "queued", "inline"}
    /\ inFlight \in BOOLEAN /\ requested \in BOOLEAN /\ failedEvent \in BOOLEAN

JobType ==
    /\ job \in [state : {"absent", "waiting", "active", "completed", "failed"},
                stalls : 0..MaxStalled, owner : Slots \union {None}]
    /\ job.state = "active" <=> job.owner # None

Snapshots ==
    {r \in [status : {"absent", "Running", "Done"},
            result : {"none", "Passed", "Failed"}, events : BOOLEAN] :
        r.status = "Done" <=> r.result # "none"}

RunType == run \in Snapshots

ReviewType ==
    /\ review \in {"none", "pending", "approved", "cancelled"}
    /\ lock \in Deciders \union {None}
    /\ deciding \in [Deciders -> BOOLEAN]
    /\ confirmedPkg \in Packages \union {None}
    /\ gate \in Packages \union {None}
    /\ approval \in Packages \union {None}

ExecutionType ==
    /\ pc \in [Executors -> Points]
    /\ pkg \in [Executors -> Packages \union {None}]

\* Types; a job is active exactly while a slot owns it, and a run is Done
\* exactly when it has a result.
QueueTypeOK == RequestType /\ JobType /\ RunType /\ ReviewType /\ ExecutionType

\* Whatever the queue listener, a redelivered job, the inline fallback and a
\* slow first execution do in whatever order, a result once reported for the
\* run is never replaced by another (queue.ts: the guards of executeRunJob,
\* finalizeFailure and the "failed" listener; finishPassed and finishRoot).
DoneIsFinal ==
    [][run.status = "Done" => run'.status = "Done" /\ run'.result = run.result]_vars

\* The Builder of a reviewed run works on exactly the package whose hash a
\* human approved, also when two executions of the run arrive at different
\* packages (build-review.ts: open, decide, requireApproved).
BuilderAuthorized ==
    \A e \in Executors : pc[e] \in {"builder", "hash", "done"} /\ requested => approval = pkg[e]

\* A reviewed run is reported Passed only if the package on record was approved
\* (build-review.ts with finishPassed of workflow-runtime.ts).
PassedIsApproved ==
    requested /\ run.result = "Passed" => approval # None /\ approval = gate

\* Every draft put before the human is decided at most once, however many
\* requests arrive together (plan-review.ts: the chain of locks in decide).
DecidedOnce == seen.decided <= seen.opened

\* A run answered "queued" ends, through crashes and lost locks: it finishes,
\* or its job was cancelled, or the server died between BullMQ's failed event
\* and the listener that finalizes the run (queue.ts: "never left dangling").
QueuedRunEnds ==
    answer = "queued" ~> (run.status = "Done" \/ seen.cancelled \/ seen.lost)
=============================================================================
