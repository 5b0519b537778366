--------------------------- MODULE StagePipeline ---------------------------
(***************************************************************************)
(* One run of the per-stage BullMQ pipeline: worker slots executing stage  *)
(* jobs under a Redis lease (pipeline/run-stage.ts, idempotency.ts), the   *)
(* durable checkpoints (checkpoints.ts), the pending/effect/committed      *)
(* transition protocol (apply-transition.ts), run terminalization          *)
(* (transition-services.ts) and the reconcile endpoint (reconcile.ts).     *)
(*                                                                         *)
(* Every Redis command and every artifact write is a step of its own, so   *)
(* that workers, zombies and reconcilers interleave between them.  Crashes *)
(* forget everything a process held and nothing that Redis, BullMQ or the  *)
(* artifact store hold.                                                    *)
(***************************************************************************)
EXTENDS CanonicalTransition, Sequences

CONSTANTS
    Workers,        \* job slots of the pipeline worker processes
    Reconcilers,    \* concurrent POST /api/runs/:id/reconcile requests
    NoOwner,        \* no lease token / no BullMQ lock holder
    MaxAttempts,    \* BullMQ attempts of a job, 3 in the code
    MaxStalled,     \* BullMQ maxStalledCount, 1 by default
    MaxCrashes,     \* bounds on adversity: processes killed ...
    MaxThrows,      \*   ... transient exceptions out of the processor
    MaxStalls,      \*   ... live workers that lose their BullMQ lock
    MaxExpiries     \*   ... live workers whose Redis lease runs out

Procs == Workers \union Reconcilers

ASSUME ActorsAssumption ==
    /\ Workers \intersect Reconcilers = {}
    /\ NoOwner \notin Procs

ASSUME BoundsAssumption ==
    /\ MaxAttempts \in Nat \ {0}
    /\ {MaxStalled, MaxCrashes, MaxThrows, MaxStalls, MaxExpiries} \subseteq Nat

VARIABLES
    jobs,           \* BullMQ: [Ids -> [state, attempts, stalls, owner]]
    lease,          \* Redis stage lock: [Ids -> Workers or NoOwner]
    outcome,        \* Redis outcome + executed marker, written together
    completed,      \* Redis ...:completed markers, by key segments
    trans,          \* Redis transition state: none, pending, committed
    intent,         \* Redis finalization intent: the issue, or NoIssue
    termState,      \* Redis terminal-state: none, pending, committed
    termIssue,      \* Redis terminal-issue
    builderIntent,  \* Redis builder-intent key
    planConfirmed,  \* Redis plan-confirmed key
    store,          \* artifacts: triple_validation, hash_proof, build-review,
                    \* build-approval, build_result
    run,            \* run snapshot: pipeline_status, test_result, root_cause
    hashEqual,      \* whether recomputing the package's hash gives H1 again:
                    \* a function of the confirmed package, fixed for the run
    doneEvents,     \* Done events emitted for the run
    builderRuns,    \* times BuilderWorkflow.run was entered
    pc, job, out,   \* per process: program point, identity, outcome in hand
    issueHeld,      \* per process: effectiveIssue of finish()
    sawDone,        \* per process: snapshot.pipeline_status read by finish()
    budget          \* adversity left

vars == <<jobs, lease, outcome, completed, trans, intent, termState, termIssue,
          builderIntent, planConfirmed, store, run, hashEqual, doneEvents,
          builderRuns, pc, job, out, issueHeld, sawDone, budget>>

-----------------------------------------------------------------------------
NoId == Id("none", 0)
NoOutcome == [kind |-> "none", issue |-> NoIssue]

AbsentJob == [state |-> "absent", attempts |-> 0, stalls |-> 0, owner |-> NoOwner]
QueuedJob == [AbsentJob EXCEPT !.state = "waiting"]

\* A job that ended keeps blocking its id; its counters no longer matter.
EndedJob(state) == [AbsentJob EXCEPT !.state = state]

\* Program points at which a worker has the lease and runs the stage.
ExecutingPoints == {"execute", "tripleRead", "hashSave", "recover", "preflight",
                    "builder", "buildSave", "verify", "save", "mark", "release"}
ApplyPoints == {"apply", "pending", "intent", "effect", "term", "termNX",
                "termIssue", "snapshot", "finish", "emit", "termCommit", "commit"}
Points == ExecutingPoints \union ApplyPoints
          \union {"idle", "check", "acquire", "raced", "complete"}

\* Redis key segments of the completed marker.  run-stage.ts acquires the lock
\* for the stage name "<stage>:<iteration>" and acquire() looks the marker up
\* at iteration 0, so its key has one segment more than the one markCompleted
\* writes.
completedKey(segments, iteration) == Append(segments, iteration)
MarkedKey(id) == completedKey(<<id.stage>>, id.iteration)
AcquireKey(id) == completedKey(<<id.stage, id.iteration>>, 0)

\* queue.add with a deterministic jobId: BullMQ ignores an id it already has.
Added(js, id) == IF js[id].state = "absent" THEN [js EXCEPT ![id] = QueuedJob] ELSE js

Init ==
    /\ jobs = [id \in Ids |-> IF id = Id("researcher", 0) THEN QueuedJob ELSE AbsentJob]
    /\ lease = [id \in Ids |-> NoOwner]
    /\ outcome = [id \in Ids |-> NoOutcome]
    /\ completed = {}
    /\ trans = [id \in Ids |-> "none"]
    /\ intent = NoIssue
    /\ termState = "none"
    /\ termIssue = NoIssue
    /\ builderIntent = FALSE
    /\ planConfirmed = FALSE
    /\ store = [triple |-> "none", proof |-> "none", review |-> FALSE,
                approval |-> FALSE, build |-> "none"]
    /\ run = [status |-> "Running", result |-> "none", issue |-> NoIssue]
    /\ hashEqual \in BOOLEAN
    /\ doneEvents = 0
    /\ builderRuns = 0
    /\ pc = [p \in Procs |-> "idle"]
    /\ job = [p \in Procs |-> NoId]
    /\ out = [p \in Procs |-> NoOutcome]
    /\ issueHeld = [p \in Procs |-> NoIssue]
    /\ sawDone = [p \in Procs |-> FALSE]
    /\ budget = [crash |-> MaxCrashes, throw |-> MaxThrows,
                 stall |-> MaxStalls, expire |-> MaxExpiries]

-----------------------------------------------------------------------------
(* Local control. *)

Step(p, from, to) == pc[p] = from /\ pc' = [pc EXCEPT ![p] = to]

\* The process forgets what it was doing.
Forget(p) ==
    /\ pc' = [pc EXCEPT ![p] = "idle"]
    /\ job' = [job EXCEPT ![p] = NoId]
    /\ out' = [out EXCEPT ![p] = NoOutcome]
    /\ issueHeld' = [issueHeld EXCEPT ![p] = NoIssue]
    /\ sawDone' = [sawDone EXCEPT ![p] = FALSE]

\* A live worker still working on the job: not crashed and not moved on.
WorkingOn(w, id) == w \in Workers /\ pc[w] # "idle" /\ job[w] = id

\* This execution's own token is in the lock.  A token never outlives the
\* execution that drew it: one left by a crash is nobody's.
HoldsLease(p) == pc[p] \in ExecutingPoints /\ lease[job[p]] = p

\* Mutant: one attempt too many.
Thrown_OffByOne(p) ==
    LET id == job[p]
        used == jobs[id].attempts + 1
    IN /\ lease' = IF HoldsLease(p) THEN [lease EXCEPT ![id] = NoOwner] ELSE lease
       /\ jobs' = IF jobs[id].owner = p
                  THEN [jobs EXCEPT ![id] =
                            IF used <= MaxAttempts
                            THEN [@ EXCEPT !.state = "waiting", !.attempts = used,
                                           !.owner = NoOwner]
                            ELSE EndedJob("failed")]
                  ELSE jobs
       /\ Forget(p)

\* The processor threw: the finally block releases the lease if the token still
\* owns it, and BullMQ, if this worker still has the job, counts the attempt.
Thrown(p) ==
    LET id == job[p]
        used == jobs[id].attempts + 1
    IN /\ lease' = IF HoldsLease(p) THEN [lease EXCEPT ![id] = NoOwner] ELSE lease
       /\ jobs' = IF jobs[id].owner = p
                  THEN [jobs EXCEPT ![id] =
                            IF used < MaxAttempts
                            THEN [@ EXCEPT !.state = "waiting", !.attempts = used,
                                           !.owner = NoOwner]
                            ELSE EndedJob("failed")]
                  ELSE jobs
       /\ Forget(p)

\* What a throwing step leaves alone.
KeptByThrow == <<outcome, completed, trans, intent, termState, termIssue,
                 builderIntent, planConfirmed, store, run, hashEqual, doneEvents,
                 builderRuns>>

-----------------------------------------------------------------------------
(* runStage: find the persisted outcome, or execute under the lease. *)

Take(w, id) ==
    /\ pc[w] = "idle" /\ jobs[id].state = "waiting"
    /\ jobs' = [jobs EXCEPT ![id].state = "active", ![id].owner = w]
    /\ pc' = [pc EXCEPT ![w] = "check"]
    /\ job' = [job EXCEPT ![w] = id]
    /\ UNCHANGED <<lease, outcome, completed, trans, intent, termState, termIssue,
                   builderIntent, planConfirmed, store, run, hashEqual, doneEvents, builderRuns,
                   out, issueHeld, sawDone, budget>>

\* Mutant: a retry that finds the stage executed returns without going on to
\* the transition.
LoadPersistedOutcome_NoTransition(w) ==
    /\ pc[w] \in {"check", "raced"}
    /\ IF outcome[job[w]] # NoOutcome
       THEN /\ out' = [out EXCEPT ![w] = outcome[job[w]]]
            /\ pc' = [pc EXCEPT ![w] = "complete"]
            /\ UNCHANGED <<jobs, lease, job, issueHeld, sawDone>>
       ELSE \/ /\ Step(w, "check", "acquire")
               /\ UNCHANGED <<jobs, lease, job, out, issueHeld, sawDone>>
            \/ pc[w] = "raced" /\ Thrown(w)
    /\ UNCHANGED <<KeptByThrow, budget>>

\* loadPersistedOutcome, before the lock and again after losing it.
LoadPersistedOutcome(w) ==
    /\ pc[w] \in {"check", "raced"}
    /\ IF outcome[job[w]] # NoOutcome
       THEN /\ out' = [out EXCEPT ![w] = outcome[job[w]]]
            /\ pc' = [pc EXCEPT ![w] = "apply"]
            /\ UNCHANGED <<jobs, lease, job, issueHeld, sawDone>>
       ELSE \/ /\ Step(w, "check", "acquire")
               /\ UNCHANGED <<jobs, lease, job, out, issueHeld, sawDone>>
            \/ pc[w] = "raced" /\ Thrown(w)   \* "already has an active execution lock"
    /\ UNCHANGED <<KeptByThrow, budget>>

Acquire(w) ==
    LET id == job[w]
        free == lease[id] = NoOwner /\ AcquireKey(id) \notin completed
    IN /\ Step(w, "acquire", IF free THEN "execute" ELSE "raced")
       /\ lease' = [lease EXCEPT ![id] = IF free THEN w ELSE @]
       /\ UNCHANGED <<jobs, KeptByThrow, job, out, issueHeld, sawDone, budget>>

\* saveExecution: one Lua script, fenced by the lease token.  The leaseLost flag
\* the renewal timer sets leads to the same throw with nothing written between,
\* so the fence stands for both.
SaveExecution(w) ==
    LET id == job[w]
    IN /\ pc[w] = "save"
       /\ \/ /\ lease[id] = w
             /\ outcome' = [outcome EXCEPT ![id] = out[w]]
             /\ Step(w, "save", "mark")
             /\ UNCHANGED <<jobs, lease, job, out, issueHeld, sawDone>>
          \/ lease[id] # w /\ Thrown(w) /\ UNCHANGED outcome
       /\ UNCHANGED <<completed, trans, intent, termState, termIssue, builderIntent,
                      planConfirmed, store, run, hashEqual, doneEvents, builderRuns, budget>>

MarkCompleted(w) ==
    /\ Step(w, "mark", "release")
    /\ completed' = completed \union {MarkedKey(job[w])}
    /\ UNCHANGED <<jobs, lease, outcome, trans, intent, termState, termIssue,
                   builderIntent, planConfirmed, store, run, hashEqual, doneEvents, builderRuns,
                   job, out, issueHeld, sawDone, budget>>

\* The finally block: only the owner's token deletes the lock.
Release(w) ==
    /\ Step(w, "release", "apply")
    /\ lease' = IF HoldsLease(w) THEN [lease EXCEPT ![job[w]] = NoOwner] ELSE lease
    /\ UNCHANGED <<jobs, KeptByThrow, job, out, issueHeld, sawDone, budget>>

-----------------------------------------------------------------------------
(* execute(), per stage.  What the agents compute is nondeterministic. *)

\* The stage has its outcome: on to saveExecution.
Produce(w, from, o) ==
    /\ Step(w, from, "save")
    /\ out' = [out EXCEPT ![w] = o]
    /\ UNCHANGED <<jobs, lease, job, issueHeld, sawDone>>

Unstored == <<outcome, completed, trans, intent, termState, termIssue,
              planConfirmed, run, hashEqual, doneEvents, budget>>

RunAgentStage(w) ==
    /\ job[w].stage \in {"researcher", "planner", "refactor", "gap-analysis", "evaluation"}
    /\ Produce(w, "execute", advance)
    /\ UNCHANGED <<Unstored, builderIntent, store, builderRuns>>

RunTripleValidationStage(w) ==
    /\ job[w].stage = "triple-validation"
    /\ Step(w, "execute", "tripleRead")
    /\ \E verdict \in {"valid", "invalid"} : store' = [store EXCEPT !.triple = verdict]
    /\ UNCHANGED <<Unstored, jobs, lease, builderIntent, builderRuns, job, out,
                   issueHeld, sawDone>>

\* loadTripleValidation, after the artifact was saved.
ReadTripleValidation(w) ==
    /\ Produce(w, "tripleRead", IF store.triple = "valid" THEN advance
                                ELSE refine("triple-validation"))
    /\ UNCHANGED <<Unstored, builderIntent, store, builderRuns>>

\* ConfirmationWorkflow.run throws unless the stored triple is all_valid.
RunConfirmationStage(w) ==
    /\ pc[w] = "execute" /\ job[w].stage = "confirmation"
    /\ \/ store.triple = "valid" /\ Produce(w, "execute", advance)
       \/ store.triple # "valid" /\ Thrown(w)
    /\ UNCHANGED <<Unstored, builderIntent, store, builderRuns>>

\* The Build Ready gate is opened before the hash proof is stored.
RunHashStage(w) ==
    /\ job[w].stage = "hash"
    /\ Step(w, "execute", "hashSave")
    /\ store' = [store EXCEPT !.review = @ \/ hashEqual]
    /\ out' = [out EXCEPT ![w] = IF hashEqual THEN advance ELSE terminal("hash")]
    /\ UNCHANGED <<Unstored, jobs, lease, builderIntent, builderRuns, job,
                   issueHeld, sawDone>>

SaveHashProof(w) ==
    /\ Produce(w, "hashSave", out[w])
    /\ store' = [store EXCEPT !.proof = IF out[w] = advance THEN "equal" ELSE "mismatch"]
    /\ UNCHANGED <<Unstored, builderIntent, builderRuns>>

\* Mutant: the intent is written without NX, every execution is the first.
RecordBuilderIntent_NoNX(w) ==
    /\ job[w].stage = "build"
    /\ Step(w, "execute", "preflight")
    /\ builderIntent' = TRUE
    /\ UNCHANGED <<Unstored, jobs, lease, store, builderRuns, job, out, issueHeld, sawDone>>

\* SET NX: only the first execution of the build stage goes on to the Builder.
RecordBuilderIntent(w) ==
    /\ job[w].stage = "build"
    /\ Step(w, "execute", IF builderIntent THEN "recover" ELSE "preflight")
    /\ builderIntent' = TRUE
    /\ UNCHANGED <<Unstored, jobs, lease, store, builderRuns, job, out, issueHeld, sawDone>>

RecoverBuildResult(w) ==
    /\ Produce(w, "recover",
               CASE store.build \in {"Passed", "Mismatch"} -> advance
                 [] store.build = "Failed" -> terminal("build")
                 [] store.build = "none" -> terminal("uncertain"))
    /\ UNCHANGED <<Unstored, builderIntent, store, builderRuns>>

\* Mutant: the stage waits for its preconditions, as the in-process gate does.
AuthorizeBuild_Waits(w) ==
    /\ store.proof # "none" /\ store.review /\ store.approval
    /\ Step(w, "preflight", "builder")
    /\ UNCHANGED <<Unstored, jobs, lease, builderIntent, store, builderRuns, job, out,
                   issueHeld, sawDone>>

\* runBuildStage up to the Builder: it needs the hash proof and the approval of
\* the package with that hash, and throws otherwise.
AuthorizeBuild(w) ==
    /\ pc[w] = "preflight"
    /\ \/ /\ store.proof # "none" /\ store.review /\ store.approval
          /\ Step(w, "preflight", "builder")
          /\ UNCHANGED <<jobs, lease, job, out, issueHeld, sawDone>>
       \/ /\ ~ (store.proof # "none" /\ store.review /\ store.approval)
          /\ Thrown(w)
    /\ UNCHANGED <<Unstored, builderIntent, store, builderRuns>>

RunBuilder(w) ==
    /\ Step(w, "builder", "buildSave")
    /\ builderRuns' = builderRuns + 1
    /\ UNCHANGED <<Unstored, jobs, lease, builderIntent, store, job, out, issueHeld, sawDone>>

\* "Mismatch" is a passed build whose hash_sandbox is not the proof's hash.
SaveBuildResult(w) ==
    \E result \in {"Passed", "Mismatch", "Failed"} :
        /\ Produce(w, "buildSave", IF result = "Failed" THEN terminal("build") ELSE advance)
        /\ store' = [store EXCEPT !.build = result]
        /\ UNCHANGED <<Unstored, builderIntent, builderRuns>>

LoadFinalizationIntent(w) ==
    /\ pc[w] = "execute" /\ job[w].stage = "finalize"
    /\ \/ intent # NoIssue /\ Produce(w, "execute", terminal(intent))
       \/ /\ intent = NoIssue /\ Step(w, "execute", "verify")
          /\ UNCHANGED <<jobs, lease, job, out, issueHeld, sawDone>>
    /\ UNCHANGED <<Unstored, builderIntent, store, builderRuns>>

\* Mutant: the sandbox hash is not compared with the proof.
VerifyFinalHash_NoHash(w) ==
    /\ pc[w] = "verify"
    /\ \/ /\ store.proof # "none" /\ store.build # "none"
          /\ Produce(w, "verify", IF store.build # "Failed" THEN advance
                                  ELSE terminal("finalize"))
       \/ (store.proof = "none" \/ store.build = "none") /\ Thrown(w)
    /\ UNCHANGED <<Unstored, builderIntent, store, builderRuns>>

VerifyFinalHash(w) ==
    /\ pc[w] = "verify"
    /\ \/ /\ store.proof # "none" /\ store.build # "none"
          /\ Produce(w, "verify", IF store.build = "Passed" THEN advance
                                  ELSE terminal("finalize"))
       \/ (store.proof = "none" \/ store.build = "none") /\ Thrown(w)
    /\ UNCHANGED <<Unstored, builderIntent, store, builderRuns>>

Execute(w) ==
    \/ RunAgentStage(w)
    \/ RunTripleValidationStage(w) \/ ReadTripleValidation(w)
    \/ RunConfirmationStage(w)
    \/ RunHashStage(w) \/ SaveHashProof(w)
    \/ RecordBuilderIntent(w) \/ RecoverBuildResult(w)
    \/ AuthorizeBuild(w) \/ RunBuilder(w) \/ SaveBuildResult(w)
    \/ LoadFinalizationIntent(w) \/ VerifyFinalHash(w)

-----------------------------------------------------------------------------
(* applyTransition: pending, side effect, committed. *)

TransitionOf(p) == resolveTransition(job[p].stage, out[p], job[p].iteration)

NotApplied == <<lease, outcome, completed, builderIntent, planConfirmed, store,
                hashEqual, builderRuns, job, out, budget>>

\* Where the transition's side effect starts.
EffectPoint(p) ==
    CASE TransitionOf(p).type = "done" -> "term"
      [] TransitionOf(p).type = "next" /\ TransitionOf(p).finalization # NoIssue -> "intent"
      [] OTHER -> "effect"

ReadTransitionState(p) ==
    /\ Step(p, "apply", CASE trans[job[p]] = "committed" -> "complete"
                          [] trans[job[p]] = "pending" -> EffectPoint(p)
                          [] trans[job[p]] = "none" -> "pending")
    /\ UNCHANGED <<NotApplied, jobs, trans, intent, termState, termIssue, run,
                   doneEvents, issueHeld, sawDone>>

\* Mutant: the transition is marked committed before its effect.
MarkTransitionPending_Early(p) ==
    /\ Step(p, "pending", EffectPoint(p))
    /\ trans' = [trans EXCEPT ![job[p]] = "committed"]
    /\ UNCHANGED <<NotApplied, jobs, intent, termState, termIssue, run, doneEvents,
                   issueHeld, sawDone>>

MarkTransitionPending(p) ==
    /\ Step(p, "pending", EffectPoint(p))
    /\ trans' = [trans EXCEPT ![job[p]] = "pending"]
    /\ UNCHANGED <<NotApplied, jobs, intent, termState, termIssue, run, doneEvents,
                   issueHeld, sawDone>>

SaveFinalizationIntent(p) ==
    /\ Step(p, "intent", "effect")
    /\ intent' = TransitionOf(p).finalization
    /\ UNCHANGED <<NotApplied, jobs, trans, termState, termIssue, run, doneEvents,
                   issueHeld, sawDone>>

\* queue.add of the next stage; the two human gates only write history.
ApplyEffect(p) ==
    /\ Step(p, "effect", "commit")
    /\ jobs' = IF TransitionOf(p).type = "next" THEN Added(jobs, TransitionOf(p).to) ELSE jobs
    /\ UNCHANGED <<NotApplied, trans, intent, termState, termIssue, run, doneEvents,
                   issueHeld, sawDone>>

MarkTransitionCommitted(p) ==
    /\ Step(p, "commit", "complete")
    /\ trans' = [trans EXCEPT ![job[p]] = "committed"]
    /\ UNCHANGED <<NotApplied, jobs, intent, termState, termIssue, run, doneEvents,
                   issueHeld, sawDone>>

-----------------------------------------------------------------------------
(* finish(): terminal-state pending, runs.finish and the Done event, committed. *)

\* Mutant: a pending terminal state is taken for a run someone else finished.
ReadTerminalState_Trusting(p) ==
    /\ Step(p, "term", CASE termState = "committed" -> "commit"
                         [] termState = "pending" -> "termCommit"
                         [] termState = "none" -> "termNX")
    /\ UNCHANGED <<NotApplied, jobs, trans, intent, termState, termIssue, run,
                   doneEvents, issueHeld, sawDone>>

ReadTerminalState(p) ==
    /\ Step(p, "term", CASE termState = "committed" -> "commit"
                         [] termState = "pending" -> "snapshot"
                         [] termState = "none" -> "termNX")
    /\ issueHeld' = [issueHeld EXCEPT ![p] = IF termState = "pending" THEN termIssue ELSE @]
    /\ UNCHANGED <<NotApplied, jobs, trans, intent, termState, termIssue, run,
                   doneEvents, sawDone>>

\* SET NX of the state; the issue is a second command, and a loser reads
\* whatever the issue key holds by then.
MarkTerminalPending(p) ==
    /\ Step(p, "termNX", IF termState = "none" THEN "termIssue" ELSE "snapshot")
    /\ termState' = IF termState = "none" THEN "pending" ELSE termState
    /\ issueHeld' = [issueHeld EXCEPT ![p] = IF termState = "none"
                                             THEN TransitionOf(p).finalization
                                             ELSE termIssue]
    /\ UNCHANGED <<NotApplied, jobs, trans, intent, termIssue, run, doneEvents, sawDone>>

SaveTerminalIssue(p) ==
    /\ Step(p, "termIssue", "snapshot")
    /\ termIssue' = issueHeld[p]
    /\ UNCHANGED <<NotApplied, jobs, trans, intent, termState, run, doneEvents,
                   issueHeld, sawDone>>

\* runs.get happens before the await of loadHashProof.
ReadSnapshot(p) ==
    /\ Step(p, "snapshot", "finish")
    /\ sawDone' = [sawDone EXCEPT ![p] = run.status = "Done"]
    /\ UNCHANGED <<NotApplied, jobs, trans, intent, termState, termIssue, run,
                   doneEvents, issueHeld>>

\* Mutant: the verdict is derived from the issue the finisher ended up with.
FinishRun_ByIssue(p) ==
    /\ Step(p, "finish", IF sawDone[p] THEN "termCommit" ELSE "emit")
    /\ run' = IF sawDone[p] THEN run
              ELSE [status |-> "Done", issue |-> issueHeld[p],
                    result |-> IF issueHeld[p] = NoIssue THEN "Passed" ELSE "Failed"]
    /\ UNCHANGED <<NotApplied, jobs, trans, intent, termState, termIssue, doneEvents,
                   issueHeld, sawDone>>

FinishRun(p) ==
    /\ Step(p, "finish", IF sawDone[p] THEN "termCommit" ELSE "emit")
    /\ run' = IF sawDone[p] THEN run
              ELSE [status |-> "Done", result |-> TransitionOf(p).result,
                    issue |-> IF TransitionOf(p).result = "Failed"
                              THEN issueHeld[p] ELSE NoIssue]
    /\ UNCHANGED <<NotApplied, jobs, trans, intent, termState, termIssue, doneEvents,
                   issueHeld, sawDone>>

EmitDone(p) ==
    /\ Step(p, "emit", "termCommit")
    /\ doneEvents' = doneEvents + 1
    /\ UNCHANGED <<NotApplied, jobs, trans, intent, termState, termIssue, run,
                   issueHeld, sawDone>>

MarkTerminalCommitted(p) ==
    /\ Step(p, "termCommit", "commit")
    /\ termState' = "committed"
    /\ UNCHANGED <<NotApplied, jobs, trans, intent, termIssue, run, doneEvents,
                   issueHeld, sawDone>>

FinishSteps(p) ==
    \/ ReadTerminalState(p) \/ MarkTerminalPending(p) \/ SaveTerminalIssue(p)
    \/ ReadSnapshot(p) \/ FinishRun(p) \/ EmitDone(p) \/ MarkTerminalCommitted(p)

ApplyTransition(p) ==
    \/ ReadTransitionState(p) \/ MarkTransitionPending(p) \/ SaveFinalizationIntent(p)
    \/ ApplyEffect(p) \/ FinishSteps(p) \/ MarkTransitionCommitted(p)

\* The processor returned: BullMQ completes the job if this worker still has
\* it.  A reconcile request simply answers.
Complete(p) ==
    /\ pc[p] = "complete"
    /\ jobs' = IF jobs[job[p]].owner = p
               THEN [jobs EXCEPT ![job[p]] = EndedJob("completed")]
               ELSE jobs
    /\ Forget(p)
    /\ UNCHANGED <<KeptByThrow, lease, budget>>

-----------------------------------------------------------------------------
(* The reconcile endpoint and the two human gates. *)

\* reconcileStage's reads; applyTransition reads the transition state again.
Reconcile(r, id) ==
    /\ pc[r] = "idle" /\ outcome[id] # NoOutcome /\ trans[id] # "committed"
    /\ pc' = [pc EXCEPT ![r] = "apply"]
    /\ job' = [job EXCEPT ![r] = id]
    /\ out' = [out EXCEPT ![r] = outcome[id]]
    /\ UNCHANGED <<jobs, lease, KeptByThrow, issueHeld, sawDone, budget>>

\* confirmPlan without its internal windows, which ResearchGate models.
ConfirmPlan ==
    /\ ~ planConfirmed /\ MarkedKey(Id("researcher", 0)) \in completed
    /\ planConfirmed' = TRUE
    /\ jobs' = Added(jobs, Id("planner", 0))
    /\ UNCHANGED <<lease, outcome, completed, trans, intent, termState, termIssue,
                   builderIntent, store, run, hashEqual, doneEvents, builderRuns, pc, job, out,
                   issueHeld, sawDone, budget>>

\* POST build-review: the approval is recorded, then the build job is queued;
\* a request that dies between the two is repeated by the user.
ApproveBuild ==
    /\ run.status # "Done" /\ store.review /\ ~ store.approval
    /\ store' = [store EXCEPT !.approval = TRUE]
    /\ UNCHANGED <<jobs, lease, outcome, completed, trans, intent, termState,
                   termIssue, builderIntent, planConfirmed, run, hashEqual, doneEvents,
                   builderRuns, pc, job, out, issueHeld, sawDone, budget>>

EnqueueBuild ==
    /\ store.approval /\ jobs[Id("build", 0)].state = "absent"
    /\ jobs' = Added(jobs, Id("build", 0))
    /\ UNCHANGED <<lease, outcome, completed, trans, intent, termState, termIssue,
                   builderIntent, planConfirmed, store, run, hashEqual, doneEvents, builderRuns,
                   pc, job, out, issueHeld, sawDone, budget>>

-----------------------------------------------------------------------------
(* Adversity. *)

Crash(p) ==
    /\ pc[p] # "idle" /\ budget.crash > 0
    /\ Forget(p)
    /\ budget' = [budget EXCEPT !.crash = @ - 1]
    /\ UNCHANGED <<jobs, lease, KeptByThrow>>

\* Any awaited call may reject.
Throw(p) ==
    /\ pc[p] # "idle" /\ budget.throw > 0
    /\ Thrown(p)
    /\ budget' = [budget EXCEPT !.throw = @ - 1]
    /\ UNCHANGED KeptByThrow

\* BullMQ's stalled-job checker finds an active job whose lock ran out.
Restalled(id) ==
    /\ jobs[id].state = "active"
    /\ jobs' = [jobs EXCEPT ![id] =
                    IF @.stalls < MaxStalled
                    THEN [@ EXCEPT !.state = "waiting", !.stalls = jobs[id].stalls + 1,
                                   !.owner = NoOwner]
                    ELSE EndedJob("failed")]
    /\ UNCHANGED <<lease, KeptByThrow, pc, job, out, issueHeld, sawDone>>

\* ... because its worker died,
StallDead(id) ==
    /\ ~ WorkingOn(jobs[id].owner, id)
    /\ Restalled(id)
    /\ UNCHANGED budget

\* ... or is alive and did not renew in time: from now on it is a zombie.
StallLive(id) ==
    /\ WorkingOn(jobs[id].owner, id) /\ budget.stall > 0
    /\ Restalled(id)
    /\ budget' = [budget EXCEPT !.stall = @ - 1]

\* The renewal timer of the execution that holds the lease is running.
Renewed(id) == \E w \in Workers : job[w] = id /\ HoldsLease(w)

\* The lease of a dead worker runs out after at most 60 s,
LeaseExpiresDead(id) ==
    /\ lease[id] # NoOwner /\ ~ Renewed(id)
    /\ lease' = [lease EXCEPT ![id] = NoOwner]
    /\ UNCHANGED <<jobs, KeptByThrow, pc, job, out, issueHeld, sawDone, budget>>

\* ... that of a live one when its 20 s renewals do not get through.
LeaseExpiresLive(id) ==
    /\ Renewed(id) /\ budget.expire > 0
    /\ lease' = [lease EXCEPT ![id] = NoOwner]
    /\ budget' = [budget EXCEPT !.expire = @ - 1]
    /\ UNCHANGED <<jobs, KeptByThrow, pc, job, out, issueHeld, sawDone>>

-----------------------------------------------------------------------------
WorkerStep(w) ==
    \/ \E id \in Ids : Take(w, id)
    \/ LoadPersistedOutcome(w) \/ Acquire(w) \/ Execute(w)
    \/ SaveExecution(w) \/ MarkCompleted(w) \/ Release(w)

ProcStep(p) == ApplyTransition(p) \/ Complete(p)

Next ==
    \/ \E w \in Workers : WorkerStep(w)
    \/ \E p \in Procs : ProcStep(p) \/ Crash(p) \/ Throw(p)
    \/ \E r \in Reconcilers, id \in Ids : Reconcile(r, id)
    \/ \E id \in Ids : \/ StallDead(id) \/ StallLive(id)
                         \/ LeaseExpiresDead(id) \/ LeaseExpiresLive(id)
    \/ ConfirmPlan \/ ApproveBuild \/ EnqueueBuild

Spec == Init /\ [][Next]_vars

\* What the machinery does without anyone's help: live processes run on, BullMQ
\* redelivers the jobs of dead workers and Redis drops their leases.  Users,
\* reconcile requests and adversity owe nothing.
Fairness ==
    /\ \A w \in Workers : WF_vars(WorkerStep(w))
    /\ \A p \in Procs : WF_vars(ProcStep(p))
    /\ WF_vars(\E id \in Ids : StallDead(id))
    /\ WF_vars(\E id \in Ids : LeaseExpiresDead(id))

-----------------------------------------------------------------------------
(* Properties. *)

JobStates == {"absent", "waiting", "active", "completed", "failed"}
Results == {"none", "Passed", "Failed"}

JobRecords == [state : JobStates, attempts : 0 .. MaxAttempts - 1,
               stalls : 0 .. MaxStalled, owner : Workers \union {NoOwner}]

\* BullMQ and the stage locks.
QueueTypes ==
    /\ jobs \in [Ids -> JobRecords]
    /\ lease \in [Ids -> Workers \union {NoOwner}]

\* What the processes hold in memory.
LocalTypes ==
    /\ pc \in [Procs -> Points]
    /\ job \in [Procs -> Ids \union {NoId}]
    /\ out \in [Procs -> Outcomes \union {NoOutcome}]
    /\ issueHeld \in [Procs -> Issues \union {NoIssue}]
    /\ sawDone \in [Procs -> BOOLEAN]

\* Checkpoints, artifacts and the run snapshot.
DurableTypes ==
    /\ outcome \in [Ids -> Outcomes \union {NoOutcome}]
    /\ completed \subseteq { MarkedKey(id) : id \in Ids }
    /\ trans \in [Ids -> {"none", "pending", "committed"}]
    /\ intent \in Issues \union {NoIssue}
    /\ termState \in {"none", "pending", "committed"}
    /\ termIssue \in Issues \union {NoIssue}
    /\ builderIntent \in BOOLEAN /\ planConfirmed \in BOOLEAN
    /\ store \in [triple : {"none", "valid", "invalid"},
                  proof : {"none", "equal", "mismatch"},
                  review : BOOLEAN, approval : BOOLEAN,
                  build : {"none", "Passed", "Mismatch", "Failed"}]
    /\ run \in [status : {"Running", "Done"}, result : Results,
                issue : Issues \union {NoIssue}]
    /\ hashEqual \in BOOLEAN /\ doneEvents \in Nat /\ builderRuns \in Nat

\* Every variable holds a value the code can write to it; in particular no
\* stage is ever queued beyond refinement iteration MaxRefinements, and no job
\* is tried more than MaxAttempts times.
TypeOK ==
    /\ QueueTypes /\ LocalTypes /\ DurableTypes
    /\ budget \in [crash : Nat, throw : Nat, stall : Nat, expire : Nat]

\* The Builder runs at most once for a run, whatever crashes, redeliveries,
\* expired leases and zombie workers do (recordBuilderIntent, worker.ts).
BuilderAtMostOnce == builderRuns <= 1

\* A run is reported Passed only if the one Builder execution passed with the
\* sandbox hash of the proof, after the user authorized the build.
PassedIsVerified ==
    run.result = "Passed" => /\ store.build = "Passed"
                             /\ store.approval /\ builderRuns = 1

\* What a stage's execute() can return when no fault is injected.
OutcomesOf(stage) ==
    CASE stage = "triple-validation" -> {advance, refine("triple-validation")}
      [] stage = "hash" -> {advance, terminal("hash")}
      [] stage = "build" -> {advance, terminal("build"), terminal("uncertain")}
      [] stage = "finalize" -> {advance} \union { terminal(x) : x \in Issues }
      [] OTHER -> {advance}

\* A committed transition has had its effect: the next stage is queued, or the
\* run is Done.  (Which outcome decided is left open: a zombie may replace it.)
EffectTookPlace(id, o) ==
    LET t == resolveTransition(id.stage, o, id.iteration)
    IN CASE t.type = "next" -> jobs[t.to].state # "absent"
         [] t.type = "done" -> run.status = "Done"
         [] OTHER -> TRUE

CommittedMeansApplied ==
    \A id \in Ids : trans[id] = "committed" =>
        outcome[id] # NoOutcome /\ \E o \in OutcomesOf(id.stage) : EffectTookPlace(id, o)

\* terminal-state committed is only ever seen on a run that is Done.
TerminalCommittedMeansDone == termState = "committed" => run.status = "Done"

\* "if the stage is already marked executed, the agent is NEVER rerun": no
\* worker starts executing a stage whose outcome is persisted.
NeverRerun ==
    [][\A w \in Workers : pc[w] # "execute" /\ pc'[w] = "execute"
           => outcome[job[w]] = NoOutcome]_pc

\* Every queued stage is in the end completed, or given up after its attempts: no
\* crash leaves a job waiting or active forever.
EveryJobEnds == <>[](\A id \in Ids : jobs[id].state \notin {"waiting", "active"})

\* "executed + pending/none -> resolve the outcome and re-drive the transition": a
\* persisted outcome has its effect in the end, unless the stage's job was given up.
\* (The marker itself may fall back from committed to pending: a second process
\* that read "none" writes pending late.)
ExecutedIsApplied ==
    <>[](\A id \in Ids : outcome[id] # NoOutcome
             => EffectTookPlace(id, outcome[id]) \/ jobs[id].state = "failed")

\* The pipeline implements the promise of GovernedRun: whatever the workers, the
\* zombies and the reconcilers do, the user sees one authorized Builder execution,
\* one build result, and Passed only for a verified build.
Promise == INSTANCE GovernedRun WITH
    authorized <- store.approval, executions <- builderRuns,
    build <- store.build, verdict <- run.result

ImplementsGovernedRun == Promise!GSpec
=============================================================================
