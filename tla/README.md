# A TLA+ verification of OneShot's governed run

OneShot takes a prompt to a built artefact through a fixed sequence of stages:

    Researcher -> (human review) -> Planner -> Refactor -> Gap Analysis -> Evaluation
      -> Triple Validation -> Confirmation -> Hash -> (human approval) -> Builder -> Finalize

Triple Validation may send the plan back to Gap Analysis, at most three times. The
sequence is executed on one of two paths. The *pipeline* (`src/backend/pipeline`) runs
every stage as a BullMQ job of its own, with leases and checkpoints in Redis, by any
number of worker processes. The *single queue* (`src/backend/runtime/queue.ts`) runs
the whole graph as one job, or inline in the server when there is no queue. Both
share the artifact store, the run snapshot and the human reviews.

Around that core stand the stores of a run, the sandbox, the provider configuration,
the conversation that precedes a run, the browser, and a separate workspace API.

This directory models them, checks the models with TLC on small instances, and proves
all the safety properties with TLAPS for every instance (section 5).

## 1. Inventory

State, operations and hard behaviour of each part, and what makes it correct. Parts
marked (-) are not modelled; section 8 says why.

| Part | State | Operations | What is hard | Correct if |
|---|---|---|---|---|
| Canonical transitions (`workflow/canonical-transition.ts`, `pipeline/stage-*.ts`) | none | `resolveTransition` | the refinement limit | no iteration beyond the limit is queued |
| Stage execution (`pipeline/run-stage.ts`, `idempotency.ts`, `worker.ts`, `processors.ts`) | BullMQ jobs, Redis lease, completed markers, what a process holds | take, load persisted outcome, acquire, execute, save, release | redelivery of a live job, expiry of a live lease, crash between any two writes | the Builder runs once; a persisted outcome is applied; every job ends |
| Checkpoints and transitions (`checkpoints.ts`, `apply-transition.ts`, `transition-services.ts`, `reconcile.ts`) | transition state, finalization intent, terminal state and issue, builder intent | pending / effect / committed; finish; reconcile | a worker and a reconcile request apply the same transition | committed implies applied; a terminal commit implies a finished run; Passed implies a verified build |
| Research Review gate (`confirm-plan.ts`, `stage-scope.ts`, `context.ts`) | plan-confirmed key, research revision, reviewed artifacts | confirm, edit, Research Again | requests overlapping at every await; lost replies; server crash | one winner; the planner never starts without research |
| Single queue (`runtime/queue.ts`, `workflow-runtime.ts`, `strands/canonical-workflow.ts`) | one BullMQ job, the run snapshot, executions | submit, add, take, the nodes of the graph, failed listener, cancel | late enqueue beside the inline fallback, stalled redelivery, crash | a reported result is final; a queued run ends |
| Human reviews (`plan-review.ts`, `build-review.ts`) | draft, per-run lock, package on record, approval | open, wait, decide | concurrent decisions; two executions at one gate | decided once; only the approved package is built |
| Gap Analysis and Triple Validation (`strands/gap-graph.ts`, `proof-graph.ts`) | one run state shared by all rounds | ring, three parallel validators, join, refine | leftovers of earlier rounds; limits | what is confirmed was proved of the confirmed revision |
| Run repository, event bus, event store (`runtime/run-repository.ts`, `event-bus.ts`, `task/event/event-store.ts`) | a snapshot file and a cached copy per process, a JSONL file, sequence numbers | get, event, artifact, finish, emit, ingest, subscribe | two processes write one snapshot without a lock; torn lines; reconnecting browsers | no update, event or status is lost; the stream has no gap |
| Task management (`task/guard/ordering.ts`, projections) | completions in order | audit | each completion is checked against its neighbours only | valid means the canonical order; runs of the graph are valid |
| Artifact store, target workspace (`runtime/artifact-store.ts`, `target-workspace.ts`) | files and temporary files; one target directory and its record | create, save, load, remove; upload, materialize, select | overlapping calls, failures and crashes between file operations | created once, saved whole; the record describes the directory |
| Sandbox (`sandbox/`) | execution, child processes, workspace, evidence | admit, run, time out, scan, hash, clean, project | processes that outlive their shell and the timer | only admitted plans run; Passed within limits; cleaned means gone; every execution ends |
| Intent collection (`intent/`) | turns and merged intent, in memory and in a file | start, addTurn, createPrompt | a failed save, a lost answer, a restart | the intent is that of the turns; an acknowledged turn is on disk |
| Provider management (`app/web/cloud/`) | configuration file, secrets, selection, captured settings | configure, activate, set and delete a key, test, capture, resolve | two processes write one file; crash between secret and selection; writes that throw | the selection is enabled, has a key and survives |
| Workspace API (`app/workspace_api/`) | SQL rows, the router's weights, rate windows | chat, rotate, revoke, create model, register, members, keys | checks before writes in concurrent transactions, failover, request ids reused | nothing lost, billed exactly when answered, revoked keys not sent |
| Web workspace (`app/web/components/workspace.tsx`, `lib/`) | what is shown, localStorage, effects and requests under way | send, start, restore, reset, follow, refresh, edit | answers that arrive after the user moved on; events during a refresh | what is shown is what is selected; nothing received is forgotten |
| Python workers (`app/web/cloud/provider/shared/worker-bridge.ts`, `validation/python-bridge.ts`) | the child, pending requests, one line buffer | request, answer, time out, exit, close | lines and exits of a child that already has a successor; children that hang, die or never start | an answer is of its own request; every call ends; no child is left behind |
| Launch and start-up (`scripts/oneshot.mjs`, `judge.mjs`, `bootstrap/`, `app/bootstrap/demo.mjs`, `backend/index.ts`) | packages, builds, the port, which Redis answers, a heartbeat key; per launch a script and its backend | install, build, spawn, boot, listen, poll, signal, close | launches that overlap on one tree and one port; a backend that dies, hangs in shutdown or is left behind | what is reported ready is one's own, current and has a queue; every launch gets ready or ends |
| Agents, reasoning service, schemas (-) | | | | |

Interaction: the HTTP server submits a run to one of the paths, answers the human
gates by writing artifacts and Redis keys, and adds the jobs behind the gates; workers
only meet through Redis, BullMQ and the artifact store; the Strands graph's nodes meet
through one in-memory run state. Server and worker share the snapshot, the event file
and the provider configuration as files; the browser sees a run through the event
stream, which tells it when to read the snapshot and the artifacts again.

`PROJECT.json` lists the hazards, each with its line and the properties that cover it.

## 2. Modules

| Module | Stands for | Built on |
|---|---|---|
| `CanonicalTransition` | the pure transition table | - |
| `StagePipeline` | one run on the pipeline | `CanonicalTransition` |
| `GovernedRun` | what a run promises its user: the abstract specification | - |
| `ResearchGate` | confirmPlan and Research Again as concurrent requests | - |
| `RunQueue` | one run on the single queue and the human reviews | - |
| `ProofGraph` | gap ring, validators, join, refinement | - |
| `RunStore` | run snapshot, event file, event bus and the browser's stream, in two processes | - |
| `ArtifactStore`, `TaskAudit`, `TargetWorkspace` | artifact files; the ordering audit; the target directory | - |
| `SandboxExecution` | admission, runners, limits, evidence, cleanup | - |
| `WorkerBridge` | the bridges to Python child processes: provider worker and validation lane | - |
| `Launch` | the scripts that start the system, the boot and shutdown of the backend, the worker's heartbeat | - |
| `ProviderConfig` | provider manager, configuration file, secrets, panel, captured settings | - |
| `IntentCollection`, `ChatView` | the conversation service; the chat of the browser over it | `ChatView` extends `IntentCollection` |
| `RunView` | how the browser follows a run | - |
| `WorkspaceChat`, `RouteShare` | chat completion of the workspace API; the shares of its router | `RouteShare` extends `WorkspaceChat` |
| `WorkspaceAccess`, `RateLimit` | accounts, workspaces and keys; the rate limiter | - |
| `MC...` | instances for TLC | the module they name |
| `StagePipeline_proofs`, `ProofGraph_proofs`, `ProviderConfig_proofs` | theorems | the module they name |
| `ResearchGate_proofs` | theorems | `ResearchGate`, `ChatView` |
| `RunQueue_proofs` | theorems | `RunQueue`, `RunView` |
| `Stores_proofs` | theorems | `RunStore`, `ArtifactStore`, `TaskAudit`, `TargetWorkspace` |
| `ChildProcesses_proofs` | theorems | `SandboxExecution`, `WorkerBridge`, `Launch` |
| `WorkspaceApi_proofs` | theorems | `WorkspaceChat` through `RouteShare`, `WorkspaceAccess`, `RateLimit` |

### StagePipeline
*State.* `jobs` is BullMQ (state, attempts used, stalls, lock owner per job id);
`lease`, `outcome`, `completed`, `trans`, `intent`, `termState`, `termIssue`,
`builderIntent`, `planConfirmed` are Redis keys; `store` is the artifacts that decide
something; `run` the snapshot. Each process has a program point `pc`, the job identity
and what it read last (`out`, `issueHeld`, `sawDone`).

*Actions.* Every Redis command, artifact write and queue operation is a step, named
for the function that issues it: `Take`, `LoadPersistedOutcome`, `Acquire`, the stage
bodies (`RunAgentStage`, `RunTripleValidationStage` ... `VerifyFinalHash`),
`SaveExecution` (one MULTI), `MarkCompleted`, `Release`, then `ReadTransitionState`,
`MarkTransitionPending`, `ApplyEffect`, and inside finish `ReadTerminalState` to
`MarkTerminalCommitted`. A reconciler enters the same transition code with a persisted
outcome. `Crash` makes a process forget everything; `Throw` is a rejected await, with
BullMQ's attempts; `StallLive` turns a live worker into a zombie; `LeaseExpiresLive`
takes its lease away.

*Detail kept because it matters.* The completed marker that `acquire` looks up has one
segment more than the one `markCompleted` writes, so it is never found: keys are
sequences of segments in the model. `terminal-state` and `terminal-issue` are two
commands. The Build Ready gate opens before the proof is stored.

*Abstracted.* An agent stage advances or throws. `hashEqual`, whether recomputing the
package's hash gives the same value, is fixed per run. History records, progress and
job retention are left out: no decision reads them. Keys with a 30 day lifetime do not
expire. A snapshot write is atomic.

### GovernedRun
Four variables: authorized, executions, build, verdict. The Builder begins at most
once and only when authorized; a result is never replaced; Passed needs a build that
passed. `StagePipeline` implements it with `authorized <- store.approval`,
`executions <- builderRuns`, `build <- store.build`, `verdict <- run.result`.

### ResearchGate
A draft is identified by the research revision and the request whose edits it carries. Each
request is a program counter over the awaits of its handler; the commands of `SetConfirmed`
and `AddPlanner` may be executed by Redis and their reply lost, and the DEL of
`RemoveConfirmed` may reject. `stranded` records a request that was cut off from the key it
set, by one of these or by a crash. The Planner and Refactor record which draft they loaded.
The number of revisions is bounded by `MaxRevision`.

### RunQueue
`cfg` enumerates what `submitRun` depends on: whether a queue is required, which
queues are ready, whether a review was asked for. `inFlight` is a `queue.add` sent and
not executed yet, so that the 5 s limit of `addRun` races it. An execution is a program
counter from `executeRunJob` to `finishPassed`/`finishRoot`; the inline execution and
the worker's are the same code. A package stands for what an execution arrives at
behind the proof graph (`ProofGraph` is that node's inside). The server is one process:
`Crash` ends the request, the executions and the reviews. The variable `seen` only
records what happened.

### ProofGraph
A plan is a function from steps to references; the four `*_refs` fields of a step are
one set because a reference names its branch. A fixture assertion is additive
(`contains`, `references`, `allFilesSpecified`), a `contains` with an array, or other;
the result of an other one, and of schema validation, is free. Which finding is first
is left open. `resolveOne`'s root causes and `assertNoRegression` cannot fire here:
GapCheck dropped the satisfied findings just before, and a step only gains references.
The AND-join and the routing of the Strands SDK are external. In the instance TLC
runs, goal misses do not arise, because the first ring covers every criterion; the
theorems make no such restriction.

### RunStore
A step is one access to a file: `Require` reads, `Persist` writes, `NoteDiskVersion`
takes the modification time. `want` is the snapshot as atomic calls would have left it
and `raced` records that a write fell between a read and the stat of the other process,
into one clock tick, or that two finishers overlapped; the properties say that nothing
goes wrong without that. `EmitRejected`, `CrashInAppend` and `Drop` are the failures.
`bridge` is the progress stream that carries the events of the run workers: `Ingest` gets any
of them any number of times and takes over the ones its process has not seen (`TakeOver`),
which `relayed` records when they had come over the stream alone.
The write in place that `persist` falls back to is not told apart from the rename.
`Replayed` gives the connection the recorded events later than Last-Event-ID, the k-th one
being the one with k of them up to it.
The stores of `MCRunStore` share no state; a behaviour exercises one of them, or the run's
with deliveries of the progress stream and one call instead of two.

### ArtifactStore, TaskAudit, TargetWorkspace
An artifact call opens, fills and publishes a temporary file in three steps. The audit
is `detectOrderingIssues` over completions recorded by the graph or in any order. In
`TargetWorkspace` an archive is two files; `overlap` records that two requests worked on
the directory at once or that an archive was replaced under an extraction. A removal takes one
file after the other, the record among them (`RemoveFile`, `Removed`), the record is emptied
before it is written (`OpenInfo`, `WriteInfo`), and a request may fail or the server stop at
any of these steps (`RequestFails`, `StopServer`); `halved` records that a removal was begun
and not completed. An archive is stored in one step.

### SandboxExecution
An execution is a frame (`ex`), its shell and process tree (`child`) and its workspace
(`space`). Children fork, write and exit when they like; the timer kills the shell
only, since the child does not lead a process group. Output capture, redaction and
the contents of files are left out.

### WorkerBridge
One bridge. `kind` says which: a provider worker's has a timer per request and one user
(`use.mode`: the queue, which probes and then researches, the connection test, the
pipeline), a validation lane's has no timer and serves calls of all runs at once. A
child has the lines it has not read and those Node has not read; its end is one event
and Node's `exit` another, and lines may arrive after the exit. `half` is the line
buffer, which belongs to the bridge and not to the child. `down` is an exception that
nobody catches.

### Launch
A launch is a script (`launch[i]`: how far it is, how it ended) and the backend it starts
(`server[i]`, from "loading" to "gone"). Five kinds of script share the files (`disk`),
the port and Redis; a build is the version of the source it was made from. A command
works or fails, which is one of the bounded faults, as are a crash, an edit of the
source and a Redis that comes or goes. `by` is the launch whose backend answered when the
script said ready, `crowded` records that a backend was started beside another launch
that was not over. `health` is the answer of `/api/health`: its queue flags are those of
the start, only the worker's heartbeat is looked up. `hold` is what `server.close` waits
for: an open event stream or a job. What the scripts print, the versions they compare
and the browser they open are left out.

### ProviderConfig
A process loads the file once and writes it back; `writeFileSync` truncates before it
fills, so a start may read a torn file and seed defaults. Handlers of one process do
not interleave (their awaits are already settled). Every file operation may throw, before or
after the file was truncated (`OpenFails`, `FailSave`, `KeyFileFails`, `KeyWriteFails`); the
manager has changed its memory by then and keeps the change. `mishap` records a crash between
a secret and the selection, a cut write of the worker, or an overlap of two processes on the
file; `unsaved` that the last save of the running server threw; `spoiled` the providers whose
key was lost in a request that threw. That a run is resolved with the settings it captured is
the assignment in `ResolveForRun` and no property of its own.

### IntentCollection and ChatView
A conversation is its turns and the intent merged from them, in memory and on disk.
The browser lets one operation through at a time; a request is sent, handled and
applied, may be lost before or after it was handled, and a reload forgets it (`ghost`)
while the server may still handle it. `raced` records a restore answered after the user
moved on, or a chat begun over a saved one that could not be read. At first localStorage
is empty or names `Forgotten`, a conversation of data the server no longer has (deleted,
or of another directory): only that one is answered 404, since what the browser saves was
answered and so is on disk.

### RunView
Every change of run, token or refresh key aborts an effect and starts another. A
refresh reads the snapshot, then the artifacts; one asked for meanwhile is remembered in
a flag. An event is its place in the log; the card remembers the bundle its edits began
from. `pushed` says whether the server runs the stages itself: if it does not, a connection
is sent the server's own events only (`ByServer`) and learns of the others by what the next
connection replays. A run's status is Done (`Finish`) before the event is emitted. `Restore`
selects another run, or none, under the one that is shown (`leftover`), and mounts the card
anew on the bundle still shown (`Carried`).

### WorkspaceChat, RouteShare, WorkspaceAccess, RateLimit
A chat request gives the event loop up only while it waits for a provider; what it read
before may have changed and its writes are one transaction that unique constraints may
refuse. `Marked` and `WithHealth` are the session's late update of availability.
`sent` and `dead` are histories. `Orders` states what the router's sort returns: the tiers
by priority, the chosen route of a tier first, the others by weight and row id.
A sum of weights is the number of tickets `<<m, i>>` with `i` up to the weight of `m`.
`RouteShare` drives the router's choice alone for all small weights. `SmoothShare` bounds how
far a route may be ahead of its share (less than one choice) and behind it (half a choice for
each other route). A route is not always less than one choice behind: of five routes with
weights 1, 1, 6, 6, 6 one gets a whole choice behind, of six with 1, 1, 1, 5, 5, 5 more.
Handlers of `WorkspaceAccess` test and commit in two steps. In `RateLimit` a request let
through is remembered with its time, the end of its window, its place in that window and how
often the windows had been lost by then (`LoseWindows`: a restart of the process or of Redis,
which may bring back earlier counts). When Redis fails the limiter refuses or, set to fail
open, lets the request through (`RedisFails`).

## 3. Runs

| Run | Instance | Checks |
|---|---|---|
| `pipeline_recovery` | whole run from Researcher, 1 worker, 1 refinement, 1 crash, 1 throw | `TypeOK`, `PassedIsVerified` |
| `pipeline_zombies` | 2 workers from Triple Validation, 1 lost lock, 1 expired lease | `BuilderAtMostOnce`, `ImplementsGovernedRun` |
| `pipeline_reconcile` | 1 worker and 1 reconcile request from Hash, 1 crash, fairness | `CommittedMeansApplied`, `TerminalCommittedMeansDone`, `EveryJobEnds`, `ExecutedIsApplied` |
| `gate_confirm` | 1 confirmer, 1 editor, 2 Research Again, 2 revisions, 2 slots, 1 lost reply, DELs that reject, 1 crash, fairness | `PlannerHasResearch` (with the types, `GateTypeOK`), `ConfirmedOnce`, `ConfirmedIsPlanned` |
| `queue_run` | all configurations, 1 slot and inline, 2 reviewers, 2 packages, 2 crashes, 1 lost lock, fairness | `QueueTypeOK`, `BuilderAuthorized`, `DecidedOnce`, `DoneIsFinal`, `QueuedRunEnds` |
| `proof_graph` | 2 steps, 4 assertions, 5 fixtures, 9 plans, limits 256 and 3 as in the code | `EvidenceAgrees` (with the types, `ProofTypeOK`), `ConfirmedIsProved` |
| `run_store` | `RunStore`: 1 event, 1 crash or broken connection, and 2 calls or 1 call and the progress stream, fairness; `ArtifactStore`: 3 calls, 2 processes; `TaskAudit`: 1 repetition; `TargetWorkspace`: 2 names, 2 requests, 3 selections | `RunIsRecorded` (`StoreTypeOK`, `UnracedSnapshot`, `RecordedOnce`, `DoneAnnouncedOnce`), `StreamCatchesUp` (with `StreamHasNoGap`), `ArtifactsWhole` (`CreatedOnce`, `SavedWhole`), `AuditAgrees` (`AuditIsTransitive`, `GraphRunIsValid`), `RecordDescribesTree` |
| `child_processes` | sandbox: 2 executions, one per runner, 2 steps, POSIX; bridge: both kinds, 3 calls, 3 children, 2 deaths; launches: 2 that may overlap, in 9 environments with every kind of script, 1 fault, 2 versions of the source; fairness | `ExecutionIsGoverned` (`SandboxTypeOK`, `AdmittedOnly`, `PassedWithinLimits`, `CleanedMeansGone`, `GraphIsPrefix`), `ExecutionEnds`, `BridgeIsSound` (`BridgeTypeOK`, `AnswerIsOwn`, `RejectedIsOwn`, `NoneLeaked`), `CallEnds`, `LaunchIsSound` (`LaunchTypeOK`, `PortIsServed`, `ReadyIsOwn`, `ReadyHasQueue`, `RunsCurrentSource`, `OrphansExplained`, `QueueProven`), `LaunchEnds` |
| `provider_config` | server and worker, 2 providers, 1 panel, 1 run, 2 edits, 1 crash, 1 failed file operation | `SelectionHolds` (`ProvTypeOK`, `ActiveEnabled`, `ActiveHasCredential`, `DurableSelection`) |
| `workspace_api` | 2 server processes, up to 3 requests of chat or administration, 2 models, 1 death, fairness; 3 routes with weights up to 3; 3 access requests; 2 rate keys over 4 ticks, in memory and Redis, closed and open, 1 loss of windows | `ChatAccounted` (`ChatTypeOK`, `NoMessageLost`, `AnsweredIsBilled`, `UnbilledHasReason`, `QuotaOverrunBounded`, `OneActiveVersion`, `RevokedNeverSent`), `ChatEnds`, `SmoothShare`, `AccessSound` (`OwnedAndSubscribed`, `NoOrphanUser`, `OneActiveKey`), `TwiceTheLimit` |
| `web_view` | chat: 2 conversations, 1 run, 3 messages, 1 fault, 2 page loads; run: 2 runs, 2 effects, 3 events, 1 failure, stages in the server or in a worker, fairness | `ChatShown` (`ShownRunIsOfChat`, `SavedIsShown`), `TurnsKept` (`IntentIsOfTurns`, `AnsweredIsOnDisk`, `OneTurnPerClick`), `RunShown` (`RunViewTypeOK`, `ShownIsSelected`, `RefreshIsNotForgotten`, `ReceivedIsShown`, `EditsBeginFromKeyedBundle`), `DoneIsShown` |

`run_store`, `child_processes`, `workspace_api` and `web_view` hold parts that share no
state; a behaviour exercises one part, so the state spaces add up and do not multiply.

One run shows where the code does something else than its comment says:
`pipeline_rerun` checks `NeverRerun` ("if the stage is already marked executed, the
agent is NEVER rerun") and TLC refutes it: a redelivered job reads "not executed", then
gets the lease after the first execution saved and released it, and executes again.
Section 7 lists the other disagreements.

### Bounds
- A run that starts at a later stage starts in the state the pipeline is in when the
  earlier stages completed without incident (`MCStagePipeline.MCInit`); adversity is
  spent on the stages under study. `pipeline_recovery` has none of this.
- `MaxAttempts` is 2 instead of 3: a first attempt, a retry, and giving up all happen.
  `MaxStalled` is BullMQ's default. `MaxRefinements` 1 has a first, a last and a refused
  refinement. The theorems hold for every value.
- One crash, throw, lost lock or expiry is the number that produces each race found
  here; `queue_run` has two crashes because one is needed for a redelivery and one for
  the redelivered job. Again the theorems do not depend on the number.
- `proof_graph` uses four assertions because four single misses exceed the limit of
  three, and assertions with two references and with a shared one because these
  decide whether a signature repeats.
- `run_store`: two calls are what two finishers, or a write under another call's read,
  take; a third call adds repetitions only. Crashes and broken connections share one
  bound: either one alone makes the browser reconnect.
- `workspace_api`: three requests are two that race and a third that begins after what
  they did (the quota, a revocation). Three versions leave room for a rotation of a
  rotated key. Four ticks hold two windows and a stretch across their border, and
  one loss of the windows comes at any moment of them.
- `web_view`: a second page load is what a restore needs; a message that was submitted
  `MaxClicks` times is not typed again; one effect that is replaced and one that replaces it.
  Of the events that ask for no snapshot one kind is kept per setting (`MCLog`), with a worker
  two events are, and a restore that leaves a run on the screen is explored with the stages in
  the server. The theorem has none of these restrictions.
- `gate_confirm`: the lost reply is of the SET or of the enqueue; a DEL may reject any time.
- `provider_config`, `child_processes`: one crash, one failed file operation, and one file
  more than the limit, reach every case; two executions are the least that mix. Two deaths and
  three children are a child, a successor that dies too, and one whose calls a late exit could
  touch. Two launches are the least that meet on a port; one fault is a failed command, a
  crash, an edit or a change of Redis at any point. `MCEnvironments` picks the combinations of
  scripts, installed programs and settings that lead to different branches.
- Symmetry is used only in `pipeline_zombies`, which checks no liveness. Deadlock is
  not checked: a run that is Done, or waits for a human, may stop.

### Mutants
Every property of every passing run is broken by a mutated definition of the model
(the operators marked "Mutant" before the definition they stand for): a dropped SET NX, a hash not
compared, a transition marked too early, a lock not awaited, an off-by-one.

## 4. Fairness
- Live worker and reconcile processes take their steps (`WF` on the disjunction of a
  process's steps): Node runs every ready callback, awaited calls answer or reject.
- BullMQ's stalled check and Redis key expiry happen: both are timers of the services.
- Waiting jobs are taken, failed events delivered.
- A request already begun goes on. No fairness for humans, for reconcile requests or
  for adversity.

- `RunStore`: a process ends the synchronous code it has entered; the browser reads and
  reconnects. Reconnecting is strongly fair, because the server is busy again and again
  and a client that keeps trying gets through in the end.
- `SandboxExecution`: the service goes on and time passes; nothing is assumed of
  children.
- `WorkerBridge`: a child that does not hang answers and a killed one ends; Node delivers
  events and timers; a user goes on with, and closes, the provider it holds. No fairness
  for callers of the validation lane or for its shutdown.
- `Launch`: a script and a backend go on with what they are doing. Users, browsers,
  jobs, the worker process and faults owe nothing.
- `WorkspaceChat`: some request goes on while one can; a provider call ends where its
  client has a timeout, which the Gemini client has not.
- `RunView`: the browser takes some step of the live effect while one is possible: its reads,
  its stream and its reconnection go on; failures are bounded. Nothing is assumed of aborted
  effects, of the run or of the user.

Weak fairness is enough everywhere but for the reconnection.

## 5. Proofs

TLAPS proves these for every value of the constants. The only assumptions are the named ones
on constants: the sets of actors are disjoint and do not contain the null value, bounds are
natural numbers, attempts are positive, requests and models of the workspace API are finitely
many and their weights positive, the rate limit and its window are at least 1 (`config.py`
lines 58 and 59), fixtures and plans have their shape. TLC evaluates them in every run.

**StagePipeline** (`TypeCorrect`, `BuilderOnce`, `PassedVerified`, `Refinement`).
The inductive invariant `IInv` strengthens the types by
- `LocalOK`: a process is at a point of the code of the stage it works on and holds an
  outcome of that stage. Without it a worker "verifying" a research job would be a
  state to reckon with;
- `OutcomeOK`: persisted outcomes are outcomes of their stage;
- `BuilderInv`: at most one process is between the SET NX of the builder intent and the
  stored result, and the counter agrees with where it is. `BuilderAtMostOnce` alone is
  not inductive: it says nothing of a second worker about to enter;
- `EvidenceInv`: a favourable finalize outcome, in a process's hands, in Redis or in
  the snapshot, rests on a stored result that passed. This is what carries
  `PassedIsVerified` over crashes, re-reads and zombies.

Each action is one lemma per conjunct group; actions that leave the variables of a
group alone share one framing lemma. `Refinement` maps each step to one of GovernedRun
or a stutter, with `BuilderInv` and `EvidenceInv` giving the guards.

**ResearchGate** (`GateConfirmedOnce`, `GatePlannerHasResearch`). `KeyInv`: the key
names the request between its SET NX and its answer, and the one told it confirmed.
`ResearchInv`: a request past the completed check has a completed revision behind it,
even when Research Again has moved on meanwhile.

**RunQueue** (`QueueTypeCorrect`, `QueueBuilderAuthorized`, `QueueDoneIsFinal`,
`QueueDecidedOnce`, `QueuePassedApproved`). `BuilderAuthorized` needs `HasPackage` (there is a
package to compare) and `BeforeExecution` (reviews are not requested under a running
execution); the record on file never changes once set and the approval is of the record.
`DecidedOnce` rests on `DraftOutstanding`: the decider holds the lock, and a draft pending or
being decided is one not counted yet. `PassedIsApproved`, which no run lists, says that a
reviewed run is reported Passed only after the package on record was approved; its invariant
`ApprovalInv` adds that the approval is of the record and that nothing finishes a run whose
reviews are still to be requested.

**ProofGraph** (`ProofTypeCorrect`, `ProofEvidenceAgrees`, `ProofConfirmedIsProved`).
`RingInv`: inside the ring no gap result is left over; behind it gap result and bundle
are those of the plan. `ProvedInv`: each validator that has arrived has spoken about
this revision and hides no miss. Dropping one reset of RefineCheck breaks `RingInv`.

**StagePipeline, transitions** (`CommittedApplied`, `TerminalCommittedDone`). `EffectInv`:
wherever a process stands in `applyTransition` or in finish, what it has already done
(the effect, the pending mark, the finished snapshot) is there, and nothing undoes it;
`CommittedMeansApplied` alone says nothing of a process about to commit.

**RunStore** (`RunRecorded`). `RunInv`: a process that has not died has seen what it emitted,
so what it takes over was emitted elsewhere and is `relayed`; as long as nothing raced, a copy
that is not stale equals the file, the call under way holds what atomic calls would have left,
and one finisher is at work at a time. `SeenInv` and `OnceInv` say who may still record an
event, which is why a repeated delivery is recorded once although the file alone does not show
it.

**RunStore, the browser's stream** (`StreamWhole`, the safety half of `StreamCatchesUp`).
`StreamInv`, on top of `RunInv`: what the browser has read last is recorded; what is on the
connection is recorded, later and in order; the event the server has recorded and not sent
yet is later still; and an event of the server the browser lacks is later than what it has
read last and, while it is connected, on the connection or about to be (`CarriesOn`). The
last part is what a reconnection with Last-Event-ID relies on, and it needs the numbers to
rise. What a replay contains is proved from `NthFacts`: ranks in a finite set of numbers
are a bijection.

**ArtifactStore, TargetWorkspace, TaskAudit** (`Artifacts`, `TargetRecorded`, `Audit`).
`ArtInv`: a file under a final name was finished before it was linked, and without
sharing a temporary file belongs to the call that made it. `TargetInv`: without overlap
the one request at work is the only one between clearing and recording, and what it finds in
the directory is what it has extracted so far (`Extracted`). `AuditInv`:
every prefix of a valid trail is transitive, and the graph's place determines which
processors have completed and which was the last Gap Analysis.

**WorkerBridge** (`BridgeSound`). `BridgeInv`: a line in a pipe is the answer to a call
written to that child; a provider's child is killed only when nothing will be written
any more, and a child that died by itself stays `this.child` until its exit is handled.
That is why an exit handler that does not look whose exit it is rejects only its own.

**SandboxExecution** (`Governed`). `SandboxInv`: the condition "success" is earned by steps
that ended in time, the directory exists until it is removed, and the announced stages
are those before the program point.

**Launch** (`LaunchSound`). `LaunchInv`: there is no backend before the spawn; a script that
started its backend alone and is not quitting has the only living one (`AloneInv`), so the
port can only be its own; a backend once reported ready had found Redis; from the build
on the build is not older than the script's start.

**ProviderConfig** (`Selection`). `ProvInv`: without a mishap, whoever loads has read the
current file and nobody loads or saves beside a saver; the worker saves only while there is no
server, or the server's last save threw and the worker seeds defaults; an idle server's
configuration is on disk unless that save threw, and its selection, in memory and on disk,
backed by a key or spoiled except between the two writes of a key change.

**WorkspaceAccess** (`Access`). `AccessInv`: only the last version of a key can be active, a
slug nobody owns has no members, and what a handler has tested (a version exists, a
workspace is owned) cannot be undone before it writes.

**WorkspaceChat** (`Chat`). `ChatInv`: only the last created credential version can be
active and a retired or revoked one never becomes active again, whatever rotations run
into a revocation; a row loaded with an active credential names no version revoked before
the request began; a request that went on to the router has its input stored once;
usage plus requests in flight stay below the limit plus `MaxInFlight`, which makes
`QuotaOverrunBounded` inductive.

**RouteShare** (`SmoothShareAlways`). `ShareInv`: the router's current weight of a route is
exactly how far the route is behind its share (`Behind`), each is above minus one total, and
they cancel out: raised by a total each, they sum to as many totals as there are routes. The
chosen route has the largest weight, which is therefore positive before a total is taken from
it, so no route gets a whole choice ahead; a route not chosen is at most level with the chosen
one, and the two together cannot exceed the sum, which bounds how far it is behind. After a
full round every current weight is a multiple of the total above minus one total, hence not
negative, and as they cancel out they are all zero. Sums are cardinalities, so no induction
over the routes is needed.

**RateLimit** (`TwiceTheLimitAlways`). `LimitInv`: requests let through lie in their windows,
no more than `Limit` to a window and no two with one place in it, and the windows of a key do
not overlap (`AdmittedOK`), between one loss of the windows and the next; the window in memory
knows of all that are not over (`WindowOK`), which a purge of live windows would break. A
stretch as long as a window meets two windows at most, and the requests of each inject into
`1..Limit`.

**ChatView** (`ChatKeptTogether`, `ChatTurnsKept`). `PageInv`: as long as nothing raced, what
is shown is what is saved also while an operation is under way, a saved chat that is not shown
is being restored or was announced as lost, a restore that was not overtaken asks for the
saved chat, and an operation is on the chat that is shown. `DiskInv` excludes that a chat that
was answered is unknown to the server, so a 404 never forgets the chat on screen. `TurnInv`
for `TurnsKept`: a snapshot has the intent of its turns and the file is a beginning of what
memory has (`StoreInv`); a turn that was answered is on disk (`AckInv`); the places of a
message, in turns and in requests that may still be handled, are no more than its clicks
(`ClickInv`), since handling a request turns one place into another and a lost one removes it.

**RunView** (`RunFollowed`). `ViewInv`: the bundle an effect holds is no older than its snapshot
and its snapshot no older than the one shown, so a refresh never takes a newer version
back (`FlightOK`); events received before the run is shown are all missed ones, so the
first snapshot loses none (`KeptOK`); no log and no snapshot has Done before the status;
what is shown is of the selected run or the one a restore left, and the card with the latter
is a carried one (`ShownOK`); there is a bundle for every published completion. That
a log has a last completion is carried as a part of the invariant (`Topped`): it would
otherwise be an induction over the log.

The invariants were checked with TLC on small instances before they were proved.

Only model-checked is liveness: `EveryJobEnds`, `ExecutedIsApplied`, `ConfirmedIsPlanned`,
`QueuedRunEnds`, the second half of `StreamCatchesUp`, `ExecutionEnds`, `CallEnds`,
`LaunchEnds`, `ChatEnds` and `DoneIsShown`. Temporal proofs under fairness need `ENABLED`,
which is out of the prover's reach. Every invariant and every action property of the runs is
a theorem.

## 6. What the checks show

The Builder is entered once, for an approved package with the proved hash, whatever
crashes, redeliveries, expiries and zombies do: this rests on the SET NX of the builder
intent alone, not on the lease. Passed is never reported without evidence. A reported
result on the single queue is final although two executions may race. What is confirmed
was proved of the confirmed revision. On the other hand the lease and the executed
marker do not keep a stage from running twice, a crash in a stage can lose the run, and
the edits that are planned may be those of the loser.

Around the core the pattern is the same throughout: files shared without a lock and
tests made before writes are correct as long as calls do not overlap, which is what the
histories `raced`, `overlap` and `mishap` mark, and unique names (hard links, unique
rows, SET NX) are what holds when they do. The browser forgets nothing it was told;
what it restores late may be what the user has left.

## 7. Divergences without a run

Met while modelling and confirmed by TLC on these modules, not kept as runs.

Pipeline and queue (`src/backend`):
- `run-stage.ts:170`: a killed worker's lease outlives the attempts of the redelivered
  job, which is given up; `scripts/test-pipeline-recovery.mjs:14` says worker #2
  "recovers and completes the same run".
- `confirm-plan.ts:64`: edits are stored before the SET NX; those of a request answered
  already_confirmed replace the winner's ("Only ONE HTTP request wins.", :73).
- `confirm-plan.ts:104`: a crash between SET NX and `queue.add` leaves "planner already
  queued" (:94) the answer for ever, with no planner. So does a SET that is sent again after
  its reply was lost (`runtime/redis-connection.ts:56` retries without end), which finds its own key,
  and a DEL (:122) that rejects, against the comment at :117.
- `processors.ts:449`: the Build Ready gate opens before the hash proof is stored; a build job
  that comes first spends the builder intent and its retry ends the run as uncertain, although
  the Builder never ran.
- `queue.ts:630`: an enqueue that timed out lands while the inline fallback resolves its
  provider; both pass the guards that :592 and :610 say are for this case.
- `gap-graph.ts:223`: the ring reports gap_0 "when no findings remain" (:95) while
  validation findings are pending; one is fixed per refinement, so four misses exceed
  the limit and an assertion with two missing references stalls (`proof-graph.ts:209`).
- `checkpoints.ts:263`: between the SET NX of `terminal-state` and the SET of
  `terminal-issue` another finisher reads no issue and finishes the run with a
  placeholder, although the comment at :247 says finishers agree on one issue.
- `transition-services.ts:131`: the snapshot is read before an await and tested after
  it; two overlapping finishers both finish the run and announce Done.
- `confirm-plan.ts:77`: Research Again between the completed check and the SET NX opens
  the gate on a revision that has not completed.
- `confirm-plan.ts:122`: a rejected `queue.add` whose command reached Redis removes the
  confirmation under a queued planner.
- `stage-scope.ts:44`: the "atomic" increment is a GET and a SET; two requests get the
  same revision.
- `processors.ts:119`: with two researcher slots the older revision may write the
  baseline last.

Stores:
- `run-repository.ts:29-33` says the server "must reload it instead of serving its stale
  in-memory copy": a write of the worker between the server's write and its stat is
  taken for the server's own, and the stale copy is served and later written back.
- `event-bus.ts:171` says numbering continues: after a torn line it restarts from the
  last readable event, and numbers repeat. Server and worker also number independently
  (`pipeline/events.ts:35`), and a browser that reconnects after the larger of two equal
  numbers misses an event.
- `event-bus.ts:169` "exactly-once persist": a detached run worker (`scripts/run-worker-cli.ts`)
  records its events in the file and the snapshot both processes share, and reports them as its
  job's progress (`queue.ts:587`); a server that had loaded the run before has not seen them,
  appends them again and records them twice.
- `artifact-store.ts:63`: two saves of one artifact in one process share a temporary file, and
  a reader may find half of one.
- `target-workspace.ts:142` "Never mix materializations": overlapping requests fill one
  directory, and a failed one removes what the other extracted. A removal (:143) that fails or
  is cut by a crash may leave the record beside some of the files, and a cut `writeInfo` an
  empty record, on which `current()` throws.
- `ordering.ts:97`: the pipeline emits no completion of the three validators, so the
  audit of a pipeline run past Triple Validation is invalid, and Research Again makes
  "duplicate completion" (:57). The single-queue graph is valid (`GraphRunIsValid`).

Sandbox:
- `process-runner.ts:22` "Kill a child process and its entire process tree": the child
  is spawned without `detached`, so the group kill fails and only the shell is killed.
- `sandbox-service.ts:314` "All execution steps exit with code 0": a step ended by a
  signal has a null code, which `process-runner.ts:329` turns into 0.

Python workers:
- `processors.ts:110` resolves a provider and never closes it: its Python child stays
  until the worker process ends.
- `python-bridge.ts`: a child that dies within a line leaves its beginning in the buffer;
  joined with the next child's first line it fails `JSON.parse` inside the listener and
  ends the server. A write to a child that has died before its exit is handled is an
  EPIPE that nobody listens for (both bridges).
- `python-bridge.ts`: after a failed spawn `this.child` stays, and with no timer every
  later validation waits for ever; so does one whose child hangs.
- `worker-bridge.ts`: the exit handler does not look whose exit it is. `RejectedIsOwn`
  holds because the users of a provider never call again after a failed request.

Launch and start-up:
- `README.md:79` "without Redis, runs execute inline in-process" and
  `scripts/bootstrap/redis-readiness.mjs:95` "fully functional": without a queue
  `/api/health` is "degraded", so `npm run oneshot` (`README.md:89`) gives up after 15 s
  and leaves the backend it started running.
- With a pipeline queue and no worker heartbeat health is "degraded" too: oneshot needs a
  worker started beside it, and demo, which asks once, misses the first heartbeat of the
  inline worker, which comes after 5 s.
- `scripts/judge.mjs:85` "Python not found (some features may be limited)": the server
  does not boot without Python; `scripts/bootstrap/preflight.mjs:67` says the same and
  fails.
- `app/bootstrap/demo.mjs:4` "clean-builds from current source": an existing web build is
  kept. judge keeps both builds.
- `oneshot.mjs:472`: of two launches that overlap, one may report the other's backend ready after
  its own has died of the port in use.
- The bootstrap sets `REDIS_URL` for a Redis it started only in its own process.
- `backend/index.ts:381`: the graceful shutdown does not end while a browser has an event
  stream open or a job runs, and oneshot ignores further signals.
- judge leaves its backend running when it fails or is killed; its check of the required
  queue cannot fail, because health is not "ok" without a queue.

Providers:
- `provider-runtime-config.ts:30` "Monotonic revision counter": a start on a torn file
  seeds revision anew.
- `provider-manager.ts:415`: a change whose write threw was refused, and stays in effect until
  the process ends; a file that was truncated by it makes the next start seed defaults. A key
  that is written in part (:510), or removed before a save that fails (:512), leaves the
  selection, or the file, with a provider that has no key.
- `provider-manager.ts:266` counts a blank environment variable as a credential, :593
  does not.

Workspace API (`src/app/workspace_api`):
- `router.py:199` "fail over only on retryable provider failures": every failure fails
  over.
- `services.py:382` "Revoke a workspace API key immediately.": a rotation that tested
  before the revocation and writes after it leaves an active successor.
- `usage.py:3` "once per provider attempt": one event is written per request.
- A chat that loaded its models before a revocation puts a detached model back to
  AVAILABLE (`router.py:172`, `services.py:311`).

- `rate_limit.py:104`: set to fail open, the limiter lets every request through while Redis
  fails; a restart of the process or of Redis opens new windows.

Web (`src/app/web/components/workspace.tsx`):
- :247 a restore answered after New Job or a new message brings the old chat or run back;
  after a failed restore (:259) a new chat keeps the old run id in localStorage.
- :247 the restore selects the saved run and leaves the one on the screen there until the new
  run's first answer; meanwhile, and for good when both have the same bundle version and no
  review, the Research card holds the edits of the one and `accept` (:497) posts them to the
  other.
- `backend/server/http-server.ts:1554`: with the stages in a worker process
  (`backend/index.ts:254`) what they emit, Done included, reaches a browser only when it
  connects again, while `lib/event-stream.ts` says it "never polls run state".
- `backend/pipeline/transition-services.ts:143`: the status is Done before the event is emitted;
  a refresh in between shows the run as done and ends the stream (:346), so that the event is
  never shown.
- :352 a refresh that fails on the last event is not repeated.
- :492 a reload while a run is started loses its id, and a second run can be started.

By reading only: on the pipeline path Gap Analysis in a refinement sees coverage
findings only (`processors.ts:219`), so a refinement does not aim at the failed
validation; `DELETE /api/runs/:id` removes a waiting job and leaves the run Running.

## 8. Not modelled
- Agents, the reasoning service, and of the provider adapters the prompts, drafts and
  vendor clients: language-model or vendor calls. Their answer is a nondeterministic
  choice where it decides something.
- Of the skills the catalogue and its resolution; their activation is in `Launch`.
- Routing, formatting, authentication and the path policy of the HTTP server; schemas;
  verification, deployment and test scripts; fault injection (the models crash anywhere
  instead); history (nothing decides on it); the graph descriptions for the UI.
- Of the workspace API: context items, listing, scopes, cryptography, request schemas.
- Of the web interface: rendering, the file browser, and `src/app.js` and
  `src/oneshot-v8.js`, two superseded consoles outside the Next build.
- Failures left out of modelled parts: `readdirSync` on a directory that vanishes during the scan
  (`process-runner.ts:115`), a docker command that cannot be spawned at cleanup
  (`container-runner.ts:108`, `:179`), a compiler stopped between two files of a build
  (`Launch.buildBackend`), and the branch of finish for a run without a snapshot
  (`transition-services.ts:122`), which nothing on the pipeline path can reach.
- The pool of validation lanes, one Python bridge per branch: the bridges share nothing, so
  one stands for all.

## 9. Plan
1. Done: the modules of section 2, their runs, and the theorems of section 5.
2. `RunQueue` does not implement `GovernedRun` as it stands: two executions of one run (the
   inline fallback and a late enqueue, section 7) may both enter the Builder with the approved
   package. What holds there is proved one by one: `BuilderAuthorized`, `DoneIsFinal`,
   `PassedIsApproved`.
3. Compositions: `RunQueue` with `ProofGraph` (package and revision), the pipeline's Gap
   Analysis stage with the ring, `ResearchGate` with `IntentCollection`.
