------------------------ MODULE StagePipeline_proofs ------------------------
(***************************************************************************)
(* Machine-checked proofs about StagePipeline, for every set of workers and *)
(* reconcilers, every refinement limit and every amount of adversity.       *)
(***************************************************************************)
EXTENDS StagePipeline, TLAPS

\* Program points at which the process holds an outcome it will act on.
OutPoints == {"save", "mark", "release", "hashSave"} \union ApplyPoints

\* Program points inside finish().
FinishPoints == {"term", "termNX", "termIssue", "snapshot", "finish", "emit", "termCommit"}

\* From the SET NX of the builder intent to the stored build result.
BuilderPoints == {"preflight", "builder", "buildSave"}

\* What a process holds fits the place it is at: it works on a stage of the run,
\* at a point of that stage's own code, with an outcome that stage can have.
PlaceOK(p) ==
    /\ pc[p] # "idle" => job[p] \in Ids
    /\ pc[p] \in OutPoints => out[p] \in OutcomesOf(job[p].stage)
    /\ pc[p] \in FinishPoints \union {"verify"} => job[p].stage = "finalize"
    /\ pc[p] = "tripleRead" => job[p].stage = "triple-validation"
    /\ pc[p] = "hashSave" => job[p].stage = "hash"
    /\ pc[p] \in BuilderPoints \union {"recover"} => job[p].stage = "build"

LocalOK == \A p \in Procs : PlaceOK(p)

\* The persisted outcomes are outcomes of their stages.
OutcomeOK == \A id \in Ids : outcome[id] \in OutcomesOf(id.stage) \union {NoOutcome}

\* The SET NX of the builder intent lets one process through, and the stored
\* build result is that of its one Builder execution.
BuilderInv ==
    /\ builderRuns \in {0, 1}
    /\ builderRuns = 1 => builderIntent
    /\ store.build # "none" => builderRuns = 1 /\ store.approval
    /\ \A p \in Procs : pc[p] \in BuilderPoints =>
           /\ builderIntent /\ store.build = "none"
           /\ builderRuns = (IF pc[p] = "buildSave" THEN 1 ELSE 0)
           /\ pc[p] # "preflight" => store.approval
    /\ \A p, q \in Procs : pc[p] \in BuilderPoints /\ pc[q] \in BuilderPoints => p = q

\* Every favourable verdict of the finalize stage, held, persisted or reported,
\* rests on a stored build result that passed.
Favourable(p) == pc[p] \in OutPoints /\ job[p].stage = "finalize" /\ out[p] = advance

EvidenceInv ==
    /\ \A id \in Ids : id.stage = "finalize" /\ outcome[id] = advance
                         => store.build = "Passed"
    /\ \A p \in Procs : Favourable(p) => store.build = "Passed"
    /\ run.result = "Passed" => store.build = "Passed"

IInv == TypeOK /\ LocalOK /\ OutcomeOK /\ BuilderInv /\ EvidenceInv

-----------------------------------------------------------------------------
\* A job identity is made of a stage and an iteration, which is 0 outside the loop.
LEMMA IdFields ==
    ASSUME NEW id \in Ids
    PROVE  /\ id = Id(id.stage, id.iteration)
           /\ id.stage \in Stages /\ id.iteration \in Iterations
           /\ id.stage \notin IterativeStages => id.iteration = 0
  <1>1. CASE \E s \in IterativeStages, i \in Iterations : id = Id(s, i)
    BY <1>1 DEF Id, Stages
  <1>2. CASE \E s \in Stages \ IterativeStages : id = Id(s, 0)
    BY <1>2, MaxRefinementsAssumption DEF Id, Iterations
  <1> QED
    BY <1>1, <1>2 DEF Ids

\* The stage and iteration pairs that are job identities.
LEMMA IdsIntro ==
    /\ \A s \in IterativeStages, i \in Iterations : Id(s, i) \in Ids
    /\ \A s \in Stages \ IterativeStages : Id(s, 0) \in Ids
  BY DEF Ids

\* What resolveTransition yields for an outcome the stage can have: a stage of the
\* run within the refinement limit, a human gate, or the end of the run from the
\* finalize stage alone, favourable only for an advance.
LEMMA TransitionFacts ==
    ASSUME NEW id \in Ids, NEW o \in OutcomesOf(id.stage)
    PROVE  LET t == resolveTransition(id.stage, o, id.iteration)
           IN /\ t.type = "next" => t.to \in Ids
              /\ t.finalization \in Issues \union {NoIssue}
              /\ t.result \in Results
              /\ t.type = "done" <=> id.stage = "finalize"
              /\ t.type = "done" => t.result \in {"Passed", "Failed"}
              /\ t.type = "done" /\ t.result = "Passed" => o = advance
  <1>1. /\ id.stage \in Stages /\ id.iteration \in 0 .. MaxRefinements
        /\ id.stage \notin IterativeStages => id.iteration = 0
    BY IdFields DEF Iterations
  <1>2. CASE id.stage \in {"researcher", "planner", "refactor", "gap-analysis", "evaluation", "confirmation"}
    <2>1. o = advance
      BY <1>2 DEF OutcomesOf
    <2> QED
      BY <1>1, <1>2, <2>1, IdsIntro
      DEF resolveTransition, Goto, Wait, advance, Results, Issues, NoIssue,
          Stages, IterativeStages, Iterations
  <1>3. CASE id.stage = "triple-validation"
    <2>1. o = advance \/ o = refine("triple-validation")
      BY <1>3 DEF OutcomesOf
    <2>2. CASE o = advance
      BY <1>1, <1>3, <2>2, IdsIntro
      DEF resolveTransition, resolveTripleValidationTransition, Goto, advance, Results, Issues, NoIssue,
          Stages, IterativeStages, Iterations
    <2>3. CASE o = refine("triple-validation") /\ id.iteration >= MaxRefinements
      BY <1>1, <1>3, <2>3, IdsIntro, MaxRefinementsAssumption
      DEF resolveTransition, resolveTripleValidationTransition, failedFinalization, Goto, refine, Results, Issues, NoIssue,
          Stages, IterativeStages, Iterations
    <2>4. CASE o = refine("triple-validation") /\ id.iteration < MaxRefinements
      BY <1>1, <1>3, <2>4, IdsIntro, MaxRefinementsAssumption
      DEF resolveTransition, resolveTripleValidationTransition, Goto, refine, Results, Issues, NoIssue,
          Stages, IterativeStages, Iterations
    <2> QED
      BY <2>1, <2>2, <2>3, <2>4, <1>1, MaxRefinementsAssumption
  <1>4. CASE id.stage \in {"hash", "build"}
    <2>1. o = advance \/ \E x \in Issues : o = terminal(x)
      BY <1>4 DEF OutcomesOf, Issues
    <2>2. CASE o = advance
      BY <1>1, <1>4, <2>2, IdsIntro
      DEF resolveTransition, Goto, Wait, advance, Results, Issues, NoIssue,
          Stages, IterativeStages, Iterations
    <2>3. CASE \E x \in Issues : o = terminal(x)
      <3>1. o.kind = "terminal" /\ o.issue \in Issues
        BY <2>3 DEF terminal
      <3>2. resolveTransition(id.stage, o, id.iteration) = failedFinalization(o)
        BY <1>4, <3>1 DEF resolveTransition
      <3>3. Id("finalize", 0) \in Ids
        BY IdsIntro DEF Stages, IterativeStages
      <3> QED
        BY <1>4, <3>1, <3>2, <3>3 DEF failedFinalization, Goto, Results
    <2> QED
      BY <2>1, <2>2, <2>3
  <1>5. CASE id.stage = "finalize"
    <2>1. o = advance \/ \E x \in Issues : o = terminal(x)
      BY <1>5 DEF OutcomesOf
    <2> QED
      BY <1>1, <1>5, <2>1
      DEF resolveTransition, Finish, advance, terminal, Results, Issues, NoIssue
  <1> QED
    BY <1>1, <1>2, <1>3, <1>4, <1>5 DEF Stages, IterativeStages

-----------------------------------------------------------------------------
(* Types. *)

\* What BullMQ does to a job record leaves a job record.
LEMMA JobRecordFacts ==
    /\ QueuedJob \in JobRecords /\ AbsentJob \in JobRecords
    /\ \A s \in JobStates : EndedJob(s) \in JobRecords
    /\ \A j \in JobRecords, w \in Workers :
           [j EXCEPT !.state = "active", !.owner = w] \in JobRecords
    /\ \A j \in JobRecords : j.attempts + 1 < MaxAttempts =>
           [j EXCEPT !.state = "waiting", !.attempts = j.attempts + 1, !.owner = NoOwner]
               \in JobRecords
    /\ \A j \in JobRecords : j.stalls < MaxStalled =>
           [j EXCEPT !.state = "waiting", !.stalls = j.stalls + 1, !.owner = NoOwner] \in JobRecords
  <1>1. 0 \in 0 .. MaxAttempts - 1 /\ 0 \in 0 .. MaxStalled
    BY BoundsAssumption
  <1>2. /\ QueuedJob \in JobRecords /\ AbsentJob \in JobRecords
        /\ \A s \in JobStates : EndedJob(s) \in JobRecords
    BY <1>1 DEF QueuedJob, AbsentJob, EndedJob, JobRecords, JobStates
  <1>3. \A j \in JobRecords, w \in Workers :
           [j EXCEPT !.state = "active", !.owner = w] \in JobRecords
    BY DEF JobRecords, JobStates
  <1>4. \A j \in JobRecords : j.attempts + 1 < MaxAttempts =>
           [j EXCEPT !.state = "waiting", !.attempts = j.attempts + 1, !.owner = NoOwner]
               \in JobRecords
    <2> TAKE j \in JobRecords
    <2> HAVE j.attempts + 1 < MaxAttempts
    <2>1. j.attempts + 1 \in 0 .. MaxAttempts - 1
      BY BoundsAssumption DEF JobRecords
    <2> QED
      BY <2>1 DEF JobRecords, JobStates
  <1>5. \A j \in JobRecords : j.stalls < MaxStalled =>
           [j EXCEPT !.state = "waiting", !.stalls = j.stalls + 1, !.owner = NoOwner] \in JobRecords
    <2> TAKE j \in JobRecords
    <2> HAVE j.stalls < MaxStalled
    <2>1. MaxStalled \in Nat
      BY BoundsAssumption
    <2>2. j.stalls + 1 \in 0 .. MaxStalled
      BY <2>1 DEF JobRecords
    <2> QED
      BY <2>2 DEF JobRecords, JobStates
  <1> QED
    BY <1>2, <1>3, <1>4, <1>5

\* A process that forgets what it was doing keeps its types.
LEMMA ForgetTypes ==
    ASSUME LocalTypes, NEW p \in Procs, Forget(p)
    PROVE  LocalTypes'
  BY DEF Forget, LocalTypes, Points

\* An exception leaves a job that is retried or given up.
LEMMA ThrownTypes ==
    ASSUME QueueTypes, LocalTypes, NEW p \in Procs, job[p] \in Ids, Thrown(p)
    PROVE  QueueTypes' /\ LocalTypes'
  <1>1. jobs[job[p]] \in JobRecords /\ EndedJob("failed") \in JobRecords
    BY JobRecordFacts DEF QueueTypes, JobStates
  <1>2. jobs' \in [Ids -> JobRecords]
    BY <1>1, JobRecordFacts DEF Thrown, QueueTypes
  <1>3. lease' \in [Ids -> Workers \union {NoOwner}]
    BY DEF Thrown, QueueTypes
  <1> QED
    BY <1>2, <1>3, ForgetTypes DEF Thrown, QueueTypes

\* Adding a job leaves job records.
LEMMA AddedTypes ==
    ASSUME jobs \in [Ids -> JobRecords], NEW id \in Ids
    PROVE  Added(jobs, id) \in [Ids -> JobRecords]
  BY JobRecordFacts DEF Added

\* runStage around execute().
LEMMA RunStageTypes ==
    ASSUME TypeOK, LocalOK, OutcomeOK, NEW w \in Workers, \/ \E id \in Ids : Take(w, id)
           \/ LoadPersistedOutcome(w) \/ Acquire(w)
           \/ SaveExecution(w) \/ MarkCompleted(w) \/ Release(w)
    PROVE  TypeOK'
  <1>1. CASE \E id \in Ids : Take(w, id)
    <2> PICK id \in Ids : Take(w, id)
      BY <1>1
    <2>1. jobs' \in [Ids -> JobRecords]
      BY JobRecordFacts DEF Take, TypeOK, QueueTypes
    <2> QED
      BY <2>1 DEF Take, TypeOK, QueueTypes, LocalTypes, DurableTypes, LocalOK, PlaceOK, Points, Procs
  <1>2. CASE LoadPersistedOutcome(w)
    <2>1. w \in Procs /\ job[w] \in Ids
      BY <1>2 DEF LoadPersistedOutcome, LocalOK, PlaceOK, Procs
    <2>2. CASE Thrown(w)
      BY <1>2, <2>1, <2>2, ThrownTypes DEF LoadPersistedOutcome, KeptByThrow, TypeOK, DurableTypes
    <2>3. CASE ~ Thrown(w)
      BY <1>2, <2>1, <2>3 DEF LoadPersistedOutcome, Step, KeptByThrow, ApplyPoints, ExecutingPoints, TypeOK, QueueTypes, LocalTypes, DurableTypes, LocalOK, PlaceOK, Points, Procs
    <2> QED
      BY <2>2, <2>3
  <1>3. CASE Acquire(w)
    BY <1>3 DEF Acquire, Step, KeptByThrow, ExecutingPoints,
           TypeOK, QueueTypes, LocalTypes, DurableTypes, LocalOK, PlaceOK, Points, Procs
  <1>4. CASE SaveExecution(w)
    <2>1. w \in Procs /\ job[w] \in Ids
      BY <1>4 DEF SaveExecution, LocalOK, PlaceOK, Procs
    <2>2. CASE lease[job[w]] # w
      BY <1>4, <2>1, <2>2, ThrownTypes DEF SaveExecution, TypeOK, DurableTypes
    <2>3. CASE lease[job[w]] = w
      BY <1>4, <2>1, <2>3 DEF SaveExecution, Step, ExecutingPoints, TypeOK, QueueTypes, LocalTypes, DurableTypes, LocalOK, PlaceOK, Points, Procs
    <2> QED
      BY <1>4, <2>2, <2>3 DEF SaveExecution
  <1>5. CASE MarkCompleted(w)
    BY <1>5 DEF MarkCompleted, Step, ExecutingPoints,
           TypeOK, QueueTypes, LocalTypes, DurableTypes, LocalOK, PlaceOK, Points, Procs
  <1>6. CASE Release(w)
    BY <1>6 DEF Release, Step, KeptByThrow, ApplyPoints,
           TypeOK, QueueTypes, LocalTypes, DurableTypes, LocalOK, PlaceOK, Points, Procs
  <1> QED
    BY <1>1, <1>2, <1>3, <1>4, <1>5, <1>6

\* execute() of every stage.
LEMMA ExecuteTypes ==
    ASSUME TypeOK, LocalOK, OutcomeOK, NEW w \in Workers, Execute(w)
    PROVE  TypeOK'
  <1>1. CASE RunAgentStage(w)
    BY <1>1 DEF RunAgentStage, Produce, Step, Unstored, ExecutingPoints, Outcomes,
           TypeOK, QueueTypes, LocalTypes, DurableTypes, LocalOK, PlaceOK, Points, Procs
  <1>2. CASE RunTripleValidationStage(w)
    BY <1>2 DEF RunTripleValidationStage, Step, Unstored, ExecutingPoints,
           TypeOK, QueueTypes, LocalTypes, DurableTypes, LocalOK, PlaceOK, Points, Procs
  <1>3. CASE ReadTripleValidation(w)
    BY <1>3 DEF ReadTripleValidation, Produce, Step, Unstored, ExecutingPoints, Outcomes, Issues,
           TypeOK, QueueTypes, LocalTypes, DurableTypes, LocalOK, PlaceOK, Points, Procs
  <1>4. CASE RunConfirmationStage(w)
    <2>1. w \in Procs /\ job[w] \in Ids
      BY <1>4 DEF RunConfirmationStage, LocalOK, PlaceOK, Procs
    <2>2. CASE Thrown(w)
      BY <1>4, <2>1, <2>2, ThrownTypes DEF RunConfirmationStage, Unstored, TypeOK, DurableTypes
    <2>3. CASE ~ Thrown(w)
      BY <1>4, <2>1, <2>3
      DEF RunConfirmationStage, Produce, Step, Outcomes, Unstored, ExecutingPoints, TypeOK, QueueTypes, LocalTypes, DurableTypes, LocalOK, PlaceOK, Points, Procs
    <2> QED
      BY <2>2, <2>3
  <1>5. CASE RunHashStage(w)
    BY <1>5 DEF RunHashStage, Step, Unstored, ExecutingPoints, Outcomes, Issues,
           TypeOK, QueueTypes, LocalTypes, DurableTypes, LocalOK, PlaceOK, Points, Procs
  <1>6. CASE SaveHashProof(w)
    <2>1. out[w] \in Outcomes \union {NoOutcome}
      BY DEF TypeOK, LocalTypes, Procs
    <2> QED
      BY <1>6, <2>1 DEF SaveHashProof, Produce, Step, Unstored, ExecutingPoints, TypeOK, QueueTypes, LocalTypes, DurableTypes, LocalOK, PlaceOK, Points, Procs
  <1>7. CASE RecordBuilderIntent(w)
    BY <1>7 DEF RecordBuilderIntent, Step, Unstored, ExecutingPoints,
           TypeOK, QueueTypes, LocalTypes, DurableTypes, LocalOK, PlaceOK, Points, Procs
  <1>8. CASE RecoverBuildResult(w)
    BY <1>8 DEF RecoverBuildResult, Produce, Step, Unstored, ExecutingPoints, Outcomes, Issues,
           TypeOK, QueueTypes, LocalTypes, DurableTypes, LocalOK, PlaceOK, Points, Procs
  <1>9. CASE AuthorizeBuild(w)
    <2>1. w \in Procs /\ job[w] \in Ids
      BY <1>9 DEF AuthorizeBuild, LocalOK, PlaceOK, Procs
    <2>2. CASE Thrown(w)
      BY <1>9, <2>1, <2>2, ThrownTypes DEF AuthorizeBuild, Unstored, TypeOK, DurableTypes
    <2>3. CASE ~ Thrown(w)
      BY <1>9, <2>1, <2>3
      DEF AuthorizeBuild, Step, Unstored, ExecutingPoints, TypeOK, QueueTypes, LocalTypes, DurableTypes, LocalOK, PlaceOK, Points, Procs
    <2> QED
      BY <2>2, <2>3
  <1>10. CASE RunBuilder(w)
    BY <1>10 DEF RunBuilder, Step, Unstored, ExecutingPoints,
           TypeOK, QueueTypes, LocalTypes, DurableTypes, LocalOK, PlaceOK, Points, Procs
  <1>11. CASE SaveBuildResult(w)
    BY <1>11 DEF SaveBuildResult, Produce, Step, Unstored, ExecutingPoints, Outcomes, Issues,
           TypeOK, QueueTypes, LocalTypes, DurableTypes, LocalOK, PlaceOK, Points, Procs
  <1>12. CASE LoadFinalizationIntent(w)
    BY <1>12 DEF LoadFinalizationIntent, Produce, Step, Unstored, ExecutingPoints, Outcomes,
           TypeOK, QueueTypes, LocalTypes, DurableTypes, LocalOK, PlaceOK, Points, Procs
  <1>13. CASE VerifyFinalHash(w)
    <2>1. w \in Procs /\ job[w] \in Ids
      BY <1>13 DEF VerifyFinalHash, LocalOK, PlaceOK, Procs
    <2>2. CASE Thrown(w)
      BY <1>13, <2>1, <2>2, ThrownTypes DEF VerifyFinalHash, Unstored, TypeOK, DurableTypes
    <2>3. CASE ~ Thrown(w)
      BY <1>13, <2>1, <2>3
      DEF VerifyFinalHash, Produce, Step, Outcomes, Issues, Unstored, ExecutingPoints, TypeOK, QueueTypes, LocalTypes, DurableTypes, LocalOK, PlaceOK, Points, Procs
    <2> QED
      BY <2>2, <2>3
  <1> QED
    BY <1>1, <1>2, <1>3, <1>4, <1>5, <1>6, <1>7, <1>8, <1>9, <1>10, <1>11, <1>12, <1>13 DEF Execute

\* The transition a process works on, where it holds an outcome.
LEMMA TransitionOfFacts ==
    ASSUME LocalOK, NEW p \in Procs, pc[p] \in OutPoints
    PROVE  /\ job[p] \in Ids /\ out[p] \in OutcomesOf(job[p].stage)
           /\ TransitionOf(p).type = "next" => TransitionOf(p).to \in Ids
           /\ TransitionOf(p).finalization \in Issues \union {NoIssue}
           /\ TransitionOf(p).result \in Results
           /\ TransitionOf(p).type = "done" <=> job[p].stage = "finalize"
           /\ TransitionOf(p).type = "done" => TransitionOf(p).result \in {"Passed", "Failed"}
           /\ TransitionOf(p).type = "done" /\ TransitionOf(p).result = "Passed"
                  => out[p] = advance
  <1>1. job[p] \in Ids /\ out[p] \in OutcomesOf(job[p].stage)
    BY DEF LocalOK, PlaceOK, OutPoints, ApplyPoints
  <1> QED
    BY <1>1, TransitionFacts DEF TransitionOf

\* Only finalize goes on to terminalize the run.
LEMMA EffectPointFacts ==
    ASSUME LocalOK, NEW p \in Procs, pc[p] \in OutPoints
    PROVE  /\ EffectPoint(p) \in {"term", "intent", "effect"}
           /\ EffectPoint(p) = "term" <=> job[p].stage = "finalize"
  BY TransitionOfFacts DEF EffectPoint

\* applyTransition and finish().
LEMMA ApplyTypes ==
    ASSUME TypeOK, LocalOK, OutcomeOK, NEW p \in Procs, ApplyTransition(p)
    PROVE  TypeOK'
  <1>1. CASE ReadTransitionState(p)
    <2>1. pc[p] \in OutPoints
      BY <1>1 DEF ReadTransitionState, Step, OutPoints, ApplyPoints
    <2>2. job[p] \in Ids /\ EffectPoint(p) \in ApplyPoints
      BY <2>1, TransitionOfFacts, EffectPointFacts DEF ApplyPoints
    <2> QED
      BY <1>1, <2>2
      DEF ReadTransitionState, Step, NotApplied, ApplyPoints, TypeOK, QueueTypes, LocalTypes,
          DurableTypes, Points
  <1>2. CASE MarkTransitionPending(p)
    <2>1. pc[p] \in OutPoints
      BY <1>2 DEF MarkTransitionPending, Step, OutPoints, ApplyPoints
    <2>2. job[p] \in Ids /\ EffectPoint(p) \in ApplyPoints
      BY <2>1, TransitionOfFacts, EffectPointFacts DEF ApplyPoints
    <2> QED
      BY <1>2, <2>2
      DEF MarkTransitionPending, Step, NotApplied, ApplyPoints, TypeOK, QueueTypes, LocalTypes,
          DurableTypes, Points
  <1>3. CASE SaveFinalizationIntent(p)
    <2>1. pc[p] \in OutPoints
      BY <1>3 DEF SaveFinalizationIntent, Step, OutPoints, ApplyPoints
    <2>2. /\ job[p] \in Ids /\ TransitionOf(p).finalization \in Issues \union {NoIssue}
          /\ TransitionOf(p).result \in Results
      BY <2>1, TransitionOfFacts
    <2> QED
      BY <1>3, <2>2
      DEF SaveFinalizationIntent, Step, NotApplied, ApplyPoints, TypeOK, QueueTypes, LocalTypes, DurableTypes, Points
  <1>4. CASE ApplyEffect(p)
    <2>1. TransitionOf(p).type = "next" => TransitionOf(p).to \in Ids
      BY <1>4, TransitionOfFacts DEF ApplyEffect, Step, OutPoints, ApplyPoints
    <2>2. jobs' \in [Ids -> JobRecords]
      BY <1>4, <2>1, AddedTypes DEF ApplyEffect, TypeOK, QueueTypes
    <2> QED
      BY <1>4, <2>2
      DEF ApplyEffect, Step, NotApplied, ApplyPoints, TypeOK, QueueTypes, LocalTypes,
          DurableTypes, Points
  <1>5. CASE ReadTerminalState(p)
    <2>1. pc[p] \in OutPoints
      BY <1>5 DEF ReadTerminalState, Step, OutPoints, ApplyPoints
    <2>2. /\ job[p] \in Ids /\ TransitionOf(p).finalization \in Issues \union {NoIssue}
          /\ TransitionOf(p).result \in Results
      BY <2>1, TransitionOfFacts
    <2> QED
      BY <1>5, <2>2
      DEF ReadTerminalState, Step, NotApplied, ApplyPoints, TypeOK, QueueTypes, LocalTypes, DurableTypes, Points
  <1>6. CASE MarkTerminalPending(p)
    <2>1. pc[p] \in OutPoints
      BY <1>6 DEF MarkTerminalPending, Step, OutPoints, ApplyPoints
    <2>2. /\ job[p] \in Ids /\ TransitionOf(p).finalization \in Issues \union {NoIssue}
          /\ TransitionOf(p).result \in Results
      BY <2>1, TransitionOfFacts
    <2> QED
      BY <1>6, <2>2
      DEF MarkTerminalPending, Step, NotApplied, ApplyPoints, TypeOK, QueueTypes, LocalTypes, DurableTypes, Points
  <1>7. CASE SaveTerminalIssue(p)
    <2>1. pc[p] \in OutPoints
      BY <1>7 DEF SaveTerminalIssue, Step, OutPoints, ApplyPoints
    <2>2. /\ job[p] \in Ids /\ TransitionOf(p).finalization \in Issues \union {NoIssue}
          /\ TransitionOf(p).result \in Results
      BY <2>1, TransitionOfFacts
    <2> QED
      BY <1>7, <2>2
      DEF SaveTerminalIssue, Step, NotApplied, ApplyPoints, TypeOK, QueueTypes, LocalTypes, DurableTypes, Points
  <1>8. CASE ReadSnapshot(p)
    <2>1. pc[p] \in OutPoints
      BY <1>8 DEF ReadSnapshot, Step, OutPoints, ApplyPoints
    <2>2. /\ job[p] \in Ids /\ TransitionOf(p).finalization \in Issues \union {NoIssue}
          /\ TransitionOf(p).result \in Results
      BY <2>1, TransitionOfFacts
    <2> QED
      BY <1>8, <2>2
      DEF ReadSnapshot, Step, NotApplied, ApplyPoints, TypeOK, QueueTypes, LocalTypes, DurableTypes, Points
  <1>9. CASE FinishRun(p)
    <2>1. pc[p] \in OutPoints
      BY <1>9 DEF FinishRun, Step, OutPoints, ApplyPoints
    <2>2. /\ job[p] \in Ids /\ TransitionOf(p).finalization \in Issues \union {NoIssue}
          /\ TransitionOf(p).result \in Results
      BY <2>1, TransitionOfFacts
    <2> QED
      BY <1>9, <2>2
      DEF FinishRun, Step, NotApplied, ApplyPoints, TypeOK, QueueTypes, LocalTypes, DurableTypes, Points
  <1>10. CASE EmitDone(p)
    <2>1. pc[p] \in OutPoints
      BY <1>10 DEF EmitDone, Step, OutPoints, ApplyPoints
    <2>2. /\ job[p] \in Ids /\ TransitionOf(p).finalization \in Issues \union {NoIssue}
          /\ TransitionOf(p).result \in Results
      BY <2>1, TransitionOfFacts
    <2> QED
      BY <1>10, <2>2
      DEF EmitDone, Step, NotApplied, ApplyPoints, TypeOK, QueueTypes, LocalTypes, DurableTypes, Points
  <1>11. CASE MarkTerminalCommitted(p)
    <2>1. pc[p] \in OutPoints
      BY <1>11 DEF MarkTerminalCommitted, Step, OutPoints, ApplyPoints
    <2>2. /\ job[p] \in Ids /\ TransitionOf(p).finalization \in Issues \union {NoIssue}
          /\ TransitionOf(p).result \in Results
      BY <2>1, TransitionOfFacts
    <2> QED
      BY <1>11, <2>2
      DEF MarkTerminalCommitted, Step, NotApplied, ApplyPoints, TypeOK, QueueTypes, LocalTypes, DurableTypes, Points
  <1>12. CASE MarkTransitionCommitted(p)
    <2>1. pc[p] \in OutPoints
      BY <1>12 DEF MarkTransitionCommitted, Step, OutPoints, ApplyPoints
    <2>2. /\ job[p] \in Ids /\ TransitionOf(p).finalization \in Issues \union {NoIssue}
          /\ TransitionOf(p).result \in Results
      BY <2>1, TransitionOfFacts
    <2> QED
      BY <1>12, <2>2
      DEF MarkTransitionCommitted, Step, NotApplied, ApplyPoints, TypeOK, QueueTypes, LocalTypes, DurableTypes, Points
  <1> QED
    BY <1>1, <1>2, <1>3, <1>4, <1>5, <1>6, <1>7, <1>8, <1>9, <1>10, <1>11, <1>12 DEF ApplyTransition, FinishSteps

\* Completing a job keeps the types.
LEMMA CompleteTypes ==
    ASSUME TypeOK, LocalOK, NEW p \in Procs, Complete(p)
    PROVE  TypeOK'
  <1>1. job[p] \in Ids
    BY DEF Complete, LocalOK, PlaceOK
  <1>2. EndedJob("completed") \in JobRecords
    BY JobRecordFacts DEF JobStates
  <1>3. jobs' \in [Ids -> JobRecords]
    BY <1>1, <1>2 DEF Complete, TypeOK, QueueTypes
  <1> QED
    BY <1>3, ForgetTypes DEF Complete, KeptByThrow, TypeOK, QueueTypes, DurableTypes

\* The reconcile endpoint and the human gates.
LEMMA GateTypes ==
    ASSUME TypeOK, LocalOK, OutcomeOK,
           \/ \E r \in Reconcilers, id \in Ids : Reconcile(r, id)
           \/ ConfirmPlan \/ ApproveBuild \/ EnqueueBuild
    PROVE  TypeOK'
  <1>1. CASE \E r \in Reconcilers, id \in Ids : Reconcile(r, id)
    BY <1>1 DEF Reconcile, KeptByThrow, ApplyPoints, TypeOK, QueueTypes, LocalTypes,
           DurableTypes, Points, Procs
  <1>2. CASE ConfirmPlan
    <2>1. Id("planner", 0) \in Ids
      BY IdsIntro DEF Stages, IterativeStages
    <2> QED
      BY <1>2, <2>1, AddedTypes DEF ConfirmPlan, TypeOK, QueueTypes, LocalTypes, DurableTypes
  <1>3. CASE ApproveBuild
    BY <1>3 DEF ApproveBuild, TypeOK, QueueTypes, LocalTypes, DurableTypes
  <1>4. CASE EnqueueBuild
    <2>1. Id("build", 0) \in Ids
      BY IdsIntro DEF Stages, IterativeStages
    <2> QED
      BY <1>4, <2>1, AddedTypes DEF EnqueueBuild, TypeOK, QueueTypes, LocalTypes, DurableTypes
  <1> QED
    BY <1>1, <1>2, <1>3, <1>4

\* A crash or an exception keeps the types.
LEMMA ProcAdversityTypes ==
    ASSUME TypeOK, LocalOK, NEW p \in Procs, Crash(p) \/ Throw(p)
    PROVE  TypeOK'
  <1>1. CASE Crash(p)
    BY <1>1, ForgetTypes DEF Crash, KeptByThrow, TypeOK, QueueTypes, DurableTypes
  <1>2. CASE Throw(p)
    <2>1. job[p] \in Ids
      BY <1>2 DEF Throw, LocalOK, PlaceOK
    <2> QED
      BY <1>2, <2>1, ThrownTypes DEF Throw, KeptByThrow, TypeOK, DurableTypes
  <1> QED
    BY <1>1, <1>2

\* Lost locks and expired leases keep the types.
LEMMA QueueAdversityTypes ==
    ASSUME TypeOK, NEW id \in Ids,
           \/ StallDead(id) \/ StallLive(id)
           \/ LeaseExpiresDead(id) \/ LeaseExpiresLive(id)
    PROVE  TypeOK'
  <1>1. jobs' \in [Ids -> JobRecords]
    <2>1. jobs[id] \in JobRecords /\ EndedJob("failed") \in JobRecords
      BY JobRecordFacts DEF TypeOK, QueueTypes, JobStates
    <2>2. CASE Restalled(id)
      <3>1. jobs[id].stalls < MaxStalled =>
                [jobs[id] EXCEPT !.state = "waiting", !.stalls = jobs[id].stalls + 1,
                                 !.owner = NoOwner] \in JobRecords
        BY <2>1, JobRecordFacts
      <3> QED
        BY <2>1, <2>2, <3>1 DEF Restalled, TypeOK, QueueTypes
    <2>3. CASE UNCHANGED jobs
      BY <2>3 DEF TypeOK, QueueTypes
    <2> QED
      BY <2>2, <2>3 DEF StallDead, StallLive, LeaseExpiresDead, LeaseExpiresLive
  <1> QED
    BY <1>1
    DEF StallDead, StallLive, Restalled, LeaseExpiresDead, LeaseExpiresLive, KeptByThrow,
        TypeOK, QueueTypes, LocalTypes, DurableTypes

\* Every step keeps the types.
LEMMA TypeStep ==
    ASSUME TypeOK, LocalOK, OutcomeOK, Next
    PROVE  TypeOK'
  BY RunStageTypes, ExecuteTypes, ApplyTypes, CompleteTypes, GateTypes, ProcAdversityTypes,
     QueueAdversityTypes
  DEF Next, WorkerStep, ProcStep

-----------------------------------------------------------------------------
(* Places and outcomes. *)

\* A process that stays where it is, with what it holds, stays in order.
LEMMA PlaceKept ==
    ASSUME NEW p, pc'[p] = pc[p], job'[p] = job[p], out'[p] = out[p], PlaceOK(p)
    PROVE  PlaceOK(p)'
  BY DEF PlaceOK

\* A process that forgets what it was doing is at no place that asks anything.
LEMMA ForgetPlaces ==
    ASSUME LocalTypes, LocalOK, NEW p \in Procs, Forget(p)
    PROVE  LocalOK'
  BY DEF Forget, LocalTypes, LocalOK, PlaceOK, OutPoints, ApplyPoints, FinishPoints, BuilderPoints


\* runStage around execute().
LEMMA RunStagePlaces ==
    ASSUME TypeOK, LocalOK, OutcomeOK, NEW w \in Workers,
           \/ \E id \in Ids : Take(w, id)
           \/ LoadPersistedOutcome(w) \/ Acquire(w)
           \/ SaveExecution(w) \/ MarkCompleted(w) \/ Release(w)
    PROVE  LocalOK' /\ OutcomeOK'
  <1>1. CASE \E id \in Ids : Take(w, id)
    <2>1. PlaceOK(w)'
      BY <1>1 DEF Take, Step, TypeOK, LocalTypes, LocalOK, PlaceOK,
             Procs, OutPoints, ApplyPoints, FinishPoints, BuilderPoints
    <2>2. \A q \in Procs \ {w} : PlaceOK(q)'
      BY <1>1, PlaceKept DEF Take, Step, TypeOK, LocalTypes, LocalOK
    <2>3. OutcomeOK'
      BY <1>1 DEF Take, OutcomeOK
    <2> QED
      BY <2>1, <2>2, <2>3 DEF LocalOK
  <1>2. CASE LoadPersistedOutcome(w)
    <2>1. PlaceOK(w)'
      BY <1>2 DEF LoadPersistedOutcome, Step, Thrown, Forget, KeptByThrow, TypeOK, LocalTypes, LocalOK, OutcomeOK, PlaceOK,
             Procs, OutPoints, ApplyPoints, FinishPoints, BuilderPoints
    <2>2. \A q \in Procs \ {w} : PlaceOK(q)'
      BY <1>2, PlaceKept DEF LoadPersistedOutcome, Step, Thrown, Forget, KeptByThrow, TypeOK, LocalTypes, LocalOK
    <2>3. OutcomeOK'
      BY <1>2 DEF LoadPersistedOutcome, Thrown, Forget, KeptByThrow, OutcomeOK
    <2> QED
      BY <2>1, <2>2, <2>3 DEF LocalOK
  <1>3. CASE Acquire(w)
    <2>1. PlaceOK(w)'
      BY <1>3 DEF Acquire, Step, KeptByThrow, TypeOK, LocalTypes, LocalOK, PlaceOK,
             Procs, OutPoints, ApplyPoints, FinishPoints, BuilderPoints
    <2>2. \A q \in Procs \ {w} : PlaceOK(q)'
      BY <1>3, PlaceKept DEF Acquire, Step, KeptByThrow, TypeOK, LocalTypes, LocalOK
    <2>3. OutcomeOK'
      BY <1>3 DEF Acquire, KeptByThrow, OutcomeOK
    <2> QED
      BY <2>1, <2>2, <2>3 DEF LocalOK
  <1>4. CASE SaveExecution(w)
    <2>1. PlaceOK(w)'
      BY <1>4 DEF SaveExecution, Step, Thrown, Forget, TypeOK, LocalTypes, LocalOK, PlaceOK,
             Procs, OutPoints, ApplyPoints, FinishPoints, BuilderPoints
    <2>2. \A q \in Procs \ {w} : PlaceOK(q)'
      BY <1>4, PlaceKept DEF SaveExecution, Step, Thrown, Forget, TypeOK, LocalTypes, LocalOK
    <2>3. OutcomeOK'
      BY <1>4 DEF SaveExecution, Thrown, Forget, TypeOK, DurableTypes, LocalOK, PlaceOK, OutPoints, Procs, OutcomeOK
    <2> QED
      BY <2>1, <2>2, <2>3 DEF LocalOK
  <1>5. CASE MarkCompleted(w)
    <2>1. PlaceOK(w)'
      BY <1>5 DEF MarkCompleted, Step, TypeOK, LocalTypes, LocalOK, PlaceOK,
             Procs, OutPoints, ApplyPoints, FinishPoints, BuilderPoints
    <2>2. \A q \in Procs \ {w} : PlaceOK(q)'
      BY <1>5, PlaceKept DEF MarkCompleted, Step, TypeOK, LocalTypes, LocalOK
    <2>3. OutcomeOK'
      BY <1>5 DEF MarkCompleted, OutcomeOK
    <2> QED
      BY <2>1, <2>2, <2>3 DEF LocalOK
  <1>6. CASE Release(w)
    <2>1. PlaceOK(w)'
      BY <1>6 DEF Release, Step, KeptByThrow, TypeOK, LocalTypes, LocalOK, PlaceOK,
             Procs, OutPoints, ApplyPoints, FinishPoints, BuilderPoints
    <2>2. \A q \in Procs \ {w} : PlaceOK(q)'
      BY <1>6, PlaceKept DEF Release, Step, KeptByThrow, TypeOK, LocalTypes, LocalOK
    <2>3. OutcomeOK'
      BY <1>6 DEF Release, KeptByThrow, OutcomeOK
    <2> QED
      BY <2>1, <2>2, <2>3 DEF LocalOK
  <1> QED
    BY <1>1, <1>2, <1>3, <1>4, <1>5, <1>6

\* Nor is one that was thrown out of its job.
LEMMA ThrownPlaces ==
    ASSUME LocalTypes, LocalOK, NEW p \in Procs, Thrown(p)
    PROVE  LocalOK'
  BY ForgetPlaces DEF Thrown

\* A stage body leaves the worker with an outcome of its own stage.
LEMMA ProducePlaces ==
    ASSUME LocalTypes, LocalOK, NEW p \in Procs, job[p] \in Ids,
           NEW from, NEW o \in OutcomesOf(job[p].stage), Produce(p, from, o)
    PROVE  LocalOK'
  <1>1. PlaceOK(p)'
    BY DEF Produce, Step, LocalTypes, PlaceOK, OutPoints, ApplyPoints, FinishPoints, BuilderPoints
  <1>2. \A q \in Procs \ {p} : PlaceOK(q)'
    BY PlaceKept DEF Produce, Step, LocalTypes, LocalOK
  <1> QED
    BY <1>1, <1>2 DEF LocalOK

\* execute(): each stage hands on an outcome of its own.
LEMMA ExecutePlaces ==
    ASSUME TypeOK, LocalOK, OutcomeOK, NEW w \in Workers, Execute(w)
    PROVE  LocalOK' /\ OutcomeOK'
  <1>1. CASE RunAgentStage(w)
    <2>1. w \in Procs /\ job[w] \in Ids
      BY <1>1 DEF RunAgentStage, Produce, Step, LocalOK, PlaceOK, Procs
    <2>2. OutcomeOK'
      BY <1>1 DEF RunAgentStage, Unstored, OutcomeOK
    <2>3. advance \in OutcomesOf(job[w].stage)
      BY <1>1, <2>1 DEF RunAgentStage, LocalOK, PlaceOK, Produce, Step, BuilderPoints, OutcomesOf
    <2> QED
      BY <1>1, <2>1, <2>2, <2>3, ProducePlaces DEF RunAgentStage, TypeOK
  <1>2. CASE RunTripleValidationStage(w)
    BY <1>2, PlaceKept
    DEF RunTripleValidationStage, Step, Unstored, TypeOK, LocalTypes, LocalOK, PlaceOK, OutcomeOK, Procs,
        OutPoints, ApplyPoints, FinishPoints, BuilderPoints
  <1>3. CASE ReadTripleValidation(w)
    BY <1>3, PlaceKept
    DEF ReadTripleValidation, Step, Produce, Unstored, OutcomesOf, TypeOK, LocalTypes, LocalOK, PlaceOK, OutcomeOK, Procs,
        OutPoints, ApplyPoints, FinishPoints, BuilderPoints
  <1>4. CASE RunConfirmationStage(w)
    <2>1. w \in Procs /\ job[w] \in Ids
      BY <1>4 DEF RunConfirmationStage, Produce, Step, LocalOK, PlaceOK, Procs
    <2>2. OutcomeOK'
      BY <1>4 DEF RunConfirmationStage, Unstored, OutcomeOK
    <2>3. advance \in OutcomesOf(job[w].stage)
      BY <1>4, <2>1 DEF RunConfirmationStage, LocalOK, PlaceOK, Produce, Step, BuilderPoints, OutcomesOf
    <2> QED
      BY <1>4, <2>1, <2>2, <2>3, ProducePlaces, ThrownPlaces DEF RunConfirmationStage, TypeOK
  <1>5. CASE RunHashStage(w)
    BY <1>5, PlaceKept
    DEF RunHashStage, Step, Unstored, OutcomesOf, TypeOK, LocalTypes, LocalOK, PlaceOK, OutcomeOK, Procs,
        OutPoints, ApplyPoints, FinishPoints, BuilderPoints
  <1>6. CASE SaveHashProof(w)
    BY <1>6, PlaceKept
    DEF SaveHashProof, Step, Produce, Unstored, TypeOK, LocalTypes, LocalOK, PlaceOK, OutcomeOK, Procs,
        OutPoints, ApplyPoints, FinishPoints, BuilderPoints
  <1>7. CASE RecordBuilderIntent(w)
    BY <1>7, PlaceKept
    DEF RecordBuilderIntent, Step, Unstored, TypeOK, LocalTypes, LocalOK, PlaceOK, OutcomeOK, Procs,
        OutPoints, ApplyPoints, FinishPoints, BuilderPoints
  <1>8. CASE RecoverBuildResult(w)
    <2>1. w \in Procs /\ job[w] \in Ids /\ job[w].stage = "build"
      BY <1>8 DEF RecoverBuildResult, Produce, Step, LocalOK, PlaceOK, BuilderPoints, Procs
    <2>2. OutcomeOK'
      BY <1>8 DEF RecoverBuildResult, Unstored, OutcomeOK
    <2>3. store.build \in {"none", "Passed", "Mismatch", "Failed"}
      BY DEF TypeOK, DurableTypes
    <2>4. \E o \in OutcomesOf(job[w].stage) : Produce(w, "recover", o)
      BY <1>8, <2>1, <2>3 DEF RecoverBuildResult, OutcomesOf
    <2> QED
      BY <2>1, <2>2, <2>4, ProducePlaces DEF TypeOK
  <1>9. CASE AuthorizeBuild(w)
    BY <1>9, PlaceKept
    DEF AuthorizeBuild, Step, Unstored, Thrown, Forget, TypeOK, LocalTypes, LocalOK, PlaceOK, OutcomeOK, Procs,
        OutPoints, ApplyPoints, FinishPoints, BuilderPoints
  <1>10. CASE RunBuilder(w)
    BY <1>10, PlaceKept
    DEF RunBuilder, Step, Unstored, TypeOK, LocalTypes, LocalOK, PlaceOK, OutcomeOK, Procs,
        OutPoints, ApplyPoints, FinishPoints, BuilderPoints
  <1>11. CASE SaveBuildResult(w)
    <2>1. w \in Procs /\ job[w] \in Ids /\ job[w].stage = "build"
      BY <1>11 DEF SaveBuildResult, Produce, Step, LocalOK, PlaceOK, BuilderPoints, Procs
    <2>2. OutcomeOK'
      BY <1>11 DEF SaveBuildResult, Unstored, OutcomeOK
    <2>3. \E o \in OutcomesOf(job[w].stage) : Produce(w, "buildSave", o)
      BY <1>11, <2>1 DEF SaveBuildResult, OutcomesOf
    <2> QED
      BY <2>1, <2>2, <2>3, ProducePlaces DEF TypeOK
  <1>12. CASE LoadFinalizationIntent(w)
    <2>1. w \in Procs /\ job[w] \in Ids /\ job[w].stage = "finalize"
      BY <1>12 DEF LoadFinalizationIntent, LocalOK, PlaceOK, Procs
    <2>2. OutcomeOK'
      BY <1>12 DEF LoadFinalizationIntent, Unstored, OutcomeOK
    <2>3. CASE intent # NoIssue
      <3>1. terminal(intent) \in OutcomesOf(job[w].stage)
        BY <2>1, <2>3 DEF OutcomesOf, TypeOK, DurableTypes
      <3> QED
        BY <1>12, <2>1, <2>2, <2>3, <3>1, ProducePlaces DEF LoadFinalizationIntent, TypeOK
    <2>4. CASE intent = NoIssue
      BY <1>12, <2>1, <2>2, <2>4, PlaceKept
      DEF LoadFinalizationIntent, Step, TypeOK, LocalTypes, LocalOK, PlaceOK, OutPoints, ApplyPoints, FinishPoints, BuilderPoints
    <2> QED
      BY <2>3, <2>4
  <1>13. CASE VerifyFinalHash(w)
    <2>1. w \in Procs /\ job[w] \in Ids /\ job[w].stage = "finalize"
      BY <1>13 DEF VerifyFinalHash, LocalOK, PlaceOK, Procs
    <2>2. OutcomeOK'
      BY <1>13 DEF VerifyFinalHash, Unstored, OutcomeOK
    <2>3. {advance, terminal("finalize")} \subseteq OutcomesOf(job[w].stage)
      BY <2>1 DEF OutcomesOf, Issues
    <2> QED
      BY <1>13, <2>1, <2>2, <2>3, ProducePlaces, ThrownPlaces DEF VerifyFinalHash, TypeOK
  <1> QED
    BY <1>1, <1>2, <1>3, <1>4, <1>5, <1>6, <1>7, <1>8, <1>9, <1>10, <1>11, <1>12, <1>13 DEF Execute

\* applyTransition and finish(): only the finalize stage ends the run.
LEMMA ApplyPlaces ==
    ASSUME TypeOK, LocalOK, OutcomeOK, NEW p \in Procs, ApplyTransition(p) \/ Complete(p)
    PROVE  LocalOK' /\ OutcomeOK'
  <1>1. CASE ReadTransitionState(p)
    <2>1. pc[p] \in OutPoints
      BY <1>1 DEF ReadTransitionState, Step, OutPoints, ApplyPoints
    <2>2. /\ job[p] \in Ids /\ out[p] \in OutcomesOf(job[p].stage)
          /\ EffectPoint(p) \in {"term", "intent", "effect"}
          /\ EffectPoint(p) = "term" => job[p].stage = "finalize"
      BY <2>1, TransitionOfFacts, EffectPointFacts
    <2>3. PlaceOK(p)'
      <3>1. trans[job[p]] \in {"none", "pending", "committed"}
        BY <2>2 DEF TypeOK, DurableTypes
      <3>2. /\ pc'[p] \in {"complete", "pending", EffectPoint(p)}
            /\ job'[p] = job[p] /\ out'[p] = out[p]
        BY <1>1, <3>1 DEF ReadTransitionState, Step, NotApplied, TypeOK, LocalTypes
      <3> QED
        BY <2>2, <3>2 DEF PlaceOK, OutPoints, ApplyPoints, FinishPoints, BuilderPoints
    <2>4. \A q \in Procs \ {p} : PlaceOK(q)'
      BY <1>1, PlaceKept DEF ReadTransitionState, Step, NotApplied, TypeOK, LocalTypes, LocalOK
    <2> QED
      BY <1>1, <2>3, <2>4 DEF ReadTransitionState, NotApplied, LocalOK, OutcomeOK
  <1>2. CASE MarkTransitionPending(p)
    <2>1. pc[p] \in OutPoints
      BY <1>2 DEF MarkTransitionPending, Step, OutPoints, ApplyPoints
    <2>2. /\ job[p] \in Ids /\ out[p] \in OutcomesOf(job[p].stage)
          /\ EffectPoint(p) \in {"term", "intent", "effect"}
          /\ EffectPoint(p) = "term" => job[p].stage = "finalize"
      BY <2>1, TransitionOfFacts, EffectPointFacts
    <2>3. PlaceOK(p)'
      BY <1>2, <2>2 DEF MarkTransitionPending, Step, NotApplied, TypeOK, LocalTypes, PlaceOK,
                         OutPoints, ApplyPoints, FinishPoints, BuilderPoints
    <2>4. \A q \in Procs \ {p} : PlaceOK(q)'
      BY <1>2, PlaceKept DEF MarkTransitionPending, Step, NotApplied, TypeOK, LocalTypes, LocalOK
    <2> QED
      BY <1>2, <2>3, <2>4 DEF MarkTransitionPending, NotApplied, LocalOK, OutcomeOK
  <1>3. CASE SaveFinalizationIntent(p)
    <2>1. PlaceOK(p)'
      BY <1>3 DEF SaveFinalizationIntent, Step, NotApplied, TypeOK, LocalTypes, LocalOK, PlaceOK,
             Procs, OutPoints, ApplyPoints, FinishPoints, BuilderPoints
    <2>2. \A q \in Procs \ {p} : PlaceOK(q)'
      BY <1>3, PlaceKept DEF SaveFinalizationIntent, Step, NotApplied, TypeOK, LocalTypes, LocalOK
    <2> QED
      BY <1>3, <2>1, <2>2 DEF SaveFinalizationIntent, NotApplied, LocalOK, OutcomeOK
  <1>4. CASE ApplyEffect(p)
    <2>1. PlaceOK(p)'
      BY <1>4 DEF ApplyEffect, Step, NotApplied, TypeOK, LocalTypes, LocalOK, PlaceOK,
             Procs, OutPoints, ApplyPoints, FinishPoints, BuilderPoints
    <2>2. \A q \in Procs \ {p} : PlaceOK(q)'
      BY <1>4, PlaceKept DEF ApplyEffect, Step, NotApplied, TypeOK, LocalTypes, LocalOK
    <2> QED
      BY <1>4, <2>1, <2>2 DEF ApplyEffect, NotApplied, LocalOK, OutcomeOK
  <1>5. CASE ReadTerminalState(p)
    <2>1. PlaceOK(p)'
      <3>1. termState \in {"none", "pending", "committed"}
        BY DEF TypeOK, DurableTypes
      <3>2. /\ pc[p] = "term" /\ pc'[p] \in {"commit", "snapshot", "termNX"}
            /\ job'[p] = job[p] /\ out'[p] = out[p]
        BY <1>5, <3>1 DEF ReadTerminalState, Step, NotApplied, TypeOK, LocalTypes
      <3> QED
        BY <3>2 DEF LocalOK, PlaceOK, OutPoints, ApplyPoints, FinishPoints, BuilderPoints
    <2>2. \A q \in Procs \ {p} : PlaceOK(q)'
      BY <1>5, PlaceKept DEF ReadTerminalState, Step, NotApplied, TypeOK, LocalTypes, LocalOK
    <2> QED
      BY <1>5, <2>1, <2>2 DEF ReadTerminalState, NotApplied, LocalOK, OutcomeOK
  <1>6. CASE MarkTerminalPending(p)
    <2>1. PlaceOK(p)'
      BY <1>6 DEF MarkTerminalPending, Step, NotApplied, TypeOK, LocalTypes, LocalOK, PlaceOK,
             Procs, OutPoints, ApplyPoints, FinishPoints, BuilderPoints
    <2>2. \A q \in Procs \ {p} : PlaceOK(q)'
      BY <1>6, PlaceKept DEF MarkTerminalPending, Step, NotApplied, TypeOK, LocalTypes, LocalOK
    <2> QED
      BY <1>6, <2>1, <2>2 DEF MarkTerminalPending, NotApplied, LocalOK, OutcomeOK
  <1>7. CASE SaveTerminalIssue(p)
    <2>1. PlaceOK(p)'
      BY <1>7 DEF SaveTerminalIssue, Step, NotApplied, TypeOK, LocalTypes, LocalOK, PlaceOK,
             Procs, OutPoints, ApplyPoints, FinishPoints, BuilderPoints
    <2>2. \A q \in Procs \ {p} : PlaceOK(q)'
      BY <1>7, PlaceKept DEF SaveTerminalIssue, Step, NotApplied, TypeOK, LocalTypes, LocalOK
    <2> QED
      BY <1>7, <2>1, <2>2 DEF SaveTerminalIssue, NotApplied, LocalOK, OutcomeOK
  <1>8. CASE ReadSnapshot(p)
    <2>1. PlaceOK(p)'
      BY <1>8 DEF ReadSnapshot, Step, NotApplied, TypeOK, LocalTypes, LocalOK, PlaceOK,
             Procs, OutPoints, ApplyPoints, FinishPoints, BuilderPoints
    <2>2. \A q \in Procs \ {p} : PlaceOK(q)'
      BY <1>8, PlaceKept DEF ReadSnapshot, Step, NotApplied, TypeOK, LocalTypes, LocalOK
    <2> QED
      BY <1>8, <2>1, <2>2 DEF ReadSnapshot, NotApplied, LocalOK, OutcomeOK
  <1>9. CASE FinishRun(p)
    <2>1. PlaceOK(p)'
      BY <1>9 DEF FinishRun, Step, NotApplied, TypeOK, LocalTypes, LocalOK, PlaceOK,
             Procs, OutPoints, ApplyPoints, FinishPoints, BuilderPoints
    <2>2. \A q \in Procs \ {p} : PlaceOK(q)'
      BY <1>9, PlaceKept DEF FinishRun, Step, NotApplied, TypeOK, LocalTypes, LocalOK
    <2> QED
      BY <1>9, <2>1, <2>2 DEF FinishRun, NotApplied, LocalOK, OutcomeOK
  <1>10. CASE EmitDone(p)
    <2>1. PlaceOK(p)'
      BY <1>10 DEF EmitDone, Step, NotApplied, TypeOK, LocalTypes, LocalOK, PlaceOK,
             Procs, OutPoints, ApplyPoints, FinishPoints, BuilderPoints
    <2>2. \A q \in Procs \ {p} : PlaceOK(q)'
      BY <1>10, PlaceKept DEF EmitDone, Step, NotApplied, TypeOK, LocalTypes, LocalOK
    <2> QED
      BY <1>10, <2>1, <2>2 DEF EmitDone, NotApplied, LocalOK, OutcomeOK
  <1>11. CASE MarkTerminalCommitted(p)
    <2>1. PlaceOK(p)'
      BY <1>11 DEF MarkTerminalCommitted, Step, NotApplied, TypeOK, LocalTypes, LocalOK, PlaceOK,
             Procs, OutPoints, ApplyPoints, FinishPoints, BuilderPoints
    <2>2. \A q \in Procs \ {p} : PlaceOK(q)'
      BY <1>11, PlaceKept DEF MarkTerminalCommitted, Step, NotApplied, TypeOK, LocalTypes, LocalOK
    <2> QED
      BY <1>11, <2>1, <2>2 DEF MarkTerminalCommitted, NotApplied, LocalOK, OutcomeOK
  <1>12. CASE MarkTransitionCommitted(p)
    <2>1. PlaceOK(p)'
      BY <1>12 DEF MarkTransitionCommitted, Step, NotApplied, TypeOK, LocalTypes, LocalOK, PlaceOK,
             Procs, OutPoints, ApplyPoints, FinishPoints, BuilderPoints
    <2>2. \A q \in Procs \ {p} : PlaceOK(q)'
      BY <1>12, PlaceKept DEF MarkTransitionCommitted, Step, NotApplied, TypeOK, LocalTypes, LocalOK
    <2> QED
      BY <1>12, <2>1, <2>2 DEF MarkTransitionCommitted, NotApplied, LocalOK, OutcomeOK
  <1>13. CASE Complete(p)
    BY <1>13, ForgetPlaces DEF Complete, KeptByThrow, TypeOK, OutcomeOK
  <1> QED
    BY <1>1, <1>2, <1>3, <1>4, <1>5, <1>6, <1>7, <1>8, <1>9, <1>10, <1>11, <1>12, <1>13 DEF ApplyTransition, FinishSteps

\* The reconcile endpoint, the human gates and adversity.
LEMMA OtherPlaces ==
    ASSUME TypeOK, LocalOK, OutcomeOK,
           \/ \E r \in Reconcilers, id \in Ids : Reconcile(r, id)
           \/ ConfirmPlan \/ ApproveBuild \/ EnqueueBuild
           \/ \E p \in Procs : Crash(p) \/ Throw(p)
           \/ \E id \in Ids : \/ StallDead(id) \/ StallLive(id)
                                \/ LeaseExpiresDead(id) \/ LeaseExpiresLive(id)
    PROVE  LocalOK' /\ OutcomeOK'
  <1>1. CASE \E r \in Reconcilers, id \in Ids : Reconcile(r, id)
    <2> PICK r \in Reconcilers, id \in Ids : Reconcile(r, id)
      BY <1>1
    <2>1. outcome[id] \in OutcomesOf(id.stage)
      BY DEF Reconcile, OutcomeOK
    <2>2. PlaceOK(r)'
      BY <2>1 DEF Reconcile, TypeOK, LocalTypes, PlaceOK, Procs, OutPoints, ApplyPoints,
                  FinishPoints, BuilderPoints
    <2>3. \A q \in Procs \ {r} : PlaceOK(q)'
      BY PlaceKept DEF Reconcile, TypeOK, LocalTypes, LocalOK
    <2> QED
      BY <2>2, <2>3 DEF Reconcile, KeptByThrow, LocalOK, OutcomeOK
  <1>2. CASE \/ ConfirmPlan \/ ApproveBuild \/ EnqueueBuild
             \/ \E id \in Ids : \/ StallDead(id) \/ StallLive(id)
                                  \/ LeaseExpiresDead(id) \/ LeaseExpiresLive(id)
    <2>1. UNCHANGED <<pc, job, out, outcome>>
      BY <1>2 DEF ConfirmPlan, ApproveBuild, EnqueueBuild, StallDead, StallLive, Restalled,
                  LeaseExpiresDead, LeaseExpiresLive, KeptByThrow
    <2> QED
      BY <2>1, PlaceKept DEF LocalOK, OutcomeOK
  <1>3. CASE \E p \in Procs : Crash(p) \/ Throw(p)
    BY <1>3, ForgetPlaces, ThrownPlaces DEF Crash, Throw, KeptByThrow, TypeOK, OutcomeOK
  <1> QED
    BY <1>1, <1>2, <1>3

\* Every step leaves processes and persisted outcomes where they fit.
LEMMA PlaceStep ==
    ASSUME TypeOK, LocalOK, OutcomeOK, Next
    PROVE  LocalOK' /\ OutcomeOK'
  BY RunStagePlaces, ExecutePlaces, ApplyPlaces, OtherPlaces DEF Next, WorkerStep, ProcStep

-----------------------------------------------------------------------------
(* The Builder. *)

\* A step that neither enters the Builder section nor touches what it guards.
BuilderQuiet ==
    /\ UNCHANGED <<builderIntent, builderRuns>>
    /\ store'.build = store.build
    /\ store.approval => store'.approval
    /\ \A p \in Procs : pc'[p] \in BuilderPoints => pc'[p] = pc[p]

\* A step outside the builder section keeps BuilderInv.
LEMMA QuietKeepsBuilder ==
    ASSUME BuilderInv, BuilderQuiet
    PROVE  BuilderInv'
  BY DEF BuilderInv, BuilderQuiet

\* Leaving everything is outside the builder section.
LEMMA ForgetQuiet ==
    ASSUME LocalTypes, NEW p \in Procs, Forget(p), UNCHANGED <<builderIntent, builderRuns, store>>
    PROVE  BuilderQuiet
  BY DEF Forget, LocalTypes, BuilderQuiet, BuilderPoints

\* runStage around execute() is outside the builder section.
LEMMA RunStageQuiet ==
    ASSUME TypeOK, NEW w \in Workers,
           \/ \E id \in Ids : Take(w, id)
           \/ LoadPersistedOutcome(w) \/ Acquire(w)
           \/ SaveExecution(w) \/ MarkCompleted(w) \/ Release(w)
    PROVE  BuilderQuiet
  <1>1. UNCHANGED <<builderIntent, builderRuns, store>>
    BY DEF Take, LoadPersistedOutcome, Acquire, SaveExecution, MarkCompleted, Release, KeptByThrow
  <1>2. \A p \in Procs : pc'[p] \in BuilderPoints => pc'[p] = pc[p]
    BY DEF Take, LoadPersistedOutcome, Acquire, SaveExecution, MarkCompleted, Release, Step,
           Thrown, Forget, TypeOK, LocalTypes, BuilderPoints
  <1> QED
    BY <1>1, <1>2 DEF BuilderQuiet

\* The bodies of the other stages are outside the builder section.
LEMMA ExecuteQuiet ==
    ASSUME TypeOK, NEW w \in Workers,
           \/ RunAgentStage(w) \/ RunTripleValidationStage(w) \/ ReadTripleValidation(w)
           \/ RunConfirmationStage(w) \/ RunHashStage(w) \/ SaveHashProof(w)
           \/ RecoverBuildResult(w) \/ LoadFinalizationIntent(w) \/ VerifyFinalHash(w)
    PROVE  BuilderQuiet
  <1>1. /\ UNCHANGED <<builderIntent, builderRuns>>
        /\ store'.build = store.build /\ store'.approval = store.approval
    BY DEF RunAgentStage, RunTripleValidationStage, ReadTripleValidation, RunConfirmationStage,
           RunHashStage, SaveHashProof, RecoverBuildResult, LoadFinalizationIntent,
           VerifyFinalHash, TypeOK, DurableTypes
  <1>2. \A p \in Procs : pc'[p] \in BuilderPoints => pc'[p] = pc[p]
    BY DEF RunAgentStage, RunTripleValidationStage, ReadTripleValidation, RunConfirmationStage,
           RunHashStage, SaveHashProof, RecoverBuildResult, LoadFinalizationIntent,
           VerifyFinalHash, Produce, Step, Thrown, Forget, TypeOK, LocalTypes, BuilderPoints
  <1> QED
    BY <1>1, <1>2 DEF BuilderQuiet

\* Applying a transition is outside the builder section.
LEMMA ApplyQuiet ==
    ASSUME TypeOK, LocalOK, NEW p \in Procs, ApplyTransition(p) \/ Complete(p)
    PROVE  BuilderQuiet
  <1>1. UNCHANGED <<builderIntent, builderRuns, store>>
    BY DEF ApplyTransition, FinishSteps, ReadTransitionState, MarkTransitionPending,
           SaveFinalizationIntent, ApplyEffect, ReadTerminalState, MarkTerminalPending,
           SaveTerminalIssue, ReadSnapshot, FinishRun, EmitDone, MarkTerminalCommitted,
           MarkTransitionCommitted, Complete, NotApplied, KeptByThrow
  <1>2. pc[p] \in OutPoints => EffectPoint(p) \notin BuilderPoints
    BY EffectPointFacts DEF BuilderPoints
  <1>3. /\ trans \in [Ids -> {"none", "pending", "committed"}]
        /\ termState \in {"none", "pending", "committed"}
    BY DEF TypeOK, DurableTypes
  <1>4. pc[p] # "idle" => job[p] \in Ids
    BY DEF LocalOK, PlaceOK
  <1>5. pc'[p] \notin BuilderPoints
    BY <1>2, <1>3, <1>4
    DEF ApplyTransition, FinishSteps, ReadTransitionState, MarkTransitionPending,
        SaveFinalizationIntent, ApplyEffect, ReadTerminalState, MarkTerminalPending,
        SaveTerminalIssue, ReadSnapshot, FinishRun, EmitDone, MarkTerminalCommitted,
        MarkTransitionCommitted, Complete, Forget, Step, TypeOK, LocalTypes, BuilderPoints,
        OutPoints, ApplyPoints
  <1>6. \A q \in Procs \ {p} : pc'[q] = pc[q]
    BY DEF ApplyTransition, FinishSteps, ReadTransitionState, MarkTransitionPending,
        SaveFinalizationIntent, ApplyEffect, ReadTerminalState, MarkTerminalPending,
        SaveTerminalIssue, ReadSnapshot, FinishRun, EmitDone, MarkTerminalCommitted,
        MarkTransitionCommitted, Complete, Forget, Step, TypeOK, LocalTypes
  <1> QED
    BY <1>1, <1>5, <1>6 DEF BuilderQuiet

\* Reconcilers, users and adversity are outside the builder section.
LEMMA OtherQuiet ==
    ASSUME TypeOK,
           \/ \E r \in Reconcilers, id \in Ids : Reconcile(r, id)
           \/ ConfirmPlan \/ ApproveBuild \/ EnqueueBuild
           \/ \E p \in Procs : Crash(p) \/ Throw(p)
           \/ \E id \in Ids : \/ StallDead(id) \/ StallLive(id)
                                \/ LeaseExpiresDead(id) \/ LeaseExpiresLive(id)
    PROVE  BuilderQuiet
  <1>1. /\ UNCHANGED <<builderIntent, builderRuns>>
        /\ store'.build = store.build /\ (store.approval => store'.approval)
    BY DEF Reconcile, ConfirmPlan, ApproveBuild, EnqueueBuild, Crash, Throw, StallDead,
           StallLive, Restalled, LeaseExpiresDead, LeaseExpiresLive, KeptByThrow, TypeOK,
           DurableTypes
  <1>2. \A p \in Procs : pc'[p] \in BuilderPoints => pc'[p] = pc[p]
    BY DEF Reconcile, ConfirmPlan, ApproveBuild, EnqueueBuild, Crash, Throw, Thrown, Forget,
           StallDead, StallLive, Restalled, LeaseExpiresDead, LeaseExpiresLive, TypeOK,
           LocalTypes, BuilderPoints
  <1> QED
    BY <1>1, <1>2 DEF BuilderQuiet

\* The four steps of the section itself.
LEMMA BuilderSection ==
    ASSUME TypeOK, BuilderInv, NEW w \in Workers,
           RecordBuilderIntent(w) \/ AuthorizeBuild(w) \/ RunBuilder(w) \/ SaveBuildResult(w)
    PROVE  BuilderInv'
  <1> USE DEF TypeOK, LocalTypes, BuilderInv, BuilderPoints, Procs, Step
  <1>1. CASE RecordBuilderIntent(w)
    BY <1>1 DEF RecordBuilderIntent
  <1>2. CASE AuthorizeBuild(w)
    BY <1>2 DEF AuthorizeBuild, Thrown, Forget
  <1>3. CASE RunBuilder(w)
    BY <1>3 DEF RunBuilder
  <1>4. CASE SaveBuildResult(w)
    BY <1>4 DEF SaveBuildResult, Produce, DurableTypes
  <1> QED
    BY <1>1, <1>2, <1>3, <1>4

\* Every step keeps BuilderInv.
LEMMA BuilderStep ==
    ASSUME TypeOK, LocalOK, BuilderInv, Next
    PROVE  BuilderInv'
  BY QuietKeepsBuilder, RunStageQuiet, ExecuteQuiet, ApplyQuiet, OtherQuiet, BuilderSection
  DEF Next, WorkerStep, ProcStep, Execute

-----------------------------------------------------------------------------
(* The evidence behind a favourable verdict. *)

\* A stored build result that passed stays: nobody else is in the section to replace it.
LEMMA PassedIsStable ==
    ASSUME TypeOK, LocalOK, BuilderInv, Next
    PROVE  store.build = "Passed" => store'.build = "Passed"
  <1>1. CASE BuilderQuiet
    BY <1>1 DEF BuilderQuiet
  <1>2. ASSUME NEW w \in Workers, RecordBuilderIntent(w) \/ AuthorizeBuild(w) \/ RunBuilder(w)
        PROVE  UNCHANGED store
    BY <1>2 DEF RecordBuilderIntent, AuthorizeBuild, RunBuilder
  <1>3. ASSUME NEW w \in Workers, SaveBuildResult(w)
        PROVE  store.build = "none"
    BY <1>3 DEF SaveBuildResult, Produce, Step, BuilderInv, BuilderPoints, Procs
  <1> QED
    BY <1>1, <1>2, <1>3, RunStageQuiet, ExecuteQuiet, ApplyQuiet, OtherQuiet
    DEF Next, WorkerStep, ProcStep, Execute

\* A step that changes no persisted or reported verdict and lets no process hold a
\* favourable one that did not hold it before.
EvidenceQuiet ==
    /\ UNCHANGED <<outcome, run>>
    /\ \A p \in Procs : Favourable(p)' => Favourable(p)

\* A step that creates no favourable verdict keeps EvidenceInv.
LEMMA QuietKeepsEvidence ==
    ASSUME TypeOK, LocalOK, BuilderInv, Next, EvidenceInv, EvidenceQuiet
    PROVE  EvidenceInv'
  BY PassedIsStable DEF EvidenceInv, EvidenceQuiet

\* Forgetting creates no favourable verdict.
LEMMA ForgetEvidence ==
    ASSUME LocalTypes, NEW p \in Procs, Forget(p), UNCHANGED <<outcome, run>>
    PROVE  EvidenceQuiet
  BY DEF Forget, LocalTypes, EvidenceQuiet, Favourable, OutPoints, ApplyPoints

\* runStage passes on verdicts that rest on evidence: the persisted one or its own.
LEMMA RunStageEvidence ==
    ASSUME TypeOK, LocalOK, BuilderInv, Next, EvidenceInv, NEW w \in Workers,
           \/ \E id \in Ids : Take(w, id)
           \/ LoadPersistedOutcome(w) \/ Acquire(w)
           \/ SaveExecution(w) \/ MarkCompleted(w) \/ Release(w)
    PROVE  EvidenceInv'
  <1> USE DEF TypeOK, LocalTypes, Favourable, OutPoints, ApplyPoints, Procs
  <1>1. CASE \/ \E id \in Ids : Take(w, id)
             \/ Acquire(w) \/ MarkCompleted(w) \/ Release(w)
    <2>1. EvidenceQuiet
      BY <1>1 DEF Take, Acquire, MarkCompleted, Release, Step, KeptByThrow, EvidenceQuiet
    <2> QED
      BY <2>1, QuietKeepsEvidence
  <1>2. CASE LoadPersistedOutcome(w)
    <2>1. job[w] \in Ids
      BY <1>2 DEF LoadPersistedOutcome, LocalOK, PlaceOK
    <2>2. CASE outcome[job[w]] # NoOutcome
      BY <1>2, <2>1, <2>2, PassedIsStable DEF LoadPersistedOutcome, KeptByThrow, EvidenceInv
    <2>3. CASE outcome[job[w]] = NoOutcome
      <3>1. EvidenceQuiet
        BY <1>2, <2>3, ForgetEvidence
        DEF LoadPersistedOutcome, Step, Thrown, KeptByThrow, EvidenceQuiet
      <3> QED
        BY <3>1, QuietKeepsEvidence
    <2> QED
      BY <2>2, <2>3
  <1>3. CASE SaveExecution(w)
    <2>1. CASE lease[job[w]] # w
      <3>1. EvidenceQuiet
        BY <1>3, <2>1, ForgetEvidence DEF SaveExecution, Thrown
      <3> QED
        BY <3>1, QuietKeepsEvidence
    <2>2. CASE lease[job[w]] = w
      <3>1. job[w] \in Ids
        BY <1>3 DEF SaveExecution, LocalOK, PlaceOK
      <3>2. /\ outcome' = [outcome EXCEPT ![job[w]] = out[w]] /\ pc[w] = "save"
            /\ UNCHANGED <<run, job, out>> /\ pc' = [pc EXCEPT ![w] = "mark"]
        BY <1>3, <2>2 DEF SaveExecution, Step
      <3>3. outcome \in [Ids -> Outcomes \union {NoOutcome}]
        BY DEF DurableTypes
      <3> QED
        BY <3>1, <3>2, <3>3, PassedIsStable DEF EvidenceInv
    <2> QED
      BY <2>1, <2>2
  <1> QED
    BY <1>1, <1>2, <1>3

\* finalize advances only after it read a build result that passed.
LEMMA ExecuteEvidence ==
    ASSUME TypeOK, LocalOK, BuilderInv, Next, EvidenceInv, NEW w \in Workers, Execute(w)
    PROVE  EvidenceInv'
  <1>1. UNCHANGED <<outcome, run>>
    BY DEF Execute, RunAgentStage, RunTripleValidationStage, ReadTripleValidation,
           RunConfirmationStage, RunHashStage, SaveHashProof, RecordBuilderIntent,
           RecoverBuildResult, AuthorizeBuild, RunBuilder, SaveBuildResult,
           LoadFinalizationIntent, VerifyFinalHash, Unstored
  <1>2. \A q \in Procs \ {w} : pc'[q] = pc[q] /\ job'[q] = job[q] /\ out'[q] = out[q]
    BY DEF Execute, RunAgentStage, RunTripleValidationStage, ReadTripleValidation,
           RunConfirmationStage, RunHashStage, SaveHashProof, RecordBuilderIntent,
           RecoverBuildResult, AuthorizeBuild, RunBuilder, SaveBuildResult,
           LoadFinalizationIntent, VerifyFinalHash, Produce, Step, Thrown, Forget,
           TypeOK, LocalTypes
  <1>3. ASSUME Favourable(w)'
        PROVE  store'.build = "Passed"
    <2>1. w \in Procs /\ pc'[w] \in OutPoints /\ job'[w].stage = "finalize" /\ out'[w] = advance
      BY <1>3 DEF Favourable, Procs
    <2>2. ~ Thrown(w)
      BY <2>1 DEF Thrown, Forget, TypeOK, LocalTypes, OutPoints, ApplyPoints
    <2>3. job'[w] = job[w]
      BY <2>2 DEF Execute, RunAgentStage, RunTripleValidationStage, ReadTripleValidation,
           RunConfirmationStage, RunHashStage, SaveHashProof, RecordBuilderIntent,
           RecoverBuildResult, AuthorizeBuild, RunBuilder, SaveBuildResult,
           LoadFinalizationIntent, VerifyFinalHash, Produce
    <2>4. LoadFinalizationIntent(w) \/ VerifyFinalHash(w)
      BY <2>1, <2>2, <2>3
      DEF Execute, RunAgentStage, RunTripleValidationStage, ReadTripleValidation,
          RunConfirmationStage, RunHashStage, SaveHashProof, RecordBuilderIntent,
          RecoverBuildResult, AuthorizeBuild, RunBuilder, SaveBuildResult, Produce, Step,
          LocalOK, PlaceOK, BuilderPoints
    <2>5. CASE LoadFinalizationIntent(w)
      BY <2>1, <2>5 DEF LoadFinalizationIntent, Produce, Step, TypeOK, LocalTypes, advance,
                        terminal, OutPoints, ApplyPoints
    <2>6. CASE VerifyFinalHash(w)
      BY <2>1, <2>2, <2>6 DEF VerifyFinalHash, Produce, Step, TypeOK, LocalTypes, advance, terminal
    <2> QED
      BY <2>4, <2>5, <2>6
  <1>4. \A q \in Procs \ {w} : Favourable(q)' => Favourable(q)
    BY <1>2 DEF Favourable
  <1> QED
    BY <1>1, <1>3, <1>4, PassedIsStable DEF EvidenceInv

\* finish reports Passed only for a verdict that rests on evidence.
LEMMA ApplyEvidence ==
    ASSUME TypeOK, LocalOK, BuilderInv, Next, EvidenceInv, NEW p \in Procs, ApplyTransition(p)
    PROVE  EvidenceInv'
  <1>1. UNCHANGED <<outcome, job, out>> /\ pc[p] \in OutPoints
    BY DEF ApplyTransition, FinishSteps, ReadTransitionState, MarkTransitionPending,
           SaveFinalizationIntent, ApplyEffect, ReadTerminalState, MarkTerminalPending,
           SaveTerminalIssue, ReadSnapshot, FinishRun, EmitDone, MarkTerminalCommitted,
           MarkTransitionCommitted, NotApplied, Step, OutPoints, ApplyPoints
  <1>2. \A q \in Procs \ {p} : pc'[q] = pc[q]
    BY DEF ApplyTransition, FinishSteps, ReadTransitionState, MarkTransitionPending,
           SaveFinalizationIntent, ApplyEffect, ReadTerminalState, MarkTerminalPending,
           SaveTerminalIssue, ReadSnapshot, FinishRun, EmitDone, MarkTerminalCommitted,
           MarkTransitionCommitted, Step, TypeOK, LocalTypes
  <1>3. \A q \in Procs : Favourable(q)' => Favourable(q)
    BY <1>1, <1>2 DEF Favourable
  <1>4. CASE FinishRun(p)
    <2>1. job[p].stage = "finalize"
      BY <1>4 DEF FinishRun, Step, LocalOK, PlaceOK, FinishPoints
    <2>2. TransitionOf(p).result = "Passed" => Favourable(p)
      BY <1>1, <2>1, TransitionOfFacts DEF Favourable
    <2>3. run'.result = "Passed" => run.result = "Passed" \/ Favourable(p)
      BY <1>4, <2>2 DEF FinishRun
    <2> QED
      BY <1>1, <1>3, <2>3, PassedIsStable DEF EvidenceInv
  <1>5. CASE ~ FinishRun(p)
    <2>1. UNCHANGED run
      BY <1>5 DEF ApplyTransition, FinishSteps, ReadTransitionState, MarkTransitionPending,
           SaveFinalizationIntent, ApplyEffect, ReadTerminalState, MarkTerminalPending,
           SaveTerminalIssue, ReadSnapshot, EmitDone, MarkTerminalCommitted,
           MarkTransitionCommitted
    <2> QED
      BY <1>1, <1>3, <2>1, QuietKeepsEvidence DEF EvidenceQuiet
  <1> QED
    BY <1>4, <1>5

\* A reconciler holds the persisted verdict; users and adversity hold none.
LEMMA OtherEvidence ==
    ASSUME TypeOK, LocalOK, BuilderInv, Next, EvidenceInv,
           \/ \E r \in Reconcilers, id \in Ids : Reconcile(r, id)
           \/ ConfirmPlan \/ ApproveBuild \/ EnqueueBuild
           \/ \E p \in Procs : Complete(p) \/ Crash(p) \/ Throw(p)
           \/ \E id \in Ids : \/ StallDead(id) \/ StallLive(id)
                                \/ LeaseExpiresDead(id) \/ LeaseExpiresLive(id)
    PROVE  EvidenceInv'
  <1>1. CASE \E r \in Reconcilers, id \in Ids : Reconcile(r, id)
    BY <1>1, PassedIsStable DEF Reconcile, KeptByThrow, EvidenceInv, Favourable, TypeOK, LocalTypes
  <1>2. CASE \/ ConfirmPlan \/ ApproveBuild \/ EnqueueBuild
             \/ \E id \in Ids : \/ StallDead(id) \/ StallLive(id)
                                  \/ LeaseExpiresDead(id) \/ LeaseExpiresLive(id)
    <2>1. UNCHANGED <<outcome, run, pc, job, out>>
      BY <1>2 DEF ConfirmPlan, ApproveBuild, EnqueueBuild, StallDead, StallLive, Restalled,
                  LeaseExpiresDead, LeaseExpiresLive, KeptByThrow
    <2> QED
      BY <2>1, QuietKeepsEvidence DEF EvidenceQuiet, Favourable
  <1>3. CASE \E p \in Procs : Complete(p) \/ Crash(p) \/ Throw(p)
    <2>1. EvidenceQuiet
      BY <1>3, ForgetEvidence DEF Complete, Crash, Throw, Thrown, KeptByThrow, TypeOK
    <2> QED
      BY <2>1, QuietKeepsEvidence
  <1> QED
    BY <1>1, <1>2, <1>3

\* Every step keeps EvidenceInv.
LEMMA EvidenceStep ==
    ASSUME TypeOK, LocalOK, BuilderInv, EvidenceInv, Next
    PROVE  EvidenceInv'
  BY RunStageEvidence, ExecuteEvidence, ApplyEvidence, OtherEvidence
  DEF Next, WorkerStep, ProcStep

-----------------------------------------------------------------------------
(* The theorems. *)

\* The invariant holds when the run has been submitted.
LEMMA InitIInv ==
    ASSUME Init
    PROVE  IInv
  <1>1. jobs \in [Ids -> JobRecords]
    BY JobRecordFacts DEF Init
  <1>2. budget \in [crash : Nat, throw : Nat, stall : Nat, expire : Nat]
    BY BoundsAssumption DEF Init
  <1>3. TypeOK
    BY <1>1, <1>2 DEF Init, TypeOK, QueueTypes, LocalTypes, DurableTypes, Points, Results
  <1>4. LocalOK /\ OutcomeOK
    BY DEF Init, LocalOK, PlaceOK, OutcomeOK, OutPoints, ApplyPoints, FinishPoints, BuilderPoints
  <1>5. BuilderInv
    BY DEF Init, BuilderInv, BuilderPoints
  <1>6. EvidenceInv
    BY DEF Init, EvidenceInv, Favourable, OutPoints, ApplyPoints, NoOutcome, advance
  <1> QED
    BY <1>3, <1>4, <1>5, <1>6 DEF IInv

\* A stuttering step keeps the invariant.
LEMMA StutterIInv ==
    ASSUME IInv, UNCHANGED vars
    PROVE  IInv'
  <1> USE DEF IInv, vars
  <1>1. TypeOK'
    BY DEF TypeOK, QueueTypes, LocalTypes, DurableTypes
  <1>2. LocalOK' /\ OutcomeOK'
    BY DEF LocalOK, PlaceOK, OutcomeOK
  <1>3. BuilderInv' /\ EvidenceInv'
    BY DEF BuilderInv, EvidenceInv, Favourable
  <1> QED
    BY <1>1, <1>2, <1>3

\* The inductive invariant: what the processes hold fits where they are, the
\* Builder section admits one process once, and favourable verdicts rest on a
\* passed build.  It holds in every reachable state.
THEOREM Invariance == Spec => []IInv
  <1>1. Init => IInv
    BY InitIInv
  <1>2. IInv /\ [Next]_vars => IInv'
    BY TypeStep, PlaceStep, BuilderStep, EvidenceStep, StutterIInv DEF IInv
  <1> QED
    BY <1>1, <1>2, PTL DEF Spec

\* Every reachable state of the pipeline is well typed: in particular no stage is
\* queued beyond the refinement limit (canonical-transition.ts) and no job is
\* attempted more than MaxAttempts times (pipeline/queue.ts).
THEOREM TypeCorrect == Spec => []TypeOK
  <1>1. IInv => TypeOK
    BY DEF IInv
  <1> QED
    BY <1>1, Invariance, PTL

\* recordBuilderIntent's SET NX is enough: whatever number of workers, crashes,
\* stalls, expired leases and redeliveries, the Builder is entered at most once.
THEOREM BuilderOnce == Spec => []BuilderAtMostOnce
  <1>1. IInv => BuilderAtMostOnce
    BY DEF IInv, BuilderInv, BuilderAtMostOnce
  <1> QED
    BY <1>1, Invariance, PTL

\* A run reported Passed has a stored build that passed with the proved hash, was
\* authorized by the user and came from the one Builder execution.
THEOREM PassedVerified == Spec => []PassedIsVerified
  <1>1. IInv => PassedIsVerified
    BY DEF IInv, BuilderInv, EvidenceInv, PassedIsVerified
  <1> QED
    BY <1>1, Invariance, PTL

-----------------------------------------------------------------------------
(* Refinement of GovernedRun. *)

\* A submitted run has promised nothing yet.
LEMMA PromiseInit ==
    ASSUME Init
    PROVE  Promise!GInit
  BY DEF Init, Promise!GInit

\* The steps that leave the promise's variables alone, or authorize the build.
LEMMA QuietPromise ==
    ASSUME TypeOK, TypeOK', BuilderQuiet, UNCHANGED run
    PROVE  [Promise!GNext]_(Promise!gvars)
  <1>1. store.approval \in BOOLEAN /\ store'.approval \in BOOLEAN
    BY DEF TypeOK, DurableTypes
  <1>2. CASE store'.approval = store.approval
    BY <1>2 DEF BuilderQuiet, Promise!gvars
  <1>3. CASE store'.approval = TRUE
    BY <1>3 DEF BuilderQuiet, Promise!GNext, Promise!Authorize
  <1> QED
    BY <1>1, <1>2, <1>3 DEF BuilderQuiet

\* Only FinishRun writes the run snapshot.
LEMMA RunUnchanged ==
    ASSUME Next, \A p \in Procs : ~ FinishRun(p)
    PROVE  UNCHANGED run
  <1>1. ASSUME NEW w \in Workers, WorkerStep(w) PROVE UNCHANGED run
    BY <1>1 DEF WorkerStep, Take, LoadPersistedOutcome, Acquire, SaveExecution, MarkCompleted,
           Release, Execute, RunAgentStage, RunTripleValidationStage, ReadTripleValidation,
           RunConfirmationStage, RunHashStage, SaveHashProof, RecordBuilderIntent,
           RecoverBuildResult, AuthorizeBuild, RunBuilder, SaveBuildResult,
           LoadFinalizationIntent, VerifyFinalHash, Unstored, KeptByThrow
  <1>2. ASSUME NEW p \in Procs, ProcStep(p) PROVE UNCHANGED run
    BY <1>2 DEF ProcStep, ApplyTransition, FinishSteps, ReadTransitionState,
           MarkTransitionPending, SaveFinalizationIntent, ApplyEffect, ReadTerminalState,
           MarkTerminalPending, SaveTerminalIssue, ReadSnapshot, EmitDone,
           MarkTerminalCommitted, MarkTransitionCommitted, Complete, KeptByThrow
  <1> QED
    BY <1>1, <1>2 DEF Next, Crash, Throw, Reconcile, StallDead, StallLive, Restalled,
           LeaseExpiresDead, LeaseExpiresLive, ConfirmPlan, ApproveBuild, EnqueueBuild,
           KeptByThrow

\* Steps inside the Builder section begin the one execution and store its result.
LEMMA SectionPromise ==
    ASSUME TypeOK, BuilderInv, NEW w \in Workers,
           RecordBuilderIntent(w) \/ AuthorizeBuild(w) \/ RunBuilder(w) \/ SaveBuildResult(w)
    PROVE  [Promise!GNext]_(Promise!gvars)
  <1>1. CASE RecordBuilderIntent(w) \/ AuthorizeBuild(w)
    BY <1>1 DEF RecordBuilderIntent, AuthorizeBuild, Unstored, Promise!gvars
  <1>2. CASE RunBuilder(w)
    <2>1. store.approval /\ builderRuns = 0
      BY <1>2 DEF RunBuilder, Step, BuilderInv, BuilderPoints, Procs
    <2>2. builderRuns' = 1 /\ UNCHANGED <<store, run>>
      BY <1>2, <2>1 DEF RunBuilder, Unstored
    <2> QED
      BY <2>1, <2>2 DEF Promise!GNext, Promise!Begin
  <1>3. CASE SaveBuildResult(w)
    <2>1. builderRuns = 1 /\ store.build = "none"
      BY <1>3 DEF SaveBuildResult, Produce, Step, BuilderInv, BuilderPoints, Procs
    <2>2. \E result \in {"Passed", "Mismatch", "Failed"} :
              /\ store'.build = result /\ store'.approval = store.approval
              /\ UNCHANGED <<builderRuns, run>>
      BY <1>3 DEF SaveBuildResult, Unstored, TypeOK, DurableTypes
    <2> QED
      BY <2>1, <2>2 DEF Promise!GNext, Promise!Built
  <1> QED
    BY <1>1, <1>2, <1>3

\* runs.finish reports a verdict that GovernedRun allows.
LEMMA FinishPromise ==
    ASSUME TypeOK, LocalOK, EvidenceInv, NEW p \in Procs, FinishRun(p)
    PROVE  [Promise!GNext]_(Promise!gvars)
  <1>1. UNCHANGED <<store, builderRuns>>
    BY DEF FinishRun, NotApplied
  <1>2. CASE sawDone[p]
    BY <1>1, <1>2 DEF FinishRun, Promise!gvars
  <1>3. CASE ~ sawDone[p]
    <2>1. pc[p] \in OutPoints /\ job[p].stage = "finalize"
      BY DEF FinishRun, Step, LocalOK, PlaceOK, FinishPoints, OutPoints, ApplyPoints
    <2>2. /\ TransitionOf(p).result \in {"Passed", "Failed"}
          /\ TransitionOf(p).result = "Passed" => store.build = "Passed"
      BY <2>1, TransitionOfFacts DEF EvidenceInv, Favourable
    <2>3. run'.result = TransitionOf(p).result
      BY <1>3 DEF FinishRun
    <2> QED
      BY <1>1, <2>2, <2>3 DEF Promise!GNext, Promise!Report
  <1> QED
    BY <1>2, <1>3

\* Every step of the pipeline is a step of GovernedRun or a stutter.
LEMMA PromiseStep ==
    ASSUME IInv, IInv', Next
    PROVE  [Promise!GNext]_(Promise!gvars)
  <1> USE DEF IInv
  <1>1. CASE \E p \in Procs : FinishRun(p)
    BY <1>1, FinishPromise
  <1>2. CASE \E w \in Workers : RecordBuilderIntent(w) \/ AuthorizeBuild(w) \/ RunBuilder(w)
                                 \/ SaveBuildResult(w)
    BY <1>2, SectionPromise
  <1>3. CASE /\ ~ \E p \in Procs : FinishRun(p)
             /\ ~ \E w \in Workers : RecordBuilderIntent(w) \/ AuthorizeBuild(w)
                                       \/ RunBuilder(w) \/ SaveBuildResult(w)
    <2>1. BuilderQuiet
      BY <1>3, RunStageQuiet, ExecuteQuiet, ApplyQuiet, OtherQuiet
      DEF Next, WorkerStep, ProcStep, Execute
    <2> QED
      BY <1>3, <2>1, RunUnchanged, QuietPromise
  <1> QED
    BY <1>1, <1>2, <1>3

\* The pipeline implements GovernedRun: one authorized Builder execution, one build
\* result that is never replaced, and a Passed verdict only for a verified build.
THEOREM Refinement == Spec => ImplementsGovernedRun
  <1>1. Init => Promise!GInit
    BY PromiseInit
  <1>2. IInv /\ IInv' /\ [Next]_vars => [Promise!GNext]_(Promise!gvars)
    <2>1. ASSUME UNCHANGED vars PROVE UNCHANGED Promise!gvars
      BY <2>1 DEF vars, Promise!gvars
    <2> QED
      BY <2>1, PromiseStep
  <1> QED
    BY <1>1, <1>2, Invariance, PTL DEF Spec, ImplementsGovernedRun, Promise!GSpec
-----------------------------------------------------------------------------
(* Committed means applied. *)

\* From the persisted outcome to the committed transition.
PersistedPoints == {"mark", "release"} \union ApplyPoints

\* What a process on its way through the transition protocol knows of the shared
\* state, wherever the others are.
ProgressOK(p) ==
    /\ pc[p] \in PersistedPoints => outcome[job[p]] # NoOutcome
    /\ pc[p] \in {"emit", "termCommit"} => run.status = "Done"
    /\ pc[p] = "finish" /\ sawDone[p] => run.status = "Done"
    /\ pc[p] \in {"intent", "effect"} => job[p].stage # "finalize"
    /\ pc[p] = "commit" => EffectTookPlace(job[p], out[p])

EffectInv ==
    /\ \A p \in Procs : ProgressOK(p)
    /\ CommittedMeansApplied
    /\ TerminalCommittedMeansDone

\* Effects are never taken back: a queued job keeps its id, a run that is Done stays
\* Done, and an outcome is replaced but not deleted.
Kept ==
    /\ \A id \in Ids : jobs[id].state # "absent" => jobs'[id].state # "absent"
    /\ run.status = "Done" => run'.status = "Done"
    /\ \A id \in Ids : outcome[id] # NoOutcome => outcome'[id] # NoOutcome

\* What BullMQ does to jobs keeps every id it knows.
LEMMA JobsKept ==
    ASSUME TypeOK, LocalOK, Next
    PROVE  \A id \in Ids : jobs[id].state # "absent" => jobs'[id].state # "absent"
  <1> USE DEF TypeOK, QueueTypes, JobRecords
  <1>1. ASSUME NEW p \in Procs, pc[p] # "idle", Thrown(p)
        PROVE  \A id \in Ids : jobs[id].state # "absent" => jobs'[id].state # "absent"
    BY <1>1 DEF Thrown, EndedJob, AbsentJob, LocalOK, PlaceOK
  <1>2. ASSUME NEW i \in Ids, jobs' = Added(jobs, i)
        PROVE  \A id \in Ids : jobs[id].state # "absent" => jobs'[id].state # "absent"
    BY <1>2 DEF Added, QueuedJob, AbsentJob
  <1>3. ASSUME NEW w \in Workers, WorkerStep(w)
        PROVE  \A id \in Ids : jobs[id].state # "absent" => jobs'[id].state # "absent"
    <2>1. CASE \E id \in Ids : Take(w, id)
      BY <2>1 DEF Take
    <2>2. CASE Thrown(w) /\ pc[w] # "idle"
      BY <2>2, <1>1 DEF Procs
    <2>3. CASE UNCHANGED jobs
      BY <2>3
    <2> QED
      BY <1>3, <2>1, <2>2, <2>3 DEF WorkerStep, LoadPersistedOutcome, Acquire, SaveExecution,
           MarkCompleted, Release, Execute, RunAgentStage, RunTripleValidationStage,
           ReadTripleValidation, RunConfirmationStage, RunHashStage, SaveHashProof,
           RecordBuilderIntent, RecoverBuildResult, AuthorizeBuild, RunBuilder, SaveBuildResult,
           LoadFinalizationIntent, VerifyFinalHash, Produce, Step, KeptByThrow
  <1>4. ASSUME NEW p \in Procs, ApplyEffect(p)
        PROVE  \A id \in Ids : jobs[id].state # "absent" => jobs'[id].state # "absent"
    <2>1. TransitionOf(p).type = "next" => TransitionOf(p).to \in Ids
      BY <1>4, TransitionOfFacts DEF ApplyEffect, Step, OutPoints, ApplyPoints
    <2> QED
      BY <1>2, <1>4, <2>1 DEF ApplyEffect
  <1>5. ASSUME NEW p \in Procs, ApplyTransition(p), ~ ApplyEffect(p)
        PROVE  UNCHANGED jobs
    BY <1>5 DEF ApplyTransition, FinishSteps, ReadTransitionState, MarkTransitionPending,
           SaveFinalizationIntent, ReadTerminalState, MarkTerminalPending, SaveTerminalIssue,
           ReadSnapshot, FinishRun, EmitDone, MarkTerminalCommitted, MarkTransitionCommitted
  <1>6. ASSUME NEW p \in Procs, Complete(p) \/ Crash(p)
        PROVE  \A id \in Ids : jobs[id].state # "absent" => jobs'[id].state # "absent"
    BY <1>6 DEF Complete, Crash, EndedJob, AbsentJob, LocalOK, PlaceOK
  <1>7. ASSUME NEW i \in Ids, Restalled(i)
        PROVE  \A id \in Ids : jobs[id].state # "absent" => jobs'[id].state # "absent"
    BY <1>7 DEF Restalled, EndedJob, AbsentJob
  <1>8. Id("planner", 0) \in Ids /\ Id("build", 0) \in Ids
    BY IdsIntro DEF Stages, IterativeStages
  <1>9. CASE \E p \in Procs : ProcStep(p) \/ Crash(p) \/ Throw(p)
    BY <1>1, <1>4, <1>5, <1>6, <1>9 DEF ProcStep, Throw
  <1>10. CASE \E id \in Ids : \/ StallDead(id) \/ StallLive(id)
                              \/ LeaseExpiresDead(id) \/ LeaseExpiresLive(id)
    BY <1>7, <1>10 DEF StallDead, StallLive, LeaseExpiresDead, LeaseExpiresLive
  <1>11. CASE \/ \E r \in Reconcilers, id \in Ids : Reconcile(r, id)
              \/ ConfirmPlan \/ ApproveBuild \/ EnqueueBuild
    BY <1>2, <1>8, <1>11 DEF Reconcile, ConfirmPlan, ApproveBuild, EnqueueBuild
  <1> QED
    BY <1>3, <1>9, <1>10, <1>11 DEF Next

\* Only SaveExecution writes an outcome, and it writes one.
LEMMA OutcomeWrites ==
    ASSUME Next, \A w \in Workers : ~ SaveExecution(w)
    PROVE  UNCHANGED outcome
  <1>1. ASSUME NEW w \in Workers, WorkerStep(w) PROVE UNCHANGED outcome
    BY <1>1 DEF WorkerStep, Take, LoadPersistedOutcome, Acquire, MarkCompleted,
           Release, Execute, RunAgentStage, RunTripleValidationStage, ReadTripleValidation,
           RunConfirmationStage, RunHashStage, SaveHashProof, RecordBuilderIntent,
           RecoverBuildResult, AuthorizeBuild, RunBuilder, SaveBuildResult,
           LoadFinalizationIntent, VerifyFinalHash, Unstored, KeptByThrow
  <1>2. ASSUME NEW p \in Procs, ProcStep(p) PROVE UNCHANGED outcome
    BY <1>2 DEF ProcStep, ApplyTransition, FinishSteps, ReadTransitionState,
           MarkTransitionPending, SaveFinalizationIntent, ApplyEffect, ReadTerminalState,
           MarkTerminalPending, SaveTerminalIssue, ReadSnapshot, FinishRun, EmitDone,
           MarkTerminalCommitted, MarkTransitionCommitted, Complete, KeptByThrow, NotApplied
  <1> QED
    BY <1>1, <1>2 DEF Next, Crash, Throw, Reconcile, StallDead, StallLive, Restalled,
           LeaseExpiresDead, LeaseExpiresLive, ConfirmPlan, ApproveBuild, EnqueueBuild,
           KeptByThrow

\* An outcome of a stage is an outcome.
LEMMA SomeOutcome ==
    ASSUME NEW stage, NEW o \in OutcomesOf(stage)
    PROVE  o # NoOutcome
  BY DEF OutcomesOf, advance, refine, terminal, NoOutcome, Issues

\* Every step keeps every effect.
LEMMA EffectsKept ==
    ASSUME TypeOK, LocalOK, Next
    PROVE  Kept
  <1>1. run.status = "Done" => run'.status = "Done"
    BY RunUnchanged DEF FinishRun
  <1>2. ASSUME NEW w \in Workers, SaveExecution(w)
        PROVE  \A id \in Ids : outcome[id] # NoOutcome => outcome'[id] # NoOutcome
    <2>1. out[w] # NoOutcome
      BY <1>2, SomeOutcome DEF SaveExecution, LocalOK, PlaceOK, OutPoints, Procs
    <2> QED
      BY <1>2, <2>1 DEF SaveExecution, TypeOK, DurableTypes
  <1>3. \A id \in Ids : outcome[id] # NoOutcome => outcome'[id] # NoOutcome
    BY <1>2, OutcomeWrites
  <1> QED
    BY <1>1, <1>3, JobsKept DEF Kept

\* An effect that took place stays.
LEMMA EffectStays ==
    ASSUME Kept, NEW id \in Ids, NEW o \in OutcomesOf(id.stage), EffectTookPlace(id, o)
    PROVE  EffectTookPlace(id, o)'
  BY TransitionFacts DEF EffectTookPlace, Kept

\* A process that neither moves into the protocol nor changes what it holds there.
Same(p) == pc'[p] \in PersistedPoints =>
               /\ pc'[p] = pc[p] /\ job'[p] = job[p] /\ out'[p] = out[p]
               /\ sawDone'[p] = sawDone[p]

\* Such a process keeps what it knows.
LEMMA SameProgress ==
    ASSUME LocalOK, Kept, NEW p \in Procs, ProgressOK(p), Same(p)
    PROVE  ProgressOK(p)'
  <1>1. CASE pc'[p] \in PersistedPoints
    <2>1. /\ pc'[p] = pc[p] /\ job'[p] = job[p] /\ out'[p] = out[p]
          /\ sawDone'[p] = sawDone[p]
      BY <1>1 DEF Same
    <2>2. job[p] \in Ids /\ out[p] \in OutcomesOf(job[p].stage)
      BY <1>1, <2>1 DEF LocalOK, PlaceOK, OutPoints, PersistedPoints, ApplyPoints
    <2>3. outcome'[job[p]] # NoOutcome
      BY <1>1, <2>1, <2>2 DEF ProgressOK, Kept
    <2>4. pc[p] = "commit" => EffectTookPlace(job[p], out[p])'
      BY <2>2, <2>1, EffectStays DEF ProgressOK, EffectTookPlace
    <2> QED
      BY <1>1, <2>1, <2>3, <2>4 DEF ProgressOK, Kept, EffectTookPlace
  <1>2. CASE pc'[p] \notin PersistedPoints
    BY <1>2 DEF ProgressOK, PersistedPoints, ApplyPoints
  <1> QED
    BY <1>1, <1>2

\* Committed transitions that do not change stay justified.
LEMMA CommittedStays ==
    ASSUME Kept, CommittedMeansApplied,
           \A id \in Ids : trans'[id] = "committed" => trans[id] = "committed"
    PROVE  CommittedMeansApplied'
  <1>1. ASSUME NEW id \in Ids, trans'[id] = "committed"
        PROVE  outcome'[id] # NoOutcome /\ \E o \in OutcomesOf(id.stage) : EffectTookPlace(id, o)'
    <2>1. PICK o \in OutcomesOf(id.stage) : EffectTookPlace(id, o)
      BY <1>1 DEF CommittedMeansApplied
    <2>2. EffectTookPlace(id, o)'
      BY <2>1, EffectStays
    <2> QED
      BY <1>1, <2>2 DEF CommittedMeansApplied, Kept
  <1> QED
    BY <1>1 DEF CommittedMeansApplied

\* Committed transitions and terminal states that do not change stay justified.
LEMMA MarkersStay ==
    ASSUME Kept, CommittedMeansApplied, TerminalCommittedMeansDone,
           \A id \in Ids : trans'[id] = "committed" => trans[id] = "committed",
           termState' = "committed" => termState = "committed"
    PROVE  CommittedMeansApplied' /\ TerminalCommittedMeansDone'
  BY CommittedStays DEF TerminalCommittedMeansDone, Kept

\* runStage: an outcome is loaded from where it is persisted, or persisted before
\* the transition is driven.
LEMMA RunStageEffects ==
    ASSUME TypeOK, LocalOK, OutcomeOK, EffectInv, Next, NEW w \in Workers, WorkerStep(w)
    PROVE  EffectInv'
  <1>1. Kept
    BY EffectsKept
  <1>2. UNCHANGED <<trans, termState>>
    BY DEF WorkerStep, Take, LoadPersistedOutcome, Acquire, SaveExecution, MarkCompleted,
           Release, Execute, RunAgentStage, RunTripleValidationStage, ReadTripleValidation,
           RunConfirmationStage, RunHashStage, SaveHashProof, RecordBuilderIntent,
           RecoverBuildResult, AuthorizeBuild, RunBuilder, SaveBuildResult,
           LoadFinalizationIntent, VerifyFinalHash, Unstored, KeptByThrow
  <1>3. CommittedMeansApplied' /\ TerminalCommittedMeansDone'
    BY <1>1, <1>2, MarkersStay DEF EffectInv
  <1>4. \A q \in Procs \ {w} : Same(q)
    BY DEF Same, TypeOK, LocalTypes, WorkerStep, Take, LoadPersistedOutcome, Acquire,
           SaveExecution, MarkCompleted,
           Release, Execute, RunAgentStage, RunTripleValidationStage, ReadTripleValidation,
           RunConfirmationStage, RunHashStage, SaveHashProof, RecordBuilderIntent,
           RecoverBuildResult, AuthorizeBuild, RunBuilder, SaveBuildResult,
           LoadFinalizationIntent, VerifyFinalHash, Produce, Step, Thrown, Forget
  <1>5. w \in Procs /\ (pc[w] # "idle" => job[w] \in Ids)
    BY DEF Procs, LocalOK, PlaceOK
  <1>6. ProgressOK(w)'
    <2>1. CASE LoadPersistedOutcome(w)
      <3>1. CASE outcome[job[w]] # NoOutcome
        BY <1>5, <2>1, <3>1 DEF LoadPersistedOutcome, KeptByThrow, ProgressOK, TypeOK,
             LocalTypes
      <3>2. CASE outcome[job[w]] = NoOutcome
        BY <1>5, <2>1, <3>2 DEF LoadPersistedOutcome, Step, Thrown, Forget, ProgressOK,
             PersistedPoints, ApplyPoints, TypeOK, LocalTypes
      <3> QED
        BY <3>1, <3>2
    <2>2. CASE SaveExecution(w)
      <3>1. out[w] # NoOutcome
        BY <1>5, <2>2, SomeOutcome DEF SaveExecution, LocalOK, PlaceOK, OutPoints
      <3> QED
        BY <1>5, <2>2, <3>1 DEF SaveExecution, Step, Thrown, Forget, ProgressOK,
             PersistedPoints, ApplyPoints, TypeOK, LocalTypes, DurableTypes
    <2>3. CASE MarkCompleted(w) \/ Release(w)
      BY <1>5, <2>3 DEF MarkCompleted, Release, KeptByThrow, Step, EffectInv, ProgressOK,
             PersistedPoints, ApplyPoints, TypeOK, LocalTypes
    <2>4. CASE (\E id \in Ids : Take(w, id)) \/ Acquire(w)
      BY <1>5, <2>4 DEF Take, Acquire, Step, ProgressOK, PersistedPoints, ApplyPoints,
             TypeOK, LocalTypes
    <2>5. CASE Execute(w)
      <3>1. pc'[w] \notin PersistedPoints
        BY <1>5, <2>5 DEF Execute, RunAgentStage, RunTripleValidationStage,
             ReadTripleValidation, RunConfirmationStage, RunHashStage, SaveHashProof,
             RecordBuilderIntent, RecoverBuildResult, AuthorizeBuild, RunBuilder,
             SaveBuildResult, LoadFinalizationIntent, VerifyFinalHash, Produce, Step, Thrown,
             Forget, PersistedPoints, ApplyPoints, TypeOK, LocalTypes
      <3> QED
        BY <3>1 DEF ProgressOK, PersistedPoints, ApplyPoints
    <2> QED
      BY <2>1, <2>2, <2>3, <2>4, <2>5 DEF WorkerStep
  <1> QED
    BY <1>1, <1>3, <1>4, <1>6, SameProgress DEF EffectInv

\* The steps of applyTransition and finish() up to the commit.
LEMMA ApplyEffects ==
    ASSUME TypeOK, LocalOK, OutcomeOK, EffectInv, Next, NEW p \in Procs, ApplyTransition(p)
    PROVE  EffectInv'
  <1>1. Kept
    BY EffectsKept
  <1>2. /\ \A q \in Procs \ {p} : Same(q)
        /\ UNCHANGED <<job, out, outcome>>
    BY DEF Same, ApplyTransition, FinishSteps, ReadTransitionState, MarkTransitionPending,
           SaveFinalizationIntent, ApplyEffect, ReadTerminalState, MarkTerminalPending,
           SaveTerminalIssue, ReadSnapshot, FinishRun, EmitDone, MarkTerminalCommitted,
           MarkTransitionCommitted, NotApplied, Step, TypeOK, LocalTypes
  <1>3. /\ pc[p] \in ApplyPoints /\ pc[p] \in OutPoints /\ outcome[job[p]] # NoOutcome
        /\ job[p] \in Ids /\ out[p] \in OutcomesOf(job[p].stage)
        /\ EffectPoint(p) \in {"term", "intent", "effect"}
        /\ EffectPoint(p) = "term" <=> job[p].stage = "finalize"
        /\ TransitionOf(p).type = "next" => TransitionOf(p).to \in Ids
        /\ TransitionOf(p).type = "done" <=> job[p].stage = "finalize"
    <2>1. pc[p] \in ApplyPoints
      BY DEF ApplyTransition, FinishSteps, ReadTransitionState, MarkTransitionPending,
           SaveFinalizationIntent, ApplyEffect, ReadTerminalState, MarkTerminalPending,
           SaveTerminalIssue, ReadSnapshot, FinishRun, EmitDone, MarkTerminalCommitted,
           MarkTransitionCommitted, Step, ApplyPoints
    <2>2. pc[p] \in OutPoints /\ pc[p] \in PersistedPoints
      BY <2>1 DEF OutPoints, PersistedPoints
    <2> QED
      BY <2>1, <2>2, TransitionOfFacts, EffectPointFacts DEF EffectInv, ProgressOK
  <1>4. ASSUME pc'[p] \notin {"finish", "emit", "termCommit", "commit"},
               pc'[p] \in {"intent", "effect"} => job[p].stage # "finalize"
        PROVE  ProgressOK(p)'
    BY <1>2, <1>3, <1>4 DEF ProgressOK
  <1>5. ASSUME ProgressOK(p)',
               \A id \in Ids : trans'[id] = "committed" => trans[id] = "committed",
               termState' = "committed" => termState = "committed"
        PROVE  EffectInv'
    BY <1>1, <1>2, <1>5, SameProgress, MarkersStay DEF EffectInv
  <1>6. CASE \/ ReadTransitionState(p) \/ MarkTransitionPending(p) \/ SaveFinalizationIntent(p)
             \/ MarkTerminalPending(p) \/ SaveTerminalIssue(p)
    <2>1. pc'[p] \notin {"finish", "emit", "termCommit", "commit"}
      BY <1>3, <1>6 DEF ReadTransitionState, MarkTransitionPending, SaveFinalizationIntent,
           MarkTerminalPending, SaveTerminalIssue, Step, TypeOK, LocalTypes, DurableTypes
    <2>2. pc'[p] \in {"intent", "effect"} => job[p].stage # "finalize"
      BY <1>3, <1>6 DEF ReadTransitionState, MarkTransitionPending, SaveFinalizationIntent,
           MarkTerminalPending, SaveTerminalIssue, Step, EffectInv, ProgressOK, TypeOK,
           LocalTypes, DurableTypes
    <2>3. /\ \A id \in Ids : trans'[id] = "committed" => trans[id] = "committed"
          /\ termState' = "committed" => termState = "committed"
      BY <1>3, <1>6 DEF ReadTransitionState, MarkTransitionPending, SaveFinalizationIntent,
           MarkTerminalPending, SaveTerminalIssue, TypeOK, DurableTypes
    <2> QED
      BY <1>4, <1>5, <2>1, <2>2, <2>3
  <1>7. CASE ApplyEffect(p)
    <2>1. job[p].stage # "finalize"
      BY <1>7 DEF ApplyEffect, Step, EffectInv, ProgressOK
    <2>2. EffectTookPlace(job[p], out[p])'
      <3>1. CASE TransitionOf(p).type = "next"
        <4>1. jobs'[TransitionOf(p).to].state # "absent"
          BY <1>3, <1>7, <3>1 DEF ApplyEffect, Added, QueuedJob, AbsentJob, TypeOK, QueueTypes,
               JobRecords
        <4> QED
          BY <1>2, <3>1, <4>1 DEF EffectTookPlace, TransitionOf
      <3>2. CASE TransitionOf(p).type # "next"
        BY <1>2, <1>3, <2>1, <3>2 DEF EffectTookPlace, TransitionOf
      <3> QED
        BY <3>1, <3>2
    <2>3. pc'[p] = "commit"
      BY <1>7 DEF ApplyEffect, Step, TypeOK, LocalTypes
    <2>4. ProgressOK(p)'
      BY <1>2, <1>3, <2>2, <2>3 DEF ProgressOK, EffectTookPlace
    <2> QED
      BY <1>5, <1>7, <2>4 DEF ApplyEffect
  <1>8. CASE ReadTerminalState(p)
    <2>1. pc'[p] = "commit" => EffectTookPlace(job[p], out[p])'
      <3>1. ASSUME termState = "committed" PROVE run'.status = "Done"
        BY <1>1, <3>1 DEF EffectInv, TerminalCommittedMeansDone, Kept
      <3>2. job[p].stage = "finalize"
        BY <1>8 DEF ReadTerminalState, Step, LocalOK, PlaceOK, FinishPoints
      <3>3. run'.status = "Done" => EffectTookPlace(job[p], out[p])'
        BY <1>2, <1>3, <3>2 DEF EffectTookPlace, TransitionOf
      <3>4. pc'[p] = "commit" => termState = "committed"
        BY <1>8 DEF ReadTerminalState, Step, TypeOK, LocalTypes, DurableTypes
      <3> QED
        BY <3>1, <3>3, <3>4
    <2>2. pc'[p] \notin {"finish", "emit", "termCommit", "intent", "effect"}
      BY <1>8 DEF ReadTerminalState, Step, TypeOK, LocalTypes, DurableTypes
    <2>3. ProgressOK(p)'
      BY <1>2, <1>3, <2>1, <2>2 DEF ProgressOK, EffectTookPlace
    <2> QED
      BY <1>5, <1>8, <2>3 DEF ReadTerminalState
  <1>9. CASE ReadSnapshot(p)
    <2>1. ProgressOK(p)'
      BY <1>2, <1>3, <1>9 DEF ReadSnapshot, Step, ProgressOK, TypeOK, LocalTypes
    <2> QED
      BY <1>5, <1>9, <2>1 DEF ReadSnapshot
  <1>10. CASE FinishRun(p) \/ EmitDone(p)
    <2>1. run'.status = "Done" /\ pc'[p] \in {"emit", "termCommit"}
      BY <1>10 DEF FinishRun, EmitDone, Step, EffectInv, ProgressOK, TypeOK, LocalTypes
    <2>2. ProgressOK(p)'
      BY <1>2, <1>3, <2>1 DEF ProgressOK
    <2> QED
      BY <1>5, <1>10, <2>2 DEF FinishRun, EmitDone
  <1>11. CASE MarkTerminalCommitted(p)
    <2>1. run'.status = "Done"
      BY <1>1, <1>11 DEF MarkTerminalCommitted, Step, EffectInv, ProgressOK, Kept
    <2>2. job[p].stage = "finalize"
      BY <1>11 DEF MarkTerminalCommitted, Step, LocalOK, PlaceOK, FinishPoints
    <2>3. EffectTookPlace(job[p], out[p])'
      BY <1>2, <1>3, <2>1, <2>2 DEF EffectTookPlace, TransitionOf
    <2>4. pc'[p] = "commit"
      BY <1>11 DEF MarkTerminalCommitted, Step, TypeOK, LocalTypes
    <2>5. ProgressOK(p)'
      BY <1>2, <1>3, <2>3, <2>4 DEF ProgressOK, EffectTookPlace
    <2>6. TerminalCommittedMeansDone'
      BY <2>1 DEF TerminalCommittedMeansDone
    <2>7. CommittedMeansApplied'
      <3>1. UNCHANGED trans
        BY <1>11 DEF MarkTerminalCommitted
      <3> QED
        BY <1>1, <3>1, CommittedStays DEF EffectInv
    <2> QED
      BY <1>1, <1>2, <2>5, <2>6, <2>7, SameProgress DEF EffectInv
  <1>12. CASE MarkTransitionCommitted(p)
    <2>1. pc'[p] = "complete" /\ UNCHANGED termState
      BY <1>12 DEF MarkTransitionCommitted, Step, TypeOK, LocalTypes
    <2>2. ProgressOK(p)'
      BY <1>4, <2>1
    <2>3. EffectTookPlace(job[p], out[p])'
      <3>1. EffectTookPlace(job[p], out[p])
        BY <1>12 DEF MarkTransitionCommitted, Step, EffectInv, ProgressOK
      <3> QED
        BY <1>1, <1>2, <1>3, <3>1, EffectStays DEF EffectTookPlace
    <2>4. ASSUME NEW id \in Ids, trans'[id] = "committed"
          PROVE  outcome'[id] # NoOutcome /\ \E o \in OutcomesOf(id.stage) : EffectTookPlace(id, o)'
      <3>1. CASE id = job[p]
        BY <1>2, <1>3, <2>3, <3>1 DEF EffectTookPlace
      <3>2. CASE id # job[p]
        <4>1. trans[id] = "committed"
          BY <1>12, <2>4, <3>2 DEF MarkTransitionCommitted, TypeOK, DurableTypes
        <4>2. PICK o \in OutcomesOf(id.stage) : EffectTookPlace(id, o)
          BY <4>1 DEF EffectInv, CommittedMeansApplied
        <4>3. EffectTookPlace(id, o)'
          BY <1>1, <4>2, EffectStays
        <4> QED
          BY <1>2, <4>1, <4>3 DEF EffectInv, CommittedMeansApplied
      <3> QED
        BY <3>1, <3>2
    <2>5. CommittedMeansApplied'
      BY <2>4 DEF CommittedMeansApplied
    <2>6. TerminalCommittedMeansDone'
      BY <1>1, <2>1 DEF EffectInv, TerminalCommittedMeansDone, Kept
    <2> QED
      BY <1>1, <1>2, <2>2, <2>5, <2>6, SameProgress DEF EffectInv
  <1> QED
    BY <1>6, <1>7, <1>8, <1>9, <1>10, <1>11, <1>12 DEF ApplyTransition, FinishSteps

\* Reconcilers start from a persisted outcome; users and adversity commit nothing.
LEMMA OtherEffects ==
    ASSUME TypeOK, LocalOK, EffectInv, Next,
           \/ \E r \in Reconcilers, id \in Ids : Reconcile(r, id)
           \/ ConfirmPlan \/ ApproveBuild \/ EnqueueBuild
           \/ \E p \in Procs : Complete(p) \/ Crash(p) \/ Throw(p)
           \/ \E id \in Ids : \/ StallDead(id) \/ StallLive(id)
                                \/ LeaseExpiresDead(id) \/ LeaseExpiresLive(id)
    PROVE  EffectInv'
  <1>1. Kept
    BY EffectsKept
  <1>2. UNCHANGED <<trans, termState>>
    BY DEF Reconcile, ConfirmPlan, ApproveBuild, EnqueueBuild, Complete, Crash, Throw,
           StallDead, StallLive, Restalled, LeaseExpiresDead, LeaseExpiresLive, KeptByThrow
  <1>3. CommittedMeansApplied' /\ TerminalCommittedMeansDone'
    BY <1>1, <1>2, MarkersStay DEF EffectInv
  <1>4. CASE \E r \in Reconcilers, id \in Ids : Reconcile(r, id)
    <2> PICK r \in Reconcilers, id \in Ids : Reconcile(r, id)
      BY <1>4
    <2>1. \A q \in Procs \ {r} : Same(q)
      BY DEF Reconcile, Same, TypeOK, LocalTypes
    <2>2. ProgressOK(r)'
      BY DEF Reconcile, KeptByThrow, ProgressOK, TypeOK, LocalTypes, Procs
    <2> QED
      BY <1>1, <1>3, <2>1, <2>2, SameProgress DEF EffectInv
  <1>5. CASE ~ \E r \in Reconcilers, id \in Ids : Reconcile(r, id)
    <2>1. ASSUME NEW p \in Procs, Complete(p) \/ Crash(p) \/ Throw(p)
          PROVE  \A q \in Procs : Same(q)
      <3>1. Forget(p)
        BY <2>1 DEF Complete, Crash, Throw, Thrown
      <3> QED
        BY <3>1 DEF Forget, Same, PersistedPoints, ApplyPoints, TypeOK, LocalTypes
    <2>2. \/ \E p \in Procs : Complete(p) \/ Crash(p) \/ Throw(p)
          \/ UNCHANGED <<pc, job, out, sawDone>>
      BY <1>5 DEF ConfirmPlan, ApproveBuild, EnqueueBuild, StallDead, StallLive, Restalled,
           LeaseExpiresDead, LeaseExpiresLive
    <2>3. \A q \in Procs : Same(q)
      BY <2>1, <2>2 DEF Same
    <2> QED
      BY <1>1, <1>3, <2>3, SameProgress DEF EffectInv
  <1> QED
    BY <1>4, <1>5

\* The transition protocol's invariant holds in every reachable state.
THEOREM Effects == Spec => []EffectInv
  <1>1. Init => EffectInv
    BY DEF Init, EffectInv, ProgressOK, CommittedMeansApplied, TerminalCommittedMeansDone,
           PersistedPoints, ApplyPoints
  <1>2. IInv /\ EffectInv /\ [Next]_vars => EffectInv'
    <2>1. ASSUME IInv, EffectInv, Next PROVE EffectInv'
      BY <2>1, RunStageEffects, ApplyEffects, OtherEffects DEF IInv, Next, ProcStep
    <2>2. ASSUME EffectInv, UNCHANGED vars PROVE EffectInv'
      BY <2>2 DEF vars, EffectInv, ProgressOK, EffectTookPlace, CommittedMeansApplied,
                  TerminalCommittedMeansDone
    <2> QED
      BY <2>1, <2>2
  <1> QED
    BY <1>1, <1>2, Invariance, PTL DEF Spec

\* A transition is marked committed (apply-transition.ts) only after its effect: the
\* next stage is queued or the run is Done, and the outcome that decided is stored,
\* whatever crashes, zombies and reconcilers do between the three writes.
THEOREM CommittedApplied == Spec => []CommittedMeansApplied
  <1>1. EffectInv => CommittedMeansApplied
    BY DEF EffectInv
  <1> QED
    BY <1>1, Effects, PTL

\* Nobody sees terminal-state committed (transition-services.ts) on a run that is
\* not Done, so a finisher that reads it may skip the run.
THEOREM TerminalCommittedDone == Spec => []TerminalCommittedMeansDone
  <1>1. EffectInv => TerminalCommittedMeansDone
    BY DEF EffectInv
  <1> QED
    BY <1>1, Effects, PTL
=============================================================================
