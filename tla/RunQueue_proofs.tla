-------------------------- MODULE RunQueue_proofs --------------------------
(***************************************************************************)
(* Proofs about a run in the queue (RunQueue), for any number of slots,     *)
(* packages, reviewers, crashes and lost locks, and about the browser that  *)
(* follows it (RunView).                                                    *)
(***************************************************************************)
EXTENDS RunQueue, RunView, FiniteSetTheorems, TLAPS

\* The inductive invariant.  BuilderAuthorized alone is not inductive: a
\* package must be there to be compared (HasPackage), and reviews must not be
\* requested under a running execution (BeforeExecution).
QueueInv == QueueTypeOK /\ BeforeExecution /\ HasPackage /\ BuilderAuthorized

\* Finalizing a failure leaves a finished run as it is, and any other Failed.
LEMMA FinalizedFailureSnapshot ==
  ASSUME RunType
  PROVE  /\ FinalizedFailure \in Snapshots
         /\ FinalizedFailure.status = "Done"
         /\ run.status = "Done" => FinalizedFailure.result = run.result
<1>1. CASE run.status = "Done"
  BY <1>1 DEF RunType, Snapshots, FinalizedFailure
<1>2. CASE run.status # "Done"
  BY <1>2 DEF RunType, Snapshots, FinalizedFailure, Finished
<1>3. QED
  BY <1>1, <1>2

\* The guards of executeRunJob leave a snapshot.
LEMMA GuardedRunSnapshot ==
  ASSUME RunType
  PROVE  /\ GuardedRun \in Snapshots
         /\ run.status = "Done" => GuardedRun.status = "Done" /\ GuardedRun.result = run.result
  BY FinalizedFailureSnapshot DEF GuardedRun, RunType

\* submitRun starts from a state without run, job and executions.
LEMMA InitQueueInv == Init => QueueInv
<1> SUFFICES ASSUME Init PROVE QueueInv
  OBVIOUS
<1> USE QueueAssumption DEF Init
<1>1. RequestType /\ ReviewType
  BY DEF RequestType, ReviewType
<1>2. JobType
  BY DEF JobType, AbsentJob
<1>3. RunType
  BY DEF RunType, Snapshots
<1>4. ExecutionType
  BY DEF ExecutionType, Points
<1>5. BeforeExecution /\ HasPackage /\ BuilderAuthorized
  BY DEF BeforeExecution, HasPackage, BuilderAuthorized
<1>6. QED
  BY <1>1, <1>2, <1>3, <1>4, <1>5 DEF QueueInv, QueueTypeOK

\* Submit keeps the invariant.
LEMMA KeepsSubmit ==
  ASSUME QueueInv, Submit
  PROVE  QueueInv'
<1> USE QueueAssumption DEF QueueInv, QueueTypeOK
<1>1. QueueTypeOK'
  <2>1. RequestType'
    BY DEF Submit, reqVars, reviewVars, gateVars,
       RequestType
  <2>2. JobType'
    BY DEF Submit, reqVars, reviewVars, gateVars,
       JobType, AbsentJob, Executors
  <2>3. RunType'
    <3>1. CASE run' = [status |-> "Done", result |-> "Failed", events |-> TRUE]
      BY <3>1 DEF RunType, Snapshots
    <3>2. CASE run' = run
      BY <3>2 DEF RunType
    <3>3. CASE req = "new" /\ run' = [run EXCEPT !.status = "Running"]
      BY <3>3 DEF RunType, Snapshots, BeforeExecution
    <3>4. QED
      BY <3>1, <3>2, <3>3 DEF Submit
  <2>4. ReviewType'
    BY DEF Submit, reqVars, reviewVars, gateVars,
       ReviewType, ExecutionType, Executors
  <2>5. ExecutionType'
    BY DEF Submit, reqVars, reviewVars, gateVars,
       ExecutionType, Executors, Points, Working
  <2>6. QED
    BY <2>1, <2>2, <2>3, <2>4, <2>5
<1>2. BeforeExecution'
  BY DEF Submit, reqVars, reviewVars, gateVars,
     JobType, ExecutionType, BeforeExecution, Executors, AbsentJob
<1>3. HasPackage'
  BY DEF Submit, reqVars, reviewVars, gateVars,
     JobType, ReviewType, ExecutionType, BeforeExecution, HasPackage, Executors, AbsentJob
<1>4. BuilderAuthorized'
  BY DEF Submit, reqVars, reviewVars, gateVars,
     JobType, ReviewType, ExecutionType, BeforeExecution, HasPackage, BuilderAuthorized, Executors, AbsentJob
<1>5. QED
  BY <1>1, <1>2, <1>3, <1>4

\* EnableReviews keeps the invariant.
LEMMA KeepsEnableReviews ==
  ASSUME QueueInv, EnableReviews
  PROVE  QueueInv'
<1> USE QueueAssumption DEF QueueInv, QueueTypeOK
<1>1. QueueTypeOK'
  <2>1. RequestType'
    BY DEF EnableReviews, reqVars, reviewVars, gateVars,
       RequestType
  <2>2. JobType'
    BY DEF EnableReviews, reqVars, reviewVars, gateVars,
       JobType, AbsentJob, Executors
  <2>3. RunType'
    BY DEF EnableReviews, reqVars, reviewVars, gateVars,
       RunType, Snapshots, BeforeExecution
  <2>4. ReviewType'
    BY DEF EnableReviews, reqVars, reviewVars, gateVars,
       ReviewType, ExecutionType, Executors
  <2>5. ExecutionType'
    BY DEF EnableReviews, reqVars, reviewVars, gateVars,
       ExecutionType, Executors, Points, Working
  <2>6. QED
    BY <2>1, <2>2, <2>3, <2>4, <2>5
<1>2. BeforeExecution'
  BY DEF EnableReviews, reqVars, reviewVars, gateVars,
     JobType, ExecutionType, BeforeExecution, Executors, AbsentJob
<1>3. HasPackage'
  BY DEF EnableReviews, reqVars, reviewVars, gateVars,
     JobType, ReviewType, ExecutionType, BeforeExecution, HasPackage, Executors, AbsentJob
<1>4. BuilderAuthorized'
  BY DEF EnableReviews, reqVars, reviewVars, gateVars,
     JobType, ReviewType, ExecutionType, BeforeExecution, HasPackage, BuilderAuthorized, Executors, AbsentJob
<1>5. QED
  BY <1>1, <1>2, <1>3, <1>4

\* SubmitPipeline keeps the invariant.
LEMMA KeepsSubmitPipeline ==
  ASSUME QueueInv, SubmitPipeline
  PROVE  QueueInv'
<1> USE QueueAssumption DEF QueueInv, QueueTypeOK
<1>1. QueueTypeOK'
  <2>1. RequestType'
    BY DEF SubmitPipeline, FinalizedFailure, Finished, reqVars, reviewVars, gateVars,
       RequestType
  <2>2. JobType'
    BY DEF SubmitPipeline, FinalizedFailure, Finished, reqVars, reviewVars, gateVars,
       JobType, AbsentJob, Executors
  <2>3. RunType'
    BY FinalizedFailureSnapshot DEF SubmitPipeline, reqVars, reviewVars, gateVars,
       RunType, BeforeExecution
  <2>4. ReviewType'
    BY DEF SubmitPipeline, FinalizedFailure, Finished, reqVars, reviewVars, gateVars,
       ReviewType, ExecutionType, Executors
  <2>5. ExecutionType'
    BY DEF SubmitPipeline, FinalizedFailure, Finished, reqVars, reviewVars, gateVars,
       ExecutionType, Executors, Points, Working
  <2>6. QED
    BY <2>1, <2>2, <2>3, <2>4, <2>5
<1>2. BeforeExecution'
  BY DEF SubmitPipeline, FinalizedFailure, Finished, reqVars, reviewVars, gateVars,
     JobType, ExecutionType, BeforeExecution, Executors, AbsentJob
<1>3. HasPackage'
  BY DEF SubmitPipeline, FinalizedFailure, Finished, reqVars, reviewVars, gateVars,
     JobType, ReviewType, ExecutionType, BeforeExecution, HasPackage, Executors, AbsentJob
<1>4. BuilderAuthorized'
  BY DEF SubmitPipeline, FinalizedFailure, Finished, reqVars, reviewVars, gateVars,
     JobType, ReviewType, ExecutionType, BeforeExecution, HasPackage, BuilderAuthorized, Executors, AbsentJob
<1>5. QED
  BY <1>1, <1>2, <1>3, <1>4

\* SubmitMode keeps the invariant.
LEMMA KeepsSubmitMode ==
  ASSUME QueueInv, SubmitMode
  PROVE  QueueInv'
<1> USE QueueAssumption DEF QueueInv, QueueTypeOK
<1>1. QueueTypeOK'
  <2>1. RequestType'
    BY DEF SubmitMode, RunInline, BeginRun, GuardedRun, FinalizedFailure, Finished, reqVars, reviewVars, gateVars,
       RequestType
  <2>2. JobType'
    BY DEF SubmitMode, RunInline, BeginRun, GuardedRun, FinalizedFailure, Finished, reqVars, reviewVars, gateVars,
       JobType, AbsentJob, Executors
  <2>3. RunType'
    BY FinalizedFailureSnapshot, GuardedRunSnapshot DEF SubmitMode, RunInline, BeginRun, reqVars, reviewVars, gateVars,
       RunType, BeforeExecution
  <2>4. ReviewType'
    BY DEF SubmitMode, RunInline, BeginRun, GuardedRun, FinalizedFailure, Finished, reqVars, reviewVars, gateVars,
       ReviewType, ExecutionType, Executors
  <2>5. ExecutionType'
    BY DEF SubmitMode, RunInline, BeginRun, GuardedRun, FinalizedFailure, Finished, reqVars, reviewVars, gateVars,
       ExecutionType, Executors, Points, Working
  <2>6. QED
    BY <2>1, <2>2, <2>3, <2>4, <2>5
<1>2. BeforeExecution'
  BY DEF SubmitMode, RunInline, BeginRun, GuardedRun, FinalizedFailure, Finished, reqVars, reviewVars, gateVars,
     JobType, ExecutionType, BeforeExecution, Executors, AbsentJob
<1>3. HasPackage'
  BY DEF SubmitMode, RunInline, BeginRun, GuardedRun, FinalizedFailure, Finished, reqVars, reviewVars, gateVars,
     JobType, ReviewType, ExecutionType, BeforeExecution, HasPackage, Executors, AbsentJob
<1>4. BuilderAuthorized'
  BY DEF SubmitMode, RunInline, BeginRun, GuardedRun, FinalizedFailure, Finished, reqVars, reviewVars, gateVars,
     JobType, ReviewType, ExecutionType, BeforeExecution, HasPackage, BuilderAuthorized, Executors, AbsentJob
<1>5. QED
  BY <1>1, <1>2, <1>3, <1>4

\* AddReplied keeps the invariant.
LEMMA KeepsAddReplied ==
  ASSUME QueueInv, AddReplied
  PROVE  QueueInv'
<1> USE QueueAssumption DEF QueueInv, QueueTypeOK
<1>1. QueueTypeOK'
  <2>1. RequestType'
    BY DEF AddReplied, reqVars, reviewVars, gateVars,
       RequestType
  <2>2. JobType'
    BY DEF AddReplied, reqVars, reviewVars, gateVars,
       JobType, AbsentJob, Executors
  <2>3. RunType'
    BY DEF AddReplied, reqVars, reviewVars, gateVars,
       RunType, Snapshots, BeforeExecution
  <2>4. ReviewType'
    BY DEF AddReplied, reqVars, reviewVars, gateVars,
       ReviewType, ExecutionType, Executors
  <2>5. ExecutionType'
    BY DEF AddReplied, reqVars, reviewVars, gateVars,
       ExecutionType, Executors, Points, Working
  <2>6. QED
    BY <2>1, <2>2, <2>3, <2>4, <2>5
<1>2. BeforeExecution'
  BY DEF AddReplied, reqVars, reviewVars, gateVars,
     JobType, ExecutionType, BeforeExecution, Executors, AbsentJob
<1>3. HasPackage'
  BY DEF AddReplied, reqVars, reviewVars, gateVars,
     JobType, ReviewType, ExecutionType, BeforeExecution, HasPackage, Executors, AbsentJob
<1>4. BuilderAuthorized'
  BY DEF AddReplied, reqVars, reviewVars, gateVars,
     JobType, ReviewType, ExecutionType, BeforeExecution, HasPackage, BuilderAuthorized, Executors, AbsentJob
<1>5. QED
  BY <1>1, <1>2, <1>3, <1>4

\* AddRejected keeps the invariant.
LEMMA KeepsAddRejected ==
  ASSUME QueueInv, AddRejected
  PROVE  QueueInv'
<1> USE QueueAssumption DEF QueueInv, QueueTypeOK
<1>1. QueueTypeOK'
  <2>1. RequestType'
    BY DEF AddRejected, RunInline, BeginRun, GuardedRun, FinalizedFailure, Finished, reqVars, reviewVars, gateVars,
       RequestType
  <2>2. JobType'
    BY DEF AddRejected, RunInline, BeginRun, GuardedRun, FinalizedFailure, Finished, reqVars, reviewVars, gateVars,
       JobType, AbsentJob, Executors
  <2>3. RunType'
    BY FinalizedFailureSnapshot, GuardedRunSnapshot DEF AddRejected, RunInline, BeginRun, reqVars, reviewVars, gateVars,
       RunType, BeforeExecution
  <2>4. ReviewType'
    BY DEF AddRejected, RunInline, BeginRun, GuardedRun, FinalizedFailure, Finished, reqVars, reviewVars, gateVars,
       ReviewType, ExecutionType, Executors
  <2>5. ExecutionType'
    BY DEF AddRejected, RunInline, BeginRun, GuardedRun, FinalizedFailure, Finished, reqVars, reviewVars, gateVars,
       ExecutionType, Executors, Points, Working
  <2>6. QED
    BY <2>1, <2>2, <2>3, <2>4, <2>5
<1>2. BeforeExecution'
  BY DEF AddRejected, RunInline, BeginRun, GuardedRun, FinalizedFailure, Finished, reqVars, reviewVars, gateVars,
     JobType, ExecutionType, BeforeExecution, Executors, AbsentJob
<1>3. HasPackage'
  BY DEF AddRejected, RunInline, BeginRun, GuardedRun, FinalizedFailure, Finished, reqVars, reviewVars, gateVars,
     JobType, ReviewType, ExecutionType, BeforeExecution, HasPackage, Executors, AbsentJob
<1>4. BuilderAuthorized'
  BY DEF AddRejected, RunInline, BeginRun, GuardedRun, FinalizedFailure, Finished, reqVars, reviewVars, gateVars,
     JobType, ReviewType, ExecutionType, BeforeExecution, HasPackage, BuilderAuthorized, Executors, AbsentJob
<1>5. QED
  BY <1>1, <1>2, <1>3, <1>4

\* AddLands keeps the invariant.
LEMMA KeepsAddLands ==
  ASSUME QueueInv, AddLands
  PROVE  QueueInv'
<1> USE QueueAssumption DEF QueueInv, QueueTypeOK
<1>1. QueueTypeOK'
  <2>1. RequestType'
    BY DEF AddLands, reqVars, reviewVars, gateVars,
       RequestType
  <2>2. JobType'
    BY DEF AddLands, reqVars, reviewVars, gateVars,
       JobType, AbsentJob, Executors
  <2>3. RunType'
    BY DEF AddLands, reqVars, reviewVars, gateVars,
       RunType, Snapshots, BeforeExecution
  <2>4. ReviewType'
    BY DEF AddLands, reqVars, reviewVars, gateVars,
       ReviewType, ExecutionType, Executors
  <2>5. ExecutionType'
    BY DEF AddLands, reqVars, reviewVars, gateVars,
       ExecutionType, Executors, Points, Working
  <2>6. QED
    BY <2>1, <2>2, <2>3, <2>4, <2>5
<1>2. BeforeExecution'
  BY DEF AddLands, reqVars, reviewVars, gateVars,
     JobType, ExecutionType, BeforeExecution, Executors, AbsentJob
<1>3. HasPackage'
  BY DEF AddLands, reqVars, reviewVars, gateVars,
     JobType, ReviewType, ExecutionType, BeforeExecution, HasPackage, Executors, AbsentJob
<1>4. BuilderAuthorized'
  BY DEF AddLands, reqVars, reviewVars, gateVars,
     JobType, ReviewType, ExecutionType, BeforeExecution, HasPackage, BuilderAuthorized, Executors, AbsentJob
<1>5. QED
  BY <1>1, <1>2, <1>3, <1>4

\* PipelineTakes keeps the invariant.
LEMMA KeepsPipelineTakes ==
  ASSUME QueueInv, PipelineTakes
  PROVE  QueueInv'
<1> USE QueueAssumption DEF QueueInv, QueueTypeOK
<1>1. QueueTypeOK'
  <2>1. RequestType'
    BY DEF PipelineTakes, reqVars, reviewVars, gateVars,
       RequestType
  <2>2. JobType'
    BY DEF PipelineTakes, reqVars, reviewVars, gateVars,
       JobType, AbsentJob, Executors
  <2>3. RunType'
    BY DEF PipelineTakes, reqVars, reviewVars, gateVars,
       RunType, Snapshots, BeforeExecution
  <2>4. ReviewType'
    BY DEF PipelineTakes, reqVars, reviewVars, gateVars,
       ReviewType, ExecutionType, Executors
  <2>5. ExecutionType'
    BY DEF PipelineTakes, reqVars, reviewVars, gateVars,
       ExecutionType, Executors, Points, Working
  <2>6. QED
    BY <2>1, <2>2, <2>3, <2>4, <2>5
<1>2. BeforeExecution'
  BY DEF PipelineTakes, reqVars, reviewVars, gateVars,
     JobType, ExecutionType, BeforeExecution, Executors, AbsentJob
<1>3. HasPackage'
  BY DEF PipelineTakes, reqVars, reviewVars, gateVars,
     JobType, ReviewType, ExecutionType, BeforeExecution, HasPackage, Executors, AbsentJob
<1>4. BuilderAuthorized'
  BY DEF PipelineTakes, reqVars, reviewVars, gateVars,
     JobType, ReviewType, ExecutionType, BeforeExecution, HasPackage, BuilderAuthorized, Executors, AbsentJob
<1>5. QED
  BY <1>1, <1>2, <1>3, <1>4

\* CancelRun keeps the invariant.
LEMMA KeepsCancelRun ==
  ASSUME QueueInv, CancelRun
  PROVE  QueueInv'
<1> USE QueueAssumption DEF QueueInv, QueueTypeOK
<1>1. QueueTypeOK'
  <2>1. RequestType'
    BY DEF CancelRun, reqVars, reviewVars, gateVars,
       RequestType
  <2>2. JobType'
    BY DEF CancelRun, reqVars, reviewVars, gateVars,
       JobType, AbsentJob, Executors
  <2>3. RunType'
    BY DEF CancelRun, reqVars, reviewVars, gateVars,
       RunType, Snapshots, BeforeExecution
  <2>4. ReviewType'
    BY DEF CancelRun, reqVars, reviewVars, gateVars,
       ReviewType, ExecutionType, Executors
  <2>5. ExecutionType'
    BY DEF CancelRun, reqVars, reviewVars, gateVars,
       ExecutionType, Executors, Points, Working
  <2>6. QED
    BY <2>1, <2>2, <2>3, <2>4, <2>5
<1>2. BeforeExecution'
  BY DEF CancelRun, reqVars, reviewVars, gateVars,
     JobType, ExecutionType, BeforeExecution, Executors, AbsentJob
<1>3. HasPackage'
  BY DEF CancelRun, reqVars, reviewVars, gateVars,
     JobType, ReviewType, ExecutionType, BeforeExecution, HasPackage, Executors, AbsentJob
<1>4. BuilderAuthorized'
  BY DEF CancelRun, reqVars, reviewVars, gateVars,
     JobType, ReviewType, ExecutionType, BeforeExecution, HasPackage, BuilderAuthorized, Executors, AbsentJob
<1>5. QED
  BY <1>1, <1>2, <1>3, <1>4

\* StallDead keeps the invariant.
LEMMA KeepsStallDead ==
  ASSUME QueueInv, StallDead
  PROVE  QueueInv'
<1> USE QueueAssumption DEF QueueInv, QueueTypeOK
<1>1. QueueTypeOK'
  <2>1. RequestType'
    BY DEF StallDead, Restalled, reqVars, reviewVars, gateVars,
       RequestType
  <2>2. JobType'
    <3>1. CASE job.stalls < MaxStalled
      <4>1. job.stalls + 1 \in 0..MaxStalled
        BY <3>1 DEF JobType
      <4>2. job' = [state |-> "waiting", stalls |-> job.stalls + 1, owner |-> None]
        BY <3>1 DEF StallDead, Restalled, AbsentJob
      <4>3. QED
        BY <4>1, <4>2 DEF JobType
    <3>2. CASE ~(job.stalls < MaxStalled)
      <4>1. job' = [state |-> "failed", stalls |-> 0, owner |-> None]
        BY <3>2 DEF StallDead, Restalled, AbsentJob
      <4>2. QED
        BY <4>1 DEF JobType
    <3>3. QED
      BY <3>1, <3>2
  <2>3. RunType'
    BY DEF StallDead, Restalled, reqVars, reviewVars, gateVars,
       RunType, Snapshots, BeforeExecution
  <2>4. ReviewType'
    BY DEF StallDead, Restalled, reqVars, reviewVars, gateVars,
       ReviewType, ExecutionType, Executors
  <2>5. ExecutionType'
    BY DEF StallDead, Restalled, reqVars, reviewVars, gateVars,
       ExecutionType, Executors, Points, Working
  <2>6. QED
    BY <2>1, <2>2, <2>3, <2>4, <2>5
<1>2. BeforeExecution'
  BY DEF StallDead, Restalled, reqVars, reviewVars, gateVars,
     JobType, ExecutionType, BeforeExecution, Executors, AbsentJob
<1>3. HasPackage'
  BY DEF StallDead, Restalled, reqVars, reviewVars, gateVars,
     JobType, ReviewType, ExecutionType, BeforeExecution, HasPackage, Executors, AbsentJob
<1>4. BuilderAuthorized'
  BY DEF StallDead, Restalled, reqVars, reviewVars, gateVars,
     JobType, ReviewType, ExecutionType, BeforeExecution, HasPackage, BuilderAuthorized, Executors, AbsentJob
<1>5. QED
  BY <1>1, <1>2, <1>3, <1>4

\* StallLive keeps the invariant.
LEMMA KeepsStallLive ==
  ASSUME QueueInv, StallLive
  PROVE  QueueInv'
<1> USE QueueAssumption DEF QueueInv, QueueTypeOK
<1>1. QueueTypeOK'
  <2>1. RequestType'
    BY DEF StallLive, Restalled, reqVars, reviewVars, gateVars,
       RequestType
  <2>2. JobType'
    <3>1. CASE job.stalls < MaxStalled
      <4>1. job.stalls + 1 \in 0..MaxStalled
        BY <3>1 DEF JobType
      <4>2. job' = [state |-> "waiting", stalls |-> job.stalls + 1, owner |-> None]
        BY <3>1 DEF StallLive, Restalled, AbsentJob
      <4>3. QED
        BY <4>1, <4>2 DEF JobType
    <3>2. CASE ~(job.stalls < MaxStalled)
      <4>1. job' = [state |-> "failed", stalls |-> 0, owner |-> None]
        BY <3>2 DEF StallLive, Restalled, AbsentJob
      <4>2. QED
        BY <4>1 DEF JobType
    <3>3. QED
      BY <3>1, <3>2
  <2>3. RunType'
    BY DEF StallLive, Restalled, reqVars, reviewVars, gateVars,
       RunType, Snapshots, BeforeExecution
  <2>4. ReviewType'
    BY DEF StallLive, Restalled, reqVars, reviewVars, gateVars,
       ReviewType, ExecutionType, Executors
  <2>5. ExecutionType'
    BY DEF StallLive, Restalled, reqVars, reviewVars, gateVars,
       ExecutionType, Executors, Points, Working
  <2>6. QED
    BY <2>1, <2>2, <2>3, <2>4, <2>5
<1>2. BeforeExecution'
  BY DEF StallLive, Restalled, reqVars, reviewVars, gateVars,
     JobType, ExecutionType, BeforeExecution, Executors, AbsentJob
<1>3. HasPackage'
  BY DEF StallLive, Restalled, reqVars, reviewVars, gateVars,
     JobType, ReviewType, ExecutionType, BeforeExecution, HasPackage, Executors, AbsentJob
<1>4. BuilderAuthorized'
  BY DEF StallLive, Restalled, reqVars, reviewVars, gateVars,
     JobType, ReviewType, ExecutionType, BeforeExecution, HasPackage, BuilderAuthorized, Executors, AbsentJob
<1>5. QED
  BY <1>1, <1>2, <1>3, <1>4

\* OnFailed keeps the invariant.
LEMMA KeepsOnFailed ==
  ASSUME QueueInv, OnFailed
  PROVE  QueueInv'
<1> USE QueueAssumption DEF QueueInv, QueueTypeOK
<1>1. QueueTypeOK'
  <2>1. RequestType'
    BY DEF OnFailed, FinalizedFailure, Finished, reqVars, reviewVars, gateVars,
       RequestType
  <2>2. JobType'
    BY DEF OnFailed, FinalizedFailure, Finished, reqVars, reviewVars, gateVars,
       JobType, AbsentJob, Executors
  <2>3. RunType'
    BY FinalizedFailureSnapshot DEF OnFailed, reqVars, reviewVars, gateVars,
       RunType, BeforeExecution
  <2>4. ReviewType'
    BY DEF OnFailed, FinalizedFailure, Finished, reqVars, reviewVars, gateVars,
       ReviewType, ExecutionType, Executors
  <2>5. ExecutionType'
    BY DEF OnFailed, FinalizedFailure, Finished, reqVars, reviewVars, gateVars,
       ExecutionType, Executors, Points, Working
  <2>6. QED
    BY <2>1, <2>2, <2>3, <2>4, <2>5
<1>2. BeforeExecution'
  BY DEF OnFailed, FinalizedFailure, Finished, reqVars, reviewVars, gateVars,
     JobType, ExecutionType, BeforeExecution, Executors, AbsentJob
<1>3. HasPackage'
  BY DEF OnFailed, FinalizedFailure, Finished, reqVars, reviewVars, gateVars,
     JobType, ReviewType, ExecutionType, BeforeExecution, HasPackage, Executors, AbsentJob
<1>4. BuilderAuthorized'
  BY DEF OnFailed, FinalizedFailure, Finished, reqVars, reviewVars, gateVars,
     JobType, ReviewType, ExecutionType, BeforeExecution, HasPackage, BuilderAuthorized, Executors, AbsentJob
<1>5. QED
  BY <1>1, <1>2, <1>3, <1>4

\* ApproveBuild keeps the invariant.
LEMMA KeepsApproveBuild ==
  ASSUME QueueInv, ApproveBuild
  PROVE  QueueInv'
<1> USE QueueAssumption DEF QueueInv, QueueTypeOK
<1>1. QueueTypeOK'
  <2>1. RequestType'
    BY DEF ApproveBuild, reqVars, reviewVars, gateVars,
       RequestType
  <2>2. JobType'
    BY DEF ApproveBuild, reqVars, reviewVars, gateVars,
       JobType, AbsentJob, Executors
  <2>3. RunType'
    BY DEF ApproveBuild, reqVars, reviewVars, gateVars,
       RunType, Snapshots, BeforeExecution
  <2>4. ReviewType'
    BY DEF ApproveBuild, reqVars, reviewVars, gateVars,
       ReviewType, ExecutionType, Executors
  <2>5. ExecutionType'
    BY DEF ApproveBuild, reqVars, reviewVars, gateVars,
       ExecutionType, Executors, Points, Working
  <2>6. QED
    BY <2>1, <2>2, <2>3, <2>4, <2>5
<1>2. BeforeExecution'
  BY DEF ApproveBuild, reqVars, reviewVars, gateVars,
     JobType, ExecutionType, BeforeExecution, Executors, AbsentJob
<1>3. HasPackage'
  BY DEF ApproveBuild, reqVars, reviewVars, gateVars,
     JobType, ReviewType, ExecutionType, BeforeExecution, HasPackage, Executors, AbsentJob
<1>4. BuilderAuthorized'
  BY DEF ApproveBuild, reqVars, reviewVars, gateVars,
     JobType, ReviewType, ExecutionType, BeforeExecution, HasPackage, BuilderAuthorized, Executors, AbsentJob
<1>5. QED
  BY <1>1, <1>2, <1>3, <1>4

\* Crash keeps the invariant.
LEMMA KeepsCrash ==
  ASSUME QueueInv, Crash
  PROVE  QueueInv'
<1> USE QueueAssumption DEF QueueInv, QueueTypeOK
<1>1. QueueTypeOK'
  <2>1. RequestType'
    BY DEF Crash, reqVars, reviewVars, gateVars,
       RequestType
  <2>2. JobType'
    BY DEF Crash, reqVars, reviewVars, gateVars,
       JobType, AbsentJob, Executors
  <2>3. RunType'
    BY DEF Crash, reqVars, reviewVars, gateVars,
       RunType, Snapshots, BeforeExecution
  <2>4. ReviewType'
    BY DEF Crash, reqVars, reviewVars, gateVars,
       ReviewType, ExecutionType, Executors
  <2>5. ExecutionType'
    BY DEF Crash, reqVars, reviewVars, gateVars,
       ExecutionType, Executors, Points, Working
  <2>6. QED
    BY <2>1, <2>2, <2>3, <2>4, <2>5
<1>2. BeforeExecution'
  BY DEF Crash, reqVars, reviewVars, gateVars,
     JobType, ExecutionType, BeforeExecution, Executors, AbsentJob
<1>3. HasPackage'
  BY DEF Crash, reqVars, reviewVars, gateVars,
     JobType, ReviewType, ExecutionType, BeforeExecution, HasPackage, Executors, AbsentJob
<1>4. BuilderAuthorized'
  BY DEF Crash, reqVars, reviewVars, gateVars,
     JobType, ReviewType, ExecutionType, BeforeExecution, HasPackage, BuilderAuthorized, Executors, AbsentJob
<1>5. QED
  BY <1>1, <1>2, <1>3, <1>4

\* Take keeps the invariant.
LEMMA KeepsTake ==
  ASSUME QueueInv, NEW s \in Slots, Take(s)
  PROVE  QueueInv'
<1> USE QueueAssumption DEF QueueInv, QueueTypeOK
<1>1. QueueTypeOK'
  <2>1. RequestType'
    BY DEF Take, BeginRun, GuardedRun, FinalizedFailure, Finished, reqVars, reviewVars, gateVars,
       RequestType
  <2>2. JobType'
    BY DEF Take, BeginRun, GuardedRun, FinalizedFailure, Finished, reqVars, reviewVars, gateVars,
       JobType, AbsentJob, Executors
  <2>3. RunType'
    BY FinalizedFailureSnapshot, GuardedRunSnapshot DEF Take, BeginRun, reqVars, reviewVars, gateVars,
       RunType, BeforeExecution
  <2>4. ReviewType'
    BY DEF Take, BeginRun, GuardedRun, FinalizedFailure, Finished, reqVars, reviewVars, gateVars,
       ReviewType, ExecutionType, Executors
  <2>5. ExecutionType'
    BY DEF Take, BeginRun, GuardedRun, FinalizedFailure, Finished, reqVars, reviewVars, gateVars,
       ExecutionType, Executors, Points, Working
  <2>6. QED
    BY <2>1, <2>2, <2>3, <2>4, <2>5
<1>2. BeforeExecution'
  BY DEF Take, BeginRun, GuardedRun, FinalizedFailure, Finished, reqVars, reviewVars, gateVars,
     JobType, ExecutionType, BeforeExecution, Executors, AbsentJob
<1>3. HasPackage'
  BY DEF Take, BeginRun, GuardedRun, FinalizedFailure, Finished, reqVars, reviewVars, gateVars,
     JobType, ReviewType, ExecutionType, BeforeExecution, HasPackage, Executors, AbsentJob
<1>4. BuilderAuthorized'
  BY DEF Take, BeginRun, GuardedRun, FinalizedFailure, Finished, reqVars, reviewVars, gateVars,
     JobType, ReviewType, ExecutionType, BeforeExecution, HasPackage, BuilderAuthorized, Executors, AbsentJob
<1>5. QED
  BY <1>1, <1>2, <1>3, <1>4

\* ResolveProvider keeps the invariant.
LEMMA KeepsResolveProvider ==
  ASSUME QueueInv, NEW e \in Executors, ResolveProvider(e)
  PROVE  QueueInv'
<1> USE QueueAssumption DEF QueueInv, QueueTypeOK
<1>1. QueueTypeOK'
  <2>1. RequestType'
    BY DEF ResolveProvider, Step, FinalizedFailure, Finished, reqVars, reviewVars, gateVars,
       RequestType
  <2>2. JobType'
    BY DEF ResolveProvider, Step, FinalizedFailure, Finished, reqVars, reviewVars, gateVars,
       JobType, AbsentJob, Executors
  <2>3. RunType'
    <3>1. CASE run' = [run EXCEPT !.events = TRUE]
      BY <3>1 DEF RunType, Snapshots
    <3>2. CASE run' = FinalizedFailure
      BY <3>2, FinalizedFailureSnapshot DEF RunType
    <3>3. QED
      BY <3>1, <3>2 DEF ResolveProvider
  <2>4. ReviewType'
    BY DEF ResolveProvider, Step, FinalizedFailure, Finished, reqVars, reviewVars, gateVars,
       ReviewType, ExecutionType, Executors
  <2>5. ExecutionType'
    BY DEF ResolveProvider, Step, FinalizedFailure, Finished, reqVars, reviewVars, gateVars,
       ExecutionType, Executors, Points, Working
  <2>6. QED
    BY <2>1, <2>2, <2>3, <2>4, <2>5
<1>2. BeforeExecution'
  BY DEF ResolveProvider, Step, FinalizedFailure, Finished, reqVars, reviewVars, gateVars,
     JobType, ExecutionType, BeforeExecution, Executors, AbsentJob
<1>3. HasPackage'
  BY DEF ResolveProvider, Step, FinalizedFailure, Finished, reqVars, reviewVars, gateVars,
     JobType, ReviewType, ExecutionType, BeforeExecution, HasPackage, Executors, AbsentJob
<1>4. BuilderAuthorized'
  BY DEF ResolveProvider, Step, FinalizedFailure, Finished, reqVars, reviewVars, gateVars,
     JobType, ReviewType, ExecutionType, BeforeExecution, HasPackage, BuilderAuthorized, Executors, AbsentJob
<1>5. QED
  BY <1>1, <1>2, <1>3, <1>4

\* BindDependencies keeps the invariant.
LEMMA KeepsBindDependencies ==
  ASSUME QueueInv, NEW e \in Executors, BindDependencies(e)
  PROVE  QueueInv'
<1> USE QueueAssumption DEF QueueInv, QueueTypeOK
<1>1. QueueTypeOK'
  <2>1. RequestType'
    BY DEF BindDependencies, NodeEnds, Step, reqVars, reviewVars, gateVars,
       RequestType
  <2>2. JobType'
    BY DEF BindDependencies, NodeEnds, Step, reqVars, reviewVars, gateVars,
       JobType, AbsentJob, Executors
  <2>3. RunType'
    BY DEF BindDependencies, NodeEnds, Step, reqVars, reviewVars, gateVars,
       RunType, Snapshots, BeforeExecution
  <2>4. ReviewType'
    BY DEF BindDependencies, NodeEnds, Step, reqVars, reviewVars, gateVars,
       ReviewType, ExecutionType, Executors
  <2>5. ExecutionType'
    BY DEF BindDependencies, NodeEnds, Step, reqVars, reviewVars, gateVars,
       ExecutionType, Executors, Points, Working
  <2>6. QED
    BY <2>1, <2>2, <2>3, <2>4, <2>5
<1>2. BeforeExecution'
  BY DEF BindDependencies, NodeEnds, Step, reqVars, reviewVars, gateVars,
     JobType, ExecutionType, BeforeExecution, Executors, AbsentJob
<1>3. HasPackage'
  BY DEF BindDependencies, NodeEnds, Step, reqVars, reviewVars, gateVars,
     JobType, ReviewType, ExecutionType, BeforeExecution, HasPackage, Executors, AbsentJob
<1>4. BuilderAuthorized'
  BY DEF BindDependencies, NodeEnds, Step, reqVars, reviewVars, gateVars,
     JobType, ReviewType, ExecutionType, BeforeExecution, HasPackage, BuilderAuthorized, Executors, AbsentJob
<1>5. QED
  BY <1>1, <1>2, <1>3, <1>4

\* RunResearcher keeps the invariant.
LEMMA KeepsRunResearcher ==
  ASSUME QueueInv, NEW e \in Executors, RunResearcher(e)
  PROVE  QueueInv'
<1> USE QueueAssumption DEF QueueInv, QueueTypeOK
<1>1. QueueTypeOK'
  <2>1. RequestType'
    BY DEF RunResearcher, NodeEnds, Step, reqVars, reviewVars, gateVars,
       RequestType
  <2>2. JobType'
    BY DEF RunResearcher, NodeEnds, Step, reqVars, reviewVars, gateVars,
       JobType, AbsentJob, Executors
  <2>3. RunType'
    BY DEF RunResearcher, NodeEnds, Step, reqVars, reviewVars, gateVars,
       RunType, Snapshots, BeforeExecution
  <2>4. ReviewType'
    BY DEF RunResearcher, NodeEnds, Step, reqVars, reviewVars, gateVars,
       ReviewType, ExecutionType, Executors
  <2>5. ExecutionType'
    BY DEF RunResearcher, NodeEnds, Step, reqVars, reviewVars, gateVars,
       ExecutionType, Executors, Points, Working
  <2>6. QED
    BY <2>1, <2>2, <2>3, <2>4, <2>5
<1>2. BeforeExecution'
  BY DEF RunResearcher, NodeEnds, Step, reqVars, reviewVars, gateVars,
     JobType, ExecutionType, BeforeExecution, Executors, AbsentJob
<1>3. HasPackage'
  BY DEF RunResearcher, NodeEnds, Step, reqVars, reviewVars, gateVars,
     JobType, ReviewType, ExecutionType, BeforeExecution, HasPackage, Executors, AbsentJob
<1>4. BuilderAuthorized'
  BY DEF RunResearcher, NodeEnds, Step, reqVars, reviewVars, gateVars,
     JobType, ReviewType, ExecutionType, BeforeExecution, HasPackage, BuilderAuthorized, Executors, AbsentJob
<1>5. QED
  BY <1>1, <1>2, <1>3, <1>4

\* OpenReview keeps the invariant.
LEMMA KeepsOpenReview ==
  ASSUME QueueInv, NEW e \in Executors, OpenReview(e)
  PROVE  QueueInv'
<1> USE QueueAssumption DEF QueueInv, QueueTypeOK
<1>1. QueueTypeOK'
  <2>1. RequestType'
    BY DEF OpenReview, Step, reqVars, reviewVars, gateVars,
       RequestType
  <2>2. JobType'
    BY DEF OpenReview, Step, reqVars, reviewVars, gateVars,
       JobType, AbsentJob, Executors
  <2>3. RunType'
    BY DEF OpenReview, Step, reqVars, reviewVars, gateVars,
       RunType, Snapshots, BeforeExecution
  <2>4. ReviewType'
    BY DEF OpenReview, Step, reqVars, reviewVars, gateVars,
       ReviewType, ExecutionType, Executors
  <2>5. ExecutionType'
    BY DEF OpenReview, Step, reqVars, reviewVars, gateVars,
       ExecutionType, Executors, Points, Working
  <2>6. QED
    BY <2>1, <2>2, <2>3, <2>4, <2>5
<1>2. BeforeExecution'
  BY DEF OpenReview, Step, reqVars, reviewVars, gateVars,
     JobType, ExecutionType, BeforeExecution, Executors, AbsentJob
<1>3. HasPackage'
  BY DEF OpenReview, Step, reqVars, reviewVars, gateVars,
     JobType, ReviewType, ExecutionType, BeforeExecution, HasPackage, Executors, AbsentJob
<1>4. BuilderAuthorized'
  BY DEF OpenReview, Step, reqVars, reviewVars, gateVars,
     JobType, ReviewType, ExecutionType, BeforeExecution, HasPackage, BuilderAuthorized, Executors, AbsentJob
<1>5. QED
  BY <1>1, <1>2, <1>3, <1>4

\* WaitReview keeps the invariant.
LEMMA KeepsWaitReview ==
  ASSUME QueueInv, NEW e \in Executors, WaitReview(e)
  PROVE  QueueInv'
<1> USE QueueAssumption DEF QueueInv, QueueTypeOK
<1>1. QueueTypeOK'
  <2>1. RequestType'
    BY DEF WaitReview, Step, reqVars, reviewVars, gateVars,
       RequestType
  <2>2. JobType'
    BY DEF WaitReview, Step, reqVars, reviewVars, gateVars,
       JobType, AbsentJob, Executors
  <2>3. RunType'
    BY DEF WaitReview, Step, reqVars, reviewVars, gateVars,
       RunType, Snapshots, BeforeExecution
  <2>4. ReviewType'
    BY DEF WaitReview, Step, reqVars, reviewVars, gateVars,
       ReviewType, ExecutionType, Executors
  <2>5. ExecutionType'
    BY DEF WaitReview, Step, reqVars, reviewVars, gateVars,
       ExecutionType, Executors, Points, Working
  <2>6. QED
    BY <2>1, <2>2, <2>3, <2>4, <2>5
<1>2. BeforeExecution'
  BY DEF WaitReview, Step, reqVars, reviewVars, gateVars,
     JobType, ExecutionType, BeforeExecution, Executors, AbsentJob
<1>3. HasPackage'
  BY DEF WaitReview, Step, reqVars, reviewVars, gateVars,
     JobType, ReviewType, ExecutionType, BeforeExecution, HasPackage, Executors, AbsentJob
<1>4. BuilderAuthorized'
  BY DEF WaitReview, Step, reqVars, reviewVars, gateVars,
     JobType, ReviewType, ExecutionType, BeforeExecution, HasPackage, BuilderAuthorized, Executors, AbsentJob
<1>5. QED
  BY <1>1, <1>2, <1>3, <1>4

\* ProvePlan keeps the invariant.
LEMMA KeepsProvePlan ==
  ASSUME QueueInv, NEW e \in Executors, ProvePlan(e)
  PROVE  QueueInv'
<1> USE QueueAssumption DEF QueueInv, QueueTypeOK
<1>1. QueueTypeOK'
  <2>1. RequestType'
    BY DEF ProvePlan, Step, reqVars, reviewVars, gateVars,
       RequestType
  <2>2. JobType'
    BY DEF ProvePlan, Step, reqVars, reviewVars, gateVars,
       JobType, AbsentJob, Executors
  <2>3. RunType'
    BY DEF ProvePlan, Step, reqVars, reviewVars, gateVars,
       RunType, Snapshots, BeforeExecution
  <2>4. ReviewType'
    BY DEF ProvePlan, Step, reqVars, reviewVars, gateVars,
       ReviewType, ExecutionType, Executors
  <2>5. ExecutionType'
    BY DEF ProvePlan, Step, reqVars, reviewVars, gateVars,
       ExecutionType, Executors, Points, Working
  <2>6. QED
    BY <2>1, <2>2, <2>3, <2>4, <2>5
<1>2. BeforeExecution'
  BY DEF ProvePlan, Step, reqVars, reviewVars, gateVars,
     JobType, ExecutionType, BeforeExecution, Executors, AbsentJob
<1>3. HasPackage'
  BY DEF ProvePlan, Step, reqVars, reviewVars, gateVars,
     JobType, ReviewType, ExecutionType, BeforeExecution, HasPackage, Executors, AbsentJob
<1>4. BuilderAuthorized'
  BY DEF ProvePlan, Step, reqVars, reviewVars, gateVars,
     JobType, ReviewType, ExecutionType, BeforeExecution, HasPackage, BuilderAuthorized, Executors, AbsentJob
<1>5. QED
  BY <1>1, <1>2, <1>3, <1>4

\* OpenGate keeps the invariant.
LEMMA KeepsOpenGate ==
  ASSUME QueueInv, NEW e \in Executors, OpenGate(e)
  PROVE  QueueInv'
<1> USE QueueAssumption DEF QueueInv, QueueTypeOK
<1>1. QueueTypeOK'
  <2>1. RequestType'
    BY DEF OpenGate, Step, reqVars, reviewVars, gateVars,
       RequestType
  <2>2. JobType'
    BY DEF OpenGate, Step, reqVars, reviewVars, gateVars,
       JobType, AbsentJob, Executors
  <2>3. RunType'
    BY DEF OpenGate, Step, reqVars, reviewVars, gateVars,
       RunType, Snapshots, BeforeExecution
  <2>4. ReviewType'
    BY DEF OpenGate, Step, reqVars, reviewVars, gateVars,
       ReviewType, ExecutionType, Executors
  <2>5. ExecutionType'
    BY DEF OpenGate, Step, reqVars, reviewVars, gateVars,
       ExecutionType, Executors, Points, Working
  <2>6. QED
    BY <2>1, <2>2, <2>3, <2>4, <2>5
<1>2. BeforeExecution'
  BY DEF OpenGate, Step, reqVars, reviewVars, gateVars,
     JobType, ExecutionType, BeforeExecution, Executors, AbsentJob
<1>3. HasPackage'
  BY DEF OpenGate, Step, reqVars, reviewVars, gateVars,
     JobType, ReviewType, ExecutionType, BeforeExecution, HasPackage, Executors, AbsentJob
<1>4. BuilderAuthorized'
  BY DEF OpenGate, Step, reqVars, reviewVars, gateVars,
     JobType, ReviewType, ExecutionType, BeforeExecution, HasPackage, BuilderAuthorized, Executors, AbsentJob
<1>5. QED
  BY <1>1, <1>2, <1>3, <1>4

\* WaitGate keeps the invariant.
LEMMA KeepsWaitGate ==
  ASSUME QueueInv, NEW e \in Executors, WaitGate(e)
  PROVE  QueueInv'
<1> USE QueueAssumption DEF QueueInv, QueueTypeOK
<1>1. QueueTypeOK'
  <2>1. RequestType'
    BY DEF WaitGate, Step, reqVars, reviewVars, gateVars,
       RequestType
  <2>2. JobType'
    BY DEF WaitGate, Step, reqVars, reviewVars, gateVars,
       JobType, AbsentJob, Executors
  <2>3. RunType'
    BY DEF WaitGate, Step, reqVars, reviewVars, gateVars,
       RunType, Snapshots, BeforeExecution
  <2>4. ReviewType'
    BY DEF WaitGate, Step, reqVars, reviewVars, gateVars,
       ReviewType, ExecutionType, Executors
  <2>5. ExecutionType'
    BY DEF WaitGate, Step, reqVars, reviewVars, gateVars,
       ExecutionType, Executors, Points, Working
  <2>6. QED
    BY <2>1, <2>2, <2>3, <2>4, <2>5
<1>2. BeforeExecution'
  BY DEF WaitGate, Step, reqVars, reviewVars, gateVars,
     JobType, ExecutionType, BeforeExecution, Executors, AbsentJob
<1>3. HasPackage'
  BY DEF WaitGate, Step, reqVars, reviewVars, gateVars,
     JobType, ReviewType, ExecutionType, BeforeExecution, HasPackage, Executors, AbsentJob
<1>4. BuilderAuthorized'
  BY DEF WaitGate, Step, reqVars, reviewVars, gateVars,
     JobType, ReviewType, ExecutionType, BeforeExecution, HasPackage, BuilderAuthorized, Executors, AbsentJob
<1>5. QED
  BY <1>1, <1>2, <1>3, <1>4

\* RunBuilder keeps the invariant.
LEMMA KeepsRunBuilder ==
  ASSUME QueueInv, NEW e \in Executors, RunBuilder(e)
  PROVE  QueueInv'
<1> USE QueueAssumption DEF QueueInv, QueueTypeOK
<1>1. QueueTypeOK'
  <2>1. RequestType'
    BY DEF RunBuilder, NodeEnds, Step, reqVars, reviewVars, gateVars,
       RequestType
  <2>2. JobType'
    BY DEF RunBuilder, NodeEnds, Step, reqVars, reviewVars, gateVars,
       JobType, AbsentJob, Executors
  <2>3. RunType'
    BY DEF RunBuilder, NodeEnds, Step, reqVars, reviewVars, gateVars,
       RunType, Snapshots, BeforeExecution
  <2>4. ReviewType'
    BY DEF RunBuilder, NodeEnds, Step, reqVars, reviewVars, gateVars,
       ReviewType, ExecutionType, Executors
  <2>5. ExecutionType'
    BY DEF RunBuilder, NodeEnds, Step, reqVars, reviewVars, gateVars,
       ExecutionType, Executors, Points, Working
  <2>6. QED
    BY <2>1, <2>2, <2>3, <2>4, <2>5
<1>2. BeforeExecution'
  BY DEF RunBuilder, NodeEnds, Step, reqVars, reviewVars, gateVars,
     JobType, ExecutionType, BeforeExecution, Executors, AbsentJob
<1>3. HasPackage'
  BY DEF RunBuilder, NodeEnds, Step, reqVars, reviewVars, gateVars,
     JobType, ReviewType, ExecutionType, BeforeExecution, HasPackage, Executors, AbsentJob
<1>4. BuilderAuthorized'
  BY DEF RunBuilder, NodeEnds, Step, reqVars, reviewVars, gateVars,
     JobType, ReviewType, ExecutionType, BeforeExecution, HasPackage, BuilderAuthorized, Executors, AbsentJob
<1>5. QED
  BY <1>1, <1>2, <1>3, <1>4

\* VerifyHash keeps the invariant.
LEMMA KeepsVerifyHash ==
  ASSUME QueueInv, NEW e \in Executors, VerifyHash(e)
  PROVE  QueueInv'
<1> USE QueueAssumption DEF QueueInv, QueueTypeOK
<1>1. QueueTypeOK'
  <2>1. RequestType'
    BY DEF VerifyHash, NodeEnds, Step, reqVars, reviewVars, gateVars,
       RequestType
  <2>2. JobType'
    BY DEF VerifyHash, NodeEnds, Step, reqVars, reviewVars, gateVars,
       JobType, AbsentJob, Executors
  <2>3. RunType'
    BY DEF VerifyHash, NodeEnds, Step, reqVars, reviewVars, gateVars,
       RunType, Snapshots, BeforeExecution
  <2>4. ReviewType'
    BY DEF VerifyHash, NodeEnds, Step, reqVars, reviewVars, gateVars,
       ReviewType, ExecutionType, Executors
  <2>5. ExecutionType'
    BY DEF VerifyHash, NodeEnds, Step, reqVars, reviewVars, gateVars,
       ExecutionType, Executors, Points, Working
  <2>6. QED
    BY <2>1, <2>2, <2>3, <2>4, <2>5
<1>2. BeforeExecution'
  BY DEF VerifyHash, NodeEnds, Step, reqVars, reviewVars, gateVars,
     JobType, ExecutionType, BeforeExecution, Executors, AbsentJob
<1>3. HasPackage'
  BY DEF VerifyHash, NodeEnds, Step, reqVars, reviewVars, gateVars,
     JobType, ReviewType, ExecutionType, BeforeExecution, HasPackage, Executors, AbsentJob
<1>4. BuilderAuthorized'
  BY DEF VerifyHash, NodeEnds, Step, reqVars, reviewVars, gateVars,
     JobType, ReviewType, ExecutionType, BeforeExecution, HasPackage, BuilderAuthorized, Executors, AbsentJob
<1>5. QED
  BY <1>1, <1>2, <1>3, <1>4

\* FinishPassed keeps the invariant.
LEMMA KeepsFinishPassed ==
  ASSUME QueueInv, NEW e \in Executors, FinishPassed(e)
  PROVE  QueueInv'
<1> USE QueueAssumption DEF QueueInv, QueueTypeOK
<1>1. QueueTypeOK'
  <2>1. RequestType'
    BY DEF FinishPassed, Step, Finished, reqVars, reviewVars, gateVars,
       RequestType
  <2>2. JobType'
    BY DEF FinishPassed, Step, Finished, reqVars, reviewVars, gateVars,
       JobType, AbsentJob, Executors
  <2>3. RunType'
    BY DEF FinishPassed, Step, Finished, reqVars, reviewVars, gateVars,
       RunType, Snapshots, BeforeExecution
  <2>4. ReviewType'
    BY DEF FinishPassed, Step, Finished, reqVars, reviewVars, gateVars,
       ReviewType, ExecutionType, Executors
  <2>5. ExecutionType'
    BY DEF FinishPassed, Step, Finished, reqVars, reviewVars, gateVars,
       ExecutionType, Executors, Points, Working
  <2>6. QED
    BY <2>1, <2>2, <2>3, <2>4, <2>5
<1>2. BeforeExecution'
  BY DEF FinishPassed, Step, Finished, reqVars, reviewVars, gateVars,
     JobType, ExecutionType, BeforeExecution, Executors, AbsentJob
<1>3. HasPackage'
  BY DEF FinishPassed, Step, Finished, reqVars, reviewVars, gateVars,
     JobType, ReviewType, ExecutionType, BeforeExecution, HasPackage, Executors, AbsentJob
<1>4. BuilderAuthorized'
  BY DEF FinishPassed, Step, Finished, reqVars, reviewVars, gateVars,
     JobType, ReviewType, ExecutionType, BeforeExecution, HasPackage, BuilderAuthorized, Executors, AbsentJob
<1>5. QED
  BY <1>1, <1>2, <1>3, <1>4

\* FinishRoot keeps the invariant.
LEMMA KeepsFinishRoot ==
  ASSUME QueueInv, NEW e \in Executors, FinishRoot(e)
  PROVE  QueueInv'
<1> USE QueueAssumption DEF QueueInv, QueueTypeOK
<1>1. QueueTypeOK'
  <2>1. RequestType'
    BY DEF FinishRoot, Step, FinalizedFailure, Finished, reqVars, reviewVars, gateVars,
       RequestType
  <2>2. JobType'
    BY DEF FinishRoot, Step, FinalizedFailure, Finished, reqVars, reviewVars, gateVars,
       JobType, AbsentJob, Executors
  <2>3. RunType'
    BY FinalizedFailureSnapshot DEF FinishRoot, Step, reqVars, reviewVars, gateVars,
       RunType, BeforeExecution
  <2>4. ReviewType'
    BY DEF FinishRoot, Step, FinalizedFailure, Finished, reqVars, reviewVars, gateVars,
       ReviewType, ExecutionType, Executors
  <2>5. ExecutionType'
    BY DEF FinishRoot, Step, FinalizedFailure, Finished, reqVars, reviewVars, gateVars,
       ExecutionType, Executors, Points, Working
  <2>6. QED
    BY <2>1, <2>2, <2>3, <2>4, <2>5
<1>2. BeforeExecution'
  BY DEF FinishRoot, Step, FinalizedFailure, Finished, reqVars, reviewVars, gateVars,
     JobType, ExecutionType, BeforeExecution, Executors, AbsentJob
<1>3. HasPackage'
  BY DEF FinishRoot, Step, FinalizedFailure, Finished, reqVars, reviewVars, gateVars,
     JobType, ReviewType, ExecutionType, BeforeExecution, HasPackage, Executors, AbsentJob
<1>4. BuilderAuthorized'
  BY DEF FinishRoot, Step, FinalizedFailure, Finished, reqVars, reviewVars, gateVars,
     JobType, ReviewType, ExecutionType, BeforeExecution, HasPackage, BuilderAuthorized, Executors, AbsentJob
<1>5. QED
  BY <1>1, <1>2, <1>3, <1>4

\* Return keeps the invariant.
LEMMA KeepsReturn ==
  ASSUME QueueInv, NEW e \in Executors, Return(e)
  PROVE  QueueInv'
<1> USE QueueAssumption DEF QueueInv, QueueTypeOK
<1>1. QueueTypeOK'
  <2>1. RequestType'
    BY DEF Return, Step, reqVars, reviewVars, gateVars,
       RequestType
  <2>2. JobType'
    BY DEF Return, Step, reqVars, reviewVars, gateVars,
       JobType, AbsentJob, Executors
  <2>3. RunType'
    BY DEF Return, Step, reqVars, reviewVars, gateVars,
       RunType, Snapshots, BeforeExecution
  <2>4. ReviewType'
    BY DEF Return, Step, reqVars, reviewVars, gateVars,
       ReviewType, ExecutionType, Executors
  <2>5. ExecutionType'
    BY DEF Return, Step, reqVars, reviewVars, gateVars,
       ExecutionType, Executors, Points, Working
  <2>6. QED
    BY <2>1, <2>2, <2>3, <2>4, <2>5
<1>2. BeforeExecution'
  BY DEF Return, Step, reqVars, reviewVars, gateVars,
     JobType, ExecutionType, BeforeExecution, Executors, AbsentJob
<1>3. HasPackage'
  BY DEF Return, Step, reqVars, reviewVars, gateVars,
     JobType, ReviewType, ExecutionType, BeforeExecution, HasPackage, Executors, AbsentJob
<1>4. BuilderAuthorized'
  BY DEF Return, Step, reqVars, reviewVars, gateVars,
     JobType, ReviewType, ExecutionType, BeforeExecution, HasPackage, BuilderAuthorized, Executors, AbsentJob
<1>5. QED
  BY <1>1, <1>2, <1>3, <1>4

\* DecideRead keeps the invariant.
LEMMA KeepsDecideRead ==
  ASSUME QueueInv, NEW d \in Deciders, DecideRead(d)
  PROVE  QueueInv'
<1> USE QueueAssumption DEF QueueInv, QueueTypeOK
<1>1. QueueTypeOK'
  <2>1. RequestType'
    BY DEF DecideRead, reqVars, reviewVars, gateVars,
       RequestType
  <2>2. JobType'
    BY DEF DecideRead, reqVars, reviewVars, gateVars,
       JobType, AbsentJob, Executors
  <2>3. RunType'
    BY DEF DecideRead, reqVars, reviewVars, gateVars,
       RunType, Snapshots, BeforeExecution
  <2>4. ReviewType'
    BY DEF DecideRead, reqVars, reviewVars, gateVars,
       ReviewType, ExecutionType, Executors
  <2>5. ExecutionType'
    BY DEF DecideRead, reqVars, reviewVars, gateVars,
       ExecutionType, Executors, Points, Working
  <2>6. QED
    BY <2>1, <2>2, <2>3, <2>4, <2>5
<1>2. BeforeExecution'
  BY DEF DecideRead, reqVars, reviewVars, gateVars,
     JobType, ExecutionType, BeforeExecution, Executors, AbsentJob
<1>3. HasPackage'
  BY DEF DecideRead, reqVars, reviewVars, gateVars,
     JobType, ReviewType, ExecutionType, BeforeExecution, HasPackage, Executors, AbsentJob
<1>4. BuilderAuthorized'
  BY DEF DecideRead, reqVars, reviewVars, gateVars,
     JobType, ReviewType, ExecutionType, BeforeExecution, HasPackage, BuilderAuthorized, Executors, AbsentJob
<1>5. QED
  BY <1>1, <1>2, <1>3, <1>4

\* DecideSave keeps the invariant.
LEMMA KeepsDecideSave ==
  ASSUME QueueInv, NEW d \in Deciders, DecideSave(d)
  PROVE  QueueInv'
<1> USE QueueAssumption DEF QueueInv, QueueTypeOK
<1>1. QueueTypeOK'
  <2>1. RequestType'
    BY DEF DecideSave, reqVars, reviewVars, gateVars,
       RequestType
  <2>2. JobType'
    BY DEF DecideSave, reqVars, reviewVars, gateVars,
       JobType, AbsentJob, Executors
  <2>3. RunType'
    BY DEF DecideSave, reqVars, reviewVars, gateVars,
       RunType, Snapshots, BeforeExecution
  <2>4. ReviewType'
    BY DEF DecideSave, reqVars, reviewVars, gateVars,
       ReviewType, ExecutionType, Executors
  <2>5. ExecutionType'
    BY DEF DecideSave, reqVars, reviewVars, gateVars,
       ExecutionType, Executors, Points, Working
  <2>6. QED
    BY <2>1, <2>2, <2>3, <2>4, <2>5
<1>2. BeforeExecution'
  BY DEF DecideSave, reqVars, reviewVars, gateVars,
     JobType, ExecutionType, BeforeExecution, Executors, AbsentJob
<1>3. HasPackage'
  BY DEF DecideSave, reqVars, reviewVars, gateVars,
     JobType, ReviewType, ExecutionType, BeforeExecution, HasPackage, Executors, AbsentJob
<1>4. BuilderAuthorized'
  BY DEF DecideSave, reqVars, reviewVars, gateVars,
     JobType, ReviewType, ExecutionType, BeforeExecution, HasPackage, BuilderAuthorized, Executors, AbsentJob
<1>5. QED
  BY <1>1, <1>2, <1>3, <1>4

\* Every step keeps the invariant.
LEMMA NextQueueInv == QueueInv /\ [Next]_vars => QueueInv'
<1> SUFFICES ASSUME QueueInv, [Next]_vars PROVE QueueInv'
  OBVIOUS
<1>1. CASE Submission
  BY <1>1, KeepsSubmit, KeepsEnableReviews, KeepsSubmitPipeline, KeepsSubmitMode, KeepsAddReplied, KeepsAddRejected, KeepsAddLands, KeepsPipelineTakes DEF Submission
<1>2. CASE \E s \in Slots : Take(s)
  BY <1>2, KeepsTake
<1>3. CASE \E e \in Executors : Execute(e)
  BY <1>3, KeepsResolveProvider, KeepsBindDependencies, KeepsRunResearcher, KeepsOpenReview, KeepsWaitReview, KeepsProvePlan, KeepsOpenGate, KeepsWaitGate, KeepsRunBuilder, KeepsVerifyHash, KeepsFinishPassed, KeepsFinishRoot, KeepsReturn
     DEF Execute
<1>4. CASE \E d \in Deciders : Decide(d)
  BY <1>4, KeepsDecideRead, KeepsDecideSave DEF Decide
<1>5. CASE CancelRun \/ StallDead \/ StallLive \/ OnFailed \/ ApproveBuild \/ Crash
  BY <1>5, KeepsCancelRun, KeepsStallDead, KeepsStallLive, KeepsOnFailed, KeepsApproveBuild, KeepsCrash
<1>6. CASE UNCHANGED vars
  BY <1>6 DEF vars, QueueInv, QueueTypeOK, RequestType, JobType, RunType, ReviewType,
     ExecutionType, BeforeExecution, HasPackage, BuilderAuthorized
<1>7. QED
  BY <1>1, <1>2, <1>3, <1>4, <1>5, <1>6 DEF Next

\* The invariant holds in every reachable state.
THEOREM QueueInvariance == Spec => []QueueInv
  BY InitQueueInv, NextQueueInv, PTL DEF Spec

\* Types hold for every number of slots, reviewers, packages and failures.
THEOREM QueueTypeCorrect == Spec => []QueueTypeOK
  BY QueueInvariance, PTL DEF QueueInv

\* Builder never runs on a package other than the approved one, for every
\* number of concurrent executions of the run (build-review.ts).
THEOREM QueueBuilderAuthorized == Spec => []BuilderAuthorized
  BY QueueInvariance, PTL DEF QueueInv

\* A result is never replaced (the Done guards of queue.ts and
\* workflow-runtime.ts), for every number of executions and failures.
THEOREM QueueDoneIsFinal == Spec => DoneIsFinal
<1> DEFINE Kept == run.status = "Done" => run'.status = "Done" /\ run'.result = run.result
<1>1. ASSUME QueueInv, [Next]_vars PROVE Kept
  <2> USE <1>1
  <2>0. RunType /\ BeforeExecution
    BY DEF QueueInv, QueueTypeOK
  <2>1. CASE UNCHANGED run
    BY <2>1
  <2>2. CASE run' = FinalizedFailure
    BY <2>0, <2>2, FinalizedFailureSnapshot
  <2>3. CASE run' = GuardedRun
    BY <2>0, <2>3, GuardedRunSnapshot
  <2>4. CASE run' = [run EXCEPT !.events = TRUE]
    BY <2>0, <2>4 DEF RunType, Snapshots
  <2>5. CASE Submit
    BY <2>0, <2>5 DEF Submit, BeforeExecution
  <2>6. CASE \E e \in Executors : FinishPassed(e)
    BY <2>0, <2>6 DEF FinishPassed, RunType, Snapshots
  <2>7. QED
    <3>1. CASE Submission
      BY <3>1, <2>1, <2>2, <2>3, <2>4, <2>5 DEF Submission, EnableReviews, SubmitPipeline,
         SubmitMode, RunInline, BeginRun, AddReplied, AddRejected, AddLands, PipelineTakes
    <3>2. CASE \E s \in Slots : Take(s)
      BY <3>2, <2>3 DEF Take, BeginRun
    <3>3. CASE \E e \in Executors : Execute(e)
      BY <3>3, <2>1, <2>2, <2>4, <2>6 DEF Execute, ResolveProvider, BindDependencies,
         RunResearcher, OpenReview, WaitReview, ProvePlan, OpenGate, WaitGate, RunBuilder,
         VerifyHash, FinishPassed, FinishRoot, Return
    <3>4. CASE \E d \in Deciders : Decide(d)
      BY <3>4, <2>1 DEF Decide, DecideRead, DecideSave
    <3>5. CASE CancelRun \/ StallDead \/ StallLive \/ OnFailed \/ ApproveBuild \/ Crash
      BY <3>5, <2>1, <2>2 DEF CancelRun, StallDead, StallLive, OnFailed, ApproveBuild, Crash
    <3>6. CASE UNCHANGED vars
      BY <3>6, <2>1 DEF vars
    <3>7. QED
      BY <3>1, <3>2, <3>3, <3>4, <3>5, <3>6 DEF Next
<1>2. QED
  BY <1>1, QueueInvariance, PTL DEF Spec, DoneIsFinal

\* The approval is of the package on record, and nothing has finished a run whose
\* reviews are still to be requested.
ApprovalInv ==
    /\ approval # None => approval = gate
    /\ req = "enable" => run.status = "Running"
    /\ PassedIsApproved

\* A run that is Passed after a step was so before it, or an execution has just
\* finished it.
LEMMA PassedBefore ==
    ASSUME QueueInv, [Next]_vars, run'.result = "Passed", run.result # "Passed"
    PROVE  \E e \in Executors : FinishPassed(e)
  <1>0. RunType
    BY DEF QueueInv, QueueTypeOK
  <1>1. CASE UNCHANGED run
    BY <1>1
  <1>2. CASE run' = FinalizedFailure
    BY <1>0, <1>2 DEF FinalizedFailure, Finished, RunType, Snapshots
  <1>3. CASE run' = GuardedRun
    BY <1>0, <1>3 DEF GuardedRun, FinalizedFailure, Finished, RunType, Snapshots
  <1>4. CASE run' = [run EXCEPT !.events = TRUE]
    BY <1>0, <1>4 DEF RunType, Snapshots
  <1>5. CASE Submit
    BY <1>0, <1>5 DEF Submit, RunType, Snapshots
  <1>6. CASE Submission
    BY <1>6, <1>1, <1>2, <1>3, <1>4, <1>5 DEF Submission, EnableReviews, SubmitPipeline,
       SubmitMode, RunInline, BeginRun, AddReplied, AddRejected, AddLands, PipelineTakes
  <1>7. CASE \E s \in Slots : Take(s)
    BY <1>7, <1>3 DEF Take, BeginRun
  <1>8. CASE \E e \in Executors : Execute(e)
    BY <1>8, <1>1, <1>2, <1>4 DEF Execute, ResolveProvider, BindDependencies,
       RunResearcher, OpenReview, WaitReview, ProvePlan, OpenGate, WaitGate, RunBuilder,
       VerifyHash, FinishRoot, Return
  <1>9. CASE \E d \in Deciders : Decide(d)
    BY <1>9, <1>1 DEF Decide, DecideRead, DecideSave
  <1>10. CASE CancelRun \/ StallDead \/ StallLive \/ OnFailed \/ ApproveBuild \/ Crash
    BY <1>10, <1>1, <1>2 DEF CancelRun, StallDead, StallLive, OnFailed, ApproveBuild, Crash
  <1>11. CASE UNCHANGED vars
    BY <1>11, <1>1 DEF vars
  <1> QED
    BY <1>6, <1>7, <1>8, <1>9, <1>10, <1>11 DEF Next

\* Until the reviews are requested only the submission itself touches the run.
LEMMA EnableIsUndisturbed ==
    ASSUME QueueInv, [Next]_vars, req' = "enable"
    PROVE  run'.status = "Running" \/ (req = "enable" /\ run'.status = run.status)
  <1>0. /\ RunType
        /\ req = "enable" => job = AbsentJob /\ ~ failedEvent /\ \A e \in Executors : pc[e] = "idle"
    BY DEF QueueInv, QueueTypeOK, BeforeExecution
  <1>1. CASE UNCHANGED <<req, run>>
    BY <1>1
  <1>2. CASE Submission
    <2>1. CASE Submit
      BY <1>0, <2>1 DEF Submit, RunType, Snapshots
    <2>2. CASE PipelineTakes
      BY <1>0, <2>2 DEF PipelineTakes, RunType, Snapshots
    <2>3. CASE AddLands
      BY <1>1, <2>3 DEF AddLands
    <2>4. CASE EnableReviews \/ SubmitPipeline \/ SubmitMode \/ AddReplied \/ AddRejected
      BY <2>4 DEF EnableReviews, SubmitPipeline, SubmitMode, AddReplied, AddRejected, RunInline
    <2> QED
      BY <1>2, <2>1, <2>2, <2>3, <2>4 DEF Submission
  <1>3. CASE \E s \in Slots : Take(s)
    <2>1. req' = req /\ job.state = "waiting"
      BY <1>3 DEF Take, reqVars
    <2> QED
      BY <1>0, <2>1 DEF AbsentJob
  <1>4. CASE \E e \in Executors : Execute(e)
    <2>1. req' = req /\ \E e \in Executors : pc[e] # "idle"
      BY <1>4 DEF Execute, Step, NodeEnds, ResolveProvider, BindDependencies, RunResearcher,
         OpenReview, WaitReview, ProvePlan, OpenGate, WaitGate, RunBuilder, VerifyHash,
         FinishPassed, FinishRoot, Return, reqVars
    <2> QED
      BY <1>0, <2>1
  <1>5. CASE \E d \in Deciders : Decide(d)
    BY <1>1, <1>5 DEF Decide, DecideRead, DecideSave, reqVars
  <1>6. CASE CancelRun \/ StallDead \/ StallLive \/ ApproveBuild
    BY <1>1, <1>6 DEF CancelRun, StallDead, StallLive, ApproveBuild, reqVars
  <1>7. CASE OnFailed \/ Crash
    BY <1>0, <1>7 DEF OnFailed, Crash, reqVars
  <1>8. CASE UNCHANGED vars
    BY <1>1, <1>8 DEF vars
  <1> QED
    BY <1>2, <1>3, <1>4, <1>5, <1>6, <1>7, <1>8 DEF Next

\* The record and its approval, once there, stay; reviews are requested before anything
\* else has happened.
LEMMA RecordStays ==
    ASSUME QueueInv, [Next]_vars
    PROVE  /\ gate # None => gate' = gate
           /\ approval # None => approval' = approval
           /\ approval = None /\ approval' # None => approval' = gate /\ gate' = gate
           /\ requested' /\ ~ requested => req = "enable" /\ run' = run
  <1>1. CASE UNCHANGED <<gate, approval, requested>>
    BY <1>1
  <1>2. CASE Submission
    BY <1>1, <1>2 DEF Submission, Submit, EnableReviews, SubmitPipeline, SubmitMode, AddReplied,
       AddRejected, AddLands, PipelineTakes, gateVars
  <1>3. CASE \E s \in Slots : Take(s)
    BY <1>1, <1>3 DEF Take, gateVars, reqVars
  <1>4. CASE \E e \in Executors : Execute(e)
    BY <1>1, <1>4 DEF Execute, ResolveProvider, BindDependencies, RunResearcher, OpenReview,
       WaitReview, ProvePlan, OpenGate, WaitGate, RunBuilder, VerifyHash, FinishPassed,
       FinishRoot, Return, gateVars, reqVars
  <1>5. CASE \E d \in Deciders : Decide(d)
    BY <1>1, <1>5 DEF Decide, DecideRead, DecideSave, gateVars, reqVars
  <1>6. CASE CancelRun \/ StallDead \/ StallLive \/ OnFailed \/ ApproveBuild \/ Crash
    BY <1>1, <1>6 DEF CancelRun, StallDead, StallLive, OnFailed, ApproveBuild, Crash, gateVars,
       reqVars
  <1>7. CASE UNCHANGED vars
    BY <1>1, <1>7 DEF vars
  <1> QED
    BY <1>2, <1>3, <1>4, <1>5, <1>6, <1>7 DEF Next

\* A reviewed run is reported Passed only on the strength of an approval of the package
\* on record, for every number of executions, reviewers, crashes and lost locks
\* (build-review.ts, finishPassed of workflow-runtime.ts).
THEOREM QueuePassedApproved == Spec => []PassedIsApproved
<1>1. Init => ApprovalInv
  BY DEF Init, ApprovalInv, PassedIsApproved
<1>2. ASSUME QueueInv, ApprovalInv, [Next]_vars PROVE ApprovalInv'
  <2>1. approval' # None => approval' = gate'
    BY <1>2, RecordStays DEF ApprovalInv
  <2>2. req' = "enable" => run'.status = "Running"
    BY <1>2, EnableIsUndisturbed DEF ApprovalInv
  <2>3. ASSUME requested', run'.result = "Passed" PROVE approval' # None
    <3>1. CASE run.result = "Passed" /\ requested
      BY <1>2, <3>1, RecordStays DEF ApprovalInv, PassedIsApproved
    <3>2. CASE ~ requested
      <4>1. req = "enable" /\ run' = run
        BY <1>2, <2>3, <3>2, RecordStays
      <4>2. run.status = "Running" /\ RunType
        BY <1>2, <4>1 DEF ApprovalInv, QueueInv, QueueTypeOK
      <4> QED
        BY <2>3, <4>1, <4>2 DEF RunType, Snapshots
    <3>3. CASE run.result # "Passed" /\ requested
      <4>1. PICK e \in Executors : FinishPassed(e)
        BY <1>2, <2>3, <3>3, PassedBefore
      <4>2. pc[e] = "done" /\ UNCHANGED approval
        BY <4>1 DEF FinishPassed, Step, gateVars
      <4>3. approval = pkg[e] /\ pkg[e] # None
        BY <1>2, <3>3, <4>2 DEF QueueInv, BuilderAuthorized, HasPackage
      <4> QED
        BY <4>2, <4>3
    <3> QED
      BY <3>1, <3>2, <3>3
  <2> QED
    BY <2>1, <2>2, <2>3 DEF ApprovalInv, PassedIsApproved
<1>3. QED
  <2>1. ApprovalInv => PassedIsApproved
    BY DEF ApprovalInv
  <2> QED
    BY <1>1, <1>2, <2>1, QueueInvariance, PTL DEF Spec

\* No draft is decided twice (the lock chain of plan-review.ts), for every
\* number of concurrent review requests, executions and crashes.
THEOREM QueueDecidedOnce == Spec => []DecidedOnce
<1>1. ASSUME Init PROVE DraftOutstanding
  <2>1. /\ seen = [executions |-> 0, opened |-> 0, decided |-> 0,
                  cancelled |-> FALSE, lost |-> FALSE]
        /\ review = "none" /\ lock = None /\ failedEvent = FALSE
    BY <1>1 DEF Init
  <2>2. deciding \in [Deciders -> BOOLEAN] /\ \A d \in Deciders : ~deciding[d]
    BY <1>1 DEF Init
  <2>3. seen \in [executions : Nat, opened : Nat, decided : Nat,
                 cancelled : BOOLEAN, lost : BOOLEAN]
    BY <2>1
  <2>4. seen.decided = 0 /\ seen.opened = 0
    BY <2>1
  <2>5. seen.decided <= seen.opened
    BY <2>4
  <2>6. failedEvent \in BOOLEAN /\ lock \in Deciders \union {None}
    BY <2>1
  <2>7. ~(review = "pending" \/ lock # None)
    BY <2>1
  <2>8. QED
    BY <2>2, <2>3, <2>5, <2>6, <2>7, Zenon DEF DraftOutstanding
<1>2. ASSUME DraftOutstanding, [Next]_vars PROVE DraftOutstanding'
  <2> USE <1>2, QueueAssumption
  <2>1. CASE UNCHANGED <<seen, lock, deciding, review>> /\ failedEvent' \in BOOLEAN
    BY <2>1 DEF DraftOutstanding
  <2>2. CASE Submission
    BY <2>1, <2>2 DEF DraftOutstanding, Submission, Submit, EnableReviews, SubmitPipeline, SubmitMode,
       AddReplied, AddRejected, AddLands, PipelineTakes, reviewVars
  <2>3. CASE CancelRun
    BY <2>3 DEF DraftOutstanding, CancelRun, reviewVars
  <2>4. CASE (\E s \in Slots : Take(s)) \/ StallDead \/ StallLive \/ OnFailed \/ ApproveBuild
    BY <2>1, <2>4 DEF DraftOutstanding, Take, StallDead, StallLive, Restalled, OnFailed,
       ApproveBuild, reviewVars
  <2>5. ASSUME NEW e \in Executors, Execute(e) PROVE DraftOutstanding'
    <3>1. CASE ResolveProvider(e)
      BY <3>1 DEF DraftOutstanding, ResolveProvider, reviewVars
    <3>2. CASE OpenReview(e)
      BY <3>2 DEF DraftOutstanding, OpenReview
    <3>3. QED
      BY <2>1, <2>5, <3>1, <3>2 DEF DraftOutstanding, Execute, BindDependencies, RunResearcher,
         WaitReview, ProvePlan, OpenGate, WaitGate, RunBuilder, VerifyHash, FinishPassed,
         FinishRoot, Return, reviewVars
  <2>6. ASSUME NEW d \in Deciders, DecideRead(d) PROVE DraftOutstanding'
    BY <2>6 DEF DraftOutstanding, DecideRead
  <2>7. ASSUME NEW d \in Deciders, DecideSave(d) PROVE DraftOutstanding'
    BY <2>7 DEF DraftOutstanding, DecideSave
  <2>8. CASE Crash
    BY <2>8 DEF DraftOutstanding, Crash
  <2>9. CASE UNCHANGED vars
    BY <2>9 DEF DraftOutstanding, vars
  <2>10. QED
    BY <2>2, <2>3, <2>4, <2>5, <2>6, <2>7, <2>8, <2>9 DEF Next, Decide
<1>3. DraftOutstanding => DecidedOnce
  BY DEF DraftOutstanding, DecidedOnce
<1>4. QED
  BY <1>1, <1>2, <1>3, PTL DEF Spec

-----------------------------------------------------------------------------
(***************************************************************************)
(* The browser that follows the run (RunView), for any runs, logs, effects *)
(* and failures.  The lemmas are about a log l, an effect e and what is    *)
(* shown, sh with the card cd.                                             *)
(***************************************************************************)

EffectRecords ==
    [run : Followed, aborted : BOOLEAN, conn : {"down", "up", "closed"}, coming : SUBSET Nat,
     seen : SUBSET Nat, phase : {"idle", "snapshot", "artifacts", "apply"}, pending : BOOLEAN,
     snap : Nat, over : BOOLEAN, bundle : Nat]
ShownRecords ==
    [run : Followed \cup {NoRun}, events : SUBSET Nat, done : BOOLEAN, bundle : Nat, version : Nat]
Cards == [key : Nat, base : Nat, of : Followed \cup {NoRun}, carried : BOOLEAN]

\* Completions, bundleVersion and IsDone, of a log instead of a run.
Comp(l, n) == {i \in 1..n : l[i] = "research"}
Top(l, n) == Max(Comp(l, n) \cup {0})
Over(l, n) == \E i \in 1..n : l[i] = "done"

\* A log has a last completion, none without a bundle, and no Done before the status.
Topped(l, n) == \E t \in Comp(l, n) \cup {0} : \A x \in Comp(l, n) \cup {0} : x <= t
LogOK(l, version, fin, bound) ==
    /\ Cardinality(Comp(l, Len(l))) <= version /\ version <= bound
    /\ \A n \in 0..Len(l) : Topped(l, n)
    /\ Over(l, Len(l)) => fin

\* What an effect holds is of its run's log; the bundle and the status it holds are no
\* older than the events of its snapshot.
FetchOK(e, l) ==
    /\ e.seen \subseteq 1..Len(l) /\ e.coming \subseteq 1..Len(l) /\ e.snap \in 0..Len(l)
    /\ e.phase = "apply" => Cardinality(Comp(l, e.snap)) <= e.bundle
    /\ e.phase \in {"artifacts", "apply"} => (Over(l, e.snap) => e.over)

\* The snapshot an effect holds is no older than the one that is shown.
FlightOK(e, l, sh) ==
    e.phase \in {"artifacts", "apply"} /\ sh.run = e.run =>
        sh.version \in Comp(l, e.snap) \cup {0} /\ (sh.done => e.over)

\* Before the run is shown its events are missed, and afterwards they are shown.
KeptOK(e, sh, lost) ==
    /\ sh.run = e.run => e.seen \ lost \subseteq sh.events
    /\ sh.run # e.run => e.seen \subseteq lost

\* RefreshIsNotForgotten, of one effect.
Asked(e, l, sh, i) ==
    \/ sh.run = e.run /\ sh.version >= Top(l, i) /\ (l[i] = "done" => sh.done)
    \/ e.phase = "snapshot" \/ e.pending
    \/ e.phase \in {"artifacts", "apply"} /\ e.snap >= i
AskedOK(e, l, sh) == \A i \in e.seen : eventNeedsSnapshot(l[i]) => Asked(e, l, sh, i)

LiveOK(e, l, sh, err, lost) ==
    FlightOK(e, l, sh) /\ KeptOK(e, sh, lost) /\ (~err => AskedOK(e, l, sh))

\* The card is no older than its key, unless a restore has carried it over.
CardOK(cd, l, r) ==
    cd.key # 0 /\ ~cd.carried =>
        cd.of = r /\ cd.key \in 0..Len(l) /\ Cardinality(Comp(l, cd.key)) <= cd.base

\* What is shown is of its run's log; that run is the selected one, unless a restore
\* has left it, and with it no card or one that is carried over.
ShownOK(sh, cd, l, fin, sel, left) ==
    /\ sh.run = NoRun => cd.key = 0
    /\ sh.run # NoRun =>
          /\ sh.run \in {sel, left} /\ (sh.run # sel => cd.key = 0 \/ cd.carried)
          /\ sh.events \subseteq 1..Len(l)
          /\ sh.version \in Comp(l, Len(l)) \cup {0} /\ (sh.done => fin)
          /\ CardOK(cd, l, sh.run)

ViewTypes ==
    /\ log \in [Followed -> Seq(Kinds)] /\ finished \in [Followed -> BOOLEAN]
    /\ rev \in [Followed -> Nat] /\ leftover \in Followed \cup {NoRun}
    /\ selected \in Followed \cup {NoRun} /\ cur \in Nat
    /\ effects \in Seq(EffectRecords) /\ shown \in ShownRecords /\ card \in Cards
    /\ error \in BOOLEAN

LogsInv == \A r \in Followed : LogOK(log[r], rev[r], finished[r], MaxLog[r])
FetchInv == \A g \in DOMAIN effects : FetchOK(effects[g], log[effects[g].run])
OverInv == \A g \in DOMAIN effects : effects[g].over => finished[effects[g].run]
LiveInv ==
    \A g \in DOMAIN effects : ~effects[g].aborted =>
        /\ g = cur /\ effects[g].run = selected
        /\ LiveOK(effects[g], log[effects[g].run], shown, error, missed)
ShownInv == ShownOK(shown, card, log[shown.run], finished[shown.run], selected, leftover)

ViewInv == ViewTypes /\ LogsInv /\ FetchInv /\ OverInv /\ LiveInv /\ ShownInv

LEMMA CompFacts ==
    ASSUME NEW l, NEW n \in Nat
    PROVE  /\ IsFiniteSet(Comp(l, n)) /\ Cardinality(Comp(l, n)) \in Nat
           /\ Cardinality(Comp(l, n)) <= n
           /\ \A m \in 0..n : /\ Comp(l, m) \subseteq Comp(l, n)
                              /\ Cardinality(Comp(l, m)) \in Nat
                              /\ Cardinality(Comp(l, m)) <= Cardinality(Comp(l, n))
  <1>1. IsFiniteSet(1..n) /\ Cardinality(1..n) = n
    BY FS_Interval
  <1>2. Comp(l, n) \in SUBSET (1..n)
    BY DEF Comp
  <1>3. IsFiniteSet(Comp(l, n)) /\ Cardinality(Comp(l, n)) <= n
    BY <1>1, <1>2, FS_Subset
  <1>4. ASSUME NEW m \in 0..n
        PROVE  /\ Comp(l, m) \in SUBSET Comp(l, n)
               /\ IsFiniteSet(Comp(l, m)) /\ Cardinality(Comp(l, m)) <= Cardinality(Comp(l, n))
    <2>1. Comp(l, m) \in SUBSET Comp(l, n)
      BY DEF Comp
    <2> QED
      BY <1>3, <2>1, FS_Subset
  <1> QED
    BY <1>3, <1>4, FS_CardinalityType

LEMMA TopFacts ==
    ASSUME NEW l, NEW n \in Nat, Topped(l, n)
    PROVE  /\ Top(l, n) \in Comp(l, n) \cup {0} /\ Top(l, n) \in 0..n
           /\ \A x \in Comp(l, n) \cup {0} : x <= Top(l, n)
  <1> DEFINE S == Comp(l, n) \cup {0}
  <1>1. S \subseteq 0..n
    BY DEF Comp
  <1>2. \E t \in S : \A x \in S : x <= t
    BY DEF Topped
  <1>3. Top(l, n) = CHOOSE t \in S : \A x \in S : t >= x
    BY DEF Top, Max
  <1> HIDE DEF S
  <1>4. \E t \in S : \A x \in S : t >= x
    BY <1>1, <1>2
  <1>5. Top(l, n) \in S /\ \A x \in S : Top(l, n) >= x
    BY <1>3, <1>4
  <1> QED
    BY <1>1, <1>5 DEF S

\* A later snapshot has a later version.
LEMMA TopGrows ==
    ASSUME NEW l, NEW n \in Nat, NEW m \in 0..n, Topped(l, m), Topped(l, n)
    PROVE  Top(l, m) <= Top(l, n)
  <1>1. Top(l, m) \in Comp(l, m) \cup {0}
    BY TopFacts
  <1>2. Comp(l, m) \subseteq Comp(l, n)
    BY CompFacts
  <1> QED
    BY <1>1, <1>2, TopFacts

\* The log k goes on where l ends.
Grown(l, k) ==
    /\ Len(l) \in Nat /\ Len(k) = Len(l) + 1
    /\ \A i \in 1..Len(l) : k[i] = l[i]
    /\ \A n \in 0..Len(l) : Comp(k, n) = Comp(l, n) /\ Top(k, n) = Top(l, n) /\ Over(k, n) = Over(l, n)
    /\ Comp(l, Len(l)) \subseteq Comp(k, Len(k)) /\ (Over(l, Len(l)) => Over(k, Len(k)))

\* Another event leaves what the earlier ones say.
LEMMA LogGrows ==
    ASSUME NEW l \in Seq(Kinds), NEW kind \in Kinds, NEW k, k = Append(l, kind)
    PROVE  /\ Grown(l, k) /\ k \in Seq(Kinds)
           /\ kind # "research" => Comp(k, Len(k)) = Comp(l, Len(l))
           /\ kind = "research" => Comp(k, Len(k)) = Comp(l, Len(l)) \cup {Len(l) + 1}
           /\ Over(k, Len(k)) => Over(l, Len(l)) \/ kind = "done"
  <1>1. /\ k \in Seq(Kinds) /\ Len(l) \in Nat /\ Len(k) = Len(l) + 1
        /\ k[Len(l) + 1] = kind /\ \A i \in 1..Len(l) : k[i] = l[i]
    OBVIOUS
  <1>2. ASSUME NEW n \in 0..Len(l)
        PROVE  Comp(k, n) = Comp(l, n) /\ Top(k, n) = Top(l, n) /\ Over(k, n) = Over(l, n)
    <2>1. \A i \in 1..n : k[i] = l[i]
      BY <1>1
    <2>2. Comp(k, n) = Comp(l, n)
      BY <2>1 DEF Comp
    <2>3. Over(k, n) = Over(l, n)
      BY <2>1 DEF Over
    <2> QED
      BY <2>2, <2>3 DEF Top
  <1>3. Comp(l, Len(l)) \subseteq Comp(k, Len(k))
    BY <1>1 DEF Comp
  <1>4. Over(l, Len(l)) => Over(k, Len(k))
    BY <1>1 DEF Over
  <1>5. ASSUME kind # "research" PROVE Comp(k, Len(k)) = Comp(l, Len(l))
    BY <1>1, <1>5 DEF Comp
  <1>6. ASSUME kind = "research" PROVE Comp(k, Len(k)) = Comp(l, Len(l)) \cup {Len(l) + 1}
    BY <1>1, <1>6 DEF Comp
  <1>7. ASSUME Over(k, Len(k)) PROVE Over(l, Len(l)) \/ kind = "done"
    BY <1>1, <1>7 DEF Over
  <1> QED
    BY <1>1, <1>2, <1>3, <1>4, <1>5, <1>6, <1>7 DEF Grown

\* Every part of the invariant outlives another event.
LEMMA GrowthKeeps ==
    ASSUME NEW l, NEW k, Grown(l, k)
    PROVE  /\ \A e \in EffectRecords : FetchOK(e, l) => FetchOK(e, k)
           /\ \A e \in EffectRecords, sh \in ShownRecords : \A err, lost :
                 FetchOK(e, l) /\ LiveOK(e, l, sh, err, lost) => LiveOK(e, k, sh, err, lost)
           /\ \A sh, cd, fin, sel, left :
                 ShownOK(sh, cd, l, fin, sel, left) => ShownOK(sh, cd, k, fin, sel, left)
  <1>1. /\ Len(l) \in Nat /\ Len(k) = Len(l) + 1 /\ \A i \in 1..Len(l) : k[i] = l[i]
        /\ \A n \in 0..Len(l) : /\ Comp(k, n) = Comp(l, n) /\ Top(k, n) = Top(l, n)
                                /\ Over(k, n) = Over(l, n)
        /\ Comp(l, Len(l)) \subseteq Comp(k, Len(k)) /\ (Over(l, Len(l)) => Over(k, Len(k)))
    BY DEF Grown
  <1>2. 1..Len(l) \subseteq 1..Len(k) /\ 0..Len(l) \subseteq 0..Len(k)
    BY <1>1
  <1>3. ASSUME NEW e \in EffectRecords, FetchOK(e, l) PROVE FetchOK(e, k)
    BY <1>1, <1>2, <1>3 DEF FetchOK
  <1>4. ASSUME NEW e \in EffectRecords, NEW sh \in ShownRecords, NEW err, NEW lost,
               FetchOK(e, l), LiveOK(e, l, sh, err, lost)
        PROVE  LiveOK(e, k, sh, err, lost)
    <2>1. e.snap \in 0..Len(l) /\ e.seen \subseteq 1..Len(l)
      BY <1>4 DEF FetchOK
    <2>2. FlightOK(e, k, sh)
      BY <1>1, <1>4, <2>1 DEF LiveOK, FlightOK
    <2>3. ASSUME NEW i \in e.seen, Asked(e, l, sh, i) PROVE Asked(e, k, sh, i)
      BY <1>1, <2>1, <2>3 DEF Asked
    <2>4. AskedOK(e, l, sh) => AskedOK(e, k, sh)
      BY <1>1, <2>1, <2>3 DEF AskedOK
    <2> QED
      BY <1>4, <2>2, <2>4 DEF LiveOK
  <1>5. ASSUME NEW sh, NEW cd, NEW fin, NEW sel, NEW left, ShownOK(sh, cd, l, fin, sel, left)
        PROVE  ShownOK(sh, cd, k, fin, sel, left)
    <2>1. CardOK(cd, l, sh.run) => CardOK(cd, k, sh.run)
      BY <1>1, <1>2 DEF CardOK
    <2> QED
      BY <1>1, <1>2, <1>5, <2>1 DEF ShownOK
  <1> QED
    BY <1>3, <1>4, <1>5

LEMMA ViewFacts ==
    ASSUME ViewInv
    PROVE  /\ \A r \in Followed : log[r] \in Seq(Kinds) /\ Len(log[r]) \in Nat /\ rev[r] \in Nat
           /\ \A r \in Followed : finished[r] \in BOOLEAN
           /\ Len(effects) \in Nat /\ DOMAIN effects = 1..Len(effects)
           /\ \A g \in DOMAIN effects : effects[g] \in EffectRecords /\ effects[g].run \in Followed
  <1>1. /\ effects \in Seq(EffectRecords) /\ log \in [Followed -> Seq(Kinds)]
        /\ rev \in [Followed -> Nat] /\ finished \in [Followed -> BOOLEAN]
    BY DEF ViewInv, ViewTypes
  <1>2. \A e \in EffectRecords : e.run \in Followed
    BY DEF EffectRecords
  <1> QED
    BY <1>1, <1>2

LEMMA WriteBundleKeeps ==
    ASSUME ViewInv, NEW r \in Followed, WriteBundle(r)
    PROVE  ViewInv'
  <1> USE ViewFacts
  <1>1. /\ rev' = [rev EXCEPT ![r] = rev[r] + 1] /\ Len(log[r]) + 1 < MaxLog[r]
        /\ rev[r] = Cardinality(Comp(log[r], Len(log[r])))
        /\ UNCHANGED <<log, finished, selected, cur, effects, shown, card, leftover, error, missed>>
    BY DEF WriteBundle, Completions, Comp, choice, onScreen
  <1>2. rev[r] <= Len(log[r]) /\ MaxLog[r] \in Nat
    BY <1>1, CompFacts, RunViewAssumption
  <1>3. rev' \in [Followed -> Nat] /\ rev'[r] = rev[r] + 1 /\ \A q \in Followed \ {r} : rev'[q] = rev[q]
    BY <1>1 DEF ViewInv, ViewTypes
  <1>4. LogOK(log[r], rev'[r], finished[r], MaxLog[r])
    BY <1>1, <1>2, <1>3 DEF ViewInv, LogsInv, LogOK
  <1>5. LogsInv'
    BY <1>1, <1>3, <1>4 DEF ViewInv, LogsInv
  <1> QED
    BY <1>1, <1>3, <1>5 DEF ViewInv, ViewTypes, FetchInv, OverInv, OverInv, LiveInv, ShownInv

LEMMA FinishKeeps ==
    ASSUME ViewInv, NEW r \in Followed, Finish(r)
    PROVE  ViewInv'
  <1>1. /\ finished' = [finished EXCEPT ![r] = TRUE]
        /\ UNCHANGED <<log, rev, selected, cur, effects, shown, card, leftover, error, missed>>
    BY DEF Finish, choice, onScreen
  <1>2. /\ finished' \in [Followed -> BOOLEAN] /\ finished'[r] = TRUE
        /\ \A q \in Followed \ {r} : finished'[q] = finished[q]
    BY <1>1 DEF ViewInv, ViewTypes
  <1>3. \A q \in Followed : finished[q] => finished'[q]
    BY <1>2
  <1>4. LogsInv'
    BY <1>1, <1>3 DEF ViewInv, LogsInv, LogOK
  <1>5. ShownInv'
    <2>1. shown.run \in Followed \cup {NoRun}
      BY DEF ViewInv, ViewTypes, ShownRecords
    <2> QED
      BY <1>1, <1>3, <2>1 DEF ViewInv, ShownInv, ShownOK
  <1>6. OverInv'
    <2>1. \A g \in DOMAIN effects : effects[g].run \in Followed
      BY ViewFacts
    <2> QED
      BY <1>1, <1>3, <2>1 DEF ViewInv, OverInv
  <1> QED
    BY <1>1, <1>2, <1>4, <1>5, <1>6 DEF ViewInv, ViewTypes, FetchInv, LiveInv

\* The stream's connection, and what it brings, is no matter of the invariant.
LEMMA ConnFacts ==
    ASSUME NEW e \in EffectRecords, NEW f \in EffectRecords, NEW l, NEW sh, NEW err, NEW lost,
           f.run = e.run, f.aborted = e.aborted, f.seen = e.seen, f.snap = e.snap,
           f.bundle = e.bundle, f.over = e.over, f.phase = e.phase, f.pending = e.pending,
           f.coming \subseteq 1..Len(l), FetchOK(e, l)
    PROVE  FetchOK(f, l) /\ (LiveOK(e, l, sh, err, lost) => LiveOK(f, l, sh, err, lost))
  <1>1. FetchOK(f, l)
    BY DEF FetchOK
  <1>2. /\ FlightOK(e, l, sh) => FlightOK(f, l, sh)
        /\ KeptOK(e, sh, lost) => KeptOK(f, sh, lost)
    BY DEF FlightOK, KeptOK
  <1>3. AskedOK(e, l, sh) => AskedOK(f, l, sh)
    BY DEF AskedOK, Asked
  <1> QED
    BY <1>1, <1>2, <1>3 DEF LiveOK

\* An event that is sent is on its way, and that is all it changes.
LEMMA SentFacts ==
    ASSUME NEW g \in DOMAIN effects, effects[g] \in EffectRecords, NEW r \in Followed, NEW kind,
           Len(log[r]) \in Nat
    PROVE  LET e == effects[g]
               f == Sent(g, r, kind)
           IN /\ f \in EffectRecords /\ f.run = e.run /\ f.aborted = e.aborted /\ f.seen = e.seen
              /\ f.snap = e.snap /\ f.bundle = e.bundle /\ f.over = e.over /\ f.phase = e.phase
              /\ f.pending = e.pending
              /\ f.coming = e.coming \/ (e.run = r /\ f.coming = e.coming \cup {Len(log[r]) + 1})
  <1> DEFINE e == effects[g]
             all == e.coming \cup {Len(log[r]) + 1}
  <1>1. all \in SUBSET Nat
    BY DEF EffectRecords
  <1>2. \/ Sent(g, r, kind) = e
        \/ e.run = r /\ Sent(g, r, kind) = [e EXCEPT !.coming = all]
    BY DEF Sent
  <1> HIDE DEF e, all
  <1>3. e \in EffectRecords
    BY DEF e
  <1> QED
    BY <1>1, <1>2, <1>3 DEF EffectRecords, e, all

LEMMA PublishKeeps ==
    ASSUME ViewInv, NEW r \in Followed, NEW kind \in Kinds, Publish(r, kind)
    PROVE  ViewInv'
  <1> DEFINE l == log[r]
             k == Append(log[r], kind)
  <1>1. /\ log' = [log EXCEPT ![r] = k]
        /\ (kind = "research") = (rev[r] > Cardinality(Comp(l, Len(l))))
        /\ effects' = [g \in DOMAIN effects |-> Sent(g, r, kind)]
        /\ kind = "done" => finished[r]
        /\ UNCHANGED <<finished, rev, selected, cur, shown, card, leftover, error, missed>>
    BY DEF Publish, Completions, Comp, choice, onScreen
  <1>2. l \in Seq(Kinds) /\ rev[r] \in Nat /\ k = Append(l, kind)
    BY ViewFacts
  <1>3. LogOK(l, rev[r], finished[r], MaxLog[r])
    BY DEF ViewInv, LogsInv
  <1> HIDE DEF l, k
  <1>4. /\ Grown(l, k) /\ k \in Seq(Kinds)
        /\ kind # "research" => Comp(k, Len(k)) = Comp(l, Len(l))
        /\ kind = "research" => Comp(k, Len(k)) = Comp(l, Len(l)) \cup {Len(l) + 1}
        /\ Over(k, Len(k)) => Over(l, Len(l)) \/ kind = "done"
    BY <1>2, LogGrows
  <1>5. Len(l) \in Nat /\ Len(k) = Len(l) + 1
    BY <1>4 DEF Grown
  <1>6. IsFiniteSet(Comp(l, Len(l))) /\ Cardinality(Comp(l, Len(l))) \in Nat
    BY <1>5, CompFacts
  <1>7. Len(l) + 1 \notin Comp(l, Len(l))
    BY <1>5 DEF Comp
  <1>8. Cardinality(Comp(k, Len(k))) <= rev[r]
    <2>1. CASE kind = "research"
      <3>1. Cardinality(Comp(k, Len(k))) = Cardinality(Comp(l, Len(l))) + 1
        BY <1>4, <1>6, <1>7, <2>1, FS_AddElement
      <3> QED
        BY <1>1, <1>2, <1>6, <2>1, <3>1
    <2>2. CASE kind # "research"
      BY <1>3, <1>4, <2>2 DEF LogOK
    <2> QED
      BY <2>1, <2>2
  <1>9. ASSUME NEW n \in 0..Len(k) PROVE Topped(k, n)
    <2>1. CASE n \in 0..Len(l)
      BY <1>3, <1>4, <2>1 DEF Grown, Topped, LogOK
    <2>2. CASE n = Len(k) /\ kind # "research"
      <3>1. Topped(l, Len(l))
        BY <1>3, <1>5 DEF LogOK
      <3> QED
        BY <1>4, <2>2, <3>1 DEF Topped
    <2>3. CASE n = Len(k) /\ kind = "research"
      <3>1. Len(k) \in Comp(k, Len(k))
        BY <1>4, <1>5, <2>3
      <3>2. \A x \in Comp(k, Len(k)) \cup {0} : x <= Len(k)
        BY <1>5 DEF Comp
      <3> QED
        BY <2>3, <3>1, <3>2 DEF Topped
    <2> QED
      BY <1>5, <2>1, <2>2, <2>3
  <1>10. LogOK(k, rev[r], finished[r], MaxLog[r])
    BY <1>1, <1>3, <1>4, <1>8, <1>9 DEF LogOK
  <1>11. log' \in [Followed -> Seq(Kinds)] /\ log'[r] = k /\ \A q \in Followed \ {r} : log'[q] = log[q]
    BY <1>1, <1>4 DEF ViewInv, ViewTypes
  <1>12. /\ \A e \in EffectRecords : FetchOK(e, l) => FetchOK(e, k)
         /\ \A e \in EffectRecords, sh \in ShownRecords : \A err, lost :
               FetchOK(e, l) /\ LiveOK(e, l, sh, err, lost) => LiveOK(e, k, sh, err, lost)
         /\ \A sh, cd, fin, sel, left :
               ShownOK(sh, cd, l, fin, sel, left) => ShownOK(sh, cd, k, fin, sel, left)
    BY <1>4, GrowthKeeps
  <1>13. ASSUME NEW g \in DOMAIN effects
         PROVE  /\ effects'[g] \in EffectRecords /\ effects'[g].run = effects[g].run
                /\ effects'[g].aborted = effects[g].aborted /\ effects'[g].over = effects[g].over
                /\ FetchOK(effects'[g], log'[effects'[g].run])
                /\ ~effects[g].aborted =>
                       LiveOK(effects'[g], log'[effects'[g].run], shown, error, missed)
    <2> DEFINE e == effects[g]
               f == effects'[g]
               m == log'[e.run]
    <2>1. /\ e \in EffectRecords /\ e.run \in Followed /\ FetchOK(e, log[e.run])
          /\ ~e.aborted => LiveOK(e, log[e.run], shown, error, missed)
          /\ shown \in ShownRecords /\ Len(log[r]) \in Nat
      BY ViewFacts DEF ViewInv, ViewTypes, FetchInv, LiveInv
    <2>2. f = Sent(g, r, kind)
      BY <1>1
    <2> HIDE DEF e, f, m
    <2>3. /\ f \in EffectRecords /\ f.run = e.run /\ f.aborted = e.aborted /\ f.seen = e.seen
          /\ f.snap = e.snap /\ f.bundle = e.bundle /\ f.over = e.over /\ f.phase = e.phase
          /\ f.pending = e.pending
          /\ f.coming = e.coming \/ (e.run = r /\ f.coming = e.coming \cup {Len(log[r]) + 1})
      BY <2>1, <2>2, SentFacts DEF e
    <2>4. FetchOK(e, m) /\ (~e.aborted => LiveOK(e, m, shown, error, missed))
      <3>1. CASE e.run = r
        <4>1. m = k /\ log[e.run] = l
          BY <1>11, <3>1 DEF m, l
        <4> QED
          BY <1>12, <2>1, <4>1
      <3>2. CASE e.run # r
        <4>1. m = log[e.run]
          BY <1>11, <2>1, <3>2 DEF m
        <4> QED
          BY <2>1, <4>1
      <3> QED
        BY <3>1, <3>2
    <2>5. f.coming \subseteq 1..Len(m)
      <3>1. e.coming \subseteq 1..Len(m)
        BY <2>4 DEF FetchOK
      <3>2. e.run = r => Len(log[r]) + 1 \in 1..Len(m)
        <4> SUFFICES ASSUME e.run = r PROVE Len(log[r]) + 1 \in 1..Len(m)
          OBVIOUS
        <4>1. m = k
          BY <1>11 DEF m
        <4> QED
          BY <1>5, <4>1 DEF l
      <3> QED
        BY <2>3, <3>1, <3>2
    <2>6. FetchOK(f, m) /\ (LiveOK(e, m, shown, error, missed) => LiveOK(f, m, shown, error, missed))
      BY <2>1, <2>3, <2>4, <2>5, ConnFacts
    <2> QED
      BY <2>3, <2>4, <2>6 DEF e, f, m
  <1>14. DOMAIN effects' = DOMAIN effects /\ effects' \in Seq(EffectRecords)
    <2>1. Len(effects) \in Nat /\ DOMAIN effects = 1..Len(effects)
      BY ViewFacts
    <2>2. DOMAIN effects' = DOMAIN effects /\ effects' = [g \in 1..Len(effects) |-> effects'[g]]
      BY <1>1, <2>1
    <2>3. effects' \in [1..Len(effects) -> EffectRecords]
      BY <1>13, <2>1, <2>2
    <2> QED
      BY <2>1, <2>2, <2>3
  <1>15. ViewTypes' /\ LogsInv'
    BY <1>1, <1>10, <1>11, <1>14 DEF ViewInv, ViewTypes, LogsInv
  <1>16. FetchInv' /\ LiveInv' /\ OverInv'
    BY <1>1, <1>13, <1>14 DEF ViewInv, FetchInv, LiveInv, OverInv
  <1>17. ShownInv'
    <2>1. /\ ShownOK(shown, card, log[shown.run], finished[shown.run], selected, leftover)
          /\ shown.run \in Followed \cup {NoRun}
      BY DEF ViewInv, ShownInv, ViewTypes, ShownRecords
    <2>2. CASE shown.run = r
      BY <1>1, <1>11, <1>12, <2>1, <2>2 DEF ShownInv, l
    <2>3. CASE shown.run = NoRun
      BY <1>1, <2>1, <2>3 DEF ShownInv, ShownOK
    <2>4. CASE shown.run \in Followed \ {r}
      BY <1>1, <1>11, <2>1, <2>4 DEF ShownInv
    <2> QED
      BY <2>1, <2>2, <2>3, <2>4
  <1> QED
    BY <1>15, <1>16, <1>17 DEF ViewInv

\* A refresh that is over holds nothing.
LEMMA EndedFacts ==
    ASSUME NEW e \in EffectRecords
    PROVE  LET f == Ended(e) IN
           /\ f \in EffectRecords /\ f.run = e.run /\ f.aborted = e.aborted /\ f.seen = e.seen
           /\ f.coming = e.coming /\ f.snap = 0 /\ f.phase = "idle" /\ f.pending = e.pending
           /\ f.over = FALSE
  BY DEF Ended, EffectRecords

\* An aborted effect holds no more than before, and nothing it holds matters.
LEMMA AbortedFacts ==
    ASSUME NEW e \in EffectRecords, NEW l, Len(l) \in Nat, FetchOK(e, l)
    PROVE  /\ Aborted(e) \in EffectRecords /\ Aborted(e).aborted /\ Aborted(e).run = e.run
           /\ FetchOK(Aborted(e), l) /\ (Aborted(e).over => e.over)
  <1> DEFINE d == IF e.phase = "apply" THEN e ELSE Ended(e)
             c == [d EXCEPT !.aborted = TRUE, !.conn = "down", !.pending = FALSE]
             none == {}
             b == [c EXCEPT !.coming = none, !.seen = none]
             f == Aborted(e)
  <1>1. /\ d \in EffectRecords /\ d.run = e.run
        /\ (d = e \/ (d.snap = 0 /\ d.phase = "idle")) /\ (d.over => e.over)
    BY EndedFacts
  <1> HIDE DEF d
  <1>2. /\ c \in EffectRecords /\ c.aborted /\ c.run = d.run
        /\ c.snap = d.snap /\ c.phase = d.phase /\ c.bundle = d.bundle /\ c.over = d.over
    BY <1>1 DEF EffectRecords
  <1>3. none \in SUBSET Nat /\ none = {}
    OBVIOUS
  <1> HIDE DEF c, none
  <1>4. /\ b \in EffectRecords /\ b.aborted = c.aborted /\ b.run = c.run /\ b.seen = none
        /\ b.coming = none /\ b.snap = c.snap /\ b.phase = c.phase /\ b.bundle = c.bundle
        /\ b.over = c.over
    BY <1>2, <1>3 DEF EffectRecords
  <1>5. f = b
    BY <1>1, <1>3 DEF Aborted, EffectRecords, b, c, d
  <1> HIDE DEF b, f
  <1>6. f \in EffectRecords /\ f.aborted /\ f.run = e.run
    BY <1>1, <1>2, <1>4, <1>5
  <1>7. /\ f.seen = {} /\ f.coming = {} /\ f.snap = d.snap /\ f.phase = d.phase
        /\ f.bundle = d.bundle /\ f.over = d.over
    BY <1>2, <1>3, <1>4, <1>5
  <1>8. FetchOK(f, l)
    <2>1. CASE d = e
      BY <1>7, <2>1 DEF FetchOK
    <2>2. CASE d.snap = 0 /\ d.phase = "idle"
      BY <1>7, <2>2 DEF FetchOK
    <2> QED
      BY <1>1, <2>1, <2>2
  <1> QED
    BY <1>1, <1>6, <1>7, <1>8 DEF f

\* After the cleanup every effect is aborted.
LEMMA StoppedFacts ==
    ASSUME ViewInv
    PROVE  /\ DOMAIN Stopped = DOMAIN effects /\ Stopped \in Seq(EffectRecords)
           /\ Len(Stopped) = Len(effects)
           /\ \A g \in DOMAIN effects : /\ Stopped[g].aborted
                                        /\ FetchOK(Stopped[g], log[Stopped[g].run])
                                        /\ Stopped[g].over => finished[Stopped[g].run]
  <1>1. Len(effects) \in Nat /\ DOMAIN effects = 1..Len(effects)
    BY ViewFacts
  <1>2. DOMAIN Stopped = DOMAIN effects /\ Stopped = [g \in 1..Len(effects) |-> Stopped[g]]
    BY <1>1 DEF Stopped
  <1>3. ASSUME NEW g \in DOMAIN effects
        PROVE  /\ Stopped[g] \in EffectRecords /\ Stopped[g].aborted
               /\ FetchOK(Stopped[g], log[Stopped[g].run])
               /\ Stopped[g].over => finished[Stopped[g].run]
    <2>1. /\ effects[g] \in EffectRecords /\ effects[g].run \in Followed
          /\ FetchOK(effects[g], log[effects[g].run]) /\ Len(log[effects[g].run]) \in Nat
          /\ effects[g].aborted \/ g = cur
          /\ effects[g].over => finished[effects[g].run]
      BY ViewFacts DEF ViewInv, FetchInv, OverInv, LiveInv
    <2>2. CASE g = cur
      <3>1. Stopped[g] = Aborted(effects[g])
        BY <2>2 DEF Stopped
      <3> QED
        BY <2>1, <3>1, AbortedFacts
    <2>3. CASE g # cur
      <3>1. Stopped[g] = effects[g]
        BY <2>3 DEF Stopped
      <3> QED
        BY <2>1, <2>3, <3>1
    <2> QED
      BY <2>2, <2>3
  <1>4. Stopped \in [1..Len(effects) -> EffectRecords]
    BY <1>1, <1>2, <1>3
  <1> QED
    BY <1>1, <1>2, <1>3, <1>4

LEMMA StartedFacts ==
    ASSUME NEW r \in Followed, NEW l, Len(l) \in Nat
    PROVE  /\ Started(r) \in EffectRecords /\ Started(r).run = r /\ FetchOK(Started(r), l)
           /\ ~Started(r).over
           /\ \A sh, err : LiveOK(Started(r), l, sh, err, {})
  BY DEF Started, EffectRecords, FetchOK, LiveOK, FlightOK, KeptOK, AskedOK

LEMMA RestartKeeps ==
    ASSUME ViewInv, NEW r \in Followed, Restarted(r), selected' = r, UNCHANGED server,
           shown' \in ShownRecords, card' \in Cards, leftover' \in Followed \cup {NoRun},
           error' \in BOOLEAN, ShownInv'
    PROVE  ViewInv'
  <1> DEFINE n == Len(effects)
             new == Started(r)
             stopped == Stopped
  <1>1. /\ effects' = Append(stopped, new) /\ cur' = n + 1 /\ missed' = {}
        /\ UNCHANGED <<log, finished, rev>>
    BY DEF Restarted, server
  <1>2. n \in Nat /\ DOMAIN effects = 1..n
    BY ViewFacts
  <1>3. /\ new \in EffectRecords /\ new.run = r /\ FetchOK(new, log[r]) /\ ~new.over
        /\ \A sh, err : LiveOK(new, log[r], sh, err, {})
    BY StartedFacts, ViewFacts
  <1>4. /\ stopped \in Seq(EffectRecords) /\ Len(stopped) = n
        /\ \A g \in 1..n : /\ stopped[g].aborted /\ FetchOK(stopped[g], log[stopped[g].run])
                           /\ stopped[g].over => finished[stopped[g].run]
    BY <1>2, StoppedFacts
  <1> HIDE DEF stopped, n, new
  <1>5. /\ effects' \in Seq(EffectRecords) /\ DOMAIN effects' = 1..(n + 1)
        /\ effects'[n + 1] = new /\ \A g \in 1..n : effects'[g] = stopped[g]
    BY <1>1, <1>2, <1>3, <1>4
  <1>6. ViewTypes' /\ LogsInv'
    BY <1>1, <1>2, <1>5 DEF ViewInv, ViewTypes, LogsInv
  <1>7. FetchInv' /\ OverInv'
    BY <1>1, <1>2, <1>3, <1>4, <1>5 DEF FetchInv, OverInv
  <1>8. LiveInv'
    BY <1>1, <1>2, <1>3, <1>4, <1>5 DEF LiveInv
  <1> QED
    BY <1>6, <1>7, <1>8 DEF ViewInv

\* No run is selected any more.
LEMMA NoneKeeps ==
    ASSUME ViewInv, selected' = NoRun, cur' = 0, effects' = Stopped, UNCHANGED server,
           shown' \in ShownRecords, card' \in Cards, leftover' \in Followed \cup {NoRun},
           error' \in BOOLEAN, ShownInv'
    PROVE  ViewInv'
  <1> DEFINE stopped == Stopped
  <1>1. effects' = stopped /\ log' = log /\ finished' = finished /\ rev' = rev
    BY DEF server
  <1>2. DOMAIN stopped = DOMAIN effects /\ stopped \in Seq(EffectRecords)
    BY StoppedFacts
  <1>3. \A g \in DOMAIN stopped : /\ stopped[g].aborted /\ FetchOK(stopped[g], log[stopped[g].run])
                                  /\ stopped[g].over => finished[stopped[g].run]
    BY StoppedFacts
  <1> HIDE DEF stopped
  <1>4. ViewTypes' /\ LogsInv'
    BY <1>1, <1>2 DEF ViewInv, ViewTypes, LogsInv
  <1>5. FetchInv' /\ OverInv' /\ LiveInv'
    BY <1>1, <1>3 DEF FetchInv, OverInv, LiveInv
  <1> QED
    BY <1>4, <1>5 DEF ViewInv

LEMMA DeselectKeeps ==
    ASSUME ViewInv, Deselect
    PROVE  ViewInv'
  <1>1. /\ selected' = NoRun /\ cur' = 0 /\ effects' = Stopped /\ UNCHANGED server
        /\ shown' = NothingShown /\ card' = NoCard /\ leftover' = NoRun /\ error' = FALSE
    BY DEF Deselect
  <1>2. shown' \in ShownRecords /\ card' \in Cards /\ ShownInv'
    BY <1>1 DEF NothingShown, NoCard, ShownRecords, Cards, ShownInv, ShownOK
  <1> QED
    BY <1>1, <1>2, NoneKeeps

\* The restore keeps what is shown, as that of the run it found.
LEMMA RestoreKeeps ==
    ASSUME ViewInv, NEW r \in Followed \cup {NoRun}, Restore(r)
    PROVE  ViewInv'
  <1>1. /\ selected' = r /\ card' = Carried /\ leftover' = shown.run /\ UNCHANGED server
        /\ UNCHANGED <<log, finished>> /\ shown' = shown /\ error' = error
        /\ IF r = NoRun THEN cur' = 0 /\ effects' = Stopped /\ missed' = {} ELSE Restarted(r)
    BY DEF Restore, server
  <1>2. /\ shown \in ShownRecords /\ card \in Cards /\ error \in BOOLEAN
        /\ ShownOK(shown, card, log[shown.run], finished[shown.run], selected, leftover)
    BY DEF ViewInv, ViewTypes, ShownInv
  <1>3. shown.run \in Followed \cup {NoRun} /\ shown.bundle \in Nat
    BY <1>2 DEF ShownRecords
  <1>4. /\ card' \in Cards /\ (card'.key = 0 \/ card'.carried)
        /\ card.key = 0 => card'.key = 0
    BY <1>1, <1>2, <1>3 DEF Carried, NoCard, Cards
  <1>5. ShownInv'
    <2>1. CardOK(card', log[shown.run], shown.run)
      BY <1>4 DEF CardOK
    <2> QED
      BY <1>1, <1>2, <1>4, <2>1 DEF ShownInv, ShownOK
  <1>6. shown' \in ShownRecords /\ leftover' \in Followed \cup {NoRun} /\ error' \in BOOLEAN
    BY <1>1, <1>2, <1>3
  <1>7. CASE r = NoRun
    BY <1>1, <1>4, <1>5, <1>6, <1>7, NoneKeeps
  <1>8. CASE r # NoRun
    BY <1>1, <1>4, <1>5, <1>6, <1>8, RestartKeeps
  <1> QED
    BY <1>7, <1>8

\* A live effect g does something that leaves it f.
LEMMA EffectKeeps ==
    ASSUME ViewInv, NEW g \in DOMAIN effects, NEW f \in EffectRecords, f.run = effects[g].run,
           ~effects[g].aborted, effects' = [effects EXCEPT ![g] = f],
           UNCHANGED <<log, finished, rev, selected, cur>>,
           shown' \in ShownRecords, card' \in Cards, leftover' \in Followed \cup {NoRun},
           error' \in BOOLEAN, ShownInv',
           FetchOK(f, log[f.run]), f.over => finished[f.run],
           ~f.aborted => LiveOK(f, log[f.run], shown', error', missed')
    PROVE  ViewInv'
  <1>1. Len(effects) \in Nat /\ DOMAIN effects = 1..Len(effects) /\ effects \in Seq(EffectRecords)
    BY ViewFacts DEF ViewInv, ViewTypes
  <1>2. /\ effects' \in Seq(EffectRecords) /\ DOMAIN effects' = DOMAIN effects /\ effects'[g] = f
        /\ \A h \in DOMAIN effects \ {g} : effects'[h] = effects[h]
    BY <1>1
  <1>3. g = cur /\ effects[g].run = selected /\ \A h \in DOMAIN effects \ {g} : effects[h].aborted
    BY DEF ViewInv, LiveInv
  <1>4. ViewTypes' /\ LogsInv'
    BY <1>2 DEF ViewInv, ViewTypes, LogsInv
  <1>5. FetchInv' /\ OverInv'
    BY <1>2 DEF ViewInv, FetchInv, OverInv
  <1>6. LiveInv'
    BY <1>2, <1>3 DEF LiveInv
  <1> QED
    BY <1>4, <1>5, <1>6 DEF ViewInv

\* What is known of a live effect.
LEMMA EffectFacts ==
    ASSUME ViewInv, NEW g \in DOMAIN effects, ~effects[g].aborted
    PROVE  /\ effects[g] \in EffectRecords /\ effects[g].run \in Followed
           /\ effects[g].run = selected /\ g = cur
           /\ FetchOK(effects[g], log[effects[g].run])
           /\ LiveOK(effects[g], log[effects[g].run], shown, error, missed)
           /\ LogOK(log[effects[g].run], rev[effects[g].run], finished[effects[g].run],
                    MaxLog[effects[g].run])
           /\ effects[g].over => finished[effects[g].run]
           /\ finished[effects[g].run] \in BOOLEAN /\ leftover \in Followed \cup {NoRun}
           /\ log[effects[g].run] \in Seq(Kinds) /\ Len(log[effects[g].run]) \in Nat
           /\ rev[effects[g].run] \in Nat
           /\ shown \in ShownRecords /\ card \in Cards /\ error \in BOOLEAN
           /\ ShownOK(shown, card, log[shown.run], finished[shown.run], selected, leftover)
  BY ViewFacts DEF ViewInv, ViewTypes, FetchInv, OverInv, LiveInv, LogsInv, ShownInv

\* A refresh that is asked for will read every event received so far.
LEMMA RefreshedFacts ==
    ASSUME NEW e \in EffectRecords, NEW l, NEW sh, NEW err, NEW lost,
           FetchOK(e, l), FlightOK(e, l, sh), KeptOK(e, sh, lost)
    PROVE  /\ Refreshed(e) \in EffectRecords /\ Refreshed(e).run = e.run
           /\ Refreshed(e).aborted = e.aborted /\ Refreshed(e).over = e.over
           /\ FetchOK(Refreshed(e), l) /\ LiveOK(Refreshed(e), l, sh, err, lost)
  <1> DEFINE f == Refreshed(e)
  <1>1. /\ f \in EffectRecords /\ f.run = e.run /\ f.aborted = e.aborted
        /\ f.seen = e.seen /\ f.snap = e.snap /\ f.bundle = e.bundle
        /\ f.coming = e.coming /\ f.over = e.over
        /\ \/ f.phase = e.phase /\ f.pending
           \/ f.phase = "snapshot"
    BY DEF Refreshed, EffectRecords
  <1> HIDE DEF f
  <1>2. FetchOK(f, l)
    BY <1>1 DEF FetchOK
  <1>3. FlightOK(f, l, sh) /\ KeptOK(f, sh, lost)
    BY <1>1 DEF FlightOK, KeptOK
  <1>4. AskedOK(f, l, sh)
    BY <1>1 DEF AskedOK, Asked
  <1> QED
    BY <1>1, <1>2, <1>3, <1>4 DEF LiveOK, f

LEMMA ConnectKeeps ==
    ASSUME ViewInv, NEW g \in DOMAIN effects, Connect(g)
    PROVE  ViewInv'
  <1> DEFINE e == effects[g]
             l == log[e.run]
  <1>1. PICK R \in Replays(e) :
            /\ ~e.aborted
            /\ effects' = [effects EXCEPT ![g] = Refreshed([e EXCEPT !.conn = "up", !.coming = R])]
            /\ UNCHANGED <<log, finished, rev, selected, cur, shown, card, leftover, error, missed>>
    BY DEF Connect, server, choice, onScreen
  <1> DEFINE u == [e EXCEPT !.conn = "up", !.coming = R]
             f == Refreshed(u)
  <1>2. /\ e \in EffectRecords /\ FetchOK(e, l) /\ LiveOK(e, l, shown, error, missed)
        /\ shown \in ShownRecords /\ card \in Cards /\ error \in BOOLEAN /\ ShownInv
        /\ leftover \in Followed \cup {NoRun} /\ Len(l) \in Nat
        /\ e.over => finished[e.run]
    BY <1>1, EffectFacts DEF ShownInv
  <1>3. R \subseteq 1..Len(l)
    BY DEF Replays, Published
  <1> HIDE DEF e, l
  <1>4. R \in SUBSET Nat
    BY <1>2, <1>3
  <1>5. /\ u \in EffectRecords /\ u.run = e.run /\ u.aborted = e.aborted /\ u.seen = e.seen
        /\ u.snap = e.snap /\ u.bundle = e.bundle /\ u.over = e.over /\ u.phase = e.phase
        /\ u.pending = e.pending /\ u.coming = R
    BY <1>2, <1>4 DEF EffectRecords
  <1> HIDE DEF u
  <1>6. FetchOK(u, l) /\ LiveOK(u, l, shown, error, missed)
    BY <1>2, <1>3, <1>5, ConnFacts
  <1>7. FlightOK(u, l, shown) /\ KeptOK(u, shown, missed)
    BY <1>6 DEF LiveOK
  <1>8. /\ f \in EffectRecords /\ f.run = e.run /\ f.aborted = e.aborted /\ f.over = e.over
        /\ FetchOK(f, l) /\ LiveOK(f, l, shown, error, missed)
    BY <1>5, <1>6, <1>7, RefreshedFacts
  <1>9. effects' = [effects EXCEPT ![g] = f]
    BY <1>1 DEF f, u
  <1> HIDE DEF f
  <1>10. /\ ShownInv' /\ ~effects[g].aborted /\ f.run = effects[g].run /\ FetchOK(f, log[f.run])
         /\ LiveOK(f, log[f.run], shown', error', missed') /\ (f.over => finished[f.run])
    BY <1>1, <1>2, <1>5, <1>8 DEF ShownInv, e, l
  <1> QED
    BY <1>1, <1>2, <1>8, <1>9, <1>10, EffectKeeps

LEMMA ConnectionKeeps ==
    ASSUME ViewInv, NEW g \in DOMAIN effects, Unauthorized(g) \/ Break(g)
    PROVE  ViewInv'
  <1> DEFINE e == effects[g]
             l == log[e.run]
             none == {}
  <1>1. PICK c \in {"down", "closed"}, R \in {e.coming, none} :
            /\ ~e.aborted
            /\ effects' = [effects EXCEPT ![g] = [e EXCEPT !.conn = c, !.coming = R]]
            /\ UNCHANGED <<log, finished, rev, selected, cur, shown, card, leftover, error, missed>>
    <2>1. e \in EffectRecords
      BY ViewFacts
    <2>2. CASE Unauthorized(g)
      <3>1. /\ ~e.aborted /\ effects' = [effects EXCEPT ![g] = [e EXCEPT !.conn = "closed"]]
            /\ UNCHANGED <<log, finished, rev, selected, cur, shown, card, leftover, error, missed>>
        BY <2>2 DEF Unauthorized, server, onScreen
      <3>2. [e EXCEPT !.conn = "closed"] = [e EXCEPT !.conn = "closed", !.coming = e.coming]
        BY <2>1 DEF EffectRecords
      <3> QED
        BY <3>1, <3>2
    <2>3. CASE Break(g)
      BY <2>3 DEF Break, server, onScreen
    <2> QED
      BY <2>2, <2>3
  <1> DEFINE f == [e EXCEPT !.conn = c, !.coming = R]
  <1>2. /\ e \in EffectRecords /\ FetchOK(e, l) /\ LiveOK(e, l, shown, error, missed)
        /\ shown \in ShownRecords /\ card \in Cards /\ error \in BOOLEAN /\ ShownInv
        /\ leftover \in Followed \cup {NoRun} /\ (e.over => finished[e.run])
    BY <1>1, EffectFacts DEF ShownInv
  <1>3. R \subseteq 1..Len(l)
    BY <1>1, <1>2 DEF FetchOK
  <1>4. R \in SUBSET Nat
    BY <1>1, <1>2 DEF EffectRecords
  <1> HIDE DEF e, l, none
  <1>5. /\ f \in EffectRecords /\ f.run = e.run /\ f.aborted = e.aborted /\ f.seen = e.seen
        /\ f.snap = e.snap /\ f.bundle = e.bundle /\ f.over = e.over /\ f.phase = e.phase
        /\ f.pending = e.pending /\ f.coming = R
    BY <1>2, <1>4 DEF EffectRecords
  <1>6. effects' = [effects EXCEPT ![g] = f]
    BY <1>1
  <1> HIDE DEF f
  <1>7. FetchOK(f, l) /\ LiveOK(f, l, shown, error, missed)
    BY <1>2, <1>3, <1>5, ConnFacts
  <1>8. /\ ShownInv' /\ ~effects[g].aborted /\ f.run = effects[g].run /\ FetchOK(f, log[f.run])
        /\ LiveOK(f, log[f.run], shown', error', missed') /\ (f.over => finished[f.run])
    BY <1>1, <1>2, <1>5, <1>7 DEF ShownInv, e, l
  <1> QED
    BY <1>1, <1>2, <1>5, <1>6, <1>8, EffectKeeps

LEMMA ReceiveKeeps ==
    ASSUME ViewInv, NEW g \in DOMAIN effects, Receive(g)
    PROVE  ViewInv'
  <1> DEFINE e == effects[g]
             l == log[e.run]
  <1>1. PICK i \in e.coming :
            /\ ~e.aborted
            /\ LET u == [e EXCEPT !.coming = e.coming \ {i}, !.seen = e.seen \cup {i}] IN
               effects' = [effects EXCEPT ![g] = IF eventNeedsSnapshot(l[i]) THEN Refreshed(u) ELSE u]
            /\ shown' = IF shown.run = e.run THEN [shown EXCEPT !.events = shown.events \cup {i}]
                        ELSE shown
            /\ missed' = IF shown.run = e.run THEN missed ELSE missed \cup {i}
            /\ UNCHANGED <<log, finished, rev, selected, cur, card, leftover, error>>
    BY DEF Receive, mergeEvents, server
  <1> DEFINE rest == e.coming \ {i}
             all == e.seen \cup {i}
             f == [e EXCEPT !.coming = rest, !.seen = all]
             h == IF eventNeedsSnapshot(l[i]) THEN Refreshed(f) ELSE f
  <1>2. /\ e \in EffectRecords /\ FetchOK(e, l) /\ LiveOK(e, l, shown, error, missed)
        /\ shown \in ShownRecords /\ card \in Cards /\ error \in BOOLEAN /\ Len(l) \in Nat
        /\ ShownOK(shown, card, log[shown.run], finished[shown.run], selected, leftover)
        /\ e.run \in Followed /\ leftover \in Followed \cup {NoRun} /\ i \in 1..Len(l)
        /\ e.over => finished[e.run]
    BY <1>1, EffectFacts DEF FetchOK
  <1>3. /\ f \in EffectRecords /\ f.run = e.run /\ f.aborted = e.aborted /\ f.seen = e.seen \cup {i}
        /\ f.snap = e.snap /\ f.bundle = e.bundle /\ f.phase = e.phase /\ f.pending = e.pending
        /\ f.coming \subseteq 1..Len(l) /\ f.over = e.over
    <2>1. /\ rest \in SUBSET Nat /\ rest \subseteq 1..Len(l)
          /\ all \in SUBSET Nat /\ all = e.seen \cup {i}
      BY <1>2 DEF EffectRecords, FetchOK
    <2> HIDE DEF rest, all, e
    <2> QED
      BY <1>2, <2>1 DEF EffectRecords
  <1>11. effects' = [effects EXCEPT ![g] = h]
    BY <1>1
  <1>4. /\ shown' \in ShownRecords /\ shown'.run = shown.run /\ shown'.done = shown.done
        /\ shown'.version = shown.version
        /\ shown'.events = IF shown.run = e.run THEN shown.events \cup {i} ELSE shown.events
    <2>1. i \in Nat
      BY <1>1, <1>2
    <2> QED
      BY <1>1, <1>2, <2>1 DEF ShownRecords
  <1> HIDE DEF f, l
  <1>5. FetchOK(f, l)
    BY <1>1, <1>2, <1>3 DEF FetchOK
  <1>6. FlightOK(f, l, shown')
    BY <1>2, <1>3, <1>4 DEF LiveOK, FlightOK
  <1>7. KeptOK(f, shown', missed')
    BY <1>1, <1>2, <1>3, <1>4 DEF LiveOK, KeptOK
  <1>8. ShownOK(shown', card, log[shown'.run], finished[shown'.run], selected, leftover)
    BY <1>1, <1>2, <1>4 DEF ShownOK, l
  <1>9. /\ h \in EffectRecords /\ h.run = e.run /\ h.over = e.over
        /\ FetchOK(h, l) /\ LiveOK(h, l, shown', error', missed')
    <2>1. CASE eventNeedsSnapshot(l[i])
      BY <1>3, <1>5, <1>6, <1>7, <2>1, RefreshedFacts
    <2>2. CASE ~eventNeedsSnapshot(l[i])
      <3>1. AskedOK(e, l, shown) => AskedOK(f, l, shown')
        BY <1>3, <1>4, <2>2 DEF AskedOK, Asked
      <3> QED
        BY <1>1, <1>2, <1>3, <1>5, <1>6, <1>7, <2>2, <3>1 DEF LiveOK
    <2> QED
      BY <2>1, <2>2
  <1> HIDE DEF h, e
  <1>10. /\ ShownInv' /\ ~effects[g].aborted /\ h.run = effects[g].run /\ FetchOK(h, log[h.run])
         /\ LiveOK(h, log[h.run], shown', error', missed') /\ card' \in Cards /\ error' \in BOOLEAN
         /\ h.over => finished[h.run]
    BY <1>1, <1>2, <1>4, <1>8, <1>9 DEF ShownInv, e, l
  <1> QED
    BY <1>1, <1>2, <1>4, <1>9, <1>10, <1>11, EffectKeeps

LEMMA ReadSnapshotKeeps ==
    ASSUME ViewInv, NEW g \in DOMAIN effects, ReadSnapshot(g)
    PROVE  ViewInv'
  <1> DEFINE e == effects[g]
             l == log[e.run]
             n == Len(l)
             fin == finished[e.run]
             f == [e EXCEPT !.phase = "artifacts", !.snap = n, !.over = fin]
  <1>1. /\ ~e.aborted /\ effects' = [effects EXCEPT ![g] = f]
        /\ UNCHANGED <<log, finished, rev, selected, cur, shown, card, leftover, error, missed>>
    BY DEF ReadSnapshot, server, choice, onScreen
  <1>2. /\ e \in EffectRecords /\ FetchOK(e, l) /\ LiveOK(e, l, shown, error, missed)
        /\ shown \in ShownRecords /\ card \in Cards /\ error \in BOOLEAN /\ n \in Nat
        /\ ShownOK(shown, card, log[shown.run], finished[shown.run], selected, leftover) /\ e.run \in Followed
        /\ fin \in BOOLEAN /\ leftover \in Followed \cup {NoRun} /\ LogOK(l, rev[e.run], fin, MaxLog[e.run])
    BY <1>1, EffectFacts
  <1>3. /\ f \in EffectRecords /\ f.run = e.run /\ f.aborted = e.aborted /\ f.seen = e.seen
        /\ f.snap = n /\ f.over = fin /\ f.coming = e.coming /\ f.phase = "artifacts" /\ f.pending = e.pending
    BY <1>2 DEF EffectRecords
  <1> HIDE DEF f, fin
  <1>4. FetchOK(f, l)
    BY <1>2, <1>3 DEF FetchOK, LogOK
  <1>5. FlightOK(f, l, shown)
    BY <1>2, <1>3, RunViewAssumption DEF FlightOK, ShownOK, fin
  <1>6. KeptOK(f, shown, missed)
    BY <1>2, <1>3 DEF LiveOK, KeptOK
  <1>7. AskedOK(f, l, shown)
    BY <1>2, <1>3 DEF AskedOK, Asked, FetchOK
  <1>8. /\ ShownInv' /\ f.run = effects[g].run /\ FetchOK(f, log[f.run])
        /\ LiveOK(f, log[f.run], shown', error', missed') /\ (f.over => finished[f.run])
    BY <1>1, <1>2, <1>3, <1>4, <1>5, <1>6, <1>7 DEF ShownInv, LiveOK, fin
  <1> QED
    BY <1>1, <1>2, <1>3, <1>8, EffectKeeps

LEMMA ReadArtifactsKeeps ==
    ASSUME ViewInv, NEW g \in DOMAIN effects, ReadArtifacts(g)
    PROVE  ViewInv'
  <1> DEFINE e == effects[g]
             l == log[e.run]
             v == rev[e.run]
             f == [e EXCEPT !.phase = "apply", !.bundle = v]
  <1>1. /\ ~e.aborted /\ e.phase = "artifacts" /\ effects' = [effects EXCEPT ![g] = f]
        /\ UNCHANGED <<log, finished, rev, selected, cur, shown, card, leftover, error, missed>>
    BY DEF ReadArtifacts, server, choice, onScreen
  <1>2. /\ e \in EffectRecords /\ FetchOK(e, l) /\ LiveOK(e, l, shown, error, missed)
        /\ shown \in ShownRecords /\ card \in Cards /\ error \in BOOLEAN /\ Len(l) \in Nat
        /\ ShownOK(shown, card, log[shown.run], finished[shown.run], selected, leftover) /\ e.run \in Followed
        /\ v \in Nat /\ LogOK(l, v, finished[e.run], MaxLog[e.run])
        /\ leftover \in Followed \cup {NoRun} /\ (e.over => finished[e.run])
    BY <1>1, EffectFacts
  <1>3. /\ f \in EffectRecords /\ f.run = e.run /\ f.aborted = e.aborted /\ f.seen = e.seen
        /\ f.snap = e.snap /\ f.phase = "apply" /\ f.pending = e.pending /\ f.bundle = v
        /\ f.over = e.over /\ f.coming = e.coming
    BY <1>2 DEF EffectRecords
  <1> HIDE DEF f, v
  <1>4. FetchOK(f, l)
    <2>1. e.snap \in 0..Len(l) /\ e.seen \subseteq 1..Len(l)
      BY <1>2 DEF FetchOK
    <2>2. /\ Cardinality(Comp(l, e.snap)) \in Nat /\ Cardinality(Comp(l, Len(l))) \in Nat
          /\ Cardinality(Comp(l, e.snap)) <= Cardinality(Comp(l, Len(l)))
      BY <1>2, <2>1, CompFacts
    <2>3. Cardinality(Comp(l, Len(l))) <= v
      BY <1>2 DEF LogOK
    <2>4. Cardinality(Comp(l, e.snap)) <= v
      BY <1>2, <2>2, <2>3
    <2> QED
      BY <1>1, <1>2, <1>3, <2>1, <2>4 DEF FetchOK
  <1>5. FlightOK(f, l, shown) /\ KeptOK(f, shown, missed)
    BY <1>1, <1>2, <1>3 DEF LiveOK, FlightOK, KeptOK
  <1>6. AskedOK(e, l, shown) => AskedOK(f, l, shown)
    BY <1>1, <1>3 DEF AskedOK, Asked
  <1>7. /\ ShownInv' /\ f.run = effects[g].run /\ FetchOK(f, log[f.run])
        /\ LiveOK(f, log[f.run], shown', error', missed') /\ (f.over => finished[f.run])
    BY <1>1, <1>2, <1>3, <1>4, <1>5, <1>6 DEF ShownInv, LiveOK
  <1> QED
    BY <1>1, <1>2, <1>3, <1>7, EffectKeeps

LEMMA RefreshFailsKeeps ==
    ASSUME ViewInv, NEW g \in DOMAIN effects, RefreshFails(g)
    PROVE  ViewInv'
  <1> DEFINE e == effects[g]
             l == log[e.run]
             f == Ended(e)
  <1>1. /\ ~e.aborted /\ effects' = [effects EXCEPT ![g] = f] /\ error' = TRUE
        /\ UNCHANGED <<log, finished, rev, selected, cur, shown, card, leftover, missed>>
    BY DEF RefreshFails, server, onScreen
  <1>2. /\ e \in EffectRecords /\ FetchOK(e, l) /\ LiveOK(e, l, shown, error, missed)
        /\ shown \in ShownRecords /\ card \in Cards /\ Len(l) \in Nat /\ leftover \in Followed \cup {NoRun}
        /\ ShownOK(shown, card, log[shown.run], finished[shown.run], selected, leftover)
    BY <1>1, EffectFacts
  <1>3. /\ f \in EffectRecords /\ f.run = e.run /\ f.seen = e.seen /\ f.coming = e.coming
        /\ f.snap = 0 /\ f.phase = "idle" /\ ~f.over
    BY <1>2, EndedFacts
  <1> HIDE DEF f
  <1>4. FetchOK(f, l) /\ FlightOK(f, l, shown) /\ KeptOK(f, shown, missed)
    BY <1>2, <1>3 DEF LiveOK, FetchOK, FlightOK, KeptOK
  <1>5. /\ ShownInv' /\ f.run = effects[g].run /\ FetchOK(f, log[f.run])
        /\ LiveOK(f, log[f.run], shown', error', missed') /\ error' \in BOOLEAN
    BY <1>1, <1>2, <1>3, <1>4 DEF ShownInv, LiveOK
  <1> QED
    BY <1>1, <1>2, <1>3, <1>5, EffectKeeps

LEMMA DiscardKeeps ==
    ASSUME ViewInv, NEW g \in DOMAIN effects, Discard(g)
    PROVE  ViewInv'
  <1> DEFINE e == effects[g]
             l == log[e.run]
             f == Ended(e)
  <1>1. /\ e.aborted /\ effects' = [effects EXCEPT ![g] = f]
        /\ UNCHANGED <<log, finished, rev, selected, cur, shown, card, leftover, error, missed>>
    BY DEF Discard, server, choice, onScreen
  <1>2. e \in EffectRecords /\ FetchOK(e, l) /\ Len(l) \in Nat
    BY ViewFacts DEF ViewInv, FetchInv
  <1>3. /\ f \in EffectRecords /\ f.run = e.run /\ f.aborted = e.aborted /\ f.seen = e.seen
        /\ f.coming = e.coming /\ f.snap = 0 /\ f.phase = "idle" /\ ~f.over
    BY <1>2, EndedFacts
  <1> HIDE DEF f
  <1>4. FetchOK(f, l)
    BY <1>2, <1>3 DEF FetchOK
  <1>5. Len(effects) \in Nat /\ DOMAIN effects = 1..Len(effects) /\ effects \in Seq(EffectRecords)
    BY ViewFacts DEF ViewInv, ViewTypes
  <1>6. /\ effects' \in Seq(EffectRecords) /\ DOMAIN effects' = DOMAIN effects /\ effects'[g] = f
        /\ \A h \in DOMAIN effects \ {g} : effects'[h] = effects[h]
    BY <1>1, <1>3, <1>5
  <1>7. ViewTypes' /\ LogsInv' /\ ShownInv'
    BY <1>1, <1>6 DEF ViewInv, ViewTypes, LogsInv, ShownInv
  <1>8. FetchInv' /\ OverInv'
    BY <1>1, <1>3, <1>4, <1>6 DEF ViewInv, FetchInv, OverInv
  <1>9. LiveInv'
    BY <1>1, <1>3, <1>6 DEF ViewInv, LiveInv
  <1> QED
    BY <1>7, <1>8, <1>9 DEF ViewInv

\* The card is mounted with a bundle that is no older than its key.
LEMMA MountedFacts ==
    ASSUME NEW l, NEW n \in Nat, NEW r \in Followed, NEW version \in Comp(l, n) \cup {0},
           NEW bundle \in Nat, card \in Cards, n <= Len(l), Len(l) \in Nat,
           version # 0 => Cardinality(Comp(l, n)) <= bundle, CardOK(card, l, r)
    PROVE  LET m == Mounted(r, version, IF version = 0 THEN 0 ELSE bundle) IN
           m \in Cards /\ CardOK(m, l, r)
  <1> DEFINE b == IF version = 0 THEN 0 ELSE bundle
             m == Mounted(r, version, b)
  <1>1. version \in 0..n
    BY DEF Comp
  <1>2. CASE b = 0
    BY <1>2 DEF Mounted, NoCard, Cards, CardOK
  <1>3. CASE b # 0 /\ card.key = version
    BY <1>3 DEF Mounted
  <1>4. CASE b # 0 /\ card.key # version
    <2>1. m = [key |-> version, base |-> bundle, of |-> r, carried |-> FALSE] /\ version # 0
      BY <1>4 DEF Mounted
    <2>2. /\ Cardinality(Comp(l, version)) \in Nat /\ Cardinality(Comp(l, n)) \in Nat
          /\ Cardinality(Comp(l, version)) <= Cardinality(Comp(l, n))
      BY <1>1, CompFacts
    <2>3. Cardinality(Comp(l, version)) <= bundle
      BY <2>1, <2>2
    <2> HIDE DEF m
    <2>4. m.key = version /\ m.base = bundle /\ m.of = r /\ m \in Cards
      BY <1>1, <2>1 DEF Cards
    <2>5. version \in 0..Len(l)
      BY <1>1
    <2>6. m \in Cards /\ CardOK(m, l, r)
      BY <2>3, <2>4, <2>5 DEF CardOK
    <2> QED
      BY <2>6 DEF m
  <1> QED
    BY <1>2, <1>3, <1>4

LEMMA ApplyKeeps ==
    ASSUME ViewInv, NEW g \in DOMAIN effects, Apply(g)
    PROVE  ViewInv'
  <1> DEFINE e == effects[g]
             l == log[e.run]
             n == e.snap
             version == Top(l, n)
             done == e.over
             bundle == IF version = 0 THEN 0 ELSE e.bundle
             previous == IF shown.run = e.run THEN shown.events ELSE {}
             phase == IF e.pending /\ ~done THEN "snapshot" ELSE "idle"
             d == Ended(e)
             f == [d EXCEPT !.pending = FALSE, !.phase = phase]
             h == IF done THEN Aborted(f) ELSE f
  <1>1. /\ ~e.aborted /\ e.phase = "apply" /\ effects' = [effects EXCEPT ![g] = h]
        /\ shown' = [run |-> e.run, events |-> previous \cup 1..n, done |-> done,
                     bundle |-> bundle, version |-> version]
        /\ card' = Mounted(e.run, version, bundle) /\ leftover' = NoRun
        /\ UNCHANGED <<log, finished, rev, selected, cur, error, missed>>
    BY DEF Apply, Show, bundleVersion, Completions, mergeEvents, Top, Comp, server
  <1>2. /\ e \in EffectRecords /\ FetchOK(e, l) /\ LiveOK(e, l, shown, error, missed)
        /\ shown \in ShownRecords /\ card \in Cards /\ error \in BOOLEAN /\ Len(l) \in Nat
        /\ ShownOK(shown, card, log[shown.run], finished[shown.run], selected, leftover) /\ e.run \in Followed
        /\ e.run = selected /\ LogOK(l, rev[e.run], finished[e.run], MaxLog[e.run])
        /\ e.over => finished[e.run]
    BY <1>1, EffectFacts
  <1>2a. (Over(l, n) => done) /\ (done => finished[e.run])
    BY <1>1, <1>2 DEF FetchOK
  <1>3. n \in 0..Len(l) /\ n \in Nat /\ n <= Len(l) /\ e.seen \subseteq 1..Len(l) /\ Cardinality(Comp(l, n)) <= e.bundle
    BY <1>1, <1>2 DEF FetchOK
  <1>4. \A k \in 0..Len(l) : Topped(l, k)
    BY <1>2 DEF LogOK
  <1>5. /\ version \in Comp(l, n) \cup {0} /\ version \in Nat
        /\ \A x \in Comp(l, n) \cup {0} : x <= version
    BY <1>3, <1>4, TopFacts
  <1>6. /\ e.bundle \in Nat /\ e.pending \in BOOLEAN /\ done \in BOOLEAN
        /\ card.key \in Nat /\ card.base \in Nat
    BY <1>2 DEF EffectRecords, Cards
  <1>7. /\ f \in EffectRecords /\ f.run = e.run /\ f.aborted = e.aborted /\ f.seen = e.seen
        /\ f.coming = e.coming /\ f.snap = 0 /\ f.phase = phase /\ f.pending = FALSE
        /\ ~f.over
    <2>1. phase \in {"idle", "snapshot"}
      OBVIOUS
    <2>2. /\ d \in EffectRecords /\ d.run = e.run /\ d.aborted = e.aborted /\ d.seen = e.seen
          /\ d.coming = e.coming /\ d.snap = 0 /\ ~d.over
      BY <1>2, EndedFacts
    <2> HIDE DEF phase, d
    <2> QED
      BY <2>1, <2>2 DEF EffectRecords
  <1> HIDE DEF f, version, done
  <1>8. FetchOK(f, l)
    BY <1>2, <1>3, <1>7 DEF FetchOK
  <1>9. shown' \in ShownRecords
    <2>1. previous \cup 1..n \in SUBSET Nat /\ bundle \in Nat
      BY <1>2, <1>3, <1>6 DEF ShownRecords
    <2> HIDE DEF previous, bundle
    <2> QED
      BY <1>1, <1>2, <1>5, <1>6, <2>1 DEF ShownRecords
  <1>10. /\ shown'.run = e.run /\ shown'.events = previous \cup 1..n /\ shown'.version = version
         /\ shown'.done = done
    BY <1>1
  <1>11. CardOK(card, l, e.run)
    BY <1>2 DEF ShownOK, CardOK
  <1>13. card' \in Cards /\ CardOK(card', l, e.run)
    BY <1>1, <1>2, <1>3, <1>5, <1>6, <1>11, MountedFacts
  <1>14. ShownOK(shown', card', l, finished[e.run], selected, leftover')
    <2>1. previous \cup 1..n \subseteq 1..Len(l)
      BY <1>2, <1>3, RunViewAssumption DEF ShownOK
    <2>2. Comp(l, n) \subseteq Comp(l, Len(l))
      BY <1>2, <1>3, CompFacts
    <2> HIDE DEF previous, l, n
    <2> QED
      BY <1>2, <1>3, <1>5, <1>10, <1>13, <1>2a, <2>1, <2>2, RunViewAssumption DEF ShownOK
  <1>15. KeptOK(f, shown', missed)
    BY <1>2, <1>7, <1>10 DEF LiveOK, KeptOK
  <1>16. FlightOK(f, l, shown')
    BY <1>7 DEF FlightOK
  <1>17. ASSUME ~done, AskedOK(e, l, shown) PROVE AskedOK(f, l, shown')
    <2> SUFFICES ASSUME NEW i \in e.seen, eventNeedsSnapshot(l[i]) PROVE Asked(f, l, shown', i)
      BY <1>7 DEF AskedOK
    <2>1. i \in 1..Len(l) /\ i \in Nat /\ Asked(e, l, shown, i)
      BY <1>2, <1>3, <1>17 DEF AskedOK
    <2>2. Top(l, i) \in Nat
      BY <1>4, <2>1, TopFacts
    <2>3. CASE e.pending
      BY <1>7, <1>17, <2>3 DEF Asked
    <2>4. CASE shown.run = e.run /\ shown.version >= Top(l, i) /\ (l[i] = "done" => shown.done)
      <3>1. shown.version \in Comp(l, n) \cup {0} /\ (shown.done => done)
        BY <1>1, <1>2, <2>4 DEF LiveOK, FlightOK, done
      <3>2. shown.version <= version /\ shown.version \in Nat
        BY <1>2, <1>5, <3>1 DEF ShownRecords
      <3>3. version >= Top(l, i)
        BY <1>5, <2>2, <2>4, <3>2
      <3> QED
        BY <1>7, <1>10, <2>4, <3>1, <3>3 DEF Asked
    <2>5. CASE n >= i
      <3>1. Top(l, i) <= version
        BY <1>3, <1>4, <2>1, <2>5, TopGrows DEF version
      <3>2. l[i] = "done" => done
        BY <1>3, <1>2a, <2>1, <2>5 DEF Over
      <3> QED
        BY <1>5, <1>7, <1>10, <2>2, <3>1, <3>2 DEF Asked
    <2> QED
      BY <1>1, <2>1, <2>3, <2>4, <2>5 DEF Asked
  <1>18. ~done => LiveOK(f, l, shown', error', missed')
    BY <1>1, <1>2, <1>15, <1>16, <1>17 DEF LiveOK
  <1>19. /\ h \in EffectRecords /\ h.run = e.run /\ FetchOK(h, l) /\ ~h.over
         /\ ~h.aborted => LiveOK(h, l, shown', error', missed')
    <2>1. CASE done
      BY <1>2, <1>7, <1>8, <2>1, AbortedFacts
    <2>2. CASE ~done
      BY <1>7, <1>8, <1>18, <2>2
    <2> QED
      BY <2>1, <2>2
  <1> HIDE DEF h, e
  <1>20. /\ ShownInv' /\ ~effects[g].aborted /\ h.run = effects[g].run /\ FetchOK(h, log[h.run])
         /\ ~h.aborted => LiveOK(h, log[h.run], shown', error', missed')
         /\ error' \in BOOLEAN /\ leftover' \in Followed \cup {NoRun}
    BY <1>1, <1>2, <1>10, <1>14, <1>19 DEF ShownInv, e, l
  <1> QED
    BY <1>1, <1>9, <1>13, <1>19, <1>20, EffectKeeps

LEMMA StartKeeps ==
    ASSUME ViewInv, (\E r \in Followed : Select(r)) \/ Accept \/ ResearchAgain \/ Renew
    PROVE  ViewInv'
  <1>1. /\ shown \in ShownRecords /\ card \in Cards /\ error \in BOOLEAN
        /\ leftover \in Followed \cup {NoRun}
        /\ ShownOK(shown, card, log[shown.run], finished[shown.run], selected, leftover) /\ selected \in Followed \cup {NoRun}
    BY DEF ViewInv, ViewTypes, ShownInv
  <1>2. ASSUME NEW r \in Followed, Select(r) PROVE ViewInv'
    <2>1. /\ selected = NoRun /\ selected' = r /\ Restarted(r)
          /\ error' = FALSE /\ UNCHANGED <<server, log, finished, shown, card, leftover>>
      BY <1>2 DEF Select, server, onScreen
    <2>2. ShownInv'
      BY <1>1, <2>1 DEF ShownInv, ShownOK
    <2> QED
      BY <1>1, <2>1, <2>2, RestartKeeps
  <1>3. CASE Accept
    <2>1. /\ selected \in Followed /\ selected' = selected /\ Restarted(selected)
          /\ error' = FALSE /\ UNCHANGED <<server, log, finished, shown, card, leftover>>
      BY <1>1, <1>3 DEF Accept, server, onScreen
    <2>2. ShownInv'
      BY <1>1, <2>1 DEF ShownInv
    <2> QED
      BY <1>1, <2>1, <2>2, RestartKeeps
  <1>4. CASE Renew
    <2>1. /\ selected \in Followed /\ selected' = selected /\ Restarted(selected)
          /\ UNCHANGED <<server, log, finished, shown, card, leftover, error>>
      BY <1>1, <1>4 DEF Renew, server, onScreen
    <2>2. ShownInv'
      BY <1>1, <2>1 DEF ShownInv
    <2> QED
      BY <1>1, <2>1, <2>2, RestartKeeps
  <1>5. CASE ResearchAgain
    <2>1. /\ selected \in Followed /\ selected' = selected /\ Restarted(selected)
          /\ error' = FALSE /\ UNCHANGED <<server, log, finished, leftover>> /\ card' = NoCard
          /\ shown' = [shown EXCEPT !.bundle = 0] /\ shown.run # NoRun
      BY <1>1, <1>5 DEF ResearchAgain, researchWaiting, server
    <2>2. /\ shown' \in ShownRecords /\ shown'.run = shown.run /\ shown'.events = shown.events
          /\ shown'.done = shown.done /\ shown'.version = shown.version
      BY <1>1, <2>1 DEF ShownRecords
    <2>3. card' \in Cards /\ card'.key = 0 /\ card'.base = 0
      BY <2>1 DEF NoCard, Cards
    <2>7. ShownOK(shown', card', log[shown.run], finished[shown.run], selected, leftover)
      BY <1>1, <2>1, <2>2, <2>3 DEF ShownOK, CardOK
    <2>8. ShownInv' /\ error' \in BOOLEAN
      BY <2>1, <2>2, <2>7 DEF ShownInv
    <2> QED
      BY <1>1, <2>1, <2>2, <2>3, <2>8, RestartKeeps
  <1> QED
    BY <1>2, <1>3, <1>4, <1>5

LEMMA ViewInvImplies == ViewInv => RunShown
  <1> SUFFICES ASSUME ViewInv PROVE RunShown
    OBVIOUS
  <1>1. /\ shown \in ShownRecords /\ card \in Cards /\ log \in [Followed -> Seq(Kinds)]
        /\ ShownOK(shown, card, log[shown.run], finished[shown.run], selected, leftover) /\ selected \in Followed \cup {NoRun}
    BY DEF ViewInv, ViewTypes, ShownInv
  <1>2. RunViewTypeOK
    <2>1. \A r \in Followed : log[r] \in Seq(Kinds) /\ rev[r] \in 0..MaxLog[r]
      <3>1. \A r \in Followed : rev[r] <= MaxLog[r] /\ MaxLog[r] \in Nat
        BY RunViewAssumption DEF ViewInv, LogsInv, LogOK
      <3> QED
        BY <3>1, ViewFacts
    <2>2. shown.run \in Followed \cup {NoRun}
      BY <1>1 DEF ShownRecords
    <2>3. shown.run # NoRun => shown.events \subseteq Published(shown.run)
      BY <1>1 DEF ShownOK, Published
    <2>4. \A g \in DOMAIN effects : Live(g) => g = cur /\ effects[g].run = selected
      BY DEF ViewInv, LiveInv, Live
    <2> QED
      BY <2>1, <2>2, <2>3, <2>4 DEF RunViewTypeOK
  <1>3. ShownIsSelected
    BY <1>1 DEF ShownOK, ShownIsSelected
  <1>4. RefreshIsNotForgotten
    <2> SUFFICES ASSUME NEW g \in DOMAIN effects, ~effects[g].aborted, ~error,
                        NEW i \in effects[g].seen, eventNeedsSnapshot(log[effects[g].run][i])
                 PROVE  \/ /\ shown.run = effects[g].run /\ shown.version >= bundleVersion(effects[g].run, i)
                           /\ (log[effects[g].run][i] = "done" => shown.done)
                        \/ effects[g].phase = "snapshot" \/ effects[g].pending
                        \/ effects[g].phase \in {"artifacts", "apply"} /\ effects[g].snap >= i
      BY DEF RefreshIsNotForgotten, Live
    <2>1. Asked(effects[g], log[effects[g].run], shown, i)
      BY EffectFacts DEF LiveOK, AskedOK
    <2>2. Top(log[effects[g].run], i) = bundleVersion(effects[g].run, i)
      BY DEF Top, Comp, bundleVersion, Completions
    <2> QED
      BY <2>1, <2>2 DEF Asked
  <1>5. ReceivedIsShown
    BY EffectFacts DEF LiveOK, KeptOK, ReceivedIsShown, Live
  <1>6. EditsBeginFromKeyedBundle
    <2> SUFFICES ASSUME card.key # 0, ~card.carried
                 PROVE  /\ card.of = shown.run
                        /\ card.base >= Cardinality(Completions(shown.run, card.key))
      BY DEF EditsBeginFromKeyedBundle
    <2>1. Completions(shown.run, card.key) = Comp(log[shown.run], card.key)
      BY DEF Completions, Comp
    <2>2. /\ Cardinality(Comp(log[shown.run], card.key)) <= card.base /\ card.of = shown.run
          /\ card.key \in Nat /\ card.base \in Nat
      BY <1>1 DEF ShownOK, CardOK, Cards
    <2>3. Cardinality(Comp(log[shown.run], card.key)) \in Nat
      BY <2>2, CompFacts
    <2> QED
      BY <2>1, <2>2, <2>3
  <1> QED
    BY <1>2, <1>3, <1>4, <1>5, <1>6 DEF RunShown

LEMMA ViewInitial == RunViewInit => ViewInv
  <1> SUFFICES ASSUME RunViewInit PROVE ViewInv
    OBVIOUS
  <1>1. /\ log = [r \in Followed |-> <<>>] /\ rev = [r \in Followed |-> 0]
        /\ selected = NoRun /\ cur = 0 /\ effects = <<>>
        /\ shown = NothingShown /\ card = NoCard /\ error = FALSE
        /\ finished = [r \in Followed |-> FALSE] /\ leftover = NoRun
    BY DEF RunViewInit
  <1>2. shown \in ShownRecords /\ card \in Cards /\ shown.run = NoRun /\ card.key = 0
    BY <1>1 DEF NothingShown, NoCard, ShownRecords, Cards
  <1>3. effects \in Seq(EffectRecords) /\ DOMAIN effects = {}
    BY <1>1
  <1>4. ASSUME NEW r \in Followed PROVE LogOK(log[r], rev[r], finished[r], MaxLog[r])
    <2>1. log[r] = <<>> /\ Len(log[r]) = 0 /\ rev[r] = 0 /\ MaxLog[r] \in Nat
      BY <1>1, RunViewAssumption
    <2>2. Comp(log[r], 0) = {}
      BY DEF Comp
    <2>3. Cardinality(Comp(log[r], 0)) = 0 /\ Topped(log[r], 0)
      BY <2>2, FS_EmptySet DEF Topped
    <2>4. ~Over(log[r], 0)
      BY DEF Over
    <2> QED
      BY <2>1, <2>3, <2>4 DEF LogOK
  <1>5. ViewTypes
    <2>1. log \in [Followed -> Seq(Kinds)]
      BY <1>1
    <2>2. /\ rev \in [Followed -> Nat] /\ selected \in Followed \cup {NoRun} /\ cur \in Nat
          /\ error \in BOOLEAN /\ finished \in [Followed -> BOOLEAN] /\ leftover \in Followed \cup {NoRun}
      BY <1>1
    <2> QED
      BY <1>2, <1>3, <2>1, <2>2 DEF ViewTypes
  <1> QED
    BY <1>2, <1>3, <1>4, <1>5 DEF ViewInv, LogsInv, FetchInv, OverInv, LiveInv, ShownInv, ShownOK

LEMMA ViewStep ==
    ASSUME ViewInv, [RunViewNext]_runViewVars
    PROVE  ViewInv'
  <1>1. ASSUME NEW g \in DOMAIN effects, Effect(g) PROVE ViewInv'
    BY <1>1, ConnectKeeps, ConnectionKeeps, ReceiveKeeps, ReadSnapshotKeeps, ReadArtifactsKeeps,
       ApplyKeeps, DiscardKeeps, RefreshFailsKeeps DEF Effect
  <1>2. CASE UNCHANGED runViewVars
    BY <1>2 DEF runViewVars, server, choice, onScreen, ViewInv, ViewTypes, LogsInv, FetchInv, OverInv, LiveInv, ShownInv
  <1> QED
    BY <1>1, <1>2, WriteBundleKeeps, FinishKeeps, PublishKeeps, RestoreKeeps, DeselectKeeps,
       StartKeeps DEF RunViewNext

\* The browser shows the selected run, or the one a restore has left on the screen, forgets neither a refresh nor an
\* event it received, and lets edits begin from the bundle their key names (refresh,
\* mergeEvents and the review card's key in workspace.tsx).
THEOREM RunFollowed == RunViewSpec => []RunShown
  <1>1. RunViewInit => ViewInv
    BY ViewInitial
  <1>2. ViewInv /\ [RunViewNext]_runViewVars => ViewInv'
    BY ViewStep
  <1>3. ViewInv => RunShown
    BY ViewInvImplies
  <1> QED
    BY <1>1, <1>2, <1>3, PTL DEF RunViewSpec
=============================================================================
