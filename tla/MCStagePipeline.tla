-------------------------- MODULE MCStagePipeline --------------------------
(***************************************************************************)
(* StagePipeline for TLC.  A run may start at a later stage (Entry) of the *)
(* straight path, in the state the pipeline reaches when every earlier     *)
(* stage completed at iteration 0 without incident; the adversity is then  *)
(* spent on the stages under study.                                        *)
(***************************************************************************)
EXTENDS StagePipeline, TLC

CONSTANT Entry      \* the stage whose job is waiting in the initial state

WorkerSymmetry == Permutations(Workers)

Path == <<"researcher", "planner", "refactor", "gap-analysis", "evaluation",
          "triple-validation", "confirmation", "hash", "build">>

ASSUME EntryAssumption == \E n \in DOMAIN Path : Path[n] = Entry

Position(stage) == CHOOSE n \in DOMAIN Path : Path[n] = stage

Earlier == { Id(Path[n], 0) : n \in 1 .. (Position(Entry) - 1) }
Passed(stage) == Id(stage, 0) \in Earlier

MCInit ==
    /\ jobs = [id \in Ids |->
                  CASE id \in Earlier -> EndedJob("completed")
                    [] id = Id(Entry, 0) -> QueuedJob
                    [] OTHER -> AbsentJob]
    /\ lease = [id \in Ids |-> NoOwner]
    /\ outcome = [id \in Ids |-> IF id \in Earlier THEN advance ELSE NoOutcome]
    /\ completed = { MarkedKey(id) : id \in Earlier }
    /\ trans = [id \in Ids |-> IF id \in Earlier THEN "committed" ELSE "none"]
    /\ intent = NoIssue
    /\ termState = "none"
    /\ termIssue = NoIssue
    /\ builderIntent = FALSE
    /\ planConfirmed = (Entry # "researcher")
    /\ store = [triple |-> IF Passed("triple-validation") THEN "valid" ELSE "none",
                proof |-> IF Passed("hash") THEN "equal" ELSE "none",
                review |-> Passed("hash"), approval |-> Passed("hash"),
                build |-> "none"]
    /\ run = [status |-> "Running", result |-> "none", issue |-> NoIssue]
    /\ hashEqual \in (IF Passed("hash") THEN {TRUE} ELSE BOOLEAN)
    /\ doneEvents = 0
    /\ builderRuns = 0
    /\ pc = [p \in Procs |-> "idle"]
    /\ job = [p \in Procs |-> NoId]
    /\ out = [p \in Procs |-> NoOutcome]
    /\ issueHeld = [p \in Procs |-> NoIssue]
    /\ sawDone = [p \in Procs |-> FALSE]
    /\ budget = [crash |-> MaxCrashes, throw |-> MaxThrows,
                 stall |-> MaxStalls, expire |-> MaxExpiries]

MCSpec == MCInit /\ [][Next]_vars

MCFairSpec == MCSpec /\ Fairness
=============================================================================
