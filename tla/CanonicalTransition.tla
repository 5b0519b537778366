------------------------ MODULE CanonicalTransition ------------------------
(***************************************************************************)
(* The pure control table of the per-stage pipeline: which stage follows   *)
(* which, at which refinement iteration, and which outcomes end the run    *)
(* (backend/workflow/canonical-transition.ts, pipeline/stage-outcome.ts,   *)
(* pipeline/stage-scope.ts).                                               *)
(***************************************************************************)
EXTENDS Naturals

CONSTANT MaxRefinements     \* MAX_REFINEMENT_ITERATIONS, 3 in the code

ASSUME MaxRefinementsAssumption == MaxRefinements \in Nat

IterativeStages == {"refactor", "gap-analysis", "evaluation", "triple-validation"}

Stages == IterativeStages \union
          {"researcher", "planner", "confirmation", "hash", "build", "finalize"}

\* A stage identity as the checkpoints and the job ids name it.
Id(stage, iteration) == [stage |-> stage, iteration |-> iteration]

Iterations == 0 .. MaxRefinements

\* Every identity the pipeline can reach with fault injection switched off:
\* run-level stages are pinned to iteration 0 (research revisions are the
\* subject of ResearchGate).
Ids == { Id(s, i) : s \in IterativeStages, i \in Iterations }
       \union { Id(s, 0) : s \in Stages \ IterativeStages }

stageIteration(stage, iteration) ==
    IF stage \in IterativeStages \union {"researcher"} THEN iteration ELSE 0

(***************************************************************************)
(* Outcomes.  An issue is abstracted to the place that raised it; "none"   *)
(* stands for an absent issue.                                             *)
(***************************************************************************)
NoIssue == "none"
Issues == {"triple-validation", "hash", "build", "uncertain", "finalize"}

advance == [kind |-> "advance", issue |-> NoIssue]
refine(issue) == [kind |-> "refine", issue |-> issue]
terminal(issue) == [kind |-> "terminal", issue |-> issue]

Outcomes == {advance} \union { refine(x) : x \in Issues }
                      \union { terminal(x) : x \in Issues }

(***************************************************************************)
(* Transitions.  All four kinds share one record shape so that they can be *)
(* compared: "finalization" is the issue of a failed-finalization intent.  *)
(***************************************************************************)
Goto(stage, iteration) ==
    [type |-> "next", to |-> Id(stage, iteration), result |-> "none",
     finalization |-> NoIssue]

Wait(gate) ==
    [type |-> gate, to |-> Id("none", 0), result |-> "none",
     finalization |-> NoIssue]

Finish(result, issue) ==
    [type |-> "done", to |-> Id("none", 0), result |-> result,
     finalization |-> issue]

failedFinalization(outcome) ==
    [Goto("finalize", 0) EXCEPT !.finalization = outcome.issue]

resolveTripleValidationTransition(outcome, iteration) ==
    CASE outcome.kind = "terminal" -> failedFinalization(outcome)
      [] outcome.kind = "refine" /\ iteration >= MaxRefinements
             -> failedFinalization(outcome)
      [] outcome.kind = "refine" /\ iteration < MaxRefinements
             -> Goto("gap-analysis", iteration + 1)
      [] outcome.kind = "advance" -> Goto("confirmation", 0)

resolveTransition(stage, outcome, iteration) ==
    IF outcome.kind = "terminal" /\ stage # "finalize"
    THEN failedFinalization(outcome)
    ELSE LET refined == Goto("gap-analysis", iteration + 1)
             orElse(t) == IF outcome.kind = "refine" THEN refined ELSE t
         IN CASE stage = "researcher"        -> Wait("wait-human")
              [] stage = "planner"           -> Goto("refactor", 0)
              [] stage = "refactor"          -> Goto("gap-analysis", iteration)
              [] stage = "gap-analysis"      -> orElse(Goto("evaluation", iteration))
              [] stage = "evaluation"        -> orElse(Goto("triple-validation", iteration))
              [] stage = "triple-validation" -> resolveTripleValidationTransition(outcome, iteration)
              [] stage = "confirmation"      -> Goto("hash", 0)
              [] stage = "hash"              -> Wait("wait-build")
              [] stage = "build"             -> Goto("finalize", 0)
              [] stage = "finalize"          ->
                     IF outcome.kind = "terminal" THEN Finish("Failed", outcome.issue)
                                                  ELSE Finish("Passed", NoIssue)
=============================================================================
