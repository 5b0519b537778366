----------------------------- MODULE ProofGraph -----------------------------
(***************************************************************************)
(* Gap Analysis and Triple Validation inside WorkflowRuntime: the ring of   *)
(* gap-graph.ts, run once after Refactor and once per refinement, and the   *)
(* proof graph of proof-graph.ts with its three concurrent validators.  All *)
(* nodes share one WorkflowRunState, which is not cleared between rounds.   *)
(*                                                                         *)
(* A plan is the set of references of each step: the four *_refs fields of  *)
(* a step are one set, a reference carries its branch.  An action is one    *)
(* node's handler with the edge taken after it; the Strands SDK runs a node *)
(* when all its sources have completed.  A node that skips itself because   *)
(* of a root cause changes nothing, so a root cause leads straight to the   *)
(* end of the graph.                                                        *)
(***************************************************************************)
EXTENDS Naturals

CONSTANTS
    Steps, FirstStep,   \* plan.steps and plan.steps[0]
    Refs,               \* requirements, criteria, assertions, schema: ids
    Required,           \* the ones detectGaps wants represented
    Goals,              \* success_criteria of the Goal
    RoutedGoals,        \* criterion_ids routed to Goal Validation
    Assertions,         \* assertion_ids routed to Fixture Validation
    Fixtures,           \* the fixtures Researcher may have written
    Plans,              \* the plans Refactor may hand over
    MaxGapIterations,   \* 256 in the code
    MaxRefinements      \* MAX_VALIDATION_REFINEMENTS, 3 in the code

\* What a fixture assertion looks at.  "additive": contains, references or
\* allFilesSpecified on $.steps.<n>.<refs>; "list": contains with an array,
\* which is never satisfied but has string expectations; "other": any other
\* operator or target, whose result a refinement cannot aim at.
Expectations == [kind : {"additive", "list", "other"}, step : Steps, refs : SUBSET Refs]

AllPlans == [Steps -> SUBSET Refs]

ASSUME ProofAssumption ==
    /\ FirstStep \in Steps
    /\ Required \subseteq Refs /\ Goals \subseteq Required /\ RoutedGoals \subseteq Refs
    /\ Fixtures \subseteq [Assertions -> Expectations]
    /\ Plans \subseteq AllPlans
    /\ MaxGapIterations \in Nat /\ MaxRefinements \in Nat

VARIABLES
    node,           \* node that runs next
    ring,           \* GapAnalysis ("first") or GapAnalysisRefine ("refine")
    expects,        \* bundle.fixture.plan_assertions
    plan, revision, \* oneshot.plan
    bundle,         \* bundle.plan with its revision
    seeds,          \* gap_seed_findings
    findings,       \* gap_findings
    gap, gapSaved,  \* oneshot.gap (revision 0: absent), gap_saved
    iterations,     \* gap_iterations
    proofs,         \* the results of the three validators
    arrived,        \* validators that completed in this round
    triple,         \* triple_validation: revision, misses, all_valid
    refinements, signatures, before,
    evaluation      \* oneshot.evaluation

vars == <<node, ring, expects, plan, revision, bundle, seeds, findings, gap,
          gapSaved, iterations, proofs, arrived, triple, refinements,
          signatures, before, evaluation>>

planVars == <<expects, plan, revision>>
ringVars == <<bundle, seeds, findings, gap, gapSaved, iterations>>
proofVars == <<proofs, arrived, triple, refinements, signatures, before, evaluation>>

-----------------------------------------------------------------------------
Validators == {"schema", "fixture", "goal"}
Terminal == {"confirmed", "root", "failed"}
Nodes == Terminal \union
    {"gapCheck", "gapFix", "gapRecheck", "gapComplete", "evaluation", "admission",
     "validate", "join", "refineCheck", "progress", "refineEval", "confirm"}

Sources == Assertions \union {"coverage", "goal"}

\* A gap finding; source, step and ref are its key.
Finding(source, step, ref) == [source |-> source, step |-> step, ref |-> ref]
AllFindings == [source : Sources, step : Steps, ref : Refs]

Represented(p) == UNION {p[s] : s \in Steps}

detectGaps(p) == {Finding("coverage", FirstStep, r) : r \in Required \ Represented(p)}

alreadySatisfied(p, f) == f.ref \in p[f.step]

Absent == [revision |-> 0, ok |-> FALSE]

\* Misses of the fixture run: "other" assertions may come out either way.
AdditiveMisses(p) ==
    {a \in Assertions : \/ expects[a].kind = "list"
                        \/ expects[a].kind = "additive" /\ ~(expects[a].refs \subseteq p[expects[a].step])}
OtherAssertions == {a \in Assertions : expects[a].kind = "other"}

GoalMisses(p) == {c \in RoutedGoals : c \notin Goals \/ c \notin Represented(p)}

NoMisses == [v \in Validators |-> {}]

\* The misses decide whether two rounds look alike.
validationSignature == triple.missed

Init ==
    /\ node = "gapCheck" /\ ring = "first"
    /\ expects \in Fixtures
    /\ plan \in Plans
    /\ revision = 1
    /\ bundle = [plan |-> plan, revision |-> 1]
    /\ seeds = {} /\ findings = {}
    /\ gap = Absent /\ gapSaved = FALSE
    /\ iterations = 0
    /\ proofs = [v \in Validators |-> [revision |-> 0, missed |-> {}]]
    /\ arrived = {}
    /\ triple = [revision |-> 0, missed |-> NoMisses, all_valid |-> FALSE]
    /\ refinements = 0 /\ signatures = {} /\ before = 0
    /\ evaluation = Absent

-----------------------------------------------------------------------------
(* The gap ring. *)

GapCheck ==
    /\ node = "gapCheck"
    /\ seeds' = {f \in seeds : ~alreadySatisfied(plan, f)}
    /\ findings' = seeds' \union detectGaps(plan)
    /\ node' = IF findings' # {} THEN "gapFix" ELSE "gapComplete"
    /\ UNCHANGED <<ring, planVars, bundle, gap, gapSaved, iterations, proofVars>>

\* The reference is added to the target step.  GapCheck has just dropped the
\* satisfied findings and every finding names a step of the plan, so neither
\* root cause of resolveOne can arise.
resolveOne(p, f) == [p EXCEPT ![f.step] = @ \union {f.ref}]

\* The first finding, seeds before coverage; which of them is first is left open.
GapFix ==
    /\ node = "gapFix"
    /\ \E f \in IF seeds # {} THEN seeds ELSE findings :
         /\ plan' = resolveOne(plan, f)
         /\ seeds' = seeds \ {f}
    /\ revision' = revision + 1
    /\ iterations' = iterations + 1
    /\ node' = IF iterations' > MaxGapIterations THEN "failed" ELSE "gapRecheck"
    /\ UNCHANGED <<ring, expects, bundle, findings, gap, gapSaved, proofVars>>

finalize == [revision |-> revision, ok |-> TRUE]

\* Once per entry of the ring: the bundle takes over the plan.
persist ==
    /\ bundle' = IF gapSaved THEN bundle ELSE [plan |-> plan, revision |-> revision]
    /\ gapSaved' = TRUE

LeaveRing ==
    /\ gap' = IF gap = Absent THEN finalize ELSE gap
    /\ persist
    /\ node' = IF ring = "first" THEN "evaluation" ELSE "progress"
    /\ UNCHANGED findings

\* Only coverage is looked at again: validation findings that are still
\* pending in seeds do not keep the ring going.
GapRecheck ==
    /\ node = "gapRecheck"
    /\ IF gap # Absent \/ detectGaps(plan) = {}
         THEN LeaveRing
         ELSE /\ findings' = detectGaps(plan)
              /\ node' = "gapCheck"
              /\ UNCHANGED <<bundle, gap, gapSaved>>
    /\ UNCHANGED <<ring, planVars, seeds, iterations, proofVars>>

GapComplete ==
    /\ node = "gapComplete"
    /\ LeaveRing
    /\ UNCHANGED <<ring, planVars, seeds, iterations, proofVars>>

-----------------------------------------------------------------------------
(* Evaluation, admission and the three validators. *)

\* evaluatePlan fails on coverage gaps; its other areas may fail as well.
Evaluated(ok) ==
    /\ ok \in BOOLEAN
    /\ ok => detectGaps(plan) = {}

Evaluate ==
    /\ node = "evaluation"
    /\ \E ok \in BOOLEAN :
         /\ Evaluated(ok)
         /\ evaluation' = [revision |-> revision, ok |-> ok]
         /\ node' = IF ok THEN "admission" ELSE "root"
    /\ UNCHANGED <<ring, planVars, ringVars, proofs, arrived, triple, refinements,
                   signatures, before>>

\* assertRouting passes or is a root cause; the validators fan out.
Admission ==
    /\ node = "admission"
    /\ node' \in {"validate", "root"}
    /\ arrived' = {}
    /\ UNCHANGED <<ring, planVars, ringVars, proofs, triple, refinements, signatures,
                   before, evaluation>>

\* The possible results of the validators on the plan.  Researcher's schema may
\* accept or reject any plan.
validateSchema == {{}, {"schema"}}
validateFixture == {AdditiveMisses(plan) \union x : x \in SUBSET OtherAssertions}
validateGoal == {GoalMisses(plan)}

Outcomes(v) == CASE v = "schema"  -> validateSchema
                 [] v = "fixture" -> validateFixture
                 [] v = "goal"    -> validateGoal

\* The last source to complete lets the join run.
Validate(v) ==
    /\ node = "validate"
    /\ v \notin arrived
    /\ \E missed \in Outcomes(v) :
         proofs' = [proofs EXCEPT ![v] = [revision |-> revision, missed |-> missed]]
    /\ arrived' = arrived \union {v}
    /\ node' = IF arrived' = Validators THEN "join" ELSE "validate"
    /\ UNCHANGED <<ring, planVars, ringVars, triple, refinements, signatures, before,
                   evaluation>>

\* Mutant: some instead of every.
Joined_AnyValid(missed) ==
    [revision |-> revision, missed |-> missed,
     all_valid |-> \E v \in Validators : missed[v] = {}]

\* TripleValidationWorkflow.join; all results name the same plan_id.
Joined(missed) ==
    [revision |-> revision, missed |-> missed,
     all_valid |-> \A v \in Validators : missed[v] = {}]

Join ==
    /\ node = "join"
    /\ triple' = Joined([v \in Validators |-> proofs[v].missed])
    /\ node' = IF triple'.all_valid THEN "confirm" ELSE "refineCheck"
    /\ UNCHANGED <<ring, planVars, ringVars, proofs, arrived, refinements, signatures,
                   before, evaluation>>

-----------------------------------------------------------------------------
(* Refinement. *)

fixtureFindings ==
    {f \in AllFindings :
        /\ f.source \in triple.missed["fixture"]
        /\ f.source \in Assertions
        /\ LET e == expects[f.source]
           IN e.kind # "other" /\ f.step = e.step /\ f.ref \in e.refs \ plan[e.step]}

\* Targets are the steps of bundle.plan that hold the criterion.
goalFindings ==
    {f \in AllFindings :
        /\ f.source = "goal"
        /\ f.ref \in triple.missed["goal"] \intersect Goals
        /\ f.ref \in bundle.plan[f.step] \ plan[f.step]}

validationFeedback == fixtureFindings \union goalFindings

\* Mutant: the gap result of the previous round stays in the run state.
RefineCheck_KeepsGap ==
    /\ node = "refineCheck"
    /\ IF \/ refinements >= MaxRefinements
          \/ validationFeedback = {}
          \/ validationSignature \in signatures
         THEN /\ node' = "root"
              /\ UNCHANGED <<ring, seeds, findings, gap, gapSaved, iterations,
                             refinements, signatures, before>>
         ELSE /\ node' = "gapCheck"
              /\ ring' = "refine"
              /\ refinements' = refinements + 1
              /\ signatures' = signatures \union {validationSignature}
              /\ seeds' = validationFeedback
              /\ before' = revision
              /\ findings' = {}
              /\ UNCHANGED <<gap, gapSaved>>
              /\ iterations' = 0
    /\ UNCHANGED <<planVars, bundle, proofs, arrived, triple, evaluation>>

\* The limit, the feedback and the signature are tested in this order; each is
\* a root cause.  Otherwise the scratch state of the ring is reset.
RefineCheck ==
    /\ node = "refineCheck"
    /\ IF \/ refinements >= MaxRefinements
          \/ validationFeedback = {}
          \/ validationSignature \in signatures
         THEN /\ node' = "root"
              /\ UNCHANGED <<ring, seeds, findings, gap, gapSaved, iterations,
                             refinements, signatures, before>>
         ELSE /\ node' = "gapCheck"
              /\ ring' = "refine"
              /\ refinements' = refinements + 1
              /\ signatures' = signatures \union {validationSignature}
              /\ seeds' = validationFeedback
              /\ before' = revision
              /\ gap' = Absent /\ findings' = {} /\ gapSaved' = FALSE
              /\ iterations' = 0
    /\ UNCHANGED <<planVars, bundle, proofs, arrived, triple, evaluation>>

ProgressCheck ==
    /\ node = "progress"
    /\ node' = IF revision <= before THEN "root" ELSE "refineEval"
    /\ UNCHANGED <<ring, planVars, ringVars, proofVars>>

\* A failed evaluation is a root cause and leaves the previous one in place.
RefineEvaluate ==
    /\ node = "refineEval"
    /\ \E ok \in BOOLEAN :
         /\ Evaluated(ok)
         /\ evaluation' = IF ok THEN [revision |-> revision, ok |-> TRUE] ELSE evaluation
         /\ node' = IF ok THEN "admission" ELSE "root"
    /\ UNCHANGED <<ring, planVars, ringVars, proofs, arrived, triple, refinements,
                   signatures, before>>

\* The package is made from what the run state holds.
Confirm ==
    /\ node = "confirm"
    /\ node' = IF triple.all_valid THEN "confirmed" ELSE "failed"
    /\ UNCHANGED <<ring, planVars, ringVars, proofVars>>

\* A handler throws: the graph ends FAILED.
Throw ==
    /\ node \notin Terminal
    /\ node' = "failed"
    /\ UNCHANGED <<ring, planVars, ringVars, proofVars>>

Next ==
    \/ GapCheck \/ GapFix \/ GapRecheck \/ GapComplete
    \/ Evaluate \/ Admission \/ (\E v \in Validators : Validate(v)) \/ Join
    \/ RefineCheck \/ ProgressCheck \/ RefineEvaluate \/ Confirm
    \/ Throw

Spec == Init /\ [][Next]_vars

-----------------------------------------------------------------------------
(* Properties. *)

Results == [revision : Nat, ok : BOOLEAN]
Misses == SUBSET (Assertions \union RoutedGoals \union {"schema"})

\* Types, and no more refinements or iterations than the limits allow.
ProofTypeOK ==
    /\ node \in Nodes /\ ring \in {"first", "refine"}
    /\ expects \in Fixtures
    /\ plan \in AllPlans /\ revision \in Nat \ {0}
    /\ bundle \in [plan : AllPlans, revision : Nat]
    /\ seeds \subseteq AllFindings /\ findings \subseteq AllFindings
    /\ gap \in Results /\ gapSaved \in BOOLEAN /\ evaluation \in Results
    /\ iterations \in 0..(MaxGapIterations + 1)
    /\ proofs \in [Validators -> [revision : Nat, missed : Misses]]
    /\ arrived \subseteq Validators
    /\ triple \in [revision : Nat, missed : [Validators -> Misses], all_valid : BOOLEAN]
    /\ signatures \subseteq [Validators -> Misses]
    /\ refinements \in 0..MaxRefinements /\ before \in Nat

\* Everything the confirmed package is made of was computed for the plan in
\* it: gap_0, the evaluation, the three proofs and the bundle all belong to the
\* current revision, whatever earlier rounds left in the run state
\* (proof-graph.ts: the resets of RefineCheck; gap-graph.ts: persist).  And the
\* state keeps its types and limits.
EvidenceAgrees ==
    /\ ProofTypeOK
    /\ node = "confirmed" =>
           /\ bundle = [plan |-> plan, revision |-> revision]
           /\ gap = [revision |-> revision, ok |-> TRUE]
           /\ evaluation = [revision |-> revision, ok |-> TRUE]
           /\ triple.revision = revision
           /\ \A v \in Validators : proofs[v].revision = revision

\* A confirmed plan really has what was proved of it: every required reference
\* is represented, every routed criterion is known and mapped, and every
\* assertion about references holds (triple-validation.ts: join; coverage.ts).
ConfirmedIsProved ==
    node = "confirmed" => /\ detectGaps(plan) = {}
                          /\ AdditiveMisses(plan) = {}
                          /\ GoalMisses(plan) = {}
=============================================================================
