-------------------------- MODULE ProofGraph_proofs --------------------------
(***************************************************************************)
(* Proofs about Gap Analysis and Triple Validation, for every fixture, plan *)
(* and limit.                                                               *)
(***************************************************************************)
EXTENDS ProofGraph, TLAPS

InRing == {"gapCheck", "gapFix", "gapRecheck", "gapComplete"}
AfterEvaluation == {"admission", "validate", "join", "refineCheck", "confirm", "confirmed"}
AfterRing == AfterEvaluation \union {"evaluation", "progress", "refineEval"}

\* The iteration counter passes its limit only in the step that fails the graph.
BoundInv == node # "failed" => iterations <= MaxGapIterations

\* In the ring nothing is left of an earlier gap result; behind it the gap
\* result and the bundle belong to the plan, which has no coverage gap.
RingInv ==
    /\ node \in InRing => gap = Absent /\ gapSaved = FALSE
    /\ node = "gapComplete" => detectGaps(plan) = {}
    /\ node \in AfterRing =>
          /\ gap = [revision |-> revision, ok |-> TRUE]
          /\ bundle = [plan |-> plan, revision |-> revision]
          /\ detectGaps(plan) = {}

EvaluationInv == node \in AfterEvaluation => evaluation = [revision |-> revision, ok |-> TRUE]

\* The result of validator v is about this plan and hides no miss.
Proved(v) ==
    /\ proofs[v].revision = revision
    /\ v = "fixture" => AdditiveMisses(plan) \subseteq proofs[v].missed
    /\ v = "goal" => GoalMisses(plan) \subseteq proofs[v].missed

ProvedInv ==
    /\ node = "validate" => \A v \in arrived : Proved(v)
    /\ node \in {"join", "confirm", "confirmed"} => \A v \in Validators : Proved(v)
    /\ node \in {"confirm", "confirmed"} =>
          triple.revision = revision /\ \A v \in Validators : proofs[v].missed = {}

ProofInv == ProofTypeOK /\ BoundInv /\ RingInv /\ EvaluationInv /\ ProvedInv

-----------------------------------------------------------------------------
\* What the operators of the model return.
LEMMA FindingTypes ==
    ASSUME ProofTypeOK
    PROVE  /\ detectGaps(plan) \subseteq AllFindings
           /\ validationFeedback \subseteq AllFindings
  <1>1. detectGaps(plan) \subseteq AllFindings
    BY ProofAssumption DEF detectGaps, Finding, AllFindings, Sources
  <1>2. validationFeedback \subseteq AllFindings
    BY DEF validationFeedback, fixtureFindings, goalFindings
  <1> QED
    BY <1>1, <1>2

\* A validator answers with misses of its kind, and with every one the plan has.
LEMMA OutcomeTypes ==
    ASSUME ProofTypeOK, NEW v \in Validators, NEW missed \in Outcomes(v)
    PROVE  /\ missed \in Misses
           /\ v = "fixture" => AdditiveMisses(plan) \subseteq missed
           /\ v = "goal" => GoalMisses(plan) \subseteq missed
  <1>1. CASE v = "schema"
    BY <1>1 DEF Outcomes, Misses, validateSchema
  <1>2. CASE v = "fixture"
    BY <1>2 DEF Outcomes, validateFixture, Misses, AdditiveMisses, OtherAssertions
  <1>3. CASE v = "goal"
    BY <1>3 DEF Outcomes, validateGoal, Misses, GoalMisses
  <1> QED
    BY <1>1, <1>2, <1>3 DEF Validators

\* Initially nothing has been computed.
LEMMA ProofInit ==
    ASSUME Init
    PROVE  ProofInv
  <1>1. ProofTypeOK
    <2>1. node \in Nodes /\ ring \in {"first", "refine"} /\ expects \in Fixtures
      BY DEF Init, Nodes
    <2>2. plan \in AllPlans /\ revision \in Nat \ {0}
      BY ProofAssumption DEF Init
    <2>3. bundle \in [plan : AllPlans, revision : Nat]
      BY <2>2 DEF Init
    <2>4. gap \in Results /\ gapSaved \in BOOLEAN /\ evaluation \in Results
      BY DEF Init, Absent, Results
    <2>5. iterations \in 0..(MaxGapIterations + 1) /\ refinements \in 0..MaxRefinements
          /\ before \in Nat
      BY ProofAssumption DEF Init
    <2>6. {} \in Misses
      BY DEF Misses
    <2>7. proofs \in [Validators -> [revision : Nat, missed : Misses]]
      BY <2>6 DEF Init
    <2>8. triple \in [revision : Nat, missed : [Validators -> Misses], all_valid : BOOLEAN]
      BY <2>6 DEF Init, NoMisses
    <2>9. seeds = {} /\ findings = {} /\ arrived = {} /\ signatures = {}
      BY DEF Init
    <2> QED
      BY <2>1, <2>2, <2>3, <2>4, <2>5, <2>7, <2>8, <2>9 DEF ProofTypeOK
  <1>2. BoundInv /\ RingInv /\ EvaluationInv /\ ProvedInv
    BY ProofAssumption DEF Init, BoundInv, RingInv, EvaluationInv, ProvedInv, InRing, AfterRing,
       AfterEvaluation
  <1> QED
    BY <1>1, <1>2 DEF ProofInv

-----------------------------------------------------------------------------
\* The ring: plan, scratch state and gap result.
LEMMA GapCheckKeeps ==
    ASSUME ProofInv, GapCheck
    PROVE  ProofInv'
  <1> USE DEF ProofInv
  <1>1. node' \in {"gapFix", "gapComplete"}
    BY DEF GapCheck
  <1>2. UNCHANGED <<ring, expects, plan, revision, bundle, gap, gapSaved, iterations, proofs,
                    arrived, triple, refinements, signatures, before, evaluation>>
    BY DEF GapCheck, planVars, proofVars
  <1>3. seeds' \subseteq AllFindings /\ findings' \subseteq AllFindings
    BY FindingTypes DEF GapCheck, ProofTypeOK
  <1>4. ProofTypeOK'
    BY <1>1, <1>2, <1>3 DEF ProofTypeOK, Nodes, Terminal
  <1>5. node' = "gapComplete" => detectGaps(plan) = {}
    BY DEF GapCheck
  <1>6. RingInv'
    BY <1>1, <1>2, <1>5 DEF RingInv, InRing, AfterRing, AfterEvaluation, GapCheck, detectGaps,
       Represented
  <1>7. (BoundInv /\ EvaluationInv /\ ProvedInv)'
    BY <1>1, <1>2 DEF BoundInv, EvaluationInv, ProvedInv, AfterEvaluation, GapCheck
  <1> QED
    BY <1>4, <1>6, <1>7

\* A fix adds one reference and moves to a new revision inside the ring.
LEMMA GapFixKeeps ==
    ASSUME ProofInv, GapFix
    PROVE  ProofInv'
  <1> USE DEF ProofInv
  <1>1. PICK f \in AllFindings : /\ plan' = [plan EXCEPT ![f.step] = @ \union {f.ref}]
                                 /\ seeds' = seeds \ {f}
    BY DEF GapFix, ProofTypeOK, resolveOne
  <1>2. f.step \in Steps /\ f.ref \in Refs
    BY DEF AllFindings
  <1>3. plan' \in AllPlans
    BY <1>1, <1>2 DEF ProofTypeOK, AllPlans
  <1>4. node' \in {"failed", "gapRecheck"}
    BY DEF GapFix
  <1>5. UNCHANGED <<ring, expects, bundle, findings, gap, gapSaved, proofs,
                    arrived, triple, refinements, signatures, before, evaluation>>
    BY DEF GapFix, proofVars
  <1>6. revision' \in Nat \ {0} /\ iterations' \in 0..(MaxGapIterations + 1) /\ BoundInv'
    BY ProofAssumption DEF GapFix, ProofTypeOK, BoundInv
  <1>7. ProofTypeOK'
    BY <1>1, <1>3, <1>4, <1>5, <1>6 DEF ProofTypeOK, Nodes, Terminal
  <1>8. (RingInv /\ EvaluationInv /\ ProvedInv)'
    BY <1>4, <1>5 DEF RingInv, EvaluationInv, ProvedInv, InRing, AfterRing, AfterEvaluation,
       GapFix
  <1> QED
    BY <1>6, <1>7, <1>8

\* Leaving the ring records the gap result and the plan it is about.
LEMMA LeaveRingKeeps ==
    ASSUME ProofInv, LeaveRing, node \in InRing, detectGaps(plan) = {},
           UNCHANGED <<ring, planVars, seeds, iterations, proofVars>>
    PROVE  ProofInv'
  <1> USE DEF ProofInv
  <1>1. UNCHANGED <<ring, expects, plan, revision, seeds, findings, iterations, proofs, arrived,
                    triple, refinements, signatures, before, evaluation>>
    BY DEF planVars, proofVars, LeaveRing
  <1>2. node' \in {"evaluation", "progress"}
    BY DEF LeaveRing
  <1>3. /\ gap' = [revision |-> revision, ok |-> TRUE]
        /\ bundle' = [plan |-> plan, revision |-> revision]
        /\ gapSaved' = TRUE
    BY DEF LeaveRing, RingInv, finalize, persist
  <1>4. ProofTypeOK'
    BY <1>1, <1>2, <1>3 DEF ProofTypeOK, Nodes, Terminal, Results
  <1>5. RingInv'
    BY <1>1, <1>2, <1>3 DEF RingInv, InRing, AfterRing, AfterEvaluation, detectGaps, Represented
  <1>6. node # "failed"
    BY DEF InRing
  <1>7. (BoundInv /\ EvaluationInv /\ ProvedInv)'
    BY <1>1, <1>2, <1>6 DEF BoundInv, EvaluationInv, ProvedInv, AfterEvaluation
  <1> QED
    BY <1>4, <1>5, <1>7

\* The ring is left with a gap result and a bundle of the current plan.
LEMMA GapRecheckKeeps ==
    ASSUME ProofInv, GapRecheck \/ GapComplete
    PROVE  ProofInv'
  <1> USE DEF ProofInv
  <1>1. UNCHANGED <<ring, planVars, seeds, iterations, proofVars>>
    BY DEF GapRecheck, GapComplete
  <1>2. node \in InRing
    BY DEF GapRecheck, GapComplete, InRing
  <1>3. CASE LeaveRing /\ detectGaps(plan) = {}
    BY <1>1, <1>2, <1>3, LeaveRingKeeps
  <1>4. CASE ~(LeaveRing /\ detectGaps(plan) = {})
    <2>1. GapRecheck /\ gap = Absent /\ detectGaps(plan) # {}
      BY <1>4, <1>2 DEF GapRecheck, GapComplete, RingInv
    <2>2. node' = "gapCheck" /\ findings' = detectGaps(plan) /\ UNCHANGED <<bundle, gap, gapSaved>>
      BY <2>1 DEF GapRecheck
    <2>3. ProofTypeOK'
      BY <1>1, <2>2, FindingTypes DEF ProofTypeOK, Nodes, Terminal, planVars, proofVars
    <2>4. node # "failed"
      BY <1>2 DEF InRing
    <2>5. (BoundInv /\ RingInv /\ EvaluationInv /\ ProvedInv)'
      BY <1>1, <1>2, <2>2, <2>4 DEF BoundInv, RingInv, EvaluationInv, ProvedInv, InRing, AfterRing,
         AfterEvaluation
    <2> QED
      BY <2>3, <2>5
  <1> QED
    BY <1>3, <1>4

-----------------------------------------------------------------------------
\* Evaluation, admission and the validators: the plan stays.
LEMMA EvaluateKeeps ==
    ASSUME ProofInv, Evaluate \/ RefineEvaluate
    PROVE  ProofInv'
  <1> USE DEF ProofInv
  <1>1. UNCHANGED <<ring, expects, plan, revision, bundle, seeds, findings, gap, gapSaved,
                    iterations, proofs, arrived, triple, refinements, signatures, before>>
    BY DEF Evaluate, RefineEvaluate, planVars, ringVars
  <1>2. node \in {"evaluation", "refineEval"} /\ node' \in {"admission", "root"}
    BY DEF Evaluate, RefineEvaluate
  <1>3. node' = "admission" => evaluation' = [revision |-> revision, ok |-> TRUE]
    BY DEF Evaluate, RefineEvaluate
  <1>4. evaluation' \in Results
    <2>1. \/ evaluation' = evaluation
          \/ \E ok \in BOOLEAN : evaluation' = [revision |-> revision, ok |-> ok]
      BY DEF Evaluate, RefineEvaluate
    <2>2. \A ok \in BOOLEAN : [revision |-> revision, ok |-> ok] \in Results
      BY DEF ProofTypeOK, Results
    <2> QED
      BY <2>1, <2>2 DEF ProofTypeOK
  <1>5. ProofTypeOK'
    BY <1>1, <1>2, <1>4 DEF ProofTypeOK, Nodes, Terminal
  <1>6. RingInv'
    BY <1>1, <1>2 DEF RingInv, InRing, AfterRing, AfterEvaluation, detectGaps, Represented
  <1>7. (BoundInv /\ EvaluationInv /\ ProvedInv)'
    BY <1>1, <1>2, <1>3 DEF BoundInv, EvaluationInv, ProvedInv, AfterEvaluation
  <1> QED
    BY <1>5, <1>6, <1>7

\* The fan-out forgets which validators arrived in the last round.
LEMMA AdmissionKeeps ==
    ASSUME ProofInv, Admission
    PROVE  ProofInv'
  <1> USE DEF ProofInv
  <1>1. UNCHANGED <<ring, expects, plan, revision, bundle, seeds, findings, gap, gapSaved,
                    iterations, proofs, triple, refinements, signatures, before, evaluation>>
    BY DEF Admission, planVars, ringVars
  <1>2. node = "admission" /\ node' \in {"validate", "root"} /\ arrived' = {}
    BY DEF Admission
  <1>3. ProofTypeOK'
    BY <1>1, <1>2 DEF ProofTypeOK, Nodes, Terminal
  <1>4. RingInv'
    BY <1>1, <1>2 DEF RingInv, InRing, AfterRing, AfterEvaluation, detectGaps, Represented
  <1>5. (BoundInv /\ EvaluationInv /\ ProvedInv)'
    BY <1>1, <1>2 DEF BoundInv, EvaluationInv, ProvedInv, AfterEvaluation
  <1> QED
    BY <1>3, <1>4, <1>5

\* A validator speaks about the current revision.
LEMMA ValidateKeeps ==
    ASSUME ProofInv, NEW v \in Validators, Validate(v)
    PROVE  ProofInv'
  <1> USE DEF ProofInv
  <1>1. PICK missed \in Outcomes(v) :
           proofs' = [proofs EXCEPT ![v] = [revision |-> revision, missed |-> missed]]
    BY DEF Validate
  <1>2. UNCHANGED <<ring, expects, plan, revision, bundle, seeds, findings, gap, gapSaved,
                    iterations, triple, refinements, signatures, before, evaluation>>
    BY DEF Validate, planVars, ringVars
  <1>3. node = "validate" /\ node' \in {"validate", "join"} /\ arrived' = arrived \union {v}
        /\ (node' = "join" => arrived' = Validators)
    BY DEF Validate
  <1>4. /\ missed \in Misses
        /\ v = "fixture" => AdditiveMisses(plan) \subseteq missed
        /\ v = "goal" => GoalMisses(plan) \subseteq missed
    BY OutcomeTypes
  <1>5. ProofTypeOK'
    BY <1>1, <1>2, <1>3, <1>4 DEF ProofTypeOK, Nodes, Terminal
  <1>6. RingInv'
    BY <1>2, <1>3 DEF RingInv, InRing, AfterRing, AfterEvaluation, detectGaps, Represented
  <1>7. (BoundInv /\ EvaluationInv)'
    BY <1>2, <1>3 DEF BoundInv, EvaluationInv, AfterEvaluation
  <1>8. AdditiveMisses(plan)' = AdditiveMisses(plan) /\ GoalMisses(plan)' = GoalMisses(plan)
    BY <1>2 DEF AdditiveMisses, GoalMisses, Represented
  <1>9. ASSUME NEW w \in arrived'
        PROVE  Proved(w)'
    <2>1. w \in Validators
      BY <1>3 DEF ProofTypeOK
    <2>2. CASE w = v
      BY <1>1, <1>2, <1>4, <1>8, <2>1, <2>2 DEF Proved, ProofTypeOK
    <2>3. CASE w # v
      <3>1. Proved(w) /\ proofs'[w] = proofs[w]
        BY <1>1, <1>3, <2>1, <2>3 DEF ProvedInv, ProofTypeOK
      <3> QED
        BY <1>2, <1>8, <3>1 DEF Proved
    <2> QED
      BY <2>2, <2>3
  <1>10. ProvedInv'
    BY <1>3, <1>9 DEF ProvedInv
  <1> QED
    BY <1>5, <1>6, <1>7, <1>10

\* The join is reached with all three results of this round.
LEMMA JoinKeeps ==
    ASSUME ProofInv, Join
    PROVE  ProofInv'
  <1> USE DEF ProofInv
  <1>1. UNCHANGED <<ring, expects, plan, revision, bundle, seeds, findings, gap, gapSaved,
                    iterations, proofs, arrived, refinements, signatures, before, evaluation>>
    BY DEF Join, planVars, ringVars
  <1>2. node = "join" /\ node' \in {"confirm", "refineCheck"}
        /\ triple'.revision = revision
        /\ (node' = "confirm" => \A v \in Validators : proofs[v].missed = {})
    BY DEF Join, Joined
  <1>3. triple' \in [revision : Nat, missed : [Validators -> Misses], all_valid : BOOLEAN]
    BY DEF Join, Joined, ProofTypeOK
  <1>4. ProofTypeOK'
    BY <1>1, <1>2, <1>3 DEF ProofTypeOK, Nodes, Terminal
  <1>5. RingInv'
    BY <1>1, <1>2 DEF RingInv, InRing, AfterRing, AfterEvaluation, detectGaps, Represented
  <1>6. (BoundInv /\ EvaluationInv)'
    BY <1>1, <1>2 DEF BoundInv, EvaluationInv, AfterEvaluation
  <1>7. ProvedInv'
    BY <1>1, <1>2 DEF ProvedInv, Proved, AdditiveMisses, GoalMisses, Represented
  <1> QED
    BY <1>4, <1>5, <1>6, <1>7

\* A refinement resets what the ring left behind.
LEMMA RefineCheckKeeps ==
    ASSUME ProofInv, RefineCheck
    PROVE  ProofInv'
  <1> USE DEF ProofInv
  <1>1. UNCHANGED <<expects, plan, revision, bundle, proofs, arrived, triple, evaluation>>
    BY DEF RefineCheck, planVars
  <1>2. node = "refineCheck" /\ node' \in {"gapCheck", "root"}
    BY DEF RefineCheck
  <1>3. CASE node' = "root"
    <2>1. UNCHANGED <<ring, seeds, findings, gap, gapSaved, iterations, refinements, signatures,
                      before>>
      BY <1>3 DEF RefineCheck
    <2>2. ProofTypeOK'
      BY <1>1, <1>3, <2>1 DEF ProofTypeOK, Nodes, Terminal
    <2> QED
      BY <1>1, <1>2, <1>3, <2>1, <2>2 DEF BoundInv, RingInv, EvaluationInv, ProvedInv, InRing,
         AfterRing, AfterEvaluation
  <1>4. CASE node' = "gapCheck"
    <2>1. /\ refinements < MaxRefinements /\ refinements' = refinements + 1
          /\ ring' = "refine" /\ signatures' = signatures \union {triple.missed}
          /\ seeds' = validationFeedback /\ before' = revision
          /\ gap' = Absent /\ findings' = {} /\ gapSaved' = FALSE /\ iterations' = 0
      BY <1>4, ProofAssumption DEF RefineCheck, ProofTypeOK, validationSignature
    <2>2. refinements' \in 0..MaxRefinements
      BY <2>1, ProofAssumption DEF ProofTypeOK
    <2>3. ProofTypeOK'
      <3>1. gap' \in Results
        BY <2>1 DEF Absent, Results
      <3>2. signatures' \subseteq [Validators -> Misses]
        BY <2>1 DEF ProofTypeOK
      <3>3. seeds' \subseteq AllFindings
        BY <2>1, FindingTypes
      <3>4. iterations' \in 0..(MaxGapIterations + 1) /\ before' \in Nat
        BY <2>1, ProofAssumption DEF ProofTypeOK
      <3> QED
        BY <1>1, <1>4, <2>1, <2>2, <3>1, <3>2, <3>3, <3>4 DEF ProofTypeOK, Nodes
    <2>4. (BoundInv /\ RingInv /\ EvaluationInv /\ ProvedInv)'
      BY <1>4, <2>1, ProofAssumption DEF BoundInv, RingInv, EvaluationInv, ProvedInv, InRing,
         AfterRing, AfterEvaluation
    <2> QED
      BY <2>3, <2>4
  <1> QED
    BY <1>2, <1>3, <1>4

\* Only the program point moves: forward with everything in place, or to an end.
LEMMA NodeOnlyKeeps ==
    ASSUME ProofInv, ProgressCheck \/ Confirm \/ Throw
    PROVE  ProofInv'
  <1> USE DEF ProofInv
  <1>1. UNCHANGED <<ring, expects, plan, revision, bundle, seeds, findings, gap, gapSaved,
                    iterations, proofs, arrived, triple, refinements, signatures, before, evaluation>>
    BY DEF ProgressCheck, Confirm, Throw, planVars, ringVars, proofVars
  <1>2. \/ node' \in {"root", "failed"} /\ node # "failed"
        \/ node = "progress" /\ node' = "refineEval"
        \/ node = "confirm" /\ node' = "confirmed"
    BY DEF ProgressCheck, Confirm, Throw, Terminal
  <1>3. ProofTypeOK'
    BY <1>1, <1>2 DEF ProofTypeOK, Nodes, Terminal
  <1>4. RingInv'
    BY <1>1, <1>2 DEF RingInv, InRing, AfterRing, AfterEvaluation, detectGaps, Represented
  <1>5. (BoundInv /\ EvaluationInv)'
    BY <1>1, <1>2 DEF BoundInv, EvaluationInv, AfterEvaluation
  <1>6. ProvedInv'
    BY <1>1, <1>2 DEF ProvedInv, Proved, AdditiveMisses, GoalMisses, Represented
  <1> QED
    BY <1>3, <1>4, <1>5, <1>6

\* A stuttering step changes nothing the invariant reads.
LEMMA StutterKeeps ==
    ASSUME ProofInv, UNCHANGED vars
    PROVE  ProofInv'
  BY DEF ProofInv, ProofTypeOK, BoundInv, RingInv, EvaluationInv, ProvedInv, Proved,
     AdditiveMisses, GoalMisses, Represented, detectGaps, vars

-----------------------------------------------------------------------------
\* The inductive invariant holds in every reachable state of the two graphs
\* (gap-graph.ts and proof-graph.ts).
THEOREM ProofInvariance == Spec => []ProofInv
  <1>1. Init => ProofInv
    BY ProofInit
  <1>2. ProofInv /\ [Next]_vars => ProofInv'
    <2> SUFFICES ASSUME ProofInv, [Next]_vars
                 PROVE  ProofInv'
      OBVIOUS
    <2>1. CASE \E v \in Validators : Validate(v)
      BY <2>1, ValidateKeeps
    <2> QED
      BY <2>1, GapCheckKeeps, GapFixKeeps, GapRecheckKeeps, EvaluateKeeps, AdmissionKeeps,
         JoinKeeps, RefineCheckKeeps, NodeOnlyKeeps, StutterKeeps DEF Next
  <1> QED
    BY <1>1, <1>2, PTL DEF Spec

\* No refinement beyond MAX_VALIDATION_REFINEMENTS and no fix beyond
\* MAX_GAP_ITERATIONS but the one that fails the graph; all values have their
\* types (proof-graph.ts: RefineCheck; gap-graph.ts: GapFix).
THEOREM ProofTypeCorrect == Spec => []ProofTypeOK
  <1>1. ProofInv => ProofTypeOK
    BY DEF ProofInv
  <1> QED
    BY <1>1, ProofInvariance, PTL

\* A confirmed package holds evidence about the very plan in it, for any number
\* of rounds (canonical-workflow.ts: Confirmed).
THEOREM ProofEvidenceAgrees == Spec => []EvidenceAgrees
  <1>1. ProofInv => EvidenceAgrees
    BY DEF ProofInv, EvidenceAgrees, RingInv, EvaluationInv, ProvedInv, Proved, AfterRing,
       AfterEvaluation
  <1> QED
    BY <1>1, ProofInvariance, PTL

\* A confirmed plan covers every required reference, maps every routed
\* criterion and satisfies every assertion about references.
THEOREM ProofConfirmedIsProved == Spec => []ConfirmedIsProved
  <1>1. ASSUME ProofInv, node = "confirmed"
        PROVE  /\ detectGaps(plan) = {}
               /\ AdditiveMisses(plan) = {}
               /\ GoalMisses(plan) = {}
    <2>1. detectGaps(plan) = {}
      BY <1>1 DEF ProofInv, RingInv, AfterRing, AfterEvaluation
    <2>2. \A v \in Validators : Proved(v) /\ proofs[v].missed = {}
      BY <1>1 DEF ProofInv, ProvedInv
    <2>3. AdditiveMisses(plan) \subseteq {} /\ GoalMisses(plan) \subseteq {}
      BY <2>2 DEF Proved, Validators
    <2> QED
      BY <2>1, <2>3
  <1>2. ProofInv => ConfirmedIsProved
    BY <1>1 DEF ConfirmedIsProved
  <1> QED
    BY <1>2, ProofInvariance, PTL
=============================================================================
