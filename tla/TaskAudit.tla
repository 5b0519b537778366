------------------------------ MODULE TaskAudit ------------------------------
(***************************************************************************)
(* The ordering audit of task management: the completions of a run's       *)
(* canonical processors, in the order of the event file, and the issues    *)
(* detectOrderingIssues reports of them.  Completions are recorded either  *)
(* by the workflow graph, in its order and with its refinements, or in any *)
(* order at all.                                                           *)
(***************************************************************************)
EXTENDS Naturals, Sequences, FiniteSets

CONSTANTS MaxRepeats  \* completions beyond the first of their processor

VARIABLES trail,   \* completions: the processor and whether its test failed
          source   \* "graph" or "any"

auditVars == <<trail, source>>

CANONICAL_PROCESSORS ==
    << "Researcher", "Planner", "Refactor", "GapAnalysis", "Evaluation",
       "SchemaValidation", "FixtureValidation", "GoalValidation", "TripleValidation",
       "Confirmed", "CreateHash", "Builder", "Hash", "Done" >>
Canonical == {CANONICAL_PROCESSORS[i] : i \in 1..Len(CANONICAL_PROCESSORS)}
indexOf(p) == CHOOSE i \in 1..Len(CANONICAL_PROCESSORS) : CANONICAL_PROCESSORS[i] = p
Validators == {"SchemaValidation", "FixtureValidation", "GoalValidation"}

(* Processors a refinement of the plan revisits. *)
repeatable == {"GapAnalysis", "Evaluation", "TripleValidation"} \cup Validators

\* Mutant: the join is admitted after any one of the validators.
requiredAnyLane(p) ==
    CASE p \in Validators -> {"Evaluation"}
      [] p = "TripleValidation" -> {"GoalValidation"}
      [] p = "Confirmed" -> {"TripleValidation"}
      [] p = "Researcher" -> {}
      [] OTHER -> {CANONICAL_PROCESSORS[indexOf(p) - 1]}

(* The processors that must have completed before p. *)
required(p) ==
    CASE p \in Validators -> {"Evaluation"}
      [] p = "TripleValidation" -> Validators
      [] p = "Confirmed" -> {"TripleValidation"}
      [] p = "Researcher" -> {}
      [] OTHER -> {CANONICAL_PROCESSORS[indexOf(p) - 1]}

(* detectOrderingIssues: a failed Done may end a run at any point. *)
detectOrderingIssues(t) ==
    LET completed(i) == {t[j].processor : j \in 1..(i - 1)} \cap Canonical
    IN {<<i, "duplicate">> : i \in {k \in 1..Len(t) :
            t[k].processor \in completed(k) \ repeatable}}
       \cup {<<i, "unknown">> : i \in {k \in 1..Len(t) : t[k].processor \notin Canonical}}
       \cup {<<i, "early">> : i \in {k \in 1..Len(t) :
            /\ t[k].processor \in Canonical
            /\ ~(t[k].processor = "Done" /\ t[k].failed)
            /\ ~(required(t[k].processor) \subseteq completed(k))}}

(* projectAudit: a run's ordering is valid when there is no issue. *)
valid == detectOrderingIssues(trail) = {}

AuditInit == trail = <<>> /\ source \in {"graph", "any"}

Seen == {trail[i].processor : i \in 1..Len(trail)}
Completions(p) == Cardinality({i \in 1..Len(trail) : trail[i].processor = p})
Record(p, failed) == trail' = Append(trail, [processor |-> p, failed |-> failed])

(* An event stream in any order, as long as its audit is valid. *)
RecordAny ==
    /\ source = "any" /\ valid
    /\ \E p \in Canonical \cup {"Finalize"} :
           /\ p \in Seen => Len(trail) - Cardinality(Seen) < MaxRepeats
           /\ \E failed \in {FALSE, p = "Done"} : Record(p, failed)
    /\ UNCHANGED source

(* The completions since the last one of GapAnalysis, in the present round. *)
Round == LET g == {i \in 1..Len(trail) : trail[i].processor = "GapAnalysis"}
             from == IF g = {} THEN 1 ELSE CHOOSE i \in g : \A j \in g : j <= i
         IN {trail[i].processor : i \in from..Len(trail)}
Ended == \E i \in 1..Len(trail) : trail[i].processor = "Done"

(* The workflow graph: the three validators complete in any order, a failed *)
(* Triple Validation goes back to Gap Analysis, and a stage that fails ends *)
(* the run with a failed Done.                                              *)
RecordGraph ==
    /\ source = "graph" /\ ~Ended
    /\ \/ /\ trail = <<>> /\ Record("Researcher", FALSE)
       \/ /\ trail # <<>>
          /\ LET last == trail[Len(trail)].processor
             IN \/ /\ last \notin Validators \cup {"Evaluation"}
                   /\ Record(CANONICAL_PROCESSORS[indexOf(last) + 1], FALSE)
                \/ /\ last \in Validators \cup {"Evaluation"}
                   /\ \E v \in Validators \ Round : Record(v, FALSE)
                \/ /\ Validators \subseteq Round /\ "TripleValidation" \notin Round
                   /\ Record("TripleValidation", FALSE)
                \/ /\ last = "TripleValidation"
                   /\ Completions("GapAnalysis") <= MaxRepeats
                   /\ Record("GapAnalysis", FALSE)
       \/ Record("Done", TRUE)
    /\ UNCHANGED source

AuditNext == RecordAny \/ RecordGraph

AuditSpec == AuditInit /\ [][AuditNext]_auditVars

-----------------------------------------------------------------------------
(* A valid audit means what it says although each processor is only checked *)
(* against its neighbours: every completion but a failed Done comes after a *)
(* completion of every processor that stands before it in canonical order   *)
(* (the validators among themselves excepted).                              *)
AuditIsTransitive ==
    valid => \A i \in 1..Len(trail) :
        LET p == trail[i].processor
        IN (p # "Done" \/ ~trail[i].failed) =>
             \A q \in Canonical :
                 indexOf(q) < indexOf(p) /\ ~({p, q} \subseteq Validators)
                     => \E j \in 1..(i - 1) : trail[j].processor = q

(* The audit of a run the workflow graph has executed is valid, through its *)
(* refinements and its early ends.                                          *)
GraphRunIsValid == source = "graph" => valid

(* The ordering audit and the order of the workflow agree: a valid audit   *)
(* means canonical order, and the graph's runs are found valid             *)
(* (ordering.ts:detectOrderingIssues).                                     *)
AuditAgrees == AuditIsTransitive /\ GraphRunIsValid
=============================================================================
