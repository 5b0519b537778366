---------------------------- MODULE GovernedRun ----------------------------
(***************************************************************************)
(* What a governed run promises to its user, with no workers, queues,      *)
(* leases or checkpoints: the Builder executes at most once, only after    *)
(* the user authorized this package, its result is never replaced, and the *)
(* run is reported Passed only on the strength of a verified build.        *)
(* StagePipeline implements it.                                            *)
(***************************************************************************)
VARIABLES
    authorized,     \* the user approved the package with the proved hash
    executions,     \* executions of the Builder begun: 0 or 1
    build,          \* the build result: none, Passed, Mismatch or Failed
    verdict         \* the result the run reports: none, Passed or Failed

gvars == <<authorized, executions, build, verdict>>

GInit == ~ authorized /\ executions = 0 /\ build = "none" /\ verdict = "none"

Authorize ==
    /\ authorized' = TRUE
    /\ UNCHANGED <<executions, build, verdict>>

Begin ==
    /\ authorized /\ executions = 0
    /\ executions' = 1
    /\ UNCHANGED <<authorized, build, verdict>>

Built(result) ==
    /\ executions = 1 /\ build = "none"
    /\ build' = result
    /\ UNCHANGED <<authorized, executions, verdict>>

\* A verdict may be reported again by a retry of the terminalization; only a
\* verified build lets it be Passed.
Report(result) ==
    /\ result = "Passed" => build = "Passed"
    /\ verdict' = result
    /\ UNCHANGED <<authorized, executions, build>>

GNext ==
    \/ Authorize \/ Begin
    \/ \E result \in {"Passed", "Mismatch", "Failed"} : Built(result)
    \/ \E result \in {"Passed", "Failed"} : Report(result)

GSpec == GInit /\ [][GNext]_gvars
=============================================================================
