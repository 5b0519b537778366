---------------------------- MODULE ResearchGate ----------------------------
(***************************************************************************)
(* The Research Review gate of one pipeline run: HTTP requests that        *)
(* confirm the plan (pipeline/confirm-plan.ts), with or without edits, or  *)
(* ask for another research revision (server/http-server.ts), against the  *)
(* worker slots that execute the researcher and planner stages.            *)
(*                                                                         *)
(* Requests are coroutines: every Redis command and artifact access is a   *)
(* step.  What the researcher writes is abstracted to the revision it      *)
(* wrote, and a reviewed draft to the revision it was edited from and the  *)
(* request whose edits it carries.  Retries of a stage are StagePipeline's *)
(* subject: here a researcher job ends completed or failed.                *)
(***************************************************************************)
EXTENDS Naturals, FiniteSets

CONSTANTS
    Confirmers,     \* confirm-plan requests without edits
    Editors,        \* confirm-plan requests with edits
    Againers,       \* Research Again requests
    NoRequest,      \* nobody's edits
    MaxRevision,    \* bound on research revisions
    Slots,          \* researcher jobs that run at once (worker concurrency)
    MaxLost,        \* replies of Redis lost after the command was executed
    MaxCrashes      \* deaths of the HTTP server in the middle of a request

Requests == Confirmers \union Editors \union Againers

ASSUME RequestsAssumption ==
    /\ Confirmers \intersect Editors = {} /\ Confirmers \intersect Againers = {}
    /\ Editors \intersect Againers = {} /\ NoRequest \notin Requests

ASSUME GateBoundsAssumption ==
    {MaxRevision, Slots, MaxLost, MaxCrashes} \subseteq Nat /\ Slots > 0

Revisions == 0 .. MaxRevision

VARIABLES
    revision,       \* Redis researcher-revision key
    research,       \* per revision: absent, waiting, running, saved, done, failed
    bundle,         \* research_bundle artifact: a set of at most one draft
    reviewed,       \* research.reviewed artifact, likewise
    planReviewed,   \* plan.reviewed artifact, likewise
    confirmed,      \* Redis plan-confirmed key: the request that set it, or NoRequest
    planner,        \* planner stage: absent, waiting, started, refactored
    planned,        \* what the Planner audited, then what Refactor took as the plan
    pc, held,       \* per request: program point, revision in hand
    draft,          \* per request: the draft loaded for editing
    answer,         \* per request: what the user was told
    lost, crashes,  \* adversity used
    stranded        \* history: requests cut off from the key they set

gatevars == <<revision, research, bundle, reviewed, planReviewed, confirmed, planner,
              planned, pc, held, draft, answer, lost, crashes, stranded>>

Draft(rev, by) == [rev |-> rev, by |-> by]
Drafts == [rev : Revisions, by : Requests \union {NoRequest}]

Points == {"start", "completed", "load", "saveResearch", "savePlan", "gate", "add",
           "remove", "exists", "get", "set", "enqueue", "end"}

Answers == {"none", "error", "confirmed", "already_confirmed", "again"}

\* Init: revision 0 was queued when the run was submitted.
Init ==
    /\ revision = 0
    /\ research = [r \in Revisions |-> IF r = 0 THEN "waiting" ELSE "absent"]
    /\ bundle = {} /\ reviewed = {} /\ planReviewed = {}
    /\ confirmed = NoRequest
    /\ planner = "absent"
    /\ planned = [audit |-> {}, plan |-> {}]
    /\ pc = [q \in Requests |-> "start"]
    /\ held = [q \in Requests |-> 0]
    /\ draft = [q \in Requests |-> {}]
    /\ answer = [q \in Requests |-> "none"]
    /\ lost = 0 /\ crashes = 0 /\ stranded = {}

-----------------------------------------------------------------------------
(* Stages. *)

\* loadResearchBundle and loadPlan: a reviewed draft shadows the researcher's.
loadResearchBundle == IF reviewed # {} THEN reviewed ELSE bundle
loadPlan == IF planReviewed # {} THEN planReviewed ELSE bundle

Requested == <<pc, held, draft, answer, lost, crashes, stranded>>

TakeResearch(r) ==
    /\ research[r] = "waiting"
    /\ Cardinality({ s \in Revisions : research[s] \in {"running", "saved"} }) < Slots
    /\ research' = [research EXCEPT ![r] = "running"]
    /\ UNCHANGED <<revision, bundle, reviewed, planReviewed, confirmed, planner, planned, Requested>>

\* runResearcherStage stores its bundle under the unversioned name, too.
RunResearcherStage(r) ==
    /\ research[r] = "running"
    /\ \/ /\ research' = [research EXCEPT ![r] = "saved"]
          /\ bundle' = {Draft(r, NoRequest)}
       \/ /\ research' = [research EXCEPT ![r] = "failed"]
          /\ UNCHANGED bundle
    /\ UNCHANGED <<revision, reviewed, planReviewed, confirmed, planner, planned, Requested>>

\* saveExecution and markCompleted of the researcher stage.
CompleteResearch(r) ==
    /\ research[r] = "saved"
    /\ research' = [research EXCEPT ![r] = "done"]
    /\ UNCHANGED <<revision, bundle, reviewed, planReviewed, confirmed, planner, planned, Requested>>

RunPlannerStage ==
    /\ planner = "waiting" /\ loadResearchBundle # {}
    /\ planner' = "started"
    /\ planned' = [planned EXCEPT !.audit = loadResearchBundle]
    /\ UNCHANGED <<revision, research, bundle, reviewed, planReviewed, confirmed, Requested>>

RunRefactorStage ==
    /\ planner = "started"
    /\ planner' = "refactored"
    /\ planned' = [planned EXCEPT !.plan = loadPlan]
    /\ UNCHANGED <<revision, research, bundle, reviewed, planReviewed, confirmed, Requested>>

-----------------------------------------------------------------------------
(* Requests. *)

Durable == <<revision, research, bundle, reviewed, planReviewed, confirmed, planner, planned>>

Goto(q, from, to) == pc[q] = from /\ pc' = [pc EXCEPT ![q] = to]

\* The request ends with an answer to its user.
Reply(q, from, what) ==
    /\ Goto(q, from, "end")
    /\ answer' = [answer EXCEPT ![q] = what]

getCurrentResearchRevision(q) ==
    /\ Goto(q, "start", "completed")
    /\ held' = [held EXCEPT ![q] = revision]
    /\ UNCHANGED <<Durable, draft, answer, lost, crashes, stranded>>

\* Mutant: the gate does not ask whether the revision has completed.
isCompleted_Ignored(q) ==
    /\ Goto(q, "completed", CASE q \in Againers -> "exists"
                              [] q \in Editors -> "load"
                              [] OTHER -> "gate")
    /\ UNCHANGED <<Durable, held, draft, answer, lost, crashes, stranded>>

\* isCompleted for the revision just read; both kinds of request refuse otherwise.
isCompleted(q) ==
    /\ \/ /\ research[held[q]] = "done"
          /\ Goto(q, "completed", CASE q \in Againers -> "exists"
                                    [] q \in Editors -> "load"
                                    [] OTHER -> "gate")
          /\ UNCHANGED answer
       \/ research[held[q]] # "done" /\ Reply(q, "completed", "error")
    /\ UNCHANGED <<Durable, held, draft, lost, crashes, stranded>>

\* The draft is loaded and the edits are validated against it: they are refused
\* when they do not keep the draft's requirement and step identities.
LoadDraft(q) ==
    /\ \/ /\ Goto(q, "load", "saveResearch")
          /\ draft' = [draft EXCEPT ![q] = { Draft(d.rev, q) : d \in loadResearchBundle }]
          /\ UNCHANGED answer
       \/ Reply(q, "load", "error") /\ UNCHANGED draft
    /\ UNCHANGED <<Durable, held, lost, crashes, stranded>>

SaveReviewedResearch(q) ==
    /\ Goto(q, "saveResearch", "savePlan")
    /\ reviewed' = draft[q]
    /\ UNCHANGED <<revision, research, bundle, planReviewed, confirmed, planner, planned,
                   held, draft, answer, lost, crashes, stranded>>

SaveReviewedPlan(q) ==
    /\ Goto(q, "savePlan", "gate")
    /\ planReviewed' = draft[q]
    /\ UNCHANGED <<revision, research, bundle, reviewed, confirmed, planner, planned,
                   held, draft, answer, lost, crashes, stranded>>

\* Mutant: SET without NX.
SetConfirmed_NoNX(q) ==
    /\ Goto(q, "gate", "add")
    /\ confirmed' = q
    /\ UNCHANGED <<revision, research, bundle, reviewed, planReviewed, planner, planned,
                   held, draft, answer, lost, crashes, stranded>>

\* SET NX of plan-confirmed.  ioredis resends a command whose reply was lost, and the
\* SET resent finds the key of the first: the request that set it is told that the
\* plan is already confirmed, or gets an error when the connection ends for good.
SetConfirmed(q) ==
    /\ \/ /\ confirmed = NoRequest
          /\ Goto(q, "gate", "add")
          /\ confirmed' = q
          /\ UNCHANGED <<answer, lost, stranded>>
       \/ /\ confirmed # NoRequest
          /\ Reply(q, "gate", "already_confirmed")
          /\ UNCHANGED <<confirmed, lost, stranded>>
       \/ /\ confirmed = NoRequest /\ lost < MaxLost
          /\ Reply(q, "gate", "already_confirmed") \/ Reply(q, "gate", "error")
          /\ confirmed' = q
          /\ lost' = lost + 1
          /\ stranded' = stranded \union {q}
       \/ /\ Reply(q, "gate", "error")
          /\ UNCHANGED <<confirmed, lost, stranded>>
    /\ UNCHANGED <<revision, research, bundle, reviewed, planReviewed, planner, planned,
                   held, draft, crashes>>

\* queue.add of the planner, whose id BullMQ accepts once.  It may fail, and its
\* reply may be lost after the job was added: either way the call rejects.
AddPlanner(q) ==
    /\ \/ /\ Reply(q, "add", "confirmed")
          /\ planner' = IF planner = "absent" THEN "waiting" ELSE planner
          /\ UNCHANGED lost
       \/ /\ Goto(q, "add", "remove")
          /\ UNCHANGED <<planner, answer, lost>>
       \/ /\ lost < MaxLost
          /\ Goto(q, "add", "remove")
          /\ planner' = IF planner = "absent" THEN "waiting" ELSE planner
          /\ lost' = lost + 1
          /\ UNCHANGED answer
    /\ UNCHANGED <<revision, research, bundle, reviewed, planReviewed, confirmed, planned,
                   held, draft, crashes, stranded>>

\* Mutant: the confirmation is kept although the planner was not queued.
RemoveConfirmed_Kept(q) ==
    /\ Reply(q, "remove", "error")
    /\ UNCHANGED <<Durable, held, draft, lost, crashes, stranded>>

\* The catch block deletes the key, whoever set it; the delete may reject as well.
RemoveConfirmed(q) ==
    /\ Reply(q, "remove", "error")
    /\ \/ confirmed' = NoRequest /\ UNCHANGED stranded
       \/ stranded' = stranded \union {q} /\ UNCHANGED confirmed
    /\ UNCHANGED <<revision, research, bundle, reviewed, planReviewed, planner, planned,
                   held, draft, lost, crashes>>

ConfirmPlan(q) ==
    \/ LoadDraft(q) \/ SaveReviewedResearch(q) \/ SaveReviewedPlan(q)
    \/ SetConfirmed(q) \/ AddPlanner(q) \/ RemoveConfirmed(q)

\* Research Again: the plan must not be confirmed yet,
CheckNotConfirmed(q) ==
    /\ \/ confirmed = NoRequest /\ Goto(q, "exists", "get") /\ UNCHANGED answer
       \/ confirmed # NoRequest /\ Reply(q, "exists", "error")
    /\ UNCHANGED <<Durable, held, draft, lost, crashes, stranded>>

\* ... incrementResearchRevision is a GET and a SET,
IncrementGet(q) ==
    /\ Goto(q, "get", "set")
    /\ revision < MaxRevision
    /\ held' = [held EXCEPT ![q] = revision + 1]
    /\ UNCHANGED <<Durable, draft, answer, lost, crashes, stranded>>

IncrementSet(q) ==
    /\ Goto(q, "set", "enqueue")
    /\ revision' = held[q]
    /\ UNCHANGED <<research, bundle, reviewed, planReviewed, confirmed, planner, planned,
                   held, draft, answer, lost, crashes, stranded>>

\* ... and enqueueStage adds the researcher job of that revision, if it is new.
EnqueueResearch(q) ==
    /\ Reply(q, "enqueue", "again")
    /\ research' = [research EXCEPT ![held[q]] = IF @ = "absent" THEN "waiting" ELSE @]
    /\ UNCHANGED <<revision, bundle, reviewed, planReviewed, confirmed, planner, planned,
                   held, draft, lost, crashes, stranded>>

ResearchAgain(q) ==
    CheckNotConfirmed(q) \/ IncrementGet(q) \/ IncrementSet(q) \/ EnqueueResearch(q)

\* The server dies: the request is gone and its user gets no answer.
CrashRequest(q) ==
    /\ pc[q] \notin {"start", "end"} /\ crashes < MaxCrashes
    /\ pc' = [pc EXCEPT ![q] = "end"]
    /\ crashes' = crashes + 1
    /\ stranded' = IF pc[q] \in {"add", "remove"} THEN stranded \union {q} ELSE stranded
    /\ UNCHANGED <<Durable, held, draft, answer, lost>>

RequestStep(q) ==
    getCurrentResearchRevision(q) \/ isCompleted(q) \/ ConfirmPlan(q) \/ ResearchAgain(q)

StageStep ==
    \/ \E r \in Revisions : TakeResearch(r) \/ RunResearcherStage(r) \/ CompleteResearch(r)
    \/ RunPlannerStage \/ RunRefactorStage

Next == StageStep \/ \E q \in Requests : RequestStep(q) \/ CrashRequest(q)

Spec == Init /\ [][Next]_gatevars

\* The server carries on with a request it has begun, and the workers with jobs;
\* users need not send a request.
FairSpec ==
    /\ Spec /\ WF_gatevars(StageStep)
    /\ \A q \in Requests : WF_gatevars(pc[q] # "start" /\ RequestStep(q))

-----------------------------------------------------------------------------
(* Properties. *)

\* Every variable holds a value the code can write to it.
GateTypeOK ==
    /\ revision \in Revisions
    /\ research \in [Revisions -> {"absent", "waiting", "running", "saved", "done", "failed"}]
    /\ \A d \in {bundle, reviewed, planReviewed, planned.audit, planned.plan} :
           d \subseteq Drafts /\ \A x, y \in d : x = y
    /\ confirmed \in Requests \union {NoRequest}
    /\ planner \in {"absent", "waiting", "started", "refactored"}
    /\ pc \in [Requests -> Points] /\ held \in [Requests -> Revisions]
    /\ draft \in [Requests -> SUBSET Drafts]
    /\ answer \in [Requests -> Answers]
    /\ lost \in 0 .. MaxLost /\ crashes \in 0 .. MaxCrashes
    /\ stranded \subseteq Requests

\* The planner stage is queued only once some research has completed, and finds a
\* draft to audit, the only one (confirmPlan's check of the completed marker).
PlannerHasResearch ==
    /\ GateTypeOK
    /\ planner # "absent" => /\ \E r \in Revisions : research[r] = "done"
                             /\ loadResearchBundle # {}

\* Whatever fails or is lost, at most one request is told that it confirmed the
\* plan, and no other request is between its SET NX and its answer then.
ConfirmedOnce ==
    \A q, s \in Requests :
        /\ answer[q] = "confirmed" \/ pc[q] \in {"add", "remove"}
        /\ answer[s] = "confirmed" \/ pc[s] \in {"add", "remove"}
        => q = s

\* A confirmed plan reaches the Planner, or the confirmation is withdrawn for another
\* request to try again, unless the request that set the key was cut off from it: its
\* SET's reply was lost, the server died on it, or the delete in its catch block
\* rejected (confirmPlan, from the SET NX to the catch).
ConfirmedIsPlanned ==
    confirmed # NoRequest
        ~> (planner # "absent" \/ confirmed = NoRequest \/ confirmed \in stranded)
=============================================================================
