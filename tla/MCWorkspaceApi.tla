--------------------------- MODULE MCWorkspaceApi ---------------------------
(***************************************************************************)
(* The parts of the workspace API share no state that the properties tell  *)
(* apart, so a behaviour exercises one of them and leaves the others alone.*)
(* The rate windows of two keys meet only in the purge of the memory, so   *)
(* the second key is used only there, and not once windows were lost.      *)
(***************************************************************************)
EXTENDS RouteShare, WorkspaceAccess, RateLimit
VARIABLE part

MCVars == <<chatVars, shareVars, accessVars, limitVars, part>>

(* The first two requests may carry one request id; the second is served by *)
(* another process than the others.                                         *)
MCHeaders == {[r \in Requests |-> r], [r \in Requests |-> IF r = 2 THEN 1 ELSE r]}
MCLoop == [r \in Requests |-> IF r = 2 THEN "p2" ELSE "p1"]
MCWeight == [m \in Models |-> IF m = "ma" THEN 2 ELSE 1]
MCPriority == [m \in Models |-> 1]
MCRank == [m \in Models |-> IF m = "ma" THEN 1 ELSE 2]

(* The parts a behaviour leaves alone start in one state. *)
MCInit ==
    /\ part \in {"chat", "share", "access", "limit"}
    /\ ChatInit /\ ShareInit /\ AccessInit /\ LimitInit
    /\ \A m \in NeedsKey : model[m].exists
    /\ part # "chat" => RequestId = [r \in Requests |-> r] /\ \A m \in Models : model[m].exists
    /\ part # "share" => weight = [m \in ShareModels |-> 1]
    /\ part # "limit" => backend = "memory" /\ ~failOpen

MCNext ==
    /\ UNCHANGED part
    /\ \/ part = "chat" /\ ChatNext /\ UNCHANGED <<shareVars, accessVars, limitVars>>
       \/ part = "share" /\ Pick /\ UNCHANGED <<chatVars, accessVars, limitVars>>
       \/ part = "access" /\ AccessNext /\ UNCHANGED <<chatVars, shareVars, limitVars>>
       \/ /\ part = "limit" /\ LimitNext
          /\ (backend = "memory" /\ losses' = 0) \/ (allowed'["k2"] = {} /\ win'["k2"] = NoWindow)
          /\ UNCHANGED <<chatVars, shareVars, accessVars>>

MCSpec == MCInit /\ [][MCNext]_MCVars /\ (part = "chat" => ChatFairness)
=============================================================================
