----------------------------- MODULE MCRunStore -----------------------------
(***************************************************************************)
(* The stores of a run.  They share no state, so a behaviour exercises one *)
(* of them and leaves the others alone.  The run itself is followed either *)
(* with all the calls and nothing delivered by the progress stream, or     *)
(* with deliveries and at most one call.  The target workspace gets two    *)
(* uploads, under one name or two.                                         *)
(***************************************************************************)
EXTENDS RunStore, ArtifactStore, TaskAudit, TargetWorkspace
VARIABLE store

MCVars == <<storeVars, artVars, auditVars, targetVars, store>>

Delivers == \E p \in Procs : \E e \in bridge[p] : Ingest(p, e)

MCInit ==
    /\ store \in {"run", "relay", "artifact", "audit", "target"}
    /\ StoreInit /\ ArtInit /\ AuditInit /\ TargetInit
    /\ store # "audit" => source = "any"

MCNext ==
    /\ UNCHANGED store
    /\ \/ /\ store \in {"run", "relay"} /\ StoreNext
          /\ IF store = "relay" THEN calls' <= 1 ELSE ~Delivers
          /\ UNCHANGED <<artVars, auditVars, targetVars>>
       \/ store = "artifact" /\ ArtNext /\ UNCHANGED <<storeVars, auditVars, targetVars>>
       \/ store = "audit" /\ AuditNext /\ UNCHANGED <<storeVars, artVars, targetVars>>
       \/ /\ store = "target" /\ TargetNext
          /\ archive'["u1"] + archive'["u2"] <= 2
          /\ UNCHANGED <<storeVars, artVars, auditVars>>

MCSpec == MCInit /\ [][MCNext]_MCVars /\ (store \in {"run", "relay"} => StoreFairness)
=============================================================================
