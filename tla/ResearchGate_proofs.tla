------------------------ MODULE ResearchGate_proofs ------------------------
(***************************************************************************)
(* Proofs about what the user steers a run with: the Research Review gate, *)
(* for any number of requests, revisions, worker slots, lost replies and   *)
(* crashes, and the chat of the browser (ChatView) that starts it.         *)
(***************************************************************************)
EXTENDS ResearchGate, ChatView, FiniteSetTheorems, TLAPS

\* The part of GateTypeOK the proofs need.
GateShape ==
    /\ research \in [Revisions -> {"absent", "waiting", "running", "saved", "done", "failed"}]
    /\ confirmed \in Requests \union {NoRequest}
    /\ pc \in [Requests -> Points]
    /\ held \in [Requests -> Revisions]
    /\ answer \in [Requests -> Answers]
    /\ revision \in Revisions

\* The key names the request that is between its SET NX and its answer, and the
\* one that was told it confirmed.
KeyInv ==
    \A q \in Requests :
        /\ pc[q] \in {"add", "remove"} => confirmed = q
        /\ answer[q] = "confirmed" => confirmed = q /\ pc[q] = "end"

\* A request beyond the completed check, and a queued planner, have a completed
\* revision behind them; a revision that has stored its results left a bundle.
SomeDone == \E r \in Revisions : research[r] = "done"

ResearchInv ==
    /\ \A r \in Revisions : research[r] \in {"saved", "done"} => bundle # {}
    /\ \A q \in Requests :
           pc[q] \in {"load", "saveResearch", "savePlan", "gate", "add", "remove"} => SomeDone
    /\ planner # "absent" => SomeDone

GateInv == GateShape /\ KeyInv /\ ResearchInv

\* The invariant holds when the run has been submitted.
LEMMA GateInit ==
    ASSUME Init
    PROVE  GateInv
  <1>1. 0 \in Revisions
    BY GateBoundsAssumption DEF Revisions
  <1>2. GateShape
    BY <1>1 DEF Init, GateShape, Points, Answers
  <1>3. KeyInv /\ ResearchInv
    BY DEF Init, KeyInv, ResearchInv
  <1> QED
    BY <1>2, <1>3 DEF GateInv

\* Workers do not touch the confirmation and only ever complete research.
LEMMA StagesKeepGate ==
    ASSUME GateInv, StageStep
    PROVE  GateInv'
  <1> USE DEF GateInv, GateShape
  <1>1. UNCHANGED <<confirmed, pc, held, answer, revision>>
    BY DEF StageStep, TakeResearch, RunResearcherStage, CompleteResearch, RunPlannerStage,
           RunRefactorStage, Requested
  <1>2. KeyInv'
    BY <1>1 DEF KeyInv
  <1>3. CASE RunPlannerStage \/ RunRefactorStage
    <2>1. UNCHANGED <<research, bundle>> /\ planner # "absent"
      BY <1>3 DEF RunPlannerStage, RunRefactorStage
    <2> QED
      BY <1>1, <1>2, <2>1 DEF ResearchInv, SomeDone
  <1>4. CASE \E r \in Revisions : TakeResearch(r) \/ RunResearcherStage(r) \/ CompleteResearch(r)
    <2> PICK r \in Revisions : TakeResearch(r) \/ RunResearcherStage(r) \/ CompleteResearch(r)
      BY <1>4
    <2>1. UNCHANGED planner
      BY DEF TakeResearch, RunResearcherStage, CompleteResearch
    <2>2. research' \in [Revisions -> {"absent", "waiting", "running", "saved", "done", "failed"}]
      BY DEF TakeResearch, RunResearcherStage, CompleteResearch
    <2>3. SomeDone => SomeDone'
      BY DEF TakeResearch, RunResearcherStage, CompleteResearch, SomeDone
    <2>4. \A s \in Revisions : research'[s] \in {"saved", "done"} => bundle' # {}
      BY DEF TakeResearch, RunResearcherStage, CompleteResearch, ResearchInv
    <2> QED
      BY <1>1, <1>2, <2>1, <2>2, <2>3, <2>4 DEF ResearchInv
  <1> QED
    BY <1>3, <1>4 DEF StageStep

\* A step of a request keeps every variable in its type.
LEMMA RequestsKeepShape ==
    ASSUME GateInv, NEW q \in Requests, RequestStep(q) \/ CrashRequest(q)
    PROVE  GateShape'
  <1> USE DEF GateInv, GateShape, Points, Answers, Goto, Reply, Durable
  <1>1. CASE getCurrentResearchRevision(q) \/ isCompleted(q)
    BY <1>1 DEF getCurrentResearchRevision, isCompleted
  <1>2. CASE ConfirmPlan(q)
    BY <1>2 DEF ConfirmPlan, LoadDraft, SaveReviewedResearch, SaveReviewedPlan, SetConfirmed,
                AddPlanner, RemoveConfirmed
  <1>3. CASE CheckNotConfirmed(q) \/ IncrementSet(q) \/ EnqueueResearch(q)
    BY <1>3 DEF CheckNotConfirmed, IncrementSet, EnqueueResearch
  <1>4. CASE IncrementGet(q)
    <2>1. revision + 1 \in Revisions
      BY <1>4, GateBoundsAssumption DEF IncrementGet, Revisions
    <2> QED
      BY <1>4, <2>1 DEF IncrementGet
  <1>5. CASE CrashRequest(q)
    BY <1>5 DEF CrashRequest
  <1> QED
    BY <1>1, <1>2, <1>3, <1>4, <1>5 DEF RequestStep, ResearchAgain

\* Only the request named by the key is between SET NX and its answer.
LEMMA RequestsKeepKey ==
    ASSUME GateInv, NEW q \in Requests, RequestStep(q) \/ CrashRequest(q)
    PROVE  KeyInv'
  <1> USE RequestsAssumption DEF GateInv, GateShape, KeyInv, Points, Answers, Goto, Reply, Durable
  <1>1. CASE getCurrentResearchRevision(q) \/ isCompleted(q)
    BY <1>1 DEF getCurrentResearchRevision, isCompleted
  <1>2. CASE LoadDraft(q) \/ SaveReviewedResearch(q) \/ SaveReviewedPlan(q)
    BY <1>2 DEF LoadDraft, SaveReviewedResearch, SaveReviewedPlan
  <1>3. CASE SetConfirmed(q)
    BY <1>3 DEF SetConfirmed
  <1>4. CASE AddPlanner(q)
    BY <1>4 DEF AddPlanner
  <1>5. CASE RemoveConfirmed(q)
    BY <1>5 DEF RemoveConfirmed
  <1>6. CASE ResearchAgain(q)
    BY <1>6 DEF ResearchAgain, CheckNotConfirmed, IncrementGet, IncrementSet, EnqueueResearch
  <1>7. CASE CrashRequest(q)
    BY <1>7 DEF CrashRequest
  <1> QED
    BY <1>1, <1>2, <1>3, <1>4, <1>5, <1>6, <1>7 DEF RequestStep, ConfirmPlan

\* A request passes the check only with a completed revision behind it.
LEMMA RequestsKeepResearch ==
    ASSUME GateInv, NEW q \in Requests, RequestStep(q) \/ CrashRequest(q)
    PROVE  ResearchInv'
  <1> USE DEF GateInv, GateShape, ResearchInv, SomeDone, Goto, Reply, Durable
  <1>1. CASE getCurrentResearchRevision(q) \/ isCompleted(q)
    BY <1>1 DEF getCurrentResearchRevision, isCompleted
  <1>2. CASE ConfirmPlan(q)
    BY <1>2 DEF ConfirmPlan, LoadDraft, SaveReviewedResearch, SaveReviewedPlan, SetConfirmed,
                AddPlanner, RemoveConfirmed
  <1>3. CASE CheckNotConfirmed(q) \/ IncrementGet(q) \/ IncrementSet(q)
    BY <1>3 DEF CheckNotConfirmed, IncrementGet, IncrementSet
  <1>4. CASE EnqueueResearch(q)
    BY <1>4 DEF EnqueueResearch
  <1>5. CASE CrashRequest(q)
    BY <1>5 DEF CrashRequest
  <1> QED
    BY <1>1, <1>2, <1>3, <1>4, <1>5 DEF RequestStep, ResearchAgain

\* The inductive invariant of the gate.
THEOREM GateInvariance == Spec => []GateInv
  <1>1. Init => GateInv
    BY GateInit
  <1>2. GateInv /\ [Next]_gatevars => GateInv'
    <2>1. ASSUME GateInv, UNCHANGED gatevars PROVE GateInv'
      BY <2>1 DEF GateInv, GateShape, KeyInv, ResearchInv, SomeDone, gatevars
    <2>2. ASSUME GateInv, NEW q \in Requests, RequestStep(q) \/ CrashRequest(q) PROVE GateInv'
      BY <2>2, RequestsKeepShape, RequestsKeepKey, RequestsKeepResearch DEF GateInv
    <2> QED
      BY <2>1, <2>2, StagesKeepGate DEF Next
  <1> QED
    BY <1>1, <1>2, PTL DEF Spec

\* The SET NX of confirmPlan and the unconditional delete in its catch block never
\* let two requests believe they confirmed the plan.
THEOREM GateConfirmedOnce == Spec => []ConfirmedOnce
  <1>1. GateInv => ConfirmedOnce
    BY DEF GateInv, KeyInv, ConfirmedOnce
  <1> QED
    BY <1>1, GateInvariance, PTL

-----------------------------------------------------------------------------
\* An artifact holds one draft at most.
One(d) == d \subseteq Drafts /\ \A x, y \in d : x = y

\* The rest of GateTypeOK: what the artifacts, the drafts in hand and the counters hold.
DraftInv ==
    /\ One(bundle) /\ One(reviewed) /\ One(planReviewed)
    /\ planned \in [audit : SUBSET Drafts, plan : SUBSET Drafts]
    /\ One(planned.audit) /\ One(planned.plan)
    /\ draft \in [Requests -> SUBSET Drafts] /\ \A q \in Requests : One(draft[q])
    /\ planner \in {"absent", "waiting", "started", "refactored"}
    /\ lost \in 0 .. MaxLost /\ crashes \in 0 .. MaxCrashes
    /\ stranded \subseteq Requests

\* What the researcher of a revision stores is one draft.
LEMMA OneDraft ==
    ASSUME NEW r \in Revisions
    PROVE  One({Draft(r, NoRequest)})
  BY DEF One, Draft, Drafts

\* The edits of a request turn one draft into one draft.
LEMMA OneEdited ==
    ASSUME NEW d, One(d), NEW q \in Requests
    PROVE  One({ Draft(x.rev, q) : x \in d })
  BY DEF One, Draft, Drafts

\* No draft at all, when the run is submitted.
LEMMA DraftInit ==
    ASSUME Init
    PROVE  DraftInv
  BY GateBoundsAssumption DEF Init, DraftInv, One

\* The stages replace artifacts whole.
LEMMA StagesKeepDrafts ==
    ASSUME DraftInv, StageStep
    PROVE  DraftInv'
  <1>1. CASE RunPlannerStage
    <2>1. One(loadResearchBundle) /\ loadResearchBundle \in SUBSET Drafts
      BY DEF DraftInv, loadResearchBundle, One
    <2>2. /\ planned' \in [audit : SUBSET Drafts, plan : SUBSET Drafts]
          /\ planned'.audit = loadResearchBundle /\ planned'.plan = planned.plan
      BY <1>1, <2>1 DEF RunPlannerStage, DraftInv
    <2> QED
      BY <1>1, <2>1, <2>2 DEF RunPlannerStage, DraftInv, Requested
  <1>2. CASE RunRefactorStage
    <2>1. One(loadPlan) /\ loadPlan \in SUBSET Drafts
      BY DEF DraftInv, loadPlan, One
    <2>2. /\ planned' \in [audit : SUBSET Drafts, plan : SUBSET Drafts]
          /\ planned'.plan = loadPlan /\ planned'.audit = planned.audit
      BY <1>2, <2>1 DEF RunRefactorStage, DraftInv
    <2> QED
      BY <1>2, <2>1, <2>2 DEF RunRefactorStage, DraftInv, Requested
  <1>3. ASSUME NEW r \in Revisions, TakeResearch(r) \/ RunResearcherStage(r) \/ CompleteResearch(r)
        PROVE  DraftInv'
    BY <1>3, OneDraft DEF TakeResearch, RunResearcherStage, CompleteResearch, DraftInv, Requested
  <1> QED
    BY <1>1, <1>2, <1>3 DEF StageStep

\* A request edits the draft it loaded and stores that.
LEMMA RequestsKeepDrafts ==
    ASSUME DraftInv, NEW q \in Requests, RequestStep(q) \/ CrashRequest(q)
    PROVE  DraftInv'
  <1> USE DEF DraftInv, Goto, Reply, Durable
  <1>1. CASE LoadDraft(q)
    <2>1. One(loadResearchBundle)
      BY DEF loadResearchBundle
    <2> DEFINE edited == { Draft(d.rev, q) : d \in loadResearchBundle }
    <2>2. One(edited) /\ edited \in SUBSET Drafts
      BY <2>1, OneEdited DEF One
    <2> HIDE DEF edited
    <2>3. draft' = [draft EXCEPT ![q] = edited] \/ UNCHANGED draft
      BY <1>1 DEF LoadDraft, edited
    <2> QED
      BY <1>1, <2>2, <2>3 DEF LoadDraft
  <1>2. CASE getCurrentResearchRevision(q) \/ isCompleted(q)
    BY <1>2 DEF getCurrentResearchRevision, isCompleted
  <1>3. CASE SaveReviewedResearch(q) \/ SaveReviewedPlan(q) \/ RemoveConfirmed(q)
    BY <1>3 DEF SaveReviewedResearch, SaveReviewedPlan, RemoveConfirmed
  <1>4. CASE SetConfirmed(q) \/ AddPlanner(q)
    BY <1>4, GateBoundsAssumption DEF SetConfirmed, AddPlanner
  <1>5. CASE ResearchAgain(q)
    BY <1>5 DEF ResearchAgain, CheckNotConfirmed, IncrementGet, IncrementSet, EnqueueResearch
  <1>6. CASE CrashRequest(q)
    BY <1>6, GateBoundsAssumption DEF CrashRequest
  <1> QED
    BY <1>1, <1>2, <1>3, <1>4, <1>5, <1>6 DEF RequestStep, ConfirmPlan

\* The drafts stay drafts, one in each place.
THEOREM GateDrafts == Spec => []DraftInv
  <1>1. Init => DraftInv
    BY DraftInit
  <1>2. DraftInv /\ [Next]_gatevars => DraftInv'
    <2>1. ASSUME DraftInv, UNCHANGED gatevars PROVE DraftInv'
      BY <2>1 DEF DraftInv, gatevars
    <2> QED
      BY <2>1, StagesKeepDrafts, RequestsKeepDrafts DEF Next
  <1> QED
    BY <1>1, <1>2, PTL DEF Spec

\* A queued planner has completed research behind it and one draft to audit, and
\* every variable keeps its type.
THEOREM GatePlannerHasResearch == Spec => []PlannerHasResearch
  <1>1. GateInv /\ DraftInv => GateTypeOK
    BY DEF GateInv, GateShape, DraftInv, GateTypeOK, One
  <1>2. GateInv /\ DraftInv => PlannerHasResearch
    BY <1>1 DEF GateInv, ResearchInv, SomeDone, PlannerHasResearch, loadResearchBundle
  <1> QED
    BY <1>2, GateInvariance, GateDrafts, PTL

-----------------------------------------------------------------------------
(***************************************************************************)
(* The chat of the browser (ChatView), for any conversations, runs,        *)
(* messages, faults and page loads.                                        *)
(***************************************************************************)

Views ==
    [conv : Convs \cup {None}, turns : Seq(Msgs), run : Runs \cup {None}, draft : Msgs \cup {None},
     error : BOOLEAN, lost : BOOLEAN]
Selections == [conv : Convs \cup {None, Forgotten}, run : Runs \cup {None}]

ServerTypes ==
    /\ mem \in [Convs -> Conversations \cup {None}] /\ disk \in [Convs -> Conversations \cup {None}]
    /\ runOf \in [Runs -> Origins \cup {None}]
PageTypes ==
    /\ view \in Views /\ saved \in Selections /\ op \in Operations \cup {None}
    /\ ghost \in Operations \cup {None} /\ restore \in Restores \cup {None}
    /\ dialog \in BOOLEAN /\ raced \in BOOLEAN

\* A message is sent, and a run started, from a conversation that is on disk once answered.
Posted(o) ==
    o # None =>
        /\ o.kind = "send" => o.msg \in Msgs
        /\ o.kind = "start" => o.conv \in Convs /\ (o.phase = "answered" => o.run \in Runs)
OpInv ==
    /\ Posted(op) /\ Posted(ghost) /\ (dialog => op = None)
    /\ op # None /\ op.phase = "answered" /\ op.kind = "send" => op.conv \in Convs /\ disk[op.conv] # None

\* What localStorage names is on disk, unless it outlived the server's data.
DiskInv ==
    /\ saved.conv \in Convs => disk[saved.conv] # None
    /\ restore # None => /\ restore.conv \in Convs => disk[restore.conv] # None
                         /\ restore.phase = "unknown" => restore.conv \notin Convs
                         /\ restore.phase = "answered" => restore.conv \in Convs

\* The run r was made from the conversation c.
Of(r, c) == r # None => c \in Convs /\ runOf[r] # None /\ runOf[r].conv = c

\* As long as nothing raced: what is shown is saved, each run belongs to its chat, a chat
\* that is not shown yet is being restored, and an operation is on the chat that is shown.
PlainInv ==
    ~raced =>
        /\ view.conv # None => saved.conv = view.conv /\ saved.run = view.run
        /\ view.conv = None => view.run = None
        /\ Of(saved.run, saved.conv)
        /\ view.conv = None /\ restore = None /\ ~view.lost => saved.run = None
        /\ restore # None /\ ~restore.moved => restore.conv = saved.conv
        /\ op # None /\ op.phase = "sent" => op.conv = view.conv
        /\ op # None /\ op.phase = "answered" =>
              /\ op.kind = "send" => view.conv = None \/ op.conv = view.conv
              /\ op.kind = "start" => op.conv = view.conv /\ Of(op.run, op.conv)

PageInv == ServerTypes /\ PageTypes /\ OpInv /\ DiskInv /\ PlainInv

LEMMA TurnedFacts ==
    ASSUME NEW conv \in Conversations, NEW m \in Msgs
    PROVE  Turned(conv, m) \in Conversations
  <1> DEFINE Intents == [revision : Nat, goal : Msgs \cup {None}, context : SUBSET Msgs]
  <1>1. conv.turns \in Seq(Msgs) /\ conv.intent \in Intents
    BY DEF Conversations
  <1>2. merge(conv.intent, m) \in Intents
    BY <1>1, IntentAssumption DEF merge, Derived
  <1>3. Append(conv.turns, m) \in Seq(Msgs)
    BY <1>1
  <1> HIDE DEF Intents
  <1> QED
    BY <1>2, <1>3 DEF Turned, Conversations, Intents

\* The files and the runs only become more, and a run stays what it was made from.
Grows ==
    /\ \A c \in Convs : disk[c] # None => disk'[c] # None
    /\ \A r \in Runs : runOf[r] # None => runOf'[r] = runOf[r]

LEMMA SaveGrows ==
    ASSUME ServerTypes, NEW c \in Convs, NEW conv \in Conversations, NEW written \in BOOLEAN,
           save(c, conv, written), UNCHANGED runOf
    PROVE  /\ ServerTypes' /\ Grows /\ mem'[c] = conv
           /\ written => disk'[c] # None
  <1>1. mem' = [mem EXCEPT ![c] = conv] /\ (disk' = [disk EXCEPT ![c] = conv] \/ disk' = disk)
        /\ (written => disk' = [disk EXCEPT ![c] = conv])
    BY DEF save
  <1>2. conv # None
    BY IntentAssumption
  <1> QED
    BY <1>1, <1>2 DEF ServerTypes, Grows

LEMMA ServedGrows ==
    ASSUME ServerTypes, NEW o \in Operations, Posted(o), NEW c \in Convs, NEW r \in Runs \cup {None},
           NEW written \in BOOLEAN, Served(o, c, r, written)
    PROVE  /\ ServerTypes' /\ Grows /\ mem'[c] \in Conversations
           /\ o.kind = "send" => (written => disk'[c] # None) /\ (o.conv # None => c = o.conv)
           /\ o.kind = "start" => r \in Runs /\ c = o.conv /\ runOf'[r] # None /\ runOf'[r].conv = c
  <1>1. /\ o # None /\ o.kind \in {"send", "start"} /\ (o.kind = "send" => o.msg \in Msgs)
        /\ get(c) \in Conversations \cup {None}
    BY ChatViewAssumption DEF Posted, Operations, get, ServerTypes
  <1>2. CASE o.kind = "send" /\ o.conv = None
    <2>1. save(c, Turned([turns |-> <<>>, intent |-> NoIntent], o.msg), written) /\ UNCHANGED runOf
      BY <1>2 DEF Served, start
    <2>2. [turns |-> <<>>, intent |-> NoIntent] \in Conversations
      BY DEF Conversations, NoIntent
    <2>3. Turned([turns |-> <<>>, intent |-> NoIntent], o.msg) \in Conversations
      BY <1>1, <1>2, <2>2, TurnedFacts
    <2> QED
      BY <1>1, <1>2, <2>1, <2>3, SaveGrows
  <1>3. CASE o.kind = "send" /\ o.conv # None
    <2>1. c = o.conv /\ get(c) # None /\ save(c, Turned(get(c), o.msg), written) /\ UNCHANGED runOf
      BY <1>3 DEF Served, addTurn
    <2>2. Turned(get(c), o.msg) \in Conversations
      BY <1>1, <1>3, <2>1, TurnedFacts
    <2> QED
      BY <1>1, <1>3, <2>1, <2>2, SaveGrows
  <1>4. CASE o.kind = "start"
    <2>1. c = o.conv /\ r # None /\ createRun(c, r)
      BY <1>4 DEF Served
    <2>2. /\ get(c) # None /\ get(c).intent.goal # None /\ runOf[r] = None
          /\ runOf' = [runOf EXCEPT ![r] = [conv |-> c, goal |-> get(c).intent.goal]]
          /\ mem' = [mem EXCEPT ![c] = get(c)] /\ disk' = disk
      BY <2>1 DEF createRun, ready_for_prompt
    <2>3. get(c) \in Conversations /\ get(c).intent.goal \in Msgs
      BY <1>1, <2>2 DEF Conversations
    <2> DEFINE origin == [conv |-> c, goal |-> get(c).intent.goal]
    <2>4. origin \in Origins /\ origin.conv = c
      BY <2>3 DEF Origins
    <2>5. origin # None
      BY <2>4, IntentAssumption
    <2> HIDE DEF origin
    <2>6. runOf' = [runOf EXCEPT ![r] = origin] /\ r \in Runs
      BY <2>1, <2>2 DEF origin
    <2>7. ServerTypes' /\ mem'[c] \in Conversations /\ runOf'[r] = origin
      BY <2>2, <2>3, <2>4, <2>6 DEF ServerTypes
    <2>8. Grows
      BY <2>2, <2>6 DEF Grows, ServerTypes
    <2> QED
      BY <1>4, <2>1, <2>4, <2>5, <2>6, <2>7, <2>8
  <1> QED
    BY <1>1, <1>2, <1>3, <1>4

LEMMA PageFacts ==
    ASSUME PageInv
    PROVE  /\ view.conv \in Convs \cup {None} /\ view.run \in Runs \cup {None}
           /\ saved.conv \in Convs \cup {None, Forgotten} /\ saved.run \in Runs \cup {None}
           /\ op # None => /\ op \in Operations /\ op.conv \in Convs \cup {None}
                           /\ op.run \in Runs \cup {None} /\ op.kind \in {"send", "start"}
                           /\ op.turns \in Seq(Msgs)
           /\ restore # None => /\ restore \in Restores /\ restore.conv \in Convs \cup {Forgotten}
                                /\ restore.moved \in BOOLEAN /\ restore.turns \in Seq(Msgs)
           /\ None \notin Convs /\ None \notin Runs /\ Forgotten \notin Convs \cup {None}
  BY IntentAssumption, ChatViewAssumption
     DEF PageInv, PageTypes, Views, Selections, Operations, Restores

\* What the server does to other requests leaves the page's invariant.
LEMMA GrowsKeeps ==
    ASSUME PageInv, Grows, ServerTypes', ghost' \in {ghost, None},
           UNCHANGED <<view, saved, op, restore, dialog, raced>>
    PROVE  PageInv'
  <1>1. PageTypes'
    BY DEF PageInv, PageTypes
  <1>2. OpInv'
    BY DEF PageInv, OpInv, Posted, Grows
  <1>3. DiskInv'
    BY DEF PageInv, DiskInv, Grows
  <1>4. ASSUME NEW r \in Runs \cup {None}, NEW c, Of(r, c) PROVE Of(r, c)'
    BY <1>4, IntentAssumption DEF Of, Grows
  <1>5. PlainInv'
    BY <1>4, PageFacts DEF PageInv, PlainInv
  <1> QED
    BY <1>1, <1>2, <1>3, <1>5 DEF PageInv

\* Steps of the page that leave the server alone.
LEMMA TypeKeeps ==
    ASSUME PageInv, NEW m \in Msgs, Type(m)
    PROVE  PageInv'
  <1>1. /\ view' = [view EXCEPT !.draft = m]
        /\ UNCHANGED <<serverVars, saved, op, ghost, restore, dialog, raced>>
    BY DEF Type
  <1>2. /\ view' \in Views /\ view'.conv = view.conv /\ view'.run = view.run
        /\ view'.lost = view.lost
    BY <1>1 DEF PageInv, PageTypes, Views
  <1> QED
    BY <1>1, <1>2 DEF PageInv, ServerTypes, PageTypes, OpInv, Posted, DiskInv, PlainInv, Of, serverVars

LEMMA PerformKeeps ==
    ASSUME PageInv, Send \/ StartRun
    PROVE  PageInv'
  <1>1. PICK kind \in {"send", "start"}, m \in Msgs \cup {None} :
            /\ kind = "send" => m \in Msgs
            /\ kind = "start" => view.conv \in Convs
            /\ op' = Performing(kind, m) /\ ~dialog /\ view' = [view EXCEPT !.error = FALSE]
            /\ UNCHANGED <<serverVars, saved, ghost, restore, dialog, raced>>
    <2>1. view.draft \in Msgs \cup {None} /\ view.conv \in Convs \cup {None}
      BY DEF PageInv, PageTypes, Views
    <2>2. CASE Send
      BY <2>1, <2>2 DEF Send
    <2>3. CASE StartRun
      BY <2>1, <2>3 DEF StartRun
    <2> QED
      BY <2>2, <2>3
  <1>2. /\ view' \in Views /\ view'.conv = view.conv /\ view'.run = view.run
        /\ view'.lost = view.lost
    BY <1>1 DEF PageInv, PageTypes, Views
  <1>3. /\ op' \in Operations /\ op'.kind = kind /\ op'.conv = view.conv /\ op'.msg = m
        /\ op'.phase = "sent"
    BY <1>1, PageFacts DEF Performing, Operations
  <1>4. ServerTypes' /\ PageTypes'
    BY <1>1, <1>2, <1>3 DEF PageInv, ServerTypes, PageTypes, serverVars
  <1>5. OpInv'
    BY <1>1, <1>3 DEF PageInv, OpInv, Posted
  <1>6. DiskInv' /\ PlainInv'
    BY <1>1, <1>2, <1>3 DEF PageInv, DiskInv, PlainInv, Of, serverVars
  <1> QED
    BY <1>4, <1>5, <1>6 DEF PageInv

LEMMA MovedFacts ==
    ASSUME NEW x \in Restores \cup {None}
    PROVE  /\ Moved(x) \in Restores \cup {None} /\ (Moved(x) = None <=> x = None)
           /\ x # None => /\ Moved(x).conv = x.conv /\ Moved(x).phase = x.phase
                          /\ Moved(x).moved
  <1>1. CASE x = None
    BY <1>1 DEF Moved
  <1>2. CASE x # None
    <2>1. Moved(x) = [x EXCEPT !.moved = TRUE]
      BY <1>2 DEF Moved
    <2>2. Moved(x) \in Restores /\ Moved(x).conv = x.conv /\ Moved(x).phase = x.phase /\ Moved(x).moved = TRUE
      BY <1>2, <2>1 DEF Restores
    <2> QED
      BY <1>2, <2>2, ChatViewAssumption
  <1> QED
    BY <1>1, <1>2

LEMMA RestoreOfFacts ==
    ASSUME NEW s \in Selections
    PROVE  /\ RestoreOf(s) \in Restores \cup {None} /\ (RestoreOf(s) = None <=> s.conv = None)
           /\ s.conv # None => RestoreOf(s).conv = s.conv /\ RestoreOf(s).phase = "sent"
  <1>1. CASE s.conv = None
    BY <1>1 DEF RestoreOf
  <1>2. CASE s.conv # None
    <2>1. RestoreOf(s) = [conv |-> s.conv, phase |-> "sent", turns |-> <<>>, moved |-> FALSE]
      BY <1>2 DEF RestoreOf
    <2>2. s.conv \in Convs \cup {Forgotten}
      BY <1>2 DEF Selections
    <2>3. RestoreOf(s) \in Restores /\ RestoreOf(s).conv = s.conv /\ RestoreOf(s).phase = "sent"
      BY <2>1, <2>2 DEF Restores
    <2> QED
      BY <1>2, <2>3, ChatViewAssumption
  <1> QED
    BY <1>1, <1>2

LEMMA NoViewFacts ==
    NoView \in Views /\ NoView.conv = None /\ NoView.run = None /\ NoView.lost = FALSE
  BY DEF NoView, Views

LEMMA ResetKeeps ==
    ASSUME PageInv, OpenDialog \/ resetSelection
    PROVE  PageInv'
  <1>1. CASE OpenDialog
    <2>1. op = None /\ dialog' = TRUE /\ UNCHANGED <<serverVars, view, saved, op, ghost, restore, raced>>
      BY <1>1 DEF OpenDialog
    <2> QED
      BY <2>1 DEF PageInv, ServerTypes, PageTypes, OpInv, Posted, DiskInv, PlainInv, Of, serverVars
  <1>2. CASE resetSelection
    <2>1. /\ dialog /\ dialog' = FALSE /\ view' = NoView /\ saved' = [conv |-> None, run |-> None]
          /\ restore' = Moved(restore) /\ UNCHANGED <<serverVars, op, ghost, raced>>
      BY <1>2 DEF resetSelection
    <2>2. op = None /\ restore \in Restores \cup {None}
      BY <2>1 DEF PageInv, OpInv, PageTypes
    <2>3. /\ restore' \in Restores \cup {None}
          /\ restore' # None => /\ restore # None /\ restore'.conv = restore.conv
                                /\ restore'.phase = restore.phase /\ restore'.moved
      BY <2>1, <2>2, MovedFacts
    <2>4. view' \in Views /\ view'.conv = None /\ view'.run = None
      BY <2>1, NoViewFacts
    <2>5. saved' \in Selections /\ saved'.conv = None /\ saved'.run = None
      BY <2>1 DEF Selections
    <2>6. ServerTypes' /\ PageTypes' /\ OpInv'
      BY <2>1, <2>2, <2>3, <2>4, <2>5 DEF PageInv, ServerTypes, PageTypes, OpInv, Posted, serverVars
    <2>7. DiskInv'
      BY <2>1, <2>3, <2>5, PageFacts DEF PageInv, DiskInv, serverVars
    <2>8. PlainInv'
      BY <2>1, <2>2, <2>3, <2>4, <2>5 DEF PlainInv, Of
    <2> QED
      BY <2>6, <2>7, <2>8 DEF PageInv
  <1> QED
    BY <1>1, <1>2

LEMMA VisitKeeps ==
    ASSUME PageInv, Reload \/ SaveToken
    PROVE  PageInv'
  <1>1. restore' = RestoreOf(saved) /\ UNCHANGED <<serverVars, saved, raced>> /\ saved \in Selections
    BY DEF Reload, SaveToken, PageInv, PageTypes
  <1>2. /\ restore' \in Restores \cup {None} /\ (restore' = None <=> saved.conv = None)
        /\ restore' # None => restore'.conv = saved.conv /\ restore'.phase = "sent"
    BY <1>1, RestoreOfFacts
  <1>3. DiskInv'
    BY <1>1, <1>2 DEF PageInv, DiskInv, serverVars
  <1>4. ~raced => Of(saved.run, saved.conv)
    BY DEF PageInv, PlainInv
  <1>5. CASE Reload
    <2>1. /\ view' = NoView /\ op' = None /\ dialog' = FALSE
          /\ ghost' = IF op # None /\ op.phase = "sent" THEN op ELSE ghost
      BY <1>5 DEF Reload
    <2>2. view' \in Views /\ view'.conv = None /\ view'.run = None
      BY <2>1, NoViewFacts
    <2>3. ServerTypes' /\ PageTypes' /\ OpInv'
      BY <1>1, <1>2, <2>1, <2>2 DEF PageInv, ServerTypes, PageTypes, OpInv, Posted, serverVars
    <2>4. PlainInv'
      BY <1>1, <1>2, <1>4, <2>1, <2>2, PageFacts DEF PlainInv, Of, serverVars
    <2> QED
      BY <1>3, <2>3, <2>4 DEF PageInv
  <1>6. CASE SaveToken
    <2>1. UNCHANGED <<view, op, ghost, dialog>>
      BY <1>6 DEF SaveToken
    <2>2. ServerTypes' /\ PageTypes' /\ OpInv'
      BY <1>1, <1>2, <2>1 DEF PageInv, ServerTypes, PageTypes, OpInv, Posted, serverVars
    <2>3. PlainInv'
      BY <1>1, <1>2, <1>4, <2>1, PageFacts DEF PageInv, PlainInv, Of, serverVars
    <2> QED
      BY <1>3, <2>2, <2>3 DEF PageInv
  <1> QED
    BY <1>5, <1>6

LEMMA HandleKeeps ==
    ASSUME PageInv, Handle
    PROVE  PageInv'
  <1>1. PICK c \in Convs, r \in Runs \cup {None}, written \in BOOLEAN :
            /\ Served(op, c, r, written)
            /\ IF written THEN UNCHANGED faults ELSE Fault
            /\ op' = [op EXCEPT !.phase = IF written THEN "answered" ELSE "failed",
                                !.conv = c, !.run = r, !.turns = mem'[c].turns]
    BY Zenon DEF Handle
  <1>2. op # None /\ op.phase = "sent" /\ UNCHANGED <<view, saved, ghost, restore, dialog, raced>>
    BY DEF Handle
  <1>3. op \in Operations /\ Posted(op) /\ ServerTypes /\ Posted(ghost) /\ ~dialog
    BY <1>2, PageFacts DEF PageInv, OpInv, PageTypes
  <1>4. /\ ServerTypes' /\ Grows /\ mem'[c] \in Conversations
        /\ op.kind = "send" => (written => disk'[c] # None) /\ (op.conv # None => c = op.conv)
        /\ op.kind = "start" => r \in Runs /\ c = op.conv /\ runOf'[r] # None /\ runOf'[r].conv = c
    BY <1>1, <1>3, ServedGrows
  <1> DEFINE t == mem'[c].turns
             phase == IF written THEN "answered" ELSE "failed"
  <1>5. t \in Seq(Msgs) /\ phase \in {"answered", "failed"} /\ (phase = "answered" => written)
    BY <1>4 DEF Conversations
  <1> HIDE DEF t, phase
  <1>6. /\ op' \in Operations /\ op'.phase = phase /\ op'.conv = c /\ op'.run = r
        /\ op'.kind = op.kind /\ op'.msg = op.msg
    BY <1>1, <1>3, <1>5 DEF Operations, t, phase
  <1>7. op' # None /\ op.kind \in {"send", "start"}
    BY <1>6, <1>3, ChatViewAssumption DEF Operations
  <1>8. PageTypes'
    BY <1>2, <1>6 DEF PageInv, PageTypes
  <1>9. Posted(op') /\ Posted(ghost')
    BY <1>2, <1>3, <1>4, <1>6, <1>7 DEF Posted
  <1>10. OpInv'
    BY <1>2, <1>3, <1>4, <1>5, <1>6, <1>9 DEF OpInv, Posted
  <1>11. DiskInv'
    BY <1>2, <1>4 DEF PageInv, DiskInv, Grows
  <1>12. ASSUME ~raced
         PROVE  /\ Of(saved.run, saved.conv)'
                /\ op.kind = "send" => view.conv = None \/ c = view.conv
                /\ op.kind = "start" => c = view.conv /\ Of(op.run, op.conv)'
    <2>1. op.conv = view.conv /\ Of(saved.run, saved.conv)
      BY <1>2, <1>12 DEF PageInv, PlainInv
    <2>2. Of(saved.run, saved.conv)'
      BY <1>2, <1>4, <2>1, PageFacts DEF Of, Grows
    <2>3. op.kind = "start" => Of(op.run, op.conv)'
      BY <1>4, <1>6 DEF Of
    <2> QED
      BY <1>4, <2>1, <2>2, <2>3
  <1>13. PlainInv'
    BY <1>2, <1>5, <1>6, <1>12 DEF PageInv, PlainInv
  <1> QED
    BY <1>4, <1>8, <1>10, <1>11, <1>13 DEF PageInv

LEMMA HandleGhostKeeps ==
    ASSUME PageInv, HandleGhost
    PROVE  PageInv'
  <1>1. /\ ghost # None /\ ghost' = None /\ UNCHANGED <<view, saved, op, restore, dialog, raced>>
        /\ \/ \E c \in Convs, r \in Runs \cup {None} : Served(ghost, c, r, TRUE)
           \/ UNCHANGED serverVars
    BY DEF HandleGhost
  <1>2. ghost \in Operations /\ Posted(ghost) /\ ServerTypes
    BY <1>1 DEF PageInv, OpInv, PageTypes
  <1>3. Grows /\ ServerTypes'
    <2>1. CASE UNCHANGED serverVars
      BY <1>2, <2>1 DEF Grows, ServerTypes, serverVars
    <2>2. ASSUME NEW c \in Convs, NEW r \in Runs \cup {None}, Served(ghost, c, r, TRUE)
          PROVE  Grows /\ ServerTypes'
      BY <1>2, <2>2, ServedGrows
    <2> QED
      BY <1>1, <2>1, <2>2
  <1> QED
    BY <1>1, <1>3, GrowsKeeps

LEMMA RestartGrows ==
    ASSUME PageInv, ServerRestart
    PROVE  PageInv'
  <1>1. /\ mem' = [c \in Convs |-> None]
        /\ UNCHANGED <<disk, runOf, view, saved, op, ghost, restore, dialog, raced>>
    BY DEF ServerRestart, Restart, viewVars
  <1>2. Grows /\ ServerTypes'
    BY <1>1 DEF PageInv, ServerTypes, Grows
  <1> QED
    BY <1>1, <1>2, GrowsKeeps

LEMMA FailKeeps ==
    ASSUME PageInv, Refuse \/ Lose
    PROVE  PageInv'
  <1>1. /\ op # None /\ op' = [op EXCEPT !.phase = "failed"]
        /\ UNCHANGED <<serverVars, view, saved, ghost, restore, dialog, raced>>
    BY DEF Refuse, Lose
  <1>2. /\ op' \in Operations /\ op'.phase = "failed" /\ op'.kind = op.kind /\ op'.msg = op.msg
        /\ op'.conv = op.conv
    BY <1>1, PageFacts DEF Operations
  <1>3. ServerTypes' /\ PageTypes'
    BY <1>1, <1>2 DEF PageInv, ServerTypes, PageTypes, serverVars
  <1>4. OpInv'
    BY <1>1, <1>2 DEF PageInv, OpInv, Posted
  <1>5. DiskInv' /\ PlainInv'
    BY <1>1, <1>2 DEF PageInv, DiskInv, PlainInv, Of, serverVars
  <1> QED
    BY <1>3, <1>4, <1>5 DEF PageInv

LEMMA ApplyFailureKeeps ==
    ASSUME PageInv, ApplyFailure
    PROVE  PageInv'
  <1>1. /\ op' = None /\ view' = [view EXCEPT !.error = TRUE]
        /\ UNCHANGED <<serverVars, saved, ghost, restore, dialog, raced>>
    BY DEF ApplyFailure
  <1>2. view' \in Views /\ view'.conv = view.conv /\ view'.run = view.run /\ view'.lost = view.lost
    BY <1>1 DEF PageInv, PageTypes, Views
  <1> QED
    BY <1>1, <1>2 DEF PageInv, ServerTypes, PageTypes, OpInv, Posted, DiskInv, PlainInv, Of, serverVars

LEMMA ApplySendKeeps ==
    ASSUME PageInv, ApplySend
    PROVE  PageInv'
  <1>1. /\ op # None /\ op.phase = "answered" /\ op.kind = "send" /\ op' = None
        /\ view' = [view EXCEPT !.conv = op.conv, !.turns = op.turns, !.draft = None]
        /\ saved' = [saved EXCEPT !.conv = op.conv] /\ restore' = Moved(restore)
        /\ raced' = (raced \/ (view.conv = None /\ (view.lost \/ restore # None)))
        /\ UNCHANGED <<serverVars, ghost, dialog>>
    BY DEF ApplySend
  <1>2. op.conv \in Convs /\ disk[op.conv] # None /\ op.conv # None
    BY <1>1, PageFacts DEF PageInv, OpInv
  <1>3. /\ view' \in Views /\ view'.conv = op.conv /\ view'.run = view.run /\ view'.lost = view.lost
    BY <1>1, <1>2, PageFacts DEF PageInv, PageTypes, Views
  <1>4. saved' \in Selections /\ saved'.conv = op.conv /\ saved'.run = saved.run
    BY <1>1, <1>2 DEF PageInv, PageTypes, Selections
  <1>5. restore \in Restores \cup {None}
    BY DEF PageInv, PageTypes
  <1>6. /\ restore' \in Restores \cup {None}
        /\ restore' # None => /\ restore # None /\ restore'.conv = restore.conv
                              /\ restore'.phase = restore.phase /\ restore'.moved
    BY <1>1, <1>5, MovedFacts
  <1>7. raced' \in BOOLEAN /\ (~raced' => ~raced /\ (view.conv = None => ~view.lost /\ restore = None))
    BY <1>1, <1>3 DEF PageInv, PageTypes, Views
  <1>8. ServerTypes' /\ PageTypes' /\ OpInv'
    BY <1>1, <1>3, <1>4, <1>6, <1>7
       DEF PageInv, ServerTypes, PageTypes, OpInv, Posted, serverVars
  <1>9. DiskInv'
    BY <1>1, <1>2, <1>4, <1>6 DEF PageInv, DiskInv, serverVars
  <1>10. ASSUME ~raced' PROVE saved'.run = view'.run /\ Of(saved.run, saved.conv)'
    <2>1. ~raced /\ Of(saved.run, saved.conv)
      BY <1>7, <1>10 DEF PageInv, PlainInv
    <2>2. CASE view.conv = None
      BY <1>3, <1>4, <1>7, <1>10, <2>1, <2>2 DEF PageInv, PlainInv, Of
    <2>3. CASE view.conv # None
      <3>1. op.conv = view.conv /\ saved.conv = view.conv /\ saved.run = view.run
        BY <1>1, <2>1, <2>3 DEF PageInv, PlainInv
      <3> QED
        BY <1>1, <1>3, <1>4, <2>1, <3>1 DEF Of, serverVars
    <2> QED
      BY <2>2, <2>3
  <1>11. PlainInv'
    BY <1>1, <1>2, <1>3, <1>4, <1>6, <1>10 DEF PlainInv
  <1> QED
    BY <1>8, <1>9, <1>11 DEF PageInv

LEMMA ApplyStartKeeps ==
    ASSUME PageInv, ApplyStart
    PROVE  PageInv'
  <1>1. /\ op # None /\ op.phase = "answered" /\ op.kind = "start" /\ op' = None
        /\ view' = [view EXCEPT !.run = op.run] /\ saved' = [saved EXCEPT !.run = op.run]
        /\ UNCHANGED <<serverVars, ghost, restore, dialog, raced>>
    BY DEF ApplyStart
  <1>2. op.conv \in Convs /\ op.run \in Runs /\ op.conv # None
    BY <1>1, PageFacts DEF PageInv, OpInv, Posted
  <1>3. view' \in Views /\ view'.conv = view.conv /\ view'.run = op.run /\ view'.lost = view.lost
    BY <1>1, <1>2 DEF PageInv, PageTypes, Views
  <1>4. saved' \in Selections /\ saved'.conv = saved.conv /\ saved'.run = op.run
    BY <1>1, <1>2 DEF PageInv, PageTypes, Selections
  <1>5. ServerTypes' /\ PageTypes' /\ OpInv'
    BY <1>1, <1>3, <1>4 DEF PageInv, ServerTypes, PageTypes, OpInv, Posted, serverVars
  <1>6. DiskInv'
    BY <1>1, <1>4 DEF PageInv, DiskInv, serverVars
  <1>7. ASSUME ~raced
        PROVE  op.conv = view.conv /\ saved.conv = view.conv /\ Of(saved.run, saved.conv)'
    <2>1. op.conv = view.conv /\ Of(op.run, op.conv) /\ saved.conv = view.conv
      BY <1>1, <1>2, <1>7 DEF PageInv, PlainInv
    <2> QED
      BY <1>1, <1>4, <2>1 DEF Of, serverVars
  <1>8. PlainInv'
    BY <1>1, <1>2, <1>3, <1>4, <1>7 DEF PageInv, PlainInv
  <1> QED
    BY <1>5, <1>6, <1>8 DEF PageInv

LEMMA ReadSavedKeeps ==
    ASSUME PageInv, ReadSaved
    PROVE  PageInv'
  <1> DEFINE c == restore.conv
  <1>1. restore # None /\ restore.phase = "sent" /\ UNCHANGED <<view, saved, op, ghost, dialog, raced>>
    BY DEF ReadSaved
  <1>2. restore \in Restores /\ c \in Convs \cup {Forgotten} /\ (c \in Convs => disk[c] # None)
    BY <1>1, PageFacts DEF PageInv, DiskInv
  <1>3. c \in Convs => get(c) \in Conversations /\ get(c) # None
    BY <1>2 DEF PageInv, ServerTypes, get
  <1>4. /\ Grows /\ ServerTypes'
        /\ restore' \in Restores /\ restore'.conv = c /\ restore'.moved = restore.moved
        /\ restore'.phase = "unknown" => c \notin Convs
        /\ restore'.phase = "answered" => c \in Convs
    <2>1. CASE c \in Convs
      <3>1. /\ mem' = [mem EXCEPT ![c] = get(c)] /\ UNCHANGED <<disk, runOf>>
            /\ restore' = [restore EXCEPT !.phase = "answered", !.turns = get(c).turns]
        BY <1>3, <2>1 DEF ReadSaved, read
      <3>2. get(c).turns \in Seq(Msgs)
        BY <1>3, <2>1 DEF Conversations
      <3>3. Grows /\ ServerTypes'
        BY <1>3, <2>1, <3>1 DEF PageInv, ServerTypes, Grows
      <3>4. /\ restore' \in Restores /\ restore'.conv = c /\ restore'.moved = restore.moved
            /\ restore'.phase = "answered"
        BY <1>2, <3>1, <3>2 DEF Restores
      <3> QED
        BY <2>1, <3>3, <3>4
    <2>2. CASE c \notin Convs
      <3>1. restore' = [restore EXCEPT !.phase = "unknown"] /\ UNCHANGED serverVars
        BY <2>2 DEF ReadSaved
      <3>2. Grows /\ ServerTypes'
        BY <3>1 DEF PageInv, ServerTypes, Grows, serverVars
      <3>3. /\ restore' \in Restores /\ restore'.conv = c /\ restore'.moved = restore.moved
            /\ restore'.phase = "unknown"
        BY <1>2, <3>1 DEF Restores
      <3> QED
        BY <2>2, <3>2, <3>3
    <2> QED
      BY <2>1, <2>2
  <1>5. restore' # None
    BY <1>4, ChatViewAssumption
  <1>6. PageTypes' /\ OpInv'
    BY <1>1, <1>4 DEF PageInv, PageTypes, OpInv, Posted, Grows
  <1>7. DiskInv'
    BY <1>1, <1>2, <1>4 DEF PageInv, DiskInv, Grows
  <1>8. ASSUME NEW r \in Runs \cup {None}, NEW d, Of(r, d) PROVE Of(r, d)'
    BY <1>4, <1>8, IntentAssumption DEF Of, Grows
  <1>9. PlainInv'
    BY <1>1, <1>4, <1>5, <1>8, PageFacts DEF PageInv, PlainInv
  <1> QED
    BY <1>4, <1>6, <1>7, <1>9 DEF PageInv

LEMMA RestoredKeeps ==
    ASSUME PageInv, Restored
    PROVE  PageInv'
  <1>1. /\ restore # None /\ restore.phase = "answered" /\ restore' = None
        /\ view' = [view EXCEPT !.conv = restore.conv, !.turns = restore.turns, !.run = saved.run]
        /\ raced' = (raced \/ restore.moved \/ (op # None /\ op.kind = "send"))
        /\ UNCHANGED <<serverVars, saved, op, ghost, dialog>>
    BY DEF Restored, Overtaken
  <1>2. restore.conv \in Convs /\ restore.conv # None
    BY <1>1, PageFacts DEF PageInv, DiskInv
  <1>3. view' \in Views /\ view'.conv = restore.conv /\ view'.run = saved.run
    BY <1>1, <1>2, PageFacts DEF PageInv, PageTypes, Views
  <1>4. raced' \in BOOLEAN
    BY <1>1, PageFacts DEF PageInv, PageTypes
  <1>5. ServerTypes' /\ PageTypes' /\ OpInv' /\ DiskInv'
    BY <1>1, <1>3, <1>4
       DEF PageInv, ServerTypes, PageTypes, OpInv, Posted, DiskInv, serverVars
  <1>6. ASSUME ~raced'
        PROVE  /\ ~raced /\ restore.conv = saved.conv /\ Of(saved.run, saved.conv)
               /\ op # None => op.kind = "start" /\ (op.phase \in {"sent", "answered"} => op.conv = saved.conv)
    <2>1. ~raced /\ ~restore.moved /\ (op # None => op.kind = "start" /\ op.conv \in Convs)
      BY <1>1, <1>6, PageFacts DEF PageInv, OpInv, Posted
    <2>2. restore.conv = saved.conv /\ Of(saved.run, saved.conv)
      BY <1>1, <2>1 DEF PageInv, PlainInv
    <2>3. op # None /\ op.phase \in {"sent", "answered"} => op.conv = view.conv
      BY <2>1 DEF PageInv, PlainInv
    <2>4. op # None /\ op.phase \in {"sent", "answered"} => op.conv = saved.conv
      BY <2>1, <2>3, PageFacts DEF PageInv, PlainInv
    <2> QED
      BY <2>1, <2>2, <2>4
  <1>7. PlainInv'
    BY <1>1, <1>2, <1>3, <1>6 DEF PageInv, PlainInv, Of, serverVars
  <1> QED
    BY <1>5, <1>7 DEF PageInv

LEMMA RestoreUnknownKeeps ==
    ASSUME PageInv, RestoreUnknown
    PROVE  PageInv'
  <1>1. /\ restore # None /\ restore.phase = "unknown" /\ restore' = None
        /\ saved' = [conv |-> None, run |-> None]
        /\ raced' = (raced \/ restore.moved \/ (op # None /\ op.kind = "send"))
        /\ UNCHANGED <<serverVars, view, op, ghost, dialog>>
    BY DEF RestoreUnknown, Overtaken
  <1>2. saved' \in Selections /\ saved'.conv = None /\ saved'.run = None
    BY <1>1 DEF Selections
  <1>3. raced' \in BOOLEAN
    BY <1>1, PageFacts DEF PageInv, PageTypes
  <1>4. ServerTypes' /\ PageTypes' /\ OpInv'
    BY <1>1, <1>2, <1>3 DEF PageInv, ServerTypes, PageTypes, OpInv, Posted, serverVars
  <1>5. DiskInv'
    BY <1>1, <1>2, PageFacts DEF DiskInv
  <1>6. restore.conv \notin Convs
    BY <1>1 DEF PageInv, DiskInv
  <1>7. ~raced' => ~raced /\ view.conv = None
    BY <1>1, <1>6, PageFacts DEF PageInv, PlainInv
  <1>8. PlainInv'
    BY <1>1, <1>2, <1>7 DEF PageInv, PlainInv, Of, serverVars
  <1> QED
    BY <1>4, <1>5, <1>8 DEF PageInv

LEMMA RestoreFailsKeeps ==
    ASSUME PageInv, RestoreFails
    PROVE  PageInv'
  <1>1. /\ restore' = None /\ view' = [view EXCEPT !.error = TRUE, !.lost = TRUE]
        /\ UNCHANGED <<serverVars, saved, op, ghost, dialog, raced>>
    BY DEF RestoreFails
  <1>2. view' \in Views /\ view'.conv = view.conv /\ view'.run = view.run /\ view'.lost = TRUE
    BY <1>1 DEF PageInv, PageTypes, Views
  <1> QED
    BY <1>1, <1>2 DEF PageInv, ServerTypes, PageTypes, OpInv, Posted, DiskInv, PlainInv, Of, serverVars

LEMMA ChatInitial == ChatInit => PageInv
  <1> SUFFICES ASSUME ChatInit PROVE PageInv
    OBVIOUS
  <1>1. /\ mem = [c \in Convs |-> None] /\ disk = [c \in Convs |-> None] /\ runOf = [r \in Runs |-> None]
        /\ view = NoView /\ op = None /\ ghost = None /\ dialog = FALSE /\ raced = FALSE
        /\ restore = RestoreOf(saved)
    BY DEF ChatInit, ServerInit
  <1>2. saved \in Selections /\ saved.conv \in {None, Forgotten} /\ saved.run = None
    BY DEF ChatInit, Selections
  <1>3. /\ restore \in Restores \cup {None}
        /\ restore # None => restore.conv = saved.conv /\ restore.phase = "sent"
    BY <1>1, <1>2, RestoreOfFacts
  <1>4. ServerTypes
    BY <1>1 DEF ServerTypes
  <1>5. PageTypes
    BY <1>1, <1>2, <1>3, NoViewFacts DEF PageTypes
  <1>6. OpInv /\ PlainInv
    BY <1>1, <1>2, <1>3, NoViewFacts DEF OpInv, Posted, PlainInv, Of
  <1>7. DiskInv
    BY <1>2, <1>3, IntentAssumption, ChatViewAssumption DEF DiskInv
  <1> QED
    BY <1>4, <1>5, <1>6, <1>7 DEF PageInv

LEMMA ChatStep ==
    ASSUME PageInv, [ChatNext]_chatVars
    PROVE  PageInv'
  <1>1. CASE UNCHANGED chatVars
    BY <1>1 DEF chatVars, serverVars, viewVars, PageInv, ServerTypes, PageTypes, OpInv, Posted,
                DiskInv, PlainInv, Of
  <1>2. CASE ChatNext
    BY <1>2, TypeKeeps, PerformKeeps, ResetKeeps, VisitKeeps, HandleKeeps, HandleGhostKeeps,
       FailKeeps, RestartGrows, ApplyFailureKeeps, ApplySendKeeps, ApplyStartKeeps,
       ReadSavedKeeps, RestoredKeeps, RestoreUnknownKeeps, RestoreFailsKeeps DEF ChatNext
  <1> QED
    BY <1>1, <1>2

\* The chat, the run and the saved selection belong together, unless an answer raced
\* with the user (the setters of send, startRun, resetSelection and the initial effect
\* in workspace.tsx).
THEOREM ChatKeptTogether == ChatViewSpec => []ChatShown
  <1>1. ChatInit => PageInv
    BY ChatInitial
  <1>2. PageInv /\ [ChatNext]_chatVars => PageInv'
    BY ChatStep
  <1>3. PageInv => ChatShown
    <2> SUFFICES ASSUME PageInv PROVE ChatShown
      OBVIOUS
    <2>1. ShownRunIsOfChat
      BY PageFacts DEF PageInv, PlainInv, Of, ShownRunIsOfChat
    <2>2. SavedIsShown
      <3> SUFFICES ASSUME ~raced, view.conv # None
                   PROVE  saved = [conv |-> view.conv, run |-> view.run]
        BY DEF SavedIsShown
      <3>1. saved.conv = view.conv /\ saved.run = view.run /\ saved \in Selections
        BY DEF PageInv, PlainInv, PageTypes
      <3> QED
        BY <3>1 DEF Selections
    <2> QED
      BY <2>1, <2>2 DEF ChatShown
  <1> QED
    BY <1>1, <1>2, <1>3, PTL DEF ChatViewSpec

-----------------------------------------------------------------------------
(***************************************************************************)
(* What the user wrote is kept: the turns of the conversations, in memory  *)
(* and on disk, against the messages that were submitted.                  *)
(***************************************************************************)

\* What the first turns of a conversation were, they stay.
Prefixed(s, t) == Len(s) <= Len(t) /\ \A i \in 1..Len(s) : s[i] = t[i]

\* A snapshot has the intent of its turns, and the file is a beginning of what memory has.
StoreOK(a, b) ==
    /\ a # None => IntentOf(a)
    /\ b # None => IntentOf(b)
    /\ a # None /\ b # None => Prefixed(b.turns, a.turns)
StoreInv == \A c \in Convs : StoreOK(mem[c], disk[c])

\* What is shown, and what a run is started from, is on disk; so is a turn that was answered.
AckInv ==
    /\ view.conv # None => disk[view.conv] # None
    /\ op # None /\ op.kind = "start" => disk[op.conv] # None
    /\ op # None /\ op.kind = "send" /\ op.phase = "answered" =>
          op.msg \in Range(disk[op.conv].turns)
    /\ ghost # None => ghost.phase = "sent"

\* The places of the message m: in the turns h of the conversations, and in the requests o of
\* the page and g of a page that is gone.
TurnPlaces(h, m) == UNION {{<<c, i>> : i \in {j \in DOMAIN h[c] : h[c][j] = m}} : c \in Convs}
Waiting(o, g, m) ==
    {x \in {<<"page", 0>>, <<"gone", 0>>} : Carries(IF x[1] = "page" THEN o ELSE g, m)}
Places(h, o, g, m) == TurnPlaces(h, m) \cup Waiting(o, g, m)
Within(S, n) == IsFiniteSet(S) /\ Cardinality(S) <= n

HeldNow == [c \in Convs |-> Held(c)]
ClickInv ==
    /\ clicks \in [Msgs -> Nat]
    /\ \A m \in Msgs : Within(Places(HeldNow, op, ghost, m), clicks[m])

TurnInv == StoreInv /\ AckInv /\ ClickInv

-----------------------------------------------------------------------------
(* Sets that shrink, grow or have an element exchanged. *)

LEMMA WithinSubset ==
    ASSUME NEW S, NEW n \in Nat, Within(S, n), NEW T, T \subseteq S
    PROVE  Within(T, n)
  <1>1. IsFiniteSet(T) /\ Cardinality(T) <= Cardinality(S)
    BY FS_Subset DEF Within
  <1>2. Cardinality(T) \in Nat /\ Cardinality(S) \in Nat
    BY <1>1, FS_CardinalityType DEF Within
  <1> QED
    BY <1>1, <1>2 DEF Within

LEMMA WithinAdd ==
    ASSUME NEW S, NEW n \in Nat, Within(S, n), NEW x
    PROVE  Within(S \cup {x}, n + 1)
  <1>1. /\ IsFiniteSet(S \cup {x})
        /\ Cardinality(S \cup {x}) = IF x \in S THEN Cardinality(S) ELSE Cardinality(S) + 1
    BY FS_AddElement DEF Within
  <1>2. Cardinality(S) \in Nat
    BY FS_CardinalityType DEF Within
  <1> QED
    BY <1>1, <1>2 DEF Within

LEMMA WithinSwap ==
    ASSUME NEW S, NEW n \in Nat, Within(S, n), NEW x \in S, NEW y, NEW T, T \subseteq (S \ {x}) \cup {y}
    PROVE  Within(T, n)
  <1>1. IsFiniteSet(S \ {x}) /\ Cardinality(S \ {x}) = Cardinality(S) - 1
    BY FS_RemoveElement DEF Within
  <1>2. Cardinality(S) \in Nat /\ Cardinality(S \ {x}) \in Nat
    BY <1>1, FS_CardinalityType DEF Within
  <1>3. n - 1 \in Nat /\ Within(S \ {x}, n - 1)
    BY <1>1, <1>2 DEF Within
  <1>4. Within((S \ {x}) \cup {y}, (n - 1) + 1)
    BY <1>3, WithinAdd
  <1>5. (n - 1) + 1 = n
    OBVIOUS
  <1> QED
    BY <1>4, <1>5, WithinSubset

-----------------------------------------------------------------------------
(* The places of a message under one more turn, and under one request less. *)

LEMMA TurnPlacesMember ==
    ASSUME NEW h, NEW m, NEW p
    PROVE  p \in TurnPlaces(h, m) <=> \E c \in Convs : \E i \in DOMAIN h[c] : h[c][i] = m /\ p = <<c, i>>
  BY DEF TurnPlaces

Lengthened(h, c, x) == [h EXCEPT ![c] = Append(h[c], x)]
FewerPlaces(k, h, x, p) ==
    /\ TurnPlaces(k, x) \subseteq TurnPlaces(h, x) \cup {p}
    /\ \A m \in Msgs \ {x} : TurnPlaces(k, m) \subseteq TurnPlaces(h, m)

LEMMA OneMorePlace ==
    ASSUME NEW h \in [Convs -> Seq(Msgs)], NEW c \in Convs, NEW x \in Msgs
    PROVE  FewerPlaces(Lengthened(h, c, x), h, x, <<c, Len(h[c]) + 1>>)
  <1> DEFINE k == Lengthened(h, c, x)
  <1>0. k = [h EXCEPT ![c] = Append(h[c], x)]
    BY DEF Lengthened
  <1> SUFFICES FewerPlaces(k, h, x, <<c, Len(h[c]) + 1>>)
    OBVIOUS
  <1> HIDE DEF k
  <1> DEFINE t == Append(h[c], x)
  <1>1. /\ h[c] \in Seq(Msgs) /\ DOMAIN t = 1..(Len(h[c]) + 1) /\ DOMAIN h[c] = 1..Len(h[c])
        /\ t[Len(h[c]) + 1] = x /\ Len(h[c]) \in Nat
        /\ \A i \in 1..Len(h[c]) : t[i] = h[c][i]
    OBVIOUS
  <1> HIDE DEF t
  <1>2. k[c] = t /\ \A d \in Convs \ {c} : k[d] = h[d]
    BY <1>0 DEF t
  <1>3. ASSUME NEW m \in Msgs, NEW p \in TurnPlaces(k, m)
        PROVE  p \in TurnPlaces(h, m) \/ (m = x /\ p = <<c, Len(h[c]) + 1>>)
    <2>0. p \in TurnPlaces(k, m)
      OBVIOUS
    <2>1. PICK d \in Convs : \E i \in DOMAIN k[d] : k[d][i] = m /\ p = <<d, i>>
      BY ONLY <2>0, TurnPlacesMember
    <2>2. PICK i \in DOMAIN k[d] : k[d][i] = m /\ p = <<d, i>>
      BY <2>1
    <2>3. CASE d # c
      BY <1>2, <2>2, <2>3, TurnPlacesMember
    <2>4. CASE d = c
      <3>1. i \in 1..(Len(h[c]) + 1) /\ t[i] = m /\ p = <<c, i>>
        BY <1>1, <1>2, <2>2, <2>4
      <3>2. CASE i = Len(h[c]) + 1
        BY <3>1, <3>2, <1>1
      <3>3. CASE i # Len(h[c]) + 1
        <4>1. i \in 1..Len(h[c])
          BY <1>1, <3>1, <3>3
        <4>2. i \in DOMAIN h[c] /\ h[c][i] = m
          BY <4>1, <1>1, <3>1
        <4> QED
          BY <4>2, <3>1, TurnPlacesMember
      <3> QED
        BY <3>2, <3>3
    <2> QED
      BY <2>3, <2>4
  <1> QED
    BY <1>3 DEF FewerPlaces

LEMMA FewerTurns ==
    ASSUME NEW h \in [Convs -> Seq(Msgs)], NEW k \in [Convs -> Seq(Msgs)],
           \A c \in Convs : Prefixed(k[c], h[c]), NEW m
    PROVE  TurnPlaces(k, m) \subseteq TurnPlaces(h, m)
  <1> SUFFICES ASSUME NEW p \in TurnPlaces(k, m) PROVE p \in TurnPlaces(h, m)
    OBVIOUS
  <1>1. PICK c \in Convs : \E i \in DOMAIN k[c] : k[c][i] = m /\ p = <<c, i>>
    BY TurnPlacesMember
  <1>2. PICK i \in DOMAIN k[c] : k[c][i] = m /\ p = <<c, i>>
    BY <1>1
  <1>3. k[c] \in Seq(Msgs) /\ h[c] \in Seq(Msgs) /\ Len(k[c]) <= Len(h[c])
    BY DEF Prefixed
  <1>4. i \in 1..Len(k[c]) /\ i \in DOMAIN h[c]
    BY <1>2, <1>3
  <1>5. h[c][i] = m
    BY <1>2, <1>4 DEF Prefixed
  <1> QED
    BY <1>2, <1>4, <1>5, TurnPlacesMember

\* A handled request: its message has one turn more and one request less.
LEMMA PlacesHandled ==
    ASSUME NEW h \in [Convs -> Seq(Msgs)], NEW c \in Convs, NEW x \in Msgs,
           NEW o, NEW g, NEW p, NEW q, NEW at \in {"page", "gone"},
           Carries(IF at = "page" THEN o ELSE g, x),
           \A m \in Msgs : Waiting(p, q, m) \subseteq Waiting(o, g, m) \ {<<at, 0>>},
           NEW n \in [Msgs -> Nat], \A m \in Msgs : Within(Places(h, o, g, m), n[m])
    PROVE  \A m \in Msgs : Within(Places(Lengthened(h, c, x), p, q, m), n[m])
  <1> DEFINE k == Lengthened(h, c, x)
  <1>0. FewerPlaces(k, h, x, <<c, Len(h[c]) + 1>>)
    BY OneMorePlace
  <1> HIDE DEF k
  <1> SUFFICES ASSUME NEW m \in Msgs PROVE Within(Places(k, p, q, m), n[m])
    BY DEF k
  <1>1. n[m] \in Nat /\ Within(Places(h, o, g, m), n[m])
    OBVIOUS
  <1>2. /\ TurnPlaces(k, x) \subseteq TurnPlaces(h, x) \cup {<<c, Len(h[c]) + 1>>}
        /\ m # x => TurnPlaces(k, m) \subseteq TurnPlaces(h, m)
    BY <1>0 DEF FewerPlaces
  <1>3. CASE m # x
    <2>1. Places(k, p, q, m) \subseteq Places(h, o, g, m)
      BY <1>2, <1>3 DEF Places
    <2> QED
      BY <1>1, <2>1, WithinSubset
  <1>4. CASE m = x
    <2>1. <<at, 0>> \in Waiting(o, g, m)
      BY <1>4 DEF Waiting
    <2>2. <<at, 0>> \notin TurnPlaces(h, m)
      <3> SUFFICES ASSUME <<at, 0>> \in TurnPlaces(h, m) PROVE FALSE
        OBVIOUS
      <3>1. PICK d \in Convs : \E i \in DOMAIN h[d] : <<at, 0>> = <<d, i>>
        BY TurnPlacesMember
      <3>2. 0 \in DOMAIN h[d] /\ h[d] \in Seq(Msgs)
        BY <3>1
      <3> QED
        BY <3>2
    <2>3. Places(k, p, q, m) \subseteq (Places(h, o, g, m) \ {<<at, 0>>}) \cup {<<c, Len(h[c]) + 1>>}
      BY <1>2, <1>4, <2>2 DEF Places
    <2>4. <<at, 0>> \in Places(h, o, g, m)
      BY <2>1 DEF Places
    <2> QED
      BY <1>1, <2>3, <2>4, WithinSwap
  <1> QED
    BY <1>3, <1>4

-----------------------------------------------------------------------------
(* The intent of a conversation with one turn more. *)

LEMMA TurnedIntent ==
    ASSUME NEW conv \in Conversations, IntentOf(conv), NEW m \in Msgs
    PROVE  IntentOf(Turned(conv, m)) /\ Turned(conv, m).turns = Append(conv.turns, m)
  <1> DEFINE s == conv.turns
             t == Append(s, m)
             a == conv.intent
             b == merge(a, m)
  <1>1. /\ s \in Seq(Msgs) /\ Len(s) \in Nat /\ DOMAIN s = 1..Len(s) /\ t \in Seq(Msgs)
        /\ DOMAIN t = 1..(Len(s) + 1) /\ Len(t) = Len(s) + 1 /\ t[Len(s) + 1] = m
        /\ \A i \in 1..Len(s) : t[i] = s[i]
    BY DEF Conversations
  <1>2. /\ Turned(conv, m).turns = t /\ Turned(conv, m).intent = b
    BY DEF Turned
  <1>3. /\ b.revision = a.revision + 1 /\ b.context = a.context \cup {m}
        /\ b.goal = IF a.goal # None THEN a.goal ELSE IF m \in Vague THEN None ELSE m
    BY DEF merge, Derived
  <1>4. /\ a.revision = Len(s) /\ a.context = {s[i] : i \in 1..Len(s)}
        /\ \/ a.goal = None /\ \A i \in 1..Len(s) : s[i] \in Vague
           \/ \E i \in 1..Len(s) : /\ a.goal = s[i] /\ s[i] \notin Vague
                                   /\ \A j \in 1..(i - 1) : s[j] \in Vague
    BY <1>1 DEF IntentOf, Range
  <1> HIDE DEF s, t, a, b
  <1>5. b.revision = Len(t)
    BY <1>1, <1>3, <1>4
  <1>6. b.context = {t[i] : i \in 1..(Len(s) + 1)}
    <2>1. ASSUME NEW x \in b.context PROVE \E i \in 1..(Len(s) + 1) : x = t[i]
      <3>1. CASE x = m
        BY <3>1, <1>1
      <3>2. CASE x # m
        <4>1. PICK i \in 1..Len(s) : x = s[i]
          BY <2>1, <3>2, <1>3, <1>4
        <4>2. i \in 1..(Len(s) + 1) /\ t[i] = s[i]
          BY <1>1
        <4> QED
          BY <4>1, <4>2
      <3> QED
        BY <3>1, <3>2
    <2>2. ASSUME NEW i \in 1..(Len(s) + 1) PROVE t[i] \in b.context
      <3>1. CASE i = Len(s) + 1
        BY <3>1, <1>1, <1>3
      <3>2. CASE i # Len(s) + 1
        <4>1. i \in 1..Len(s)
          BY <3>2, <1>1
        <4> QED
          BY <4>1, <1>1, <1>3, <1>4
      <3> QED
        BY <3>1, <3>2
    <2> QED
      BY <2>1, <2>2
  <1>7. \/ b.goal = None /\ \A i \in 1..(Len(s) + 1) : t[i] \in Vague
        \/ \E i \in 1..(Len(s) + 1) : /\ b.goal = t[i] /\ t[i] \notin Vague
                                      /\ \A j \in 1..(i - 1) : t[j] \in Vague
    <2>1. CASE a.goal = None /\ \A i \in 1..Len(s) : s[i] \in Vague
      <3>1. \A i \in 1..Len(s) : t[i] \in Vague
        BY <1>1, <2>1
      <3>2. CASE m \in Vague
        <4>1. ASSUME NEW i \in 1..(Len(s) + 1) PROVE t[i] \in Vague
          <5>1. i = Len(s) + 1 \/ i \in 1..Len(s)
            BY <1>1
          <5> QED
            BY <5>1, <3>1, <3>2, <1>1
        <4> QED
          BY <4>1, <1>3, <2>1, <3>2
      <3>3. CASE m \notin Vague
        <4>1. b.goal = m /\ (Len(s) + 1) - 1 = Len(s) /\ Len(s) + 1 \in 1..(Len(s) + 1)
          BY <1>1, <1>3, <2>1, <3>3
        <4> QED
          BY <4>1, <3>1, <3>3, <1>1
      <3> QED
        BY <3>2, <3>3
    <2>2. ASSUME NEW i \in 1..Len(s), a.goal = s[i], s[i] \notin Vague,
                 \A j \in 1..(i - 1) : s[j] \in Vague
          PROVE  \E k \in 1..(Len(s) + 1) : /\ b.goal = t[k] /\ t[k] \notin Vague
                                            /\ \A j \in 1..(k - 1) : t[j] \in Vague
      <3>1. s[i] \in Msgs /\ s[i] # None
        BY <1>1, IntentAssumption
      <3>2. b.goal = t[i] /\ t[i] \notin Vague
        BY <1>1, <1>3, <2>2, <3>1
      <3>3. ASSUME NEW j \in 1..(i - 1) PROVE t[j] \in Vague
        <4>1. j \in 1..Len(s)
          BY <1>1
        <4> QED
          BY <4>1, <1>1, <2>2
      <3>4. i \in 1..(Len(s) + 1)
        BY <1>1
      <3> QED
        BY <3>2, <3>3, <3>4
    <2> QED
      BY <1>4, <2>1, <2>2
  <1>8. IntentOf(Turned(conv, m))
    <2> DEFINE z == Turned(conv, m)
    <2>1. z.turns = t /\ z.intent = b
      BY <1>2
    <2> HIDE DEF z
    <2>2. Range(t) = {t[i] : i \in 1..(Len(s) + 1)}
      BY <1>1 DEF Range
    <2>3. IntentOf(z)
      BY <2>1, <2>2, <1>1, <1>5, <1>6, <1>7 DEF IntentOf
    <2> QED
      BY <2>3 DEF z
  <1> QED
    BY <1>2, <1>8 DEF t, s

LEMMA NewIntent ==
    /\ [turns |-> <<>>, intent |-> NoIntent] \in Conversations
    /\ IntentOf([turns |-> <<>>, intent |-> NoIntent])
    /\ [turns |-> <<>>, intent |-> NoIntent].turns = <<>>
  <1>1. [turns |-> <<>>, intent |-> NoIntent] \in Conversations
    BY DEF Conversations, NoIntent
  <1>2. IntentOf([turns |-> <<>>, intent |-> NoIntent])
    BY DEF IntentOf, NoIntent, Range
  <1> QED
    BY <1>1, <1>2

LEMMA PrefixFacts ==
    ASSUME NEW s \in Seq(Msgs), NEW t \in Seq(Msgs), NEW m \in Msgs
    PROVE  /\ Prefixed(s, s) /\ Prefixed(<<>>, t)
           /\ Prefixed(s, t) => Prefixed(s, Append(t, m)) /\ Range(s) \subseteq Range(t)
           /\ m \in Range(Append(t, m))
  <1>1. /\ Len(s) \in Nat /\ Len(t) \in Nat /\ DOMAIN s = 1..Len(s) /\ DOMAIN t = 1..Len(t)
        /\ Len(Append(t, m)) = Len(t) + 1 /\ DOMAIN Append(t, m) = 1..(Len(t) + 1)
        /\ Append(t, m)[Len(t) + 1] = m /\ \A i \in 1..Len(t) : Append(t, m)[i] = t[i]
    OBVIOUS
  <1>2. Prefixed(s, s) /\ Prefixed(<<>>, t)
    BY <1>1 DEF Prefixed
  <1>3. ASSUME Prefixed(s, t) PROVE Prefixed(s, Append(t, m)) /\ Range(s) \subseteq Range(t)
    <2>1. Len(s) <= Len(t) /\ \A i \in 1..Len(s) : i \in 1..Len(t) /\ s[i] = t[i]
      BY <1>1, <1>3 DEF Prefixed
    <2>2. Prefixed(s, Append(t, m))
      BY <1>1, <2>1 DEF Prefixed
    <2>3. Range(s) \subseteq Range(t)
      BY <1>1, <2>1 DEF Range
    <2> QED
      BY <2>2, <2>3
  <1>4. m \in Range(Append(t, m))
    BY <1>1 DEF Range
  <1> QED
    BY <1>2, <1>3, <1>4

-----------------------------------------------------------------------------
(* What the server's steps do to the turns. *)

DiskKeeps ==
    \A d \in Convs : disk[d] # None =>
        disk'[d] # None /\ Range(disk[d].turns) \subseteq Range(disk'[d].turns)

LEMMA HeldFacts ==
    ASSUME ServerTypes, StoreInv
    PROVE  /\ HeldNow \in [Convs -> Seq(Msgs)]
           /\ \A c \in Convs : /\ HeldNow[c] = Held(c) /\ Held(c) \in Seq(Msgs)
                               /\ get(c) \in Conversations \cup {None}
                               /\ get(c) # None => IntentOf(get(c)) /\ Held(c) = get(c).turns
                               /\ disk[c] # None => /\ disk[c].turns \in Seq(Msgs)
                                                    /\ Prefixed(disk[c].turns, Held(c))
  <1>1. ASSUME NEW c \in Convs
        PROVE  /\ Held(c) \in Seq(Msgs) /\ get(c) \in Conversations \cup {None}
               /\ get(c) # None => IntentOf(get(c)) /\ Held(c) = get(c).turns
               /\ disk[c] # None => disk[c].turns \in Seq(Msgs) /\ Prefixed(disk[c].turns, Held(c))
    <2>1. mem[c] \in Conversations \cup {None} /\ disk[c] \in Conversations \cup {None}
      BY DEF ServerTypes
    <2>2. \A x \in Conversations : x.turns \in Seq(Msgs)
      BY DEF Conversations
    <2>3. StoreOK(mem[c], disk[c])
      BY DEF StoreInv
    <2>4. get(c) = IF mem[c] # None THEN mem[c] ELSE disk[c]
      BY DEF get
    <2>5. get(c) \in Conversations \cup {None} /\ (get(c) # None => IntentOf(get(c)))
      BY <2>1, <2>3, <2>4 DEF StoreOK
    <2>6. Held(c) = IF get(c) = None THEN <<>> ELSE get(c).turns
      BY DEF Held
    <2>7. Held(c) \in Seq(Msgs)
      BY <2>2, <2>5, <2>6
    <2>8. ASSUME disk[c] # None
          PROVE  disk[c].turns \in Seq(Msgs) /\ Prefixed(disk[c].turns, Held(c))
      <3>1. disk[c].turns \in Seq(Msgs)
        BY <2>1, <2>2, <2>8
      <3>2. Prefixed(disk[c].turns, disk[c].turns)
        BY <3>1 DEF Prefixed
      <3> QED
        BY <2>3, <2>4, <2>6, <2>8, <3>1, <3>2 DEF StoreOK
    <2> QED
      BY <2>5, <2>6, <2>7, <2>8
  <1>2. HeldNow = [c \in Convs |-> Held(c)]
    BY DEF HeldNow
  <1> QED
    BY <1>1, <1>2

LEMMA SaveTurns ==
    ASSUME ServerTypes, StoreInv, NEW c \in Convs, NEW x \in Msgs, NEW written \in BOOLEAN,
           NEW conv \in Conversations, IntentOf(conv), conv.turns = Held(c),
           save(c, Turned(conv, x), written)
    PROVE  /\ StoreInv' /\ DiskKeeps /\ HeldNow' = Lengthened(HeldNow, c, x)
           /\ written => x \in Range(disk'[c].turns)
  <1> DEFINE new == Turned(conv, x)
  <1>1. /\ mem' = [mem EXCEPT ![c] = new]
        /\ disk' = [disk EXCEPT ![c] = new] \/ (~written /\ disk' = disk)
    BY DEF save
  <1>2. new \in Conversations /\ IntentOf(new) /\ new.turns = Append(Held(c), x)
    BY TurnedFacts, TurnedIntent
  <1> HIDE DEF new
  <1>3. new # None
    BY <1>2, IntentAssumption
  <1>4. /\ mem'[c] = new /\ \A d \in Convs \ {c} : mem'[d] = mem[d] /\ disk'[d] = disk[d]
        /\ disk'[c] = new \/ (~written /\ disk'[c] = disk[c])
    BY <1>1 DEF ServerTypes
  <1>5. /\ Held(c) \in Seq(Msgs) /\ Append(Held(c), x) \in Seq(Msgs)
        /\ disk[c] # None => disk[c].turns \in Seq(Msgs) /\ Prefixed(disk[c].turns, Held(c))
    BY HeldFacts
  <1>6. /\ Prefixed(Append(Held(c), x), Append(Held(c), x))
        /\ disk[c] # None => /\ Prefixed(disk[c].turns, Append(Held(c), x))
                             /\ Range(disk[c].turns) \subseteq Range(Append(Held(c), x))
        /\ x \in Range(Append(Held(c), x))
    <2>1. Prefixed(Append(Held(c), x), Append(Held(c), x)) /\ x \in Range(Append(Held(c), x))
      BY <1>5, PrefixFacts
    <2>2. ASSUME disk[c] # None
          PROVE  /\ Prefixed(disk[c].turns, Append(Held(c), x))
                 /\ Range(disk[c].turns) \subseteq Range(Append(Held(c), x))
      <3>1. disk[c].turns \in Seq(Msgs) /\ Prefixed(disk[c].turns, Held(c))
        BY <1>5, <2>2
      <3>2. Prefixed(disk[c].turns, Append(Held(c), x))
        BY <1>5, <3>1, PrefixFacts
      <3>3. Range(disk[c].turns) \subseteq Range(Append(Held(c), x))
        BY <1>5, <3>1, <3>2, PrefixFacts
      <3> QED
        BY <3>2, <3>3
    <2> QED
      BY <2>1, <2>2
  <1>7. StoreInv'
    <2>1. StoreOK(mem'[c], disk'[c])
      BY <1>2, <1>3, <1>4, <1>6 DEF StoreInv, StoreOK
    <2>2. \A d \in Convs : StoreOK(mem'[d], disk'[d])
      BY <2>1, <1>4 DEF StoreInv
    <2> QED
      BY <2>2 DEF StoreInv
  <1>8. DiskKeeps
    BY <1>2, <1>3, <1>4, <1>6 DEF DiskKeeps
  <1>9. written => x \in Range(disk'[c].turns)
    BY <1>2, <1>4, <1>6
  <1>10. HeldNow' = Lengthened(HeldNow, c, x)
    <2>1. Held(c)' = Append(Held(c), x)
      BY <1>2, <1>3, <1>4 DEF Held, get
    <2>2. \A d \in Convs \ {c} : Held(d)' = Held(d)
      BY <1>4 DEF Held, get
    <2>3. HeldNow' = [d \in Convs |-> Held(d)'] /\ HeldNow = [d \in Convs |-> Held(d)]
      BY DEF HeldNow
    <2> QED
      BY <2>1, <2>2, <2>3 DEF Lengthened
  <1> QED
    BY <1>7, <1>8, <1>9, <1>10

\* A read, or a run made of a conversation, keeps in memory what get returned.
LEMMA ReadTurns ==
    ASSUME ServerTypes, StoreInv, NEW c \in Convs, mem' = [mem EXCEPT ![c] = get(c)], disk' = disk
    PROVE  StoreInv' /\ DiskKeeps /\ HeldNow' = HeldNow
  <1>1. /\ mem'[c] = get(c) /\ \A d \in Convs \ {c} : mem'[d] = mem[d]
    BY DEF ServerTypes
  <1>2. get(c)' = get(c) /\ \A d \in Convs \ {c} : get(d)' = get(d)
    BY <1>1 DEF get
  <1>3. HeldNow' = HeldNow
    BY <1>2 DEF HeldNow, Held
  <1>4. StoreOK(mem'[c], disk'[c])
    <2>1. /\ get(c) # None => IntentOf(get(c)) /\ Held(c) = get(c).turns
          /\ disk[c] # None => Prefixed(disk[c].turns, Held(c))
      BY HeldFacts
    <2> QED
      BY <2>1, <1>1 DEF StoreInv, StoreOK
  <1>5. StoreInv'
    BY <1>1, <1>4 DEF StoreInv
  <1> QED
    BY <1>3, <1>5 DEF DiskKeeps

LEMMA ServedTurns ==
    ASSUME ServerTypes, StoreInv, NEW o \in Operations, Posted(o), NEW c \in Convs,
           NEW r \in Runs \cup {None}, NEW written \in BOOLEAN, Served(o, c, r, written)
    PROVE  /\ StoreInv' /\ DiskKeeps
           /\ o.kind = "send" => /\ o.msg \in Msgs /\ HeldNow' = Lengthened(HeldNow, c, o.msg)
                                 /\ written => o.msg \in Range(disk'[c].turns)
           /\ o.kind = "start" => HeldNow' = HeldNow
  <1>1. /\ o # None /\ o.kind \in {"send", "start"} /\ (o.kind = "send" => o.msg \in Msgs)
    BY ChatViewAssumption DEF Posted, Operations
  <1>2. CASE o.kind = "send" /\ o.conv = None
    <2> DEFINE empty == [turns |-> <<>>, intent |-> NoIntent]
    <2>1. get(c) = None /\ save(c, Turned(empty, o.msg), written)
      BY <1>2 DEF Served, start
    <2>2. empty \in Conversations /\ IntentOf(empty) /\ empty.turns = <<>>
      BY NewIntent
    <2> HIDE DEF empty
    <2>3. empty.turns = Held(c)
      BY <2>1, <2>2 DEF Held
    <2> QED
      BY <1>1, <1>2, <2>1, <2>2, <2>3, SaveTurns
  <1>3. CASE o.kind = "send" /\ o.conv # None
    <2>1. get(c) # None /\ save(c, Turned(get(c), o.msg), written)
      BY <1>3 DEF Served, addTurn
    <2>2. get(c) \in Conversations /\ IntentOf(get(c)) /\ get(c).turns = Held(c)
      BY <2>1, HeldFacts
    <2> QED
      BY <1>1, <1>3, <2>1, <2>2, SaveTurns
  <1>4. CASE o.kind = "start"
    <2>1. mem' = [mem EXCEPT ![c] = get(c)] /\ disk' = disk
      BY <1>4 DEF Served, createRun
    <2> QED
      BY <1>1, <1>4, <2>1, ReadTurns
  <1> QED
    BY <1>1, <1>2, <1>3, <1>4

-----------------------------------------------------------------------------
(* The steps of the page and of the server. *)

LEMMA WaitingFacts ==
    ASSUME NEW o, NEW g, NEW p, NEW q, NEW m,
           Carries(p, m) => Carries(o, m), Carries(q, m) => Carries(g, m)
    PROVE  Waiting(p, q, m) \subseteq Waiting(o, g, m)
  BY DEF Waiting

\* No message has more turns or requests than before.
LEMMA ClicksKept ==
    ASSUME ClickInv, clicks' = clicks,
           \A m \in Msgs : TurnPlaces(HeldNow', m) \subseteq TurnPlaces(HeldNow, m),
           \A m \in Msgs : Carries(op', m) => Carries(op, m),
           \A m \in Msgs : Carries(ghost', m) => Carries(ghost, m)
    PROVE  ClickInv'
  <1>1. ASSUME NEW m \in Msgs PROVE Within(Places(HeldNow', op', ghost', m), clicks'[m])
    <2>1. Waiting(op', ghost', m) \subseteq Waiting(op, ghost, m)
      BY WaitingFacts
    <2>2. Places(HeldNow', op', ghost', m) \subseteq Places(HeldNow, op, ghost, m)
      BY <2>1 DEF Places
    <2>3. Within(Places(HeldNow, op, ghost, m), clicks[m]) /\ clicks[m] \in Nat
      BY DEF ClickInv
    <2> QED
      BY <2>2, <2>3, WithinSubset
  <1>2. clicks' \in [Msgs -> Nat]
    BY DEF ClickInv
  <1> QED
    BY <1>1, <1>2 DEF ClickInv

LEMMA SameServer ==
    ASSUME UNCHANGED serverVars
    PROVE  /\ StoreInv => StoreInv'
           /\ HeldNow' = HeldNow /\ DiskKeeps
  <1>1. mem' = mem /\ disk' = disk
    BY DEF serverVars
  <1>2. StoreInv => StoreInv'
    BY <1>1 DEF StoreInv
  <1>3. HeldNow' = HeldNow
    BY <1>1 DEF HeldNow, Held, get
  <1> QED
    BY <1>1, <1>2, <1>3 DEF DiskKeeps

\* The page changes what it shows, or is done with its operation.
LEMMA PageTurns ==
    ASSUME TurnInv, UNCHANGED serverVars, clicks' = clicks, ghost' = ghost, op' \in {op, None},
           view'.conv # None => view'.conv = view.conv \/ disk[view'.conv] # None
    PROVE  TurnInv'
  <1>1. HeldNow' = HeldNow /\ StoreInv' /\ disk' = disk
    BY SameServer DEF TurnInv, serverVars
  <1>2. AckInv'
    BY <1>1 DEF TurnInv, AckInv
  <1>3. \A m \in Msgs : Carries(op', m) => Carries(op, m)
    BY DEF Carries
  <1>4. ClickInv'
    BY <1>1, <1>3, ClicksKept DEF TurnInv
  <1> QED
    BY <1>1, <1>2, <1>4 DEF TurnInv

LEMMA PageStepTurns ==
    ASSUME PageInv, TurnInv,
           \/ \E m \in Msgs : Type(m)
           \/ OpenDialog \/ resetSelection \/ SaveToken \/ ApplyFailure \/ ApplySend \/ ApplyStart
           \/ Restored \/ RestoreUnknown \/ RestoreFails
    PROVE  TurnInv'
  <1>v. view \in Views
    BY DEF PageInv, PageTypes
  <1>1. ASSUME NEW m \in Msgs, Type(m) PROVE TurnInv'
    <2>1. view'.conv = view.conv
      BY <1>1, <1>v DEF Type, Views
    <2> QED
      BY <1>1, <2>1, PageTurns DEF Type
  <1>2. CASE OpenDialog \/ SaveToken \/ RestoreUnknown
    BY <1>2, PageTurns DEF OpenDialog, SaveToken, RestoreUnknown
  <1>3. CASE resetSelection
    <2>1. view'.conv = None
      BY <1>3, NoViewFacts DEF resetSelection
    <2> QED
      BY <1>3, <2>1, PageTurns DEF resetSelection
  <1>4. CASE ApplyFailure \/ ApplyStart \/ RestoreFails
    <2>1. view'.conv = view.conv
      BY <1>4, <1>v DEF ApplyFailure, ApplyStart, RestoreFails, Views
    <2> QED
      BY <1>4, <2>1, PageTurns DEF ApplyFailure, ApplyStart, RestoreFails
  <1>5. CASE ApplySend
    <2>1. op # None /\ op.phase = "answered" /\ op.kind = "send"
      BY <1>5 DEF ApplySend
    <2>2. view'.conv = op.conv
      BY <1>5, <1>v DEF ApplySend, Views
    <2>3. disk[op.conv] # None
      BY <2>1 DEF PageInv, OpInv
    <2> QED
      BY <1>5, <2>2, <2>3, PageTurns DEF ApplySend
  <1>6. CASE Restored
    <2>1. restore # None /\ restore.phase = "answered"
      BY <1>6 DEF Restored
    <2>2. view'.conv = restore.conv
      BY <1>6, <1>v DEF Restored, Views
    <2>3. disk[restore.conv] # None
      BY <2>1 DEF PageInv, DiskInv
    <2> QED
      BY <1>6, <2>2, <2>3, PageTurns DEF Restored
  <1> QED
    BY <1>1, <1>2, <1>3, <1>4, <1>5, <1>6

LEMMA SendTurns ==
    ASSUME PageInv, TurnInv, Send
    PROVE  TurnInv'
  <1> DEFINE x == view.draft
  <1>1. /\ op = None /\ x \in Msgs /\ clicks' = [clicks EXCEPT ![x] = @ + 1]
        /\ op' = Performing("send", x) /\ view' = [view EXCEPT !.error = FALSE]
        /\ UNCHANGED <<serverVars, ghost>>
    BY DEF Send, PageInv, PageTypes, Views
  <1>2. op'.kind = "send" /\ op'.phase = "sent" /\ op'.msg = x
    BY <1>1 DEF Performing
  <1>3. view'.conv = view.conv
    BY <1>1 DEF PageInv, PageTypes, Views
  <1> HIDE DEF x
  <1>4. HeldNow' = HeldNow /\ StoreInv' /\ disk' = disk
    BY <1>1, SameServer DEF TurnInv, serverVars
  <1>5. AckInv'
    BY <1>1, <1>2, <1>3, <1>4 DEF TurnInv, AckInv
  <1>6. clicks' \in [Msgs -> Nat] /\ clicks \in [Msgs -> Nat]
    BY <1>1 DEF TurnInv, ClickInv
  <1>7. ASSUME NEW m \in Msgs PROVE Within(Places(HeldNow', op', ghost', m), clicks'[m])
    <2>1. Within(Places(HeldNow, op, ghost, m), clicks[m]) /\ clicks[m] \in Nat
      BY <1>6 DEF TurnInv, ClickInv
    <2>2. CASE m = x
      <3>1. Places(HeldNow', op', ghost', m) \subseteq Places(HeldNow, op, ghost, m) \cup {<<"page", 0>>}
        BY <1>1, <1>4 DEF Places, Waiting
      <3>2. clicks'[m] = clicks[m] + 1
        BY <1>1, <1>6, <2>2
      <3>3. Within(Places(HeldNow, op, ghost, m) \cup {<<"page", 0>>}, clicks[m] + 1)
        BY <2>1, WithinAdd
      <3>4. clicks[m] + 1 \in Nat
        BY <2>1
      <3> QED
        BY <3>1, <3>2, <3>3, <3>4, WithinSubset
    <2>3. CASE m # x
      <3>1. ~Carries(op', m)
        BY <1>2, <2>3 DEF Carries
      <3>2. Places(HeldNow', op', ghost', m) \subseteq Places(HeldNow, op, ghost, m)
        BY <1>1, <1>4, <3>1, WaitingFacts DEF Places
      <3>3. clicks'[m] = clicks[m]
        BY <1>1, <1>6, <2>3
      <3> QED
        BY <2>1, <3>2, <3>3, WithinSubset
    <2> QED
      BY <2>2, <2>3
  <1> QED
    BY <1>4, <1>5, <1>6, <1>7 DEF TurnInv, ClickInv

LEMMA StartRunTurns ==
    ASSUME PageInv, TurnInv, StartRun
    PROVE  TurnInv'
  <1>1. /\ op = None /\ view.conv # None /\ clicks' = clicks /\ view' = [view EXCEPT !.error = FALSE]
        /\ op' = Performing("start", None) /\ UNCHANGED <<serverVars, ghost>>
    BY DEF StartRun
  <1>2. op'.kind = "start" /\ op'.msg = None /\ op'.conv = view.conv
    BY <1>1 DEF Performing
  <1>3. view'.conv = view.conv
    BY <1>1 DEF PageInv, PageTypes, Views
  <1>4. HeldNow' = HeldNow /\ StoreInv' /\ disk' = disk
    BY <1>1, SameServer DEF TurnInv, serverVars
  <1>5. AckInv'
    BY <1>1, <1>2, <1>3, <1>4 DEF TurnInv, AckInv
  <1>6. \A m \in Msgs : ~Carries(op', m)
    BY <1>2, IntentAssumption DEF Carries
  <1>7. ClickInv'
    BY <1>1, <1>4, <1>6, ClicksKept DEF TurnInv
  <1> QED
    BY <1>4, <1>5, <1>7 DEF TurnInv

LEMMA ReloadTurns ==
    ASSUME PageInv, TurnInv, Reload
    PROVE  TurnInv'
  <1>1. /\ view' = NoView /\ op' = None /\ clicks' = clicks /\ UNCHANGED serverVars
        /\ ghost' = IF op # None /\ op.phase = "sent" THEN op ELSE ghost
    BY DEF Reload
  <1>2. HeldNow' = HeldNow /\ StoreInv'
    BY <1>1, SameServer DEF TurnInv
  <1>3. AckInv'
    BY <1>1, NoViewFacts DEF TurnInv, AckInv
  <1>4. clicks \in [Msgs -> Nat]
    BY DEF TurnInv, ClickInv
  <1>5. ASSUME NEW m \in Msgs PROVE Within(Places(HeldNow', op', ghost', m), clicks'[m])
    <2>1. Within(Places(HeldNow, op, ghost, m), clicks[m]) /\ clicks[m] \in Nat
      BY <1>4 DEF TurnInv, ClickInv
    <2>2. ~Carries(op', m)
      BY <1>1 DEF Carries
    <2>3. CASE Carries(op, m)
      <3>1. <<"page", 0>> \in Places(HeldNow, op, ghost, m)
        BY <2>3 DEF Places, Waiting
      <3>2. <<"page", 0>> \notin TurnPlaces(HeldNow, m)
        <4>1. HeldNow \in [Convs -> Seq(Msgs)]
          BY HeldFacts DEF PageInv, TurnInv
        <4> SUFFICES ASSUME <<"page", 0>> \in TurnPlaces(HeldNow, m) PROVE FALSE
          OBVIOUS
        <4>2. PICK d \in Convs : \E i \in DOMAIN HeldNow[d] : <<"page", 0>> = <<d, i>>
          BY TurnPlacesMember
        <4>3. 0 \in DOMAIN HeldNow[d] /\ HeldNow[d] \in Seq(Msgs)
          BY <4>1, <4>2
        <4> QED
          BY <4>3
      <3>3. Waiting(op', ghost', m) \subseteq {<<"gone", 0>>}
        BY <2>2 DEF Waiting
      <3>4. Places(HeldNow', op', ghost', m)
              \subseteq (Places(HeldNow, op, ghost, m) \ {<<"page", 0>>}) \cup {<<"gone", 0>>}
        BY <1>2, <3>2, <3>3 DEF Places
      <3> QED
        BY <1>1, <2>1, <3>1, <3>4, WithinSwap
    <2>4. CASE ~Carries(op, m)
      <3>1. Carries(ghost', m) => Carries(ghost, m)
        BY <1>1, <2>4
      <3>2. Places(HeldNow', op', ghost', m) \subseteq Places(HeldNow, op, ghost, m)
        BY <1>2, <2>2, <3>1, WaitingFacts DEF Places
      <3> QED
        BY <1>1, <2>1, <3>2, WithinSubset
    <2> QED
      BY <2>3, <2>4
  <1> QED
    BY <1>1, <1>2, <1>3, <1>4, <1>5 DEF TurnInv, ClickInv

LEMMA FailTurns ==
    ASSUME PageInv, TurnInv, Refuse \/ Lose
    PROVE  TurnInv'
  <1>1. /\ op # None /\ op' = [op EXCEPT !.phase = "failed"] /\ clicks' = clicks
        /\ UNCHANGED <<serverVars, view, ghost>>
    BY DEF Refuse, Lose
  <1>2. op'.phase = "failed" /\ op'.kind = op.kind /\ op'.conv = op.conv
    BY <1>1, PageFacts DEF Operations
  <1>3. HeldNow' = HeldNow /\ StoreInv' /\ disk' = disk
    BY <1>1, SameServer DEF TurnInv, serverVars
  <1>4. AckInv'
    BY <1>1, <1>2, <1>3 DEF TurnInv, AckInv
  <1>5. \A m \in Msgs : ~Carries(op', m)
    BY <1>2 DEF Carries
  <1>6. ClickInv'
    BY <1>1, <1>3, <1>5, ClicksKept DEF TurnInv
  <1> QED
    BY <1>3, <1>4, <1>6 DEF TurnInv

LEMMA HandleTurns ==
    ASSUME PageInv, TurnInv, Handle
    PROVE  TurnInv'
  <1>1. PICK c \in Convs, r \in Runs \cup {None}, written \in BOOLEAN :
            /\ Served(op, c, r, written)
            /\ IF written THEN UNCHANGED faults ELSE Fault
            /\ op' = [op EXCEPT !.phase = IF written THEN "answered" ELSE "failed",
                                !.conv = c, !.run = r, !.turns = mem'[c].turns]
    BY Zenon DEF Handle
  <1>2. op # None /\ op.phase = "sent" /\ UNCHANGED <<view, ghost, clicks>>
    BY DEF Handle
  <1>3. op \in Operations /\ Posted(op) /\ ServerTypes /\ op.kind \in {"send", "start"}
    BY <1>2, PageFacts DEF PageInv, OpInv
  <1>4. /\ StoreInv' /\ DiskKeeps
        /\ op.kind = "send" => /\ op.msg \in Msgs /\ HeldNow' = Lengthened(HeldNow, c, op.msg)
                               /\ written => op.msg \in Range(disk'[c].turns)
        /\ op.kind = "start" => HeldNow' = HeldNow
    BY <1>1, <1>3, ServedTurns DEF TurnInv
  <1>5. op.kind = "start" => c = op.conv
    BY <1>1, <1>3, ServedGrows
  <1> DEFINE phase == IF written THEN "answered" ELSE "failed"
             t == mem'[c].turns
  <1>6. phase \in {"answered", "failed"} /\ (phase = "answered" => written)
    OBVIOUS
  <1> HIDE DEF phase, t
  <1>7. /\ op' = [op EXCEPT !.phase = phase, !.conv = c, !.run = r, !.turns = t]
    BY <1>1 DEF phase, t
  <1>8. op'.phase = phase /\ op'.conv = c /\ op'.kind = op.kind /\ op'.msg = op.msg
    BY <1>3, <1>7 DEF Operations
  <1>9. AckInv'
    <2>1. view'.conv # None => disk'[view'.conv] # None
      BY <1>2, <1>4, PageFacts DEF TurnInv, AckInv, DiskKeeps
    <2>2. op'.kind = "start" => disk'[op'.conv] # None
      BY <1>2, <1>4, <1>5, <1>8 DEF TurnInv, AckInv, DiskKeeps
    <2>3. op'.kind = "send" /\ op'.phase = "answered" => op'.msg \in Range(disk'[op'.conv].turns)
      BY <1>4, <1>6, <1>8
    <2> QED
      BY <1>2, <2>1, <2>2, <2>3 DEF TurnInv, AckInv
  <1>10. \A m \in Msgs : ~Carries(op', m)
    BY <1>6, <1>8 DEF Carries
  <1>11. CASE op.kind = "start"
    <2>1. ClickInv'
      BY <1>2, <1>4, <1>10, <1>11, ClicksKept DEF TurnInv
    <2> QED
      BY <1>4, <1>9, <2>1 DEF TurnInv
  <1>12. CASE op.kind = "send"
    <2>1. /\ HeldNow \in [Convs -> Seq(Msgs)] /\ clicks \in [Msgs -> Nat]
          /\ \A m \in Msgs : Within(Places(HeldNow, op, ghost, m), clicks[m])
      BY <1>3, HeldFacts DEF TurnInv, ClickInv
    <2>2. Carries(op, op.msg) /\ op.msg \in Msgs
      BY <1>2, <1>4, <1>12 DEF Carries
    <2>3. \A m \in Msgs : Waiting(op', ghost, m) \subseteq Waiting(op, ghost, m) \ {<<"page", 0>>}
      BY <1>10 DEF Waiting
    <2>4. Carries(IF "page" = "page" THEN op ELSE ghost, op.msg)
      BY <2>2
    <2>5. \A m \in Msgs : Within(Places(Lengthened(HeldNow, c, op.msg), op', ghost, m), clicks[m])
      BY <2>1, <2>2, <2>3, <2>4, PlacesHandled
    <2>6. ClickInv'
      BY <1>2, <1>4, <1>12, <2>1, <2>5 DEF ClickInv
    <2> QED
      BY <1>4, <1>9, <2>6 DEF TurnInv
  <1> QED
    BY <1>3, <1>11, <1>12

LEMMA HandleGhostTurns ==
    ASSUME PageInv, TurnInv, HandleGhost
    PROVE  TurnInv'
  <1>1. /\ ghost # None /\ ghost' = None /\ UNCHANGED <<view, op, clicks>>
        /\ \/ \E c \in Convs, r \in Runs \cup {None} : Served(ghost, c, r, TRUE)
           \/ UNCHANGED serverVars
    BY DEF HandleGhost
  <1>2. /\ ghost \in Operations /\ Posted(ghost) /\ ServerTypes /\ ghost.kind \in {"send", "start"}
        /\ ghost.phase = "sent"
    BY <1>1 DEF PageInv, OpInv, PageTypes, Operations, TurnInv, AckInv
  <1>3. \A m \in Msgs : ~Carries(ghost', m)
    BY <1>1 DEF Carries
  <1>4. ASSUME DiskKeeps PROVE AckInv'
    <2>1. view'.conv # None => disk'[view'.conv] # None
      BY <1>1, <1>4, PageFacts DEF TurnInv, AckInv, DiskKeeps
    <2>2. op' # None /\ op'.kind = "start" => disk'[op'.conv] # None
      BY <1>1, <1>4 DEF TurnInv, AckInv, DiskKeeps, PageInv, OpInv, Posted
    <2>3. op' # None /\ op'.kind = "send" /\ op'.phase = "answered" =>
            op'.msg \in Range(disk'[op'.conv].turns)
      BY <1>1, <1>4 DEF TurnInv, AckInv, DiskKeeps, PageInv, OpInv
    <2> QED
      BY <1>1, <2>1, <2>2, <2>3 DEF AckInv
  <1>5. CASE UNCHANGED serverVars
    <2>1. HeldNow' = HeldNow /\ StoreInv' /\ DiskKeeps
      BY <1>5, SameServer DEF TurnInv
    <2>2. ClickInv'
      BY <1>1, <1>3, <2>1, ClicksKept DEF TurnInv
    <2> QED
      BY <1>4, <2>1, <2>2 DEF TurnInv
  <1>6. ASSUME NEW c \in Convs, NEW r \in Runs \cup {None}, Served(ghost, c, r, TRUE)
        PROVE  TurnInv'
    <2>1. /\ StoreInv' /\ DiskKeeps
          /\ ghost.kind = "send" => /\ ghost.msg \in Msgs
                                    /\ HeldNow' = Lengthened(HeldNow, c, ghost.msg)
          /\ ghost.kind = "start" => HeldNow' = HeldNow
      BY <1>2, <1>6, ServedTurns DEF TurnInv
    <2>2. CASE ghost.kind = "start"
      <3>1. ClickInv'
        BY <1>1, <1>3, <2>1, <2>2, ClicksKept DEF TurnInv
      <3> QED
        BY <1>4, <2>1, <3>1 DEF TurnInv
    <2>3. CASE ghost.kind = "send"
      <3>1. /\ HeldNow \in [Convs -> Seq(Msgs)] /\ clicks \in [Msgs -> Nat]
            /\ \A m \in Msgs : Within(Places(HeldNow, op, ghost, m), clicks[m])
        BY <1>2, HeldFacts DEF TurnInv, ClickInv
      <3>2. Carries(ghost, ghost.msg) /\ ghost.msg \in Msgs
        BY <1>1, <1>2, <2>1, <2>3 DEF Carries
      <3>3. \A m \in Msgs : Waiting(op, ghost', m) \subseteq Waiting(op, ghost, m) \ {<<"gone", 0>>}
        BY <1>3 DEF Waiting
      <3>4. Carries(IF "gone" = "page" THEN op ELSE ghost, ghost.msg)
        BY <3>2
      <3>5. \A m \in Msgs : Within(Places(Lengthened(HeldNow, c, ghost.msg), op, ghost', m), clicks[m])
        BY <3>1, <3>2, <3>3, <3>4, PlacesHandled
      <3>6. ClickInv'
        BY <1>1, <2>1, <2>3, <3>1, <3>5 DEF ClickInv
      <3> QED
        BY <1>4, <2>1, <3>6 DEF TurnInv
    <2> QED
      BY <1>2, <2>2, <2>3
  <1> QED
    BY <1>1, <1>5, <1>6

LEMMA RestartTurns ==
    ASSUME PageInv, TurnInv, ServerRestart
    PROVE  TurnInv'
  <1>1. /\ mem' = [c \in Convs |-> None] /\ disk' = disk
        /\ UNCHANGED <<view, op, ghost, clicks>>
    BY DEF ServerRestart, Restart, viewVars
  <1>2. \A c \in Convs : mem'[c] = None
    BY <1>1
  <1>3. StoreInv'
    BY <1>1, <1>2 DEF TurnInv, StoreInv, StoreOK
  <1>4. AckInv'
    BY <1>1 DEF TurnInv, AckInv
  <1>5. ServerTypes /\ ServerTypes'
    BY RestartGrows DEF PageInv
  <1>6. HeldNow \in [Convs -> Seq(Msgs)]
    BY <1>5, HeldFacts DEF TurnInv
  <1>7. ASSUME NEW c \in Convs PROVE HeldNow'[c] \in Seq(Msgs) /\ Prefixed(HeldNow'[c], HeldNow[c])
    <2>1. HeldNow'[c] = IF disk[c] = None THEN <<>> ELSE disk[c].turns
      BY <1>1, <1>2 DEF HeldNow, Held, get
    <2>2. /\ disk[c] # None => disk[c].turns \in Seq(Msgs) /\ Prefixed(disk[c].turns, HeldNow[c])
      BY <1>5, HeldFacts DEF TurnInv
    <2>3. Prefixed(<<>>, HeldNow[c])
      BY <1>6 DEF Prefixed
    <2> QED
      BY <2>1, <2>2, <2>3
  <1>8. HeldNow' \in [Convs -> Seq(Msgs)]
    BY <1>7 DEF HeldNow
  <1>9. \A m \in Msgs : TurnPlaces(HeldNow', m) \subseteq TurnPlaces(HeldNow, m)
    BY <1>6, <1>7, <1>8, FewerTurns
  <1>10. ClickInv'
    BY <1>1, <1>9, ClicksKept DEF TurnInv
  <1> QED
    BY <1>3, <1>4, <1>10 DEF TurnInv

LEMMA ReadSavedTurns ==
    ASSUME PageInv, TurnInv, ReadSaved
    PROVE  TurnInv'
  <1>1. UNCHANGED <<view, op, ghost, clicks>>
    BY DEF ReadSaved
  <1>2. CASE UNCHANGED serverVars
    BY <1>1, <1>2, PageTurns
  <1>3. CASE restore.conv \in Convs /\ read(restore.conv)
    <2>1. mem' = [mem EXCEPT ![restore.conv] = get(restore.conv)] /\ disk' = disk
      BY <1>3 DEF read
    <2>2. StoreInv' /\ HeldNow' = HeldNow
      BY <1>3, <2>1, ReadTurns DEF PageInv, TurnInv
    <2>3. AckInv'
      BY <1>1, <2>1 DEF TurnInv, AckInv
    <2>4. ClickInv'
      BY <1>1, <2>2, ClicksKept DEF TurnInv
    <2> QED
      BY <2>2, <2>3, <2>4 DEF TurnInv
  <1> QED
    BY <1>2, <1>3 DEF ReadSaved

LEMMA TurnInitial == ChatInit => TurnInv
  <1> SUFFICES ASSUME ChatInit PROVE TurnInv
    OBVIOUS
  <1>1. /\ mem = [c \in Convs |-> None] /\ disk = [c \in Convs |-> None]
        /\ view = NoView /\ op = None /\ ghost = None /\ clicks = [m \in Msgs |-> 0]
    BY DEF ChatInit, ServerInit
  <1>2. StoreInv
    BY <1>1 DEF StoreInv, StoreOK
  <1>3. AckInv
    BY <1>1, NoViewFacts DEF AckInv
  <1>4. ASSUME NEW m \in Msgs PROVE Within(Places(HeldNow, op, ghost, m), clicks[m])
    <2>1. \A c \in Convs : HeldNow[c] = <<>>
      BY <1>1 DEF HeldNow, Held, get
    <2>2. TurnPlaces(HeldNow, m) = {}
      BY <2>1 DEF TurnPlaces
    <2>3. Waiting(op, ghost, m) = {}
      BY <1>1 DEF Waiting, Carries
    <2>4. Places(HeldNow, op, ghost, m) = {} /\ clicks[m] = 0
      BY <1>1, <2>2, <2>3 DEF Places
    <2> QED
      BY <2>4, FS_EmptySet DEF Within
  <1> QED
    BY <1>1, <1>2, <1>3, <1>4 DEF TurnInv, ClickInv

LEMMA TurnStep ==
    ASSUME PageInv, TurnInv, [ChatNext]_chatVars
    PROVE  TurnInv'
  <1>1. CASE UNCHANGED chatVars
    BY <1>1, PageTurns DEF chatVars, viewVars
  <1>2. CASE ChatNext
    BY <1>2, PageStepTurns, SendTurns, StartRunTurns, ReloadTurns, HandleTurns, HandleGhostTurns,
       FailTurns, RestartTurns, ReadSavedTurns DEF ChatNext
  <1> QED
    BY <1>1, <1>2

\* What the user wrote is kept: an answered turn is on disk, a message is a turn at most once
\* per click, and the intent is the one the turns give (perform in workspace.tsx,
\* intent-collection.ts), through failed saves, lost answers, reloads and restarts.
THEOREM ChatTurnsKept == ChatViewSpec => []TurnsKept
  <1>1. ChatInit => PageInv /\ TurnInv
    BY ChatInitial, TurnInitial
  <1>2. PageInv /\ TurnInv /\ [ChatNext]_chatVars => (PageInv /\ TurnInv)'
    BY ChatStep, TurnStep
  <1>3. PageInv /\ TurnInv => TurnsKept
    <2> SUFFICES ASSUME PageInv, TurnInv PROVE TurnsKept
      OBVIOUS
    <2>1. IntentIsOfTurns
      BY DEF TurnInv, StoreInv, StoreOK, IntentIsOfTurns, Snapshots
    <2>2. AnsweredIsOnDisk
      <3> SUFFICES ASSUME op # None, op.phase = "answered"
                   PROVE  /\ disk[op.conv] # None
                          /\ op.kind = "send" => op.msg \in Range(disk[op.conv].turns)
        BY DEF AnsweredIsOnDisk
      <3>1. op.kind \in {"send", "start"}
        BY PageFacts
      <3> QED
        BY <3>1 DEF TurnInv, AckInv, PageInv, OpInv
    <2>3. OneTurnPerClick
      <3> SUFFICES ASSUME NEW m \in Msgs PROVE Cardinality(TurnsOf(m) \cup Pending(m)) <= clicks[m]
        BY DEF OneTurnPerClick
      <3>1. TurnPlaces(HeldNow, m) = TurnsOf(m)
        BY DEF TurnPlaces, TurnsOf, HeldNow
      <3>2. Waiting(op, ghost, m) = Pending(m)
        BY DEF Waiting, Pending
      <3> QED
        BY <3>1, <3>2 DEF TurnInv, ClickInv, Within, Places
    <2> QED
      BY <2>1, <2>2, <2>3 DEF TurnsKept
  <1> QED
    BY <1>1, <1>2, <1>3, PTL DEF ChatViewSpec
=============================================================================
