------------------------------- MODULE ChatView -------------------------------
(***************************************************************************)
(* The chat of the browser's Workspace component (workspace.tsx) over the  *)
(* server's IntentCollection: which conversation and run are shown, which  *)
(* ones localStorage remembers, the one operation perform() lets through   *)
(* at a time, the restore of the saved chat, New Job and a page reload.    *)
(*                                                                         *)
(* A request is a record: sent, then answered by the server, then applied  *)
(* by the browser; it may fail before or after the server handled it.  A   *)
(* reload forgets the request, and the server may still handle it.         *)
(***************************************************************************)
EXTENDS IntentCollection

CONSTANTS
    MaxTurns,    \* bound: turns of one conversation
    MaxClicks,   \* bound: submissions of one message
    MaxFaults,   \* bound: lost requests or answers, failed saves, restarts
    MaxVisits,   \* bound: page loads and session tokens saved
    Forgotten    \* id of a conversation of data the server no longer has

Operations ==
    [kind : {"send", "start"}, conv : Convs \cup {None}, msg : Msgs \cup {None},
     phase : {"sent", "answered", "failed"}, turns : Seq(Msgs), run : Runs \cup {None}]
Restores ==
    [conv : Convs \cup {Forgotten}, phase : {"sent", "answered", "unknown"}, turns : Seq(Msgs),
     moved : BOOLEAN]

ASSUME ChatViewAssumption ==
    /\ Forgotten \notin Convs \cup {None}
    /\ None \notin Operations /\ None \notin Restores

VARIABLES
    view,      \* the component's conversation, runId, draft and error
    saved,     \* localStorage: currentConversationId and currentRunId
    op,        \* the operation perform() holds busyRef for, or None
    ghost,     \* the operation of a page that is gone, or None
    restore,   \* the restore request of the initial effect, or None
    dialog,    \* the New Job dialog is open (a modal: the page under it is inert)
    faults,
    visits,
    clicks,    \* history: how often each message was submitted
    raced      \* history: a restore was answered after the selection changed,
               \* or a chat was begun while the saved one could not be restored

viewVars == <<view, saved, op, ghost, restore, dialog>>
chatVars == <<serverVars, viewVars, faults, visits, clicks, raced>>

NoView ==
    [conv |-> None, turns |-> <<>>, run |-> None, draft |-> None, error |-> FALSE,
     lost |-> FALSE]   \* history: the saved chat could not be restored

\* The initial effect asks for the conversation localStorage names, if any.
RestoreOf(s) ==
    IF s.conv = None THEN None
    ELSE [conv |-> s.conv, phase |-> "sent", turns |-> <<>>, moved |-> FALSE]

\* localStorage is empty, or outlived the server's data.
ChatInit ==
    /\ ServerInit
    /\ view = NoView
    /\ saved \in {[conv |-> c, run |-> None] : c \in {None, Forgotten}}
    /\ restore = RestoreOf(saved)
    /\ op = None /\ ghost = None
    /\ dialog = FALSE
    /\ faults = 0 /\ visits = 1
    /\ clicks = [m \in Msgs |-> 0]
    /\ raced = FALSE

\* A restore under way no longer belongs to what the user is looking at.
Moved(x) == IF x = None THEN None ELSE [x EXCEPT !.moved = TRUE]

Fault == faults < MaxFaults /\ faults' = faults + 1

-----------------------------------------------------------------------------
(* What the user does. *)

\* The composer is never disabled: the draft changes during a request too.
\* (Bound: a message submitted MaxClicks times is not typed again.)
Type(m) ==
    /\ ~dialog
    /\ view.draft # m /\ clicks[m] < MaxClicks
    /\ view' = [view EXCEPT !.draft = m]
    /\ UNCHANGED <<serverVars, saved, op, ghost, restore, dialog, faults, visits,
                   clicks, raced>>

Performing(kind, m) ==
    [kind |-> kind, conv |-> view.conv, msg |-> m, phase |-> "sent",
     turns |-> <<>>, run |-> None]

\* Mutant: busyRef is not tested.
SendUnlocked ==
    /\ ~dialog /\ view.draft # None
    /\ clicks' = IF op = None THEN [clicks EXCEPT ![view.draft] = @ + 1] ELSE clicks
    /\ op' = Performing("send", view.draft)
    /\ ghost' = IF ghost = None THEN op ELSE ghost
    /\ view' = [view EXCEPT !.error = FALSE]
    /\ UNCHANGED <<serverVars, saved, restore, dialog, faults, visits, raced>>

\* send(): a first message begins a conversation, a later one adds a turn.
Send ==
    /\ op = None /\ ~dialog /\ view.draft # None
    /\ clicks[view.draft] < MaxClicks
    /\ op' = Performing("send", view.draft)
    /\ clicks' = [clicks EXCEPT ![view.draft] = @ + 1]
    /\ view' = [view EXCEPT !.error = FALSE]
    /\ UNCHANGED <<serverVars, saved, ghost, restore, dialog, faults, visits, raced>>

\* startRun(): offered for a ready conversation without a run.
StartRun ==
    /\ op = None /\ ~dialog
    /\ view.conv # None /\ view.run = None
    /\ \E i \in DOMAIN view.turns : view.turns[i] \notin Vague
    /\ op' = Performing("start", None)
    /\ view' = [view EXCEPT !.error = FALSE]
    /\ UNCHANGED <<serverVars, saved, ghost, restore, dialog, faults, visits, clicks, raced>>

\* The New Job button is disabled while an operation is under way.
OpenDialog ==
    /\ op = None /\ ~dialog
    /\ dialog' = TRUE
    /\ UNCHANGED <<serverVars, view, saved, op, ghost, restore, faults, visits, clicks, raced>>

\* Mutant: New Job leaves the run selected.
resetSelectionKeepsRun ==
    /\ dialog
    /\ dialog' = FALSE
    /\ view' = [NoView EXCEPT !.run = view.run]
    /\ saved' = [conv |-> None, run |-> None]
    /\ restore' = Moved(restore)
    /\ UNCHANGED <<serverVars, op, ghost, faults, visits, clicks, raced>>

\* resetSelection(): the dialog's Start New Job.
resetSelection ==
    /\ dialog
    /\ dialog' = FALSE
    /\ view' = NoView
    /\ saved' = [conv |-> None, run |-> None]
    /\ restore' = Moved(restore)
    /\ UNCHANGED <<serverVars, op, ghost, faults, visits, clicks, raced>>

\* A page load: the component's state is gone, localStorage is not.
Reload ==
    /\ visits < MaxVisits /\ visits' = visits + 1
    /\ view' = NoView /\ op' = None /\ dialog' = FALSE
    /\ ghost' = IF op # None /\ op.phase = "sent" THEN op ELSE ghost
    /\ restore' = RestoreOf(saved)
    /\ UNCHANGED <<serverVars, saved, faults, clicks, raced>>

\* Saving a session token runs the initial effect again.
SaveToken ==
    /\ visits < MaxVisits /\ visits' = visits + 1
    /\ restore' = RestoreOf(saved)
    /\ UNCHANGED <<serverVars, view, saved, op, ghost, dialog, faults, clicks, raced>>

-----------------------------------------------------------------------------
(* What the server does with a request o, and what it answers. *)

Served(o, c, r, written) ==
    CASE o.kind = "send" /\ o.conv = None -> start(c, o.msg, written) /\ r = None
      [] o.kind = "send" /\ o.conv # None ->
            /\ c = o.conv /\ r = None
            /\ Len(get(c).turns) < MaxTurns
            /\ addTurn(c, o.msg, written)
      [] OTHER -> c = o.conv /\ r # None /\ createRun(c, r) /\ written

\* The operation's request is handled; a save that throws is answered with an
\* error although the turn is in memory.
Handle ==
    /\ op # None /\ op.phase = "sent"
    /\ \E c \in Convs, r \in Runs \cup {None}, written \in BOOLEAN :
        /\ Served(op, c, r, written)
        /\ IF written THEN UNCHANGED faults ELSE Fault
        /\ op' = [op EXCEPT !.phase = IF written THEN "answered" ELSE "failed",
                            !.conv = c, !.run = r, !.turns = mem'[c].turns]
    /\ UNCHANGED <<view, saved, ghost, restore, dialog, visits, clicks, raced>>

\* The request of a page that is gone is handled, or was never received.
HandleGhost ==
    /\ ghost # None
    /\ ghost' = None
    /\ \/ \E c \in Convs, r \in Runs \cup {None} : Served(ghost, c, r, TRUE)
       \/ UNCHANGED serverVars
    /\ UNCHANGED <<view, saved, op, restore, dialog, faults, visits, clicks, raced>>

\* A message is served below the bounds, a run of an intent that is ready.
Servable(o) ==
    CASE o.kind = "send" /\ o.conv = None -> \E c \in Convs : get(c) = None
      [] o.kind = "send" /\ o.conv # None ->
            get(o.conv) # None /\ Len(get(o.conv).turns) < MaxTurns
      [] OTHER -> /\ get(o.conv) # None /\ ready_for_prompt(get(o.conv))
                  /\ \E r \in Runs : runOf[r] = None

\* A conversation at the bound of turns, an intent that is not ready (a restart
\* lost the turn that made it so) or no run id left is answered with an error.
Refuse ==
    /\ op # None /\ op.phase = "sent"
    /\ ~Servable(op)
    /\ op' = [op EXCEPT !.phase = "failed"]
    /\ UNCHANGED <<serverVars, view, saved, ghost, restore, dialog, faults, visits,
                   clicks, raced>>

\* The connection fails: before the server had the request, or after it answered.
Lose ==
    /\ op # None /\ op.phase \in {"sent", "answered"}
    /\ Fault
    /\ op' = [op EXCEPT !.phase = "failed"]
    /\ UNCHANGED <<serverVars, view, saved, ghost, restore, dialog, visits, clicks, raced>>

ServerRestart ==
    /\ Restart /\ Fault
    /\ UNCHANGED <<viewVars, visits, clicks, raced>>

-----------------------------------------------------------------------------
(* What the browser does with an answer. *)

\* perform's catch: the error is shown, the draft stays, the lock is released.
ApplyFailure ==
    /\ op # None /\ op.phase = "failed"
    /\ op' = None
    /\ view' = [view EXCEPT !.error = TRUE]
    /\ UNCHANGED <<serverVars, saved, ghost, restore, dialog, faults, visits, clicks, raced>>

\* The rest of send(): the draft is emptied, also of what was typed meanwhile;
\* currentRunId is left as it is.
ApplySend ==
    /\ op # None /\ op.phase = "answered" /\ op.kind = "send"
    /\ op' = None
    /\ view' = [view EXCEPT !.conv = op.conv, !.turns = op.turns, !.draft = None]
    /\ saved' = [saved EXCEPT !.conv = op.conv]
    /\ restore' = Moved(restore)
    /\ raced' = (raced \/ (view.conv = None /\ (view.lost \/ restore # None)))
    /\ UNCHANGED <<serverVars, ghost, dialog, faults, visits, clicks>>

\* The rest of startRun().
ApplyStart ==
    /\ op # None /\ op.phase = "answered" /\ op.kind = "start"
    /\ op' = None
    /\ view' = [view EXCEPT !.run = op.run]
    /\ saved' = [saved EXCEPT !.run = op.run]
    /\ UNCHANGED <<serverVars, ghost, restore, dialog, faults, visits, clicks, raced>>

\* The server reads the saved conversation, if it has it.
ReadSaved ==
    /\ restore # None /\ restore.phase = "sent"
    /\ \/ /\ restore.conv \in Convs /\ get(restore.conv) # None
          /\ read(restore.conv)
          /\ restore' = [restore EXCEPT !.phase = "answered", !.turns = get(restore.conv).turns]
       \/ /\ restore.conv \in Convs => get(restore.conv) = None
          /\ restore' = [restore EXCEPT !.phase = "unknown"]
          /\ UNCHANGED serverVars
    /\ UNCHANGED <<view, saved, op, ghost, dialog, faults, visits, clicks, raced>>

\* The user has begun, or left, a chat since the restore was asked for.
Overtaken == restore.moved \/ (op # None /\ op.kind = "send")

\* The saved conversation arrives: it is shown, whatever is shown by now, with
\* the run localStorage names by now.
Restored ==
    /\ restore # None /\ restore.phase = "answered"
    /\ view' = [view EXCEPT !.conv = restore.conv, !.turns = restore.turns,
                            !.run = saved.run]
    /\ raced' = (raced \/ Overtaken)
    /\ restore' = None
    /\ UNCHANGED <<serverVars, saved, op, ghost, dialog, faults, visits, clicks>>

\* 404: the saved chat is forgotten, whichever chat localStorage names by now.
RestoreUnknown ==
    /\ restore # None /\ restore.phase = "unknown"
    /\ restore' = None
    /\ saved' = [conv |-> None, run |-> None]
    /\ raced' = (raced \/ Overtaken)
    /\ UNCHANGED <<serverVars, view, op, ghost, dialog, faults, visits, clicks>>

\* Any other failure: the saved ids stay, nothing is shown but an error.
RestoreFails ==
    /\ restore # None
    /\ Fault
    /\ restore' = None
    /\ view' = [view EXCEPT !.error = TRUE, !.lost = TRUE]
    /\ UNCHANGED <<serverVars, saved, op, ghost, dialog, visits, clicks, raced>>

-----------------------------------------------------------------------------

ChatNext ==
    \/ \E m \in Msgs : Type(m)
    \/ Send \/ StartRun \/ OpenDialog \/ resetSelection \/ Reload \/ SaveToken
    \/ Handle \/ HandleGhost \/ Refuse \/ Lose \/ ServerRestart
    \/ ApplyFailure \/ ApplySend \/ ApplyStart
    \/ ReadSaved \/ Restored \/ RestoreUnknown \/ RestoreFails

ChatViewSpec == ChatInit /\ [][ChatNext]_chatVars

-----------------------------------------------------------------------------

\* The run shown with a conversation was made from it, as long as no restore was
\* answered after the user had moved on and no chat was begun over a saved one
\* that could not be restored (setConversation and setRunId of send, startRun,
\* resetSelection and the initial effect).
ShownRunIsOfChat ==
    view.run # None /\ ~raced =>
        /\ view.conv # None
        /\ runOf[view.run] # None
        /\ runOf[view.run].conv = view.conv

\* With nothing under way, localStorage names what is shown, so that a reload
\* brings the same chat and the same run back (same exceptions; a saved chat
\* that could not be read is announced by an error and stays saved).
SavedIsShown ==
    op = None /\ restore = None /\ ~raced /\ view.conv # None =>
        saved = [conv |-> view.conv, run |-> view.run]

\* Every turn the browser was answered is in the conversation's file, so a
\* restart of the server loses nothing that was acknowledged (addTurn saves
\* before it returns; send shows the answer only when there is one).
AnsweredIsOnDisk ==
    op # None /\ op.phase = "answered" =>
        /\ disk[op.conv] # None
        /\ op.kind = "send" => op.msg \in Range(disk[op.conv].turns)

\* The turns of the conversations that are the message m, and the requests that
\* carry it and are not handled yet.
Held(c) == IF get(c) = None THEN <<>> ELSE get(c).turns
TurnsOf(m) == UNION {{<<c, i>> : i \in {j \in DOMAIN Held(c) : Held(c)[j] = m}} : c \in Convs}
Carries(o, m) == o # None /\ o.phase = "sent" /\ o.msg = m
Pending(m) ==
    {x \in {<<"page", 0>>, <<"gone", 0>>} : Carries(IF x[1] = "page" THEN op ELSE ghost, m)}

\* A message is in the conversations at most as often as the user submitted it:
\* one click is one turn, however slow the answer and however often Enter is hit
\* meanwhile (busyRef in perform).
OneTurnPerClick == \A m \in Msgs : Cardinality(TurnsOf(m) \cup Pending(m)) <= clicks[m]

\* The chat, the run and the saved selection belong together (the setters of
\* send, startRun, resetSelection and the initial effect in workspace.tsx).
ChatShown == ShownRunIsOfChat /\ SavedIsShown

\* What the user wrote is kept: on disk once answered, once per click, and as
\* the intent that the turns give (perform in workspace.tsx, intent-collection.ts).
TurnsKept == IntentIsOfTurns /\ AnsweredIsOnDisk /\ OneTurnPerClick
=============================================================================
