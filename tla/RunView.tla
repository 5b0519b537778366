------------------------------- MODULE RunView -------------------------------
(***************************************************************************)
(* How the browser follows a run: the run effect of workspace.tsx with its *)
(* refresh(), the event stream of event-stream.ts that reconnects, and the *)
(* Research Review card whose edits begin from the bundle it was mounted   *)
(* with.                                                                   *)
(*                                                                         *)
(* Every change of the selected run, of refreshKey or of authKey aborts    *)
(* the running effect and starts another; answers an aborted effect has    *)
(* received may still be under way.  A refresh reads the snapshot first    *)
(* and the artifacts after it; one that is asked for during another is     *)
(* remembered in one flag.  An event is its place in the run's log.        *)
(*                                                                         *)
(* The stream replays the snapshot's events when it is connected and then  *)
(* passes on what is emitted on the server's own bus: every event when the *)
(* server runs the stages, but only its own events, progress hints among   *)
(* them, when a worker process does.  What it has sent and the browser has *)
(* not received yet is on its way.                                         *)
(***************************************************************************)
EXTENDS Naturals, Sequences, FiniteSets, FiniteSetsExt

CONSTANTS
    Followed,    \* runs the user may look at
    NoRun,       \* no run
    MaxLog,      \* bound: run -> events of it
    MaxEffects,  \* bound: effects started
    MaxFailures    \* bound: broken connections and failed requests

ASSUME RunViewAssumption ==
    /\ NoRun \notin Followed
    /\ MaxLog \in [Followed -> Nat] /\ MaxEffects \in Nat \ {0} /\ MaxFailures \in Nat

VARIABLES
    pushed,     \* the server runs the stages itself (ONESHOT_START_WORKER)
    log,        \* run -> its events, as they are recorded
    finished,   \* run -> its status is Done
    rev,        \* run -> revision of the research bundle artifact
    selected,   \* runId, NoRun when no run is selected
    cur,        \* number of the effect React considers current, 0 for none
    effects,    \* the effects started so far
    shown,      \* the component's run: its id, event set and Done, and bundle
    card,       \* the mounted Research Review card: its key, and the bundle and
                \* the run its edits begin from
    error,      \* a refresh failed and its message was shown
    failures,
    missed,     \* history: events received before there was a run to add them to
    leftover    \* history: the run that was shown when a restore selected another

server == <<pushed, log, finished, rev>>
onScreen == <<shown, card, leftover>>
choice == <<selected, cur, onScreen, error, failures, missed>>
runViewVars == <<server, effects, choice>>

Kinds == {"research", "again", "work", "hint", "done"}

\* The server's own events: Research Again, and the hints of a worker's progress.
ByServer(kind) == kind \in {"again", "hint"}

\* Mutant: Done is not among them.
stageNeedsSnapshot(kind) == kind = "research"

\* eventNeedsSnapshot: the gates, Done and the completion of a stage.
eventNeedsSnapshot(kind) == kind \in {"research", "done"}

Published(r) == 1..Len(log[r])
IsDone(r, n) == \E i \in 1..n : log[r][i] = "done"

\* Places of the research completions among the first n events.
Completions(r, n) == {i \in 1..n : log[r][i] = "research"}

\* bundleVersion: the last research completion of a snapshot, 0 for none.
bundleVersion(r, n) == Max(Completions(r, n) \cup {0})

NothingShown == [run |-> NoRun, events |-> {}, done |-> FALSE, bundle |-> 0, version |-> 0]
NoCard == [key |-> 0, base |-> 0, of |-> NoRun, carried |-> FALSE]

\* An effect at its start.
Started(r) ==
    [run |-> r, aborted |-> FALSE, conn |-> "down", coming |-> {}, seen |-> {},
     phase |-> "idle", pending |-> FALSE, snap |-> 0, over |-> FALSE, bundle |-> 0]

RunViewInit ==
    /\ pushed \in BOOLEAN
    /\ log = [r \in Followed |-> <<>>]
    /\ finished = [r \in Followed |-> FALSE]
    /\ rev = [r \in Followed |-> 0]
    /\ selected = NoRun /\ cur = 0 /\ effects = <<>>
    /\ shown = NothingShown /\ card = NoCard /\ leftover = NoRun
    /\ error = FALSE /\ failures = 0 /\ missed = {}

Failing == failures < MaxFailures /\ failures' = failures + 1

-----------------------------------------------------------------------------
(* The server and the worker. *)

\* A research stage writes its bundle before its completion is announced.
WriteBundle(r) ==
    /\ Len(log[r]) + 1 < MaxLog[r] /\ ~finished[r]
    /\ rev[r] = Cardinality(Completions(r, Len(log[r])))
    /\ rev' = [rev EXCEPT ![r] = @ + 1]
    /\ UNCHANGED <<pushed, log, finished, effects, choice>>

\* finish of the transition services: the status is Done before the event is emitted.
Finish(r) ==
    /\ Len(log[r]) < MaxLog[r] /\ ~finished[r]
    /\ rev[r] = Cardinality(Completions(r, Len(log[r])))
    /\ finished' = [finished EXCEPT ![r] = TRUE]
    /\ UNCHANGED <<pushed, log, rev, effects, choice>>

\* An event is sent to the browser if it is emitted on the server's own bus.
Sent(g, r, kind) ==
    IF (pushed \/ ByServer(kind)) /\ effects[g].run = r /\ effects[g].conn = "up"
    THEN [effects[g] EXCEPT !.coming = @ \cup {Len(log[r]) + 1}]
    ELSE effects[g]

\* An event is emitted and recorded.  A finished run has no more events but Done, the
\* last one, and a late hint.
Publish(r, kind) ==
    /\ Len(log[r]) < MaxLog[r]
    /\ ~IsDone(r, Len(log[r]))
    /\ IF finished[r] THEN kind \in {"hint", "done"} ELSE kind # "done"
    /\ Len(log[r]) + 1 = MaxLog[r] => kind = "done"
    /\ (kind = "research") = (rev[r] > Cardinality(Completions(r, Len(log[r]))))
    /\ log' = [log EXCEPT ![r] = Append(@, kind)]
    /\ effects' = [g \in DOMAIN effects |-> Sent(g, r, kind)]
    /\ UNCHANGED <<pushed, finished, rev, choice>>

-----------------------------------------------------------------------------
(* Starting and aborting effects. *)

\* A refresh is over.
Ended(e) == [e EXCEPT !.phase = "idle", !.snap = 0, !.over = FALSE, !.bundle = 0]

\* An aborted effect reads no more events, and its requests are aborted with it; what
\* a refresh does with answers it has received is still to come.
Aborted(e) ==
    [IF e.phase = "apply" THEN e ELSE Ended(e) EXCEPT
        !.aborted = TRUE, !.conn = "down", !.coming = {}, !.seen = {}, !.pending = FALSE]

\* The cleanup aborts the current effect.
Stopped == [g \in DOMAIN effects |-> IF g = cur THEN Aborted(effects[g]) ELSE effects[g]]

\* The next effect starts from nothing.
Restarted(r) ==
    /\ Len(effects) < MaxEffects
    /\ effects' = Append(Stopped, Started(r))
    /\ cur' = Len(effects) + 1
    /\ missed' = {}

\* startRun: whatever is shown stays until the new run's first answer.
Select(r) ==
    /\ selected = NoRun
    /\ selected' = r
    /\ Restarted(r)
    /\ error' = FALSE
    /\ UNCHANGED <<server, onScreen, failures>>

\* The key of the card has another run in it: it is mounted anew, on the bundle that
\* is still shown.
Carried == IF card.key = 0 THEN NoCard
           ELSE [key |-> card.key, base |-> shown.bundle, of |-> shown.run, carried |-> TRUE]

\* The restore of the saved chat selects the run that is saved by then, which need not
\* be the selected one: New Job, a chat that is gone or another tab have changed it.
\* It leaves what is shown alone.
Restore(r) ==
    /\ r # selected
    /\ selected' = r
    /\ IF r = NoRun THEN cur' = 0 /\ effects' = Stopped /\ missed' = {} ELSE Restarted(r)
    /\ card' = Carried
    /\ leftover' = shown.run
    /\ UNCHANGED <<server, shown, error, failures>>

\* New Job.
Deselect ==
    /\ selected # NoRun \/ shown # NothingShown
    /\ selected' = NoRun /\ cur' = 0
    /\ effects' = Stopped
    /\ shown' = NothingShown /\ card' = NoCard /\ leftover' = NoRun
    /\ error' = FALSE /\ missed' = {}
    /\ UNCHANGED <<server, failures>>

\* researchWaiting, over the events the view holds.
researchWaiting ==
    /\ shown.run # NoRun
    /\ ~shown.done
    /\ LET Of(kind) == {i \in shown.events : log[shown.run][i] = kind} IN
       /\ Of("research") # {}
       /\ \A i \in Of("again") : i < Max(Of("research"))

GateLoading == \E g \in DOMAIN effects : ~effects[g].aborted /\ effects[g].phase # "idle"

\* accept(): offered while the gate waits and no refresh is under way; the edits
\* of the card are sent and the effect is started again.
Accept ==
    /\ selected # NoRun /\ researchWaiting /\ ~GateLoading
    /\ card.key # 0
    /\ Restarted(selected)
    /\ error' = FALSE
    /\ UNCHANGED <<server, selected, onScreen, failures>>

\* Research Again empties the bundle and starts the effect again.
ResearchAgain ==
    /\ selected # NoRun /\ researchWaiting
    /\ Restarted(selected)
    /\ shown' = [shown EXCEPT !.bundle = 0]
    /\ card' = NoCard
    /\ error' = FALSE
    /\ UNCHANGED <<server, selected, failures, leftover>>

\* Another session token, or a decision on the build, starts the effect again.
Renew ==
    /\ selected # NoRun
    /\ Restarted(selected)
    /\ UNCHANGED <<server, selected, onScreen, error, failures>>

-----------------------------------------------------------------------------
(* refresh() and the event stream, of the effect g. *)

\* refresh() is asked for: it starts, or the one under way is told to go round again.
Refreshed(e) ==
    IF e.phase # "idle" THEN [e EXCEPT !.pending = TRUE]
    ELSE [e EXCEPT !.phase = "snapshot", !.pending = FALSE]

\* What a connection replays: the snapshot's events whose number is after that of the
\* last event received, all of them at first.  The server and a worker number their
\* events independently, so then it may be any of them.
Replays(e) ==
    LET all == Published(e.run) IN
    IF e.seen = {} THEN {all} ELSE IF pushed THEN {all \ e.seen} ELSE SUBSET (all \ e.seen)

\* The stream is connected: the handler is called without an event, the server
\* subscribes it to its bus and replays.
Connect(g) ==
    LET e == effects[g] IN
    /\ ~e.aborted /\ e.conn = "down"
    /\ \E R \in Replays(e) :
        effects' = [effects EXCEPT ![g] = Refreshed([e EXCEPT !.conn = "up", !.coming = R])]
    /\ UNCHANGED <<server, choice>>

\* 401: the stream gives up, and says so, until the session token changes.
Unauthorized(g) ==
    /\ ~effects[g].aborted /\ effects[g].conn = "down"
    /\ Failing
    /\ effects' = [effects EXCEPT ![g].conn = "closed"]
    /\ UNCHANGED <<server, selected, cur, onScreen, error, missed>>

\* The connection breaks; the loop waits and connects again.
Break(g) ==
    /\ ~effects[g].aborted /\ effects[g].conn = "up"
    /\ Failing
    /\ effects' = [effects EXCEPT ![g].conn = "down", ![g].coming = {}]
    /\ UNCHANGED <<server, selected, cur, onScreen, error, missed>>

mergeEvents(previous, incoming) == previous \cup incoming

\* The next event arrives: it is added to the run that is shown, if one is, and
\* may ask for a snapshot.
Receive(g) ==
    LET e == effects[g]
        here == shown.run = e.run
    IN
    /\ ~e.aborted /\ e.conn = "up"
    /\ \E i \in e.coming :
        /\ \A j \in e.coming : i <= j
        /\ LET f == [e EXCEPT !.coming = @ \ {i}, !.seen = @ \cup {i}] IN
           effects' = [effects EXCEPT
                          ![g] = IF eventNeedsSnapshot(log[e.run][i]) THEN Refreshed(f) ELSE f]
        /\ shown' = IF here THEN [shown EXCEPT !.events = mergeEvents(@, {i})] ELSE shown
        /\ missed' = IF here THEN missed ELSE missed \cup {i}
    /\ UNCHANGED <<server, selected, cur, card, leftover, error, failures>>

ReadSnapshot(g) ==
    LET r == effects[g].run IN
    /\ ~effects[g].aborted /\ effects[g].phase = "snapshot"
    /\ effects' = [effects EXCEPT ![g].phase = "artifacts", ![g].snap = Len(log[r]),
                                  ![g].over = finished[r]]
    /\ UNCHANGED <<server, choice>>

\* The five reads of Promise.all; only the bundle tells versions apart.
ReadArtifacts(g) ==
    /\ ~effects[g].aborted /\ effects[g].phase = "artifacts"
    /\ effects' = [effects EXCEPT ![g].phase = "apply", ![g].bundle = rev[effects[g].run]]
    /\ UNCHANGED <<server, choice>>

\* The card is mounted anew when its key changes; its edits then begin from the
\* bundle, and stay what they are as long as the key does.
Mounted(r, version, bundle) ==
    IF bundle = 0 THEN NoCard
    ELSE IF card.key = version THEN card
    ELSE [key |-> version, base |-> bundle, of |-> r, carried |-> FALSE]

\* What a refresh that was answered sets, and whether it goes round again.
Show(g) ==
    LET e == effects[g]
        version == bundleVersion(e.run, e.snap)
        bundle == IF version = 0 THEN 0 ELSE e.bundle
        previous == IF shown.run = e.run THEN shown.events ELSE {}
        again == e.pending /\ ~e.over
        f == [Ended(e) EXCEPT !.pending = FALSE, !.phase = IF again THEN "snapshot" ELSE "idle"]
    IN
    /\ shown' = [run |-> e.run, events |-> mergeEvents(previous, 1..e.snap), done |-> e.over,
                 bundle |-> bundle, version |-> version]
    /\ card' = Mounted(e.run, version, bundle)
    /\ leftover' = NoRun
    /\ effects' = [effects EXCEPT ![g] = IF e.over THEN Aborted(f) ELSE f]

\* Mutant: the answers are shown without looking at the signal.
ApplyAlways(g) ==
    /\ effects[g].phase = "apply"
    /\ Show(g)
    /\ UNCHANGED <<server, selected, cur, error, failures, missed>>

\* The answers of a live effect are shown.
Apply(g) ==
    /\ effects[g].phase = "apply" /\ ~effects[g].aborted
    /\ Show(g)
    /\ UNCHANGED <<server, selected, cur, error, failures, missed>>

\* A refresh of an aborted effect ends without a trace.
Discard(g) ==
    /\ effects[g].aborted /\ effects[g].phase # "idle"
    /\ effects' = [effects EXCEPT ![g] = Ended(@)]
    /\ UNCHANGED <<server, choice>>

\* A request of the refresh fails: the message is shown and nothing asks again,
\* also when another refresh was pending.
RefreshFails(g) ==
    /\ ~effects[g].aborted /\ effects[g].phase \in {"snapshot", "artifacts"}
    /\ Failing
    /\ error' = TRUE
    /\ effects' = [effects EXCEPT ![g] = Ended(@)]
    /\ UNCHANGED <<server, selected, cur, onScreen, missed>>

-----------------------------------------------------------------------------

Effect(g) ==
    \/ Connect(g) \/ Unauthorized(g) \/ Break(g) \/ Receive(g)
    \/ ReadSnapshot(g) \/ ReadArtifacts(g) \/ Apply(g) \/ Discard(g) \/ RefreshFails(g)

RunViewNext ==
    \/ \E r \in Followed : WriteBundle(r) \/ Finish(r) \/ Select(r)
    \/ \E r \in Followed \cup {NoRun} : Restore(r)
    \/ \E r \in Followed, kind \in Kinds : Publish(r, kind)
    \/ Deselect \/ Accept \/ ResearchAgain \/ Renew
    \/ \E g \in DOMAIN effects : Effect(g)

\* The browser goes on reading and reconnecting, and the server answers it.
Follows(g) == Connect(g) \/ Receive(g) \/ ReadSnapshot(g) \/ ReadArtifacts(g) \/ Apply(g)

RunViewFairness == WF_runViewVars(\E g \in DOMAIN effects : Follows(g))

RunViewSpec == RunViewInit /\ [][RunViewNext]_runViewVars /\ RunViewFairness

-----------------------------------------------------------------------------

Live(g) == ~effects[g].aborted

\* Types, and what the component relies on: at most one effect is not aborted,
\* and it follows the selected run.
RunViewTypeOK ==
    /\ \A r \in Followed : log[r] \in Seq(Kinds) /\ rev[r] \in 0..MaxLog[r]
    /\ shown.run \in Followed \cup {NoRun}
    /\ shown.run # NoRun => shown.events \subseteq Published(shown.run)
    /\ \A g \in DOMAIN effects : Live(g) => g = cur /\ effects[g].run = selected

\* What is shown is of the run that is selected: an answer to a question asked for
\* another run, or before New Job, is never shown (the signal tests of refresh and of
\* the stream).  Only a restore that selects another run leaves the one it found on the
\* screen, until the first answer for the selected run replaces it for good.
ShownIsSelected == shown.run \in {NoRun, selected, leftover}

\* A refresh is not forgotten: if the live effect has received an event that
\* needs a snapshot and the one last shown is older than it, a refresh that will
\* read it is under way or pending, unless one failed and said so (inFlight and
\* pending of refresh).
RefreshIsNotForgotten ==
    \A g \in DOMAIN effects :
        LET e == effects[g]
            needed == {i \in e.seen : eventNeedsSnapshot(log[e.run][i])}
        IN Live(g) /\ ~error =>
            \A i \in needed :
                \/ shown.run = e.run /\ shown.version >= bundleVersion(e.run, i)
                   /\ (log[e.run][i] = "done" => shown.done)
                \/ e.phase = "snapshot" \/ e.pending
                \/ e.phase \in {"artifacts", "apply"} /\ e.snap >= i

\* Every event the stream delivered while the run was shown is still shown,
\* through snapshots older than it, reconnections and restarts of the effect.
ReceivedIsShown ==
    \A g \in DOMAIN effects :
        Live(g) /\ shown.run = effects[g].run => effects[g].seen \ missed \subseteq shown.events

\* The edits of the card begin from the bundle of the shown run's completion its key
\* names, or from a newer one, never from an older one: the bundle is read after the
\* snapshot the key is taken from.  Not so a card that a restore has carried over to
\* another run, which stays as it is when that run has the same version.
EditsBeginFromKeyedBundle ==
    card.key # 0 /\ ~card.carried =>
        /\ card.of = shown.run
        /\ card.base >= Cardinality(Completions(shown.run, card.key))

\* The browser shows the selected run and no other, forgets neither a refresh
\* nor an event, and lets edits begin from the bundle its key names (refresh,
\* mergeEvents and the review card's key in workspace.tsx).
RunShown ==
    /\ RunViewTypeOK /\ ShownIsSelected /\ RefreshIsNotForgotten
    /\ ReceivedIsShown /\ EditsBeginFromKeyedBundle

\* Something tells the browser that the selected run has finished: Done was emitted on
\* the bus it is subscribed to, or it is about to connect.
ToldOfEnd(r) ==
    /\ selected = r /\ finished[r]
    /\ (pushed /\ IsDone(r, Len(log[r]))) \/ effects[cur].conn = "down"

\* The run is shown with its result and every event of its stages; the event Done, which
\* follows the status, and hints may be missing.
ResultShown(r) ==
    /\ shown.run = r /\ shown.done
    /\ \A i \in Published(r) : log[r][i] \in {"done", "hint"} \/ i \in shown.events

\* A run that is looked at and ends is shown with its result once the browser is told,
\* or the user was told that a request failed or that the session needs a token, or
\* looks elsewhere.  A browser that stays connected while a worker process ends the
\* run is not told.
DoneIsShown ==
    \A r \in Followed :
        ToldOfEnd(r) ~> \/ selected # r \/ error
                        \/ effects[cur].conn = "closed"
                        \/ ResultShown(r)
=============================================================================
