---------------------------- MODULE WorkerBridge ----------------------------
(***************************************************************************)
(* A bridge from Node to a Python child process that answers one JSON line *)
(* per request, in order.  There are two of them in the code: the provider *)
(* worker's (NativeWorkerBridge, with a timer per request), which serves   *)
(* one user of a provider at a time, and the validation lane's             *)
(* (PythonBridge, without a timer), which serves the calls of all runs at  *)
(* once.  Node learns of a child's lines and of its end by separate        *)
(* events, in either order.  Progress lines of a provider worker go to the *)
(* event bus (RunStore) and change nothing here.                           *)
(***************************************************************************)
EXTENDS Naturals, Sequences

CONSTANTS Calls,      \* the calls, in order: "health", "research" of a provider
          MaxKids,    \* bound on children of one bridge
          MaxDeaths   \* bound on children that die, or fail to start, by themselves

ASSUME BridgeAssumption ==
    {"health", "research"} \subseteq Calls /\ MaxKids \in Nat /\ MaxDeaths \in Nat

VARIABLES kind,    \* "native" or "validation"
          use,     \* the user of a native bridge: how it came to it, how far it is
          current, \* this.child: an index of kids, 0 is undefined
          half,    \* the buffer holds the beginning of a line
          nextId,
          kids,    \* every child spawned: its state, stdin and stdout
          calls,   \* [Calls -> the call's promise, id and child; the answer it got]
          down,    \* an exception nobody catches has ended the Node process
          deaths

bridgeVars == <<kind, use, current, half, nextId, kids, calls, down, deaths>>

Kid(s) == [state |-> s, killed |-> FALSE, hung |-> FALSE, exited |-> FALSE,
           input |-> <<>>, output |-> <<>>]
Unmade == [at |-> "idle", id |-> 0, kid |-> 0, got |-> "none"]

BridgeInit ==
    /\ kind \in {"native", "validation"}
    /\ use \in IF kind = "native" THEN [mode : {"queue", "test", "pipeline"}, at : {"bound"}]
               ELSE {[mode |-> "shared", at |-> "open"]}
    /\ current = 0 /\ half = FALSE /\ nextId = 1 /\ kids = <<>>
    /\ calls = [c \in Calls |-> Unmade]
    /\ down = FALSE /\ deaths = 0

-----------------------------------------------------------------------------
(* Every pending promise is rejected. *)
rejectAll(cs) ==
    [c \in Calls |-> IF cs[c].at = "pending" THEN [cs[c] EXCEPT !.at = "rejected"] ELSE cs[c]]

(* this.child is used as long as it was not killed; a new one may fail to   *)
(* start, which the error event says before anything else happens.          *)
Usable == current # 0 /\ ~kids[current].killed
ensure ==
    IF Usable THEN {[kids |-> kids, child |-> current]}
    ELSE {[kids |-> Append(kids, Kid(s)), child |-> Len(kids) + 1] :
              s \in {"running"} \cup (IF deaths < MaxDeaths THEN {"failed"} ELSE {})}

(* A request: the promise is pending and the line is written.  Nobody       *)
(* listens for errors of stdin, so the write to a child that has died and   *)
(* whose exit was not handled ends the process; the stdin of a child that   *)
(* never started takes the line silently.                                   *)
Written(c) ==
    /\ calls[c].at = "idle" /\ ~down
    /\ Usable \/ Len(kids) < MaxKids
    /\ \E e \in ensure :
          LET k == e.child
              fails == ~Usable /\ e.kids[k].state = "failed"
              cs == [calls EXCEPT ![c] = [Unmade EXCEPT !.at = "pending", !.id = nextId, !.kid = k]]
          IN /\ current' = k
             /\ calls' = IF fails THEN rejectAll(cs) ELSE cs
             /\ kids' = IF e.kids[k].state = "running"
                        THEN [e.kids EXCEPT ![k].input = Append(@, [id |-> nextId, of |-> c])]
                        ELSE e.kids
             /\ down' = (e.kids[k].state = "dead")
             /\ deaths' = IF fails THEN deaths + 1 ELSE deaths
    /\ nextId' = nextId + 1
    /\ UNCHANGED <<kind, half>>

(* NativeWorkerBridge.request by WorkerPoolResearchProvider.ready.          *)
ready ==
    /\ use.mode \in {"queue", "test"} /\ use.at = "bound"
    /\ Written("health")
    /\ use' = [use EXCEPT !.at = "probing"]

\* Mutant: a probe that failed does not keep the Researcher from starting.
ProvenAnyway == calls["health"].at \notin {"idle", "pending"}
(* The provider was found ready. *)
Proven == calls["health"].at = "answered"

(* The Researcher: on the queue after a probe that succeeded, in the        *)
(* pipeline at once.                                                        *)
research ==
    /\ \/ use.mode = "queue" /\ use.at = "probing" /\ Proven
       \/ use.mode = "pipeline" /\ use.at = "bound"
    /\ Written("research")
    /\ use' = [use EXCEPT !.at = "researching"]

(* PythonBridge.call, of any run, at any time before the shutdown. *)
call(c) ==
    /\ kind = "validation" /\ use.at = "open"
    /\ Written(c)
    /\ UNCHANGED use

-----------------------------------------------------------------------------
(* The child. *)
Takes(k) == kids[k].state = "running" /\ ~kids[k].hung /\ kids[k].input # <<>> /\ ~down
Answered(k, ok) ==
    LET q == Head(kids[k].input)
    IN kids' = [kids EXCEPT ![k].input = Tail(@),
                            ![k].output = Append(@, [whole |-> TRUE, id |-> q.id, of |-> q.of, ok |-> ok])]

(* serve of _worker_common.py: one line out for one line in, an error too.  *)
serve(k) ==
    /\ kind = "native" /\ Takes(k)
    /\ \E ok \in BOOLEAN : Answered(k, ok)
    /\ UNCHANGED <<kind, use, current, half, nextId, calls, down, deaths>>

(* The same loop of validation/rpc.py. *)
main(k) ==
    /\ kind = "validation" /\ Takes(k)
    /\ \E ok \in BOOLEAN : Answered(k, ok)
    /\ UNCHANGED <<kind, use, current, half, nextId, calls, down, deaths>>

(* A request that the child never gets done with. *)
Hang(k) ==
    /\ Takes(k)
    /\ kids' = [kids EXCEPT ![k].hung = TRUE]
    /\ UNCHANGED <<kind, use, current, half, nextId, calls, down, deaths>>

(* It ends: killed, or by itself, perhaps with a line half written. *)
Ends(k) ==
    /\ kids[k].state = "running" /\ ~down
    /\ kids[k].killed \/ deaths < MaxDeaths
    /\ deaths' = IF kids[k].killed THEN deaths ELSE deaths + 1
    /\ \E torn \in {<<>>} \cup (IF kids[k].input = <<>> THEN {} ELSE {<<[whole |-> FALSE]>>}) :
          kids' = [kids EXCEPT ![k].state = "dead", ![k].output = @ \o torn]
    /\ UNCHANGED <<kind, use, current, half, nextId, calls, down>>

-----------------------------------------------------------------------------
(* Events of the Node process. *)
Line(k) == Head(kids[k].output)
Consumed(k) == kids' = [kids EXCEPT ![k].output = Tail(@)]

(* The promise that waits under the line's id is settled. *)
Settled(k) ==
    [c \in Calls |->
        IF calls[c].at = "pending" /\ calls[c].id = Line(k).id
        THEN [calls[c] EXCEPT !.at = IF Line(k).ok THEN "answered" ELSE "failed",
                              !.got = Line(k).of]
        ELSE calls[c]]

(* stdout of a provider worker: what does not parse is skipped. *)
onNativeData(k) ==
    /\ kind = "native" /\ ~down /\ kids[k].output # <<>>
    /\ Consumed(k)
    /\ half' = ~Line(k).whole
    /\ calls' = IF half \/ ~Line(k).whole THEN calls ELSE Settled(k)
    /\ UNCHANGED <<kind, use, current, nextId, down, deaths>>

(* stdout of a validation worker: JSON.parse throws in the listener. *)
onValidationData(k) ==
    /\ kind = "validation" /\ ~down /\ kids[k].output # <<>>
    /\ Consumed(k)
    /\ half' = ~Line(k).whole
    /\ calls' = IF half \/ ~Line(k).whole THEN calls ELSE Settled(k)
    /\ down' = (half /\ Line(k).whole)
    /\ UNCHANGED <<kind, use, current, nextId, deaths>>

Noticed(k) ==
    /\ ~down /\ kids[k].state = "dead" /\ ~kids[k].exited
    /\ kids' = [kids EXCEPT ![k].exited = TRUE]

(* exit of a provider worker, whichever child is this.child by now. *)
onNativeExit(k) ==
    /\ kind = "native" /\ Noticed(k)
    /\ calls' = rejectAll(calls)
    /\ current' = 0
    /\ UNCHANGED <<kind, use, half, nextId, down, deaths>>

\* Mutant: the calls of the child that ended are left pending.
ExitKeepsPending(k) ==
    /\ kind = "validation" /\ Noticed(k)
    /\ current' = 0
    /\ UNCHANGED <<kind, use, calls, half, nextId, down, deaths>>

(* exit of a validation worker. *)
onValidationExit(k) ==
    /\ kind = "validation" /\ Noticed(k)
    /\ calls' = rejectAll(calls)
    /\ current' = 0
    /\ UNCHANGED <<kind, use, half, nextId, down, deaths>>

(* this.child is sent SIGTERM, and forgotten. *)
Killed == IF Usable THEN [kids EXCEPT ![current].killed = (kids[current].state # "failed")] ELSE kids

(* The timer of a request: it kills whatever this.child is. *)
onTimeout(c) ==
    /\ kind = "native" /\ ~down /\ calls[c].at = "pending"
    /\ calls' = [calls EXCEPT ![c].at = "timedout"]
    /\ kids' = Killed
    /\ current' = IF Usable THEN 0 ELSE current
    /\ UNCHANGED <<kind, use, half, nextId, down, deaths>>

(* The user is done: the probe of a test has ended, the run is released, or *)
(* the probe of a run has failed.  The pipeline never closes its provider.  *)
Finished ==
    \/ use.mode = "test" /\ use.at = "probing" /\ calls["health"].at \notin {"idle", "pending"}
    \/ use.mode = "queue" /\ use.at = "probing" /\ calls["health"].at \notin {"idle", "pending", "answered"}
    \/ use.mode = "queue" /\ use.at = "researching" /\ calls["research"].at # "pending"
closeNative ==
    /\ ~down /\ Finished
    /\ kids' = Killed /\ current' = 0
    /\ calls' = rejectAll(calls)
    /\ use' = [use EXCEPT !.at = "closed"]
    /\ UNCHANGED <<kind, half, nextId, down, deaths>>

(* The lanes are closed at shutdown; the exit event rejects what is pending. *)
closeValidation ==
    /\ kind = "validation" /\ ~down /\ use.at = "open"
    /\ kids' = Killed /\ current' = 0
    /\ use' = [use EXCEPT !.at = "closed"]
    /\ UNCHANGED <<kind, half, nextId, calls, down, deaths>>

-----------------------------------------------------------------------------
OnEvent(k) == onNativeData(k) \/ onValidationData(k) \/ onNativeExit(k) \/ onValidationExit(k)

BridgeNext ==
    \/ ready \/ research \/ closeNative \/ closeValidation
    \/ \E c \in Calls : call(c) \/ onTimeout(c)
    \/ \E k \in DOMAIN kids : serve(k) \/ main(k) \/ Hang(k) \/ Ends(k) \/ OnEvent(k)

(* Children that do not hang go on and killed ones end; Node delivers       *)
(* events and timers, and a user that holds a provider goes on with it.     *)
BridgeFairness ==
    /\ WF_bridgeVars(\E k \in DOMAIN kids : serve(k) \/ main(k) \/ (kids[k].killed /\ Ends(k)))
    /\ WF_bridgeVars(\/ \E k \in DOMAIN kids : OnEvent(k)
                     \/ \E c \in Calls : onTimeout(c)
                     \/ research \/ closeNative)

BridgeSpec == BridgeInit /\ [][BridgeNext]_bridgeVars /\ BridgeFairness

-----------------------------------------------------------------------------
(* Values of the state: a promise is pending under the id it was given. *)
BridgeTypeOK ==
    /\ current \in 0..Len(kids) /\ nextId \in Nat /\ half \in BOOLEAN /\ down \in BOOLEAN
    /\ \A c \in Calls :
          /\ calls[c].at \in {"idle", "pending", "answered", "failed", "rejected", "timedout"}
          /\ calls[c].at # "idle" => calls[c].id \in 1..(nextId - 1) /\ calls[c].kid \in DOMAIN kids

(* A call is answered with the answer to its own question, although lines   *)
(* of a child that was killed or has died are read after its successor was  *)
(* started.                                                                 *)
AnswerIsOwn == \A c \in Calls : calls[c].at \in {"answered", "failed"} => calls[c].got = c

(* A call is rejected only if the child it was written to is gone or was    *)
(* closed: the exit of one child never ends the calls of another, although  *)
(* the handler does not look whose exit it is.                              *)
RejectedIsOwn ==
    \A c \in Calls : calls[c].at = "rejected" =>
        kids[calls[c].kid].state # "running" \/ kids[calls[c].kid].killed

(* No child runs that nobody refers to any more and nobody has killed.      *)
NoneLeaked ==
    ~down => \A k \in DOMAIN kids : kids[k].state = "running" => k = current \/ kids[k].killed

(* What a bridge answers, rejects and leaves running is its own, through    *)
(* time-outs, deaths and restarts of the child (worker-bridge.ts,           *)
(* python-bridge.ts).                                                       *)
BridgeIsSound == BridgeTypeOK /\ AnswerIsOwn /\ RejectedIsOwn /\ NoneLeaked

(* Every call ends, and a provider that was closed leaves no process behind *)
(* (the timers of request, the exit listeners and close): again and again   *)
(* nothing is under way.  A validation call has no timer: it waits for ever *)
(* if its child hangs or never started.                                     *)
CallEnds ==
    []<>(\/ down
         \/ /\ \A c \in Calls : calls[c].at = "pending" =>
                   kind = "validation" /\ (kids[calls[c].kid].hung \/ kids[calls[c].kid].state = "failed")
            /\ use.at = "closed" => \A k \in DOMAIN kids : kids[k].state # "running")
=============================================================================
