------------------------------ MODULE MCWebView ------------------------------
(***************************************************************************)
(* The two halves of the browser's workspace, each against its server: the *)
(* chat and the saved selection (part "chat"), and the run that is         *)
(* followed (part "run").  They share no state the properties look at, so  *)
(* each part is explored on its own.                                       *)
(***************************************************************************)
EXTENDS ChatView, RunView, TLC

CONSTANTS f1, f2

VARIABLE part

MCFollowed == {f1, f2}

\* The second run never publishes: it is there to be switched to.
MCMaxLog == f1 :> 3 @@ f2 :> 0

\* A server that runs the stages itself pushes every event: that of Research Again
\* stands for the others that ask for no snapshot.  Where a worker runs them, two
\* events tell what is pushed from what is not, and a hint stands for what is;
\* there no restore meets a run that is shown.
MCLog(events) ==
    IF pushed THEN \A i \in DOMAIN events : events[i] \notin {"work", "hint"}
    ELSE Len(events) <= 2 /\ \A i \in DOMAIN events : events[i] # "again"

MCInit == part \in {"chat", "run"} /\ ChatInit /\ RunViewInit /\ (part = "chat" => pushed)

MCNext ==
    /\ UNCHANGED part
    /\ \/ part = "chat" /\ ChatNext /\ UNCHANGED runViewVars
       \/ part = "run" /\ RunViewNext /\ UNCHANGED chatVars
    /\ \A r \in Followed : MCLog(log'[r])
    /\ ~pushed => leftover' = NoRun

MCSpec == MCInit /\ [][MCNext]_<<part, chatVars, runViewVars>> /\ RunViewFairness
=============================================================================
