---------------------------- MODULE WorkspaceChat ----------------------------
(***************************************************************************)
(* Chat of the workspace API: a request stores its input, is routed over   *)
(* the models of the workspace with failover, and stores the answer        *)
(* together with a usage event.  Administrators meanwhile rotate and       *)
(* revoke the provider credential, change models and archive the           *)
(* conversation.  A request runs on the event loop of one server process   *)
(* and gives it up only while it waits for a provider; an administrator's  *)
(* request runs in a thread.  Every request has one database session: it   *)
(* reads first and writes in one transaction at the end, so what it has    *)
(* read may have changed, and only the unique constraints tell.            *)
(***************************************************************************)
EXTENDS Integers, FiniteSets, Sequences, SequencesExt

CONSTANTS
    Requests,      \* chat requests 1..n, begun in this order
    Headers,       \* the [Requests -> X-Request-ID header], a client may reuse one
    Loop,          \* [Requests -> the server process that serves the request]
    Admins,        \* administrators' requests 1..n, begun in this order
    Models,        \* rows of model_configurations that may exist
    Weight, Priority, Rank,  \* [Models -> Nat], Rank is the order of the row ids
    NeedsKey,      \* models whose client refuses to run without a credential
    Untimed,       \* models whose client is made without a timeout (Gemini)
    MaxVersion,    \* bound on the versions of the credential
    RequestLimit,  \* monthly_request_limit of the subscription
    MaxInFlight,   \* bound on the chat requests served at once
    MaxCalls,      \* bound on the requests of all kinds
    MaxDeaths      \* bound on the deaths of a server process

ASSUME ChatAssumption ==
    /\ IsFiniteSet(Requests) /\ IsFiniteSet(Models) /\ MaxVersion \in Nat \ {0}
    /\ Weight \in [Models -> Nat \ {0}] /\ Priority \in [Models -> Nat]
    /\ Rank \in [Models -> Nat] /\ \A m, n \in Models : Rank[m] = Rank[n] => m = n
    /\ RequestLimit \in Nat \ {0} /\ MaxInFlight \in Nat \ {0}

VARIABLES
    cred,      \* [version -> status of the row of the credential, or "none"]
    expired,   \* versions whose expires_at has passed
    model,     \* [Models -> row: bound version (0: none), availability, exists]
    weights,   \* [server process -> [Models -> the router's current weight]]
    active,    \* the conversation is not archived
    msgs,      \* messages of the conversation; the sequence number is the index
    usage,     \* rows of usage_events
    req,       \* [Requests -> state of the request]
    adm,       \* [Admins -> state of the administrator's request]
    deaths,
    RequestId, \* [Requests -> the X-Request-ID header]
    sent,      \* history: <<request, version>> of credentials sent to a provider
    dead       \* history: [Requests -> versions revoked before it began]

chatVars == <<cred, expired, model, weights, active, msgs, usage, req, adm, deaths, RequestId, sent, dead>>

Versions == 1..MaxVersion
Loops == {Loop[r] : r \in Requests}
Availability == {"UNKNOWN", "AVAILABLE", "DEGRADED", "UNAVAILABLE"}
Settable == {"AVAILABLE", "UNAVAILABLE"}   \* what an administrator sets
NoRow == [exists |-> FALSE, cred |-> 0, avail |-> "UNKNOWN"]
Idle == [at |-> "idle", num |-> 0, rows |-> <<>>, order |-> <<>>, health |-> <<>>, reached |-> FALSE]
AdmIdle == [at |-> "idle", op |-> "none", v |-> 0, m |-> "none", seen |-> "none"]

(* A workspace with an active credential and models; one model may be new. *)
ChatInit ==
    /\ cred = [v \in Versions |-> IF v = 1 THEN "ACTIVE" ELSE "none"]
    /\ expired = {}
    /\ model \in [Models -> {NoRow, [exists |-> TRUE, cred |-> 1, avail |-> "UNKNOWN"]}]
    /\ \E m \in Models : model[m].exists
    /\ weights = [l \in Loops |-> [m \in Models |-> 0]]
    /\ active = TRUE /\ msgs = <<>> /\ usage = {}
    /\ req = [r \in Requests |-> Idle]
    /\ adm = [a \in Admins |-> AdmIdle]
    /\ RequestId \in Headers
    /\ deaths = 0 /\ sent = {} /\ dead = [r \in Requests |-> {}]

-----------------------------------------------------------------------------
(* A request between two awaits holds the event loop of its process. *)
Segments == {"input", "route", "try", "answer", "fail"}
Ended == {"ok", "quota", "archived", "conflict", "error", "killed"}
InFlight == {r \in Requests : req[r].at \notin Ended \cup {"idle"}}
Calls == Cardinality({r \in Requests : req[r].at # "idle"}) + Cardinality({a \in Admins : adm[a].at # "idle"})
LoopFree(r) == \A q \in Requests \ {r} : Loop[q] = Loop[r] => req[q].at \notin Segments
End(r, how) == [req EXCEPT ![r] = [Idle EXCEPT !.at = how, !.num = req[r].num,
                                               !.reached = req[r].reached]]
MessageBy(r, role) == [role |-> role, req |-> r]
Recorded(id) == \E e \in usage : RequestId[e.req] = id

(* assert_quota counts the events recorded so far. *)
QuotaLeft == Cardinality(usage) < RequestLimit

(* complete up to _next_sequence of the input: the quota, the conversation. *)
Begin(r) ==
    /\ req[r].at = "idle" /\ LoopFree(r)
    /\ \A q \in Requests : q < r => req[q].at # "idle"
    /\ Cardinality(InFlight) < MaxInFlight /\ Calls < MaxCalls
    /\ dead' = [dead EXCEPT ![r] = {v \in Versions : cred[v] = "REVOKED"}]
    /\ req' = CASE ~QuotaLeft -> End(r, "quota")
                [] QuotaLeft /\ ~active -> End(r, "archived")
                [] OTHER -> [req EXCEPT ![r].at = "input", ![r].num = Len(msgs) + 1]
    /\ UNCHANGED <<cred, expired, model, weights, active, msgs, usage, adm, deaths, RequestId, sent>>

(* The row (conversation, sequence) is unique: a number that is taken fails. *)
Inserted(r, role) == req[r].num = Len(msgs) + 1 /\ msgs' = Append(msgs, MessageBy(r, role))

WriteInput(r) ==
    /\ req[r].at = "input"
    /\ \/ Inserted(r, "user") /\ req' = [req EXCEPT ![r].at = "route"]
       \/ req[r].num <= Len(msgs) /\ req' = End(r, "conflict") /\ UNCHANGED msgs
    /\ UNCHANGED <<cred, expired, model, weights, active, usage, adm, deaths, RequestId, sent, dead>>

-----------------------------------------------------------------------------
(* The router. *)
Candidates == {m \in Models : model[m].exists /\ model[m].avail # "UNAVAILABLE"}
Tier(ms, p) == {m \in ms : Priority[m] = p}

(* The sum of the weights: each route holds as many tickets as its weight.  *)
Tickets(w, tier) == UNION {{m} \X (1..w[m]) : m \in tier}
TotalWeight(w, tier) == Cardinality(Tickets(w, tier))

\* Mutant: the chosen route pays its own weight instead of the total.
AfterChoicePaysOwn(w, current, tier, chosen) ==
    [m \in DOMAIN current |-> IF m \notin tier THEN 0
                              ELSE current[m] + w[m] - (IF m = chosen THEN w[m] ELSE 0)]

(* Smooth weighted round robin in one tier: every route gains its weight,   *)
(* the route with the largest current weight is chosen and pays the total.  *)
(* A route that has left the tier is forgotten.                             *)
AfterChoice(w, current, tier, chosen) ==
    [m \in DOMAIN current |-> IF m \notin tier THEN 0
                              ELSE current[m] + w[m] - (IF m = chosen THEN TotalWeight(w, tier) ELSE 0)]

Chosen(w, current, tier) ==
    {c \in tier : \A m \in tier : current[m] + w[m] <= current[c] + w[c]}

(* _weighted_order: the tiers by priority; in a tier the chosen route first, *)
(* then the others by weight and row id.                                    *)
Precedes(pick, a, b) ==
    \/ Priority[a] < Priority[b]
    \/ /\ Priority[a] = Priority[b] /\ b # pick[Priority[b]]
       /\ \/ a = pick[Priority[a]] \/ Weight[a] > Weight[b]
          \/ Weight[a] = Weight[b] /\ Rank[a] < Rank[b]

Orders(ms, pick) ==
    LET positions == 1..Cardinality(ms)
    IN {o \in [positions -> ms] : \A i, j \in positions : i < j => Precedes(pick, o[i], o[j])}

(* Each tier is rebalanced on its own. *)
Rebalanced(current, ms, pick) ==
    [m \in Models |-> IF Tier(ms, Priority[m]) = {} THEN current[m]
                      ELSE AfterChoice(Weight, [x \in Tier(Models, Priority[m]) |-> current[x]],
                                       Tier(ms, Priority[m]), pick[Priority[m]])[m]]

(* What the query of the candidates loads of a model and its credential. *)
Loaded(m) == [cred |-> model[m].cred, avail |-> model[m].avail,
              status |-> IF model[m].cred = 0 THEN "none" ELSE cred[model[m].cred]]

(* _candidates and _weighted_order. *)
Route(r) ==
    /\ req[r].at = "route"
    /\ IF Candidates = {} THEN req' = [req EXCEPT ![r].at = "fail"] /\ UNCHANGED weights
       ELSE \E pick \in [{Priority[m] : m \in Candidates} -> Candidates] :
              /\ \A p \in DOMAIN pick : pick[p] \in Chosen(Weight, weights[Loop[r]], Tier(Candidates, p))
              /\ weights' = [weights EXCEPT ![Loop[r]] = Rebalanced(@, Candidates, pick)]
              /\ \E order \in Orders(Candidates, pick) :
                    req' = [req EXCEPT ![r].at = "try", ![r].order = order,
                                       ![r].rows = [m \in Candidates |-> Loaded(m)]]
    /\ UNCHANGED <<cred, expired, model, active, msgs, usage, adm, deaths, RequestId, sent, dead>>

Head1(r) == Head(req[r].order)

(* _health sets the availability of the row and adds a snapshot; both are   *)
(* written when the session is flushed.                                     *)
Marked(r, status, at) ==
    [req EXCEPT ![r].at = at, ![r].order = Tail(@),
                ![r].health = [m \in DOMAIN @ \cup {Head1(r)} |->
                                 IF m = Head1(r) THEN status ELSE @[m]]]

(* The last failure is raised once no candidate is left. *)
AfterFailure(r) == IF Len(req[r].order) = 1 THEN "fail" ELSE "try"

(* The checks before a provider is called: the credential as loaded is      *)
(* active and has not expired, or is not needed.  A provider kind without a *)
(* client fails like a missing credential.                                  *)
Usable(r) ==
    LET m == Head1(r) IN
    /\ req[r].rows[m].cred = 0 => m \notin NeedsKey
    /\ req[r].rows[m].cred # 0 => /\ req[r].rows[m].status = "ACTIVE"
                                  /\ req[r].rows[m].cred \notin expired

Try(r) ==
    /\ req[r].at = "try"
    /\ IF Usable(r)
       THEN /\ req' = [req EXCEPT ![r].at = "await", ![r].reached = TRUE]
            /\ sent' = sent \cup {<<r, req[r].rows[Head1(r)].cred>>}
       ELSE req' = Marked(r, "UNAVAILABLE", AfterFailure(r)) /\ UNCHANGED sent
    /\ UNCHANGED <<cred, expired, model, weights, active, msgs, usage, adm, deaths, RequestId, dead>>

Answered(r) ==
    /\ req[r].at = "await" /\ LoopFree(r)
    /\ req' = [Marked(r, "AVAILABLE", "answer") EXCEPT ![r].num = Len(msgs) + 1]
    /\ UNCHANGED <<cred, expired, model, weights, active, msgs, usage, adm, deaths, RequestId, sent, dead>>

\* Mutant: a retryable failure is tried again on the same route.
FailedRetries(r, status) ==
    /\ req[r].at = "await" /\ LoopFree(r)
    /\ req' = IF status = "DEGRADED" THEN [req EXCEPT ![r].at = "try"]
              ELSE Marked(r, status, AfterFailure(r))
    /\ UNCHANGED <<cred, expired, model, weights, active, msgs, usage, adm, deaths, RequestId, sent, dead>>

(* A failure, retryable (429, 5xx, no status, timeout) or not, fails over. *)
Failed(r, status) ==
    /\ req[r].at = "await" /\ LoopFree(r)
    /\ req' = Marked(r, status, AfterFailure(r))
    /\ UNCHANGED <<cred, expired, model, weights, active, msgs, usage, adm, deaths, RequestId, sent, dead>>

(* The session updates the columns whose value differs from the loaded one. *)
WithHealth(r) ==
    [m \in Models |-> IF m \in DOMAIN req[r].health /\ req[r].health[m] # req[r].rows[m].avail
                      THEN [model[m] EXCEPT !.avail = req[r].health[m]] ELSE model[m]]

\* Mutant: the answer is committed before the usage event.
WriteAnswerFirst(r) ==
    /\ req[r].at = "answer"
    /\ \/ /\ Inserted(r, "assistant")
          /\ usage' = IF Recorded(RequestId[r]) THEN usage ELSE usage \cup {[req |-> r, status |-> "SUCCESS"]}
          /\ model' = WithHealth(r)
          /\ req' = End(r, "ok")
       \/ req[r].num <= Len(msgs) /\ req' = End(r, "conflict") /\ UNCHANGED <<msgs, usage, model>>
    /\ UNCHANGED <<cred, expired, weights, active, adm, deaths, RequestId, sent, dead>>

(* The answer, its usage event and the health are one transaction; a number *)
(* or a request id that is taken rolls all of it back.                      *)
WriteAnswer(r) ==
    /\ req[r].at = "answer"
    /\ \/ /\ ~Recorded(RequestId[r])
          /\ Inserted(r, "assistant")
          /\ usage' = usage \cup {[req |-> r, status |-> "SUCCESS"]}
          /\ model' = WithHealth(r)
          /\ req' = End(r, "ok")
       \/ /\ Recorded(RequestId[r]) \/ req[r].num <= Len(msgs)
          /\ req' = End(r, "conflict") /\ UNCHANGED <<msgs, usage, model>>
    /\ UNCHANGED <<cred, expired, weights, active, adm, deaths, RequestId, sent, dead>>

WriteError(r) ==
    /\ req[r].at = "fail"
    /\ \/ /\ ~Recorded(RequestId[r])
          /\ usage' = usage \cup {[req |-> r, status |-> "ERROR"]}
          /\ model' = WithHealth(r)
          /\ req' = End(r, "error")
       \/ Recorded(RequestId[r]) /\ req' = End(r, "conflict") /\ UNCHANGED <<usage, model>>
    /\ UNCHANGED <<cred, expired, weights, active, msgs, adm, deaths, RequestId, sent, dead>>

(* A server process dies: its requests end where they are, the router's     *)
(* weights are lost; what was committed stays.                              *)
Die(l) ==
    /\ deaths < MaxDeaths /\ deaths' = deaths + 1
    /\ \E r \in InFlight : Loop[r] = l
    /\ req' = [r \in Requests |-> IF Loop[r] = l /\ r \in InFlight THEN End(r, "killed")[r] ELSE req[r]]
    /\ weights' = [weights EXCEPT ![l] = [m \in Models |-> 0]]
    /\ UNCHANGED <<cred, expired, model, active, msgs, usage, adm, RequestId, sent, dead>>

-----------------------------------------------------------------------------
(* Administrators: a request has read and tested, and writes later. *)
Asked(a, op, v, m, seen) ==
    /\ adm[a].at = "idle" /\ Calls < MaxCalls
    /\ \A b \in Admins : b < a => adm[b].at # "idle"
    /\ adm' = [adm EXCEPT ![a] = [at |-> "tested", op |-> op, v |-> v, m |-> m, seen |-> seen]]
    /\ UNCHANGED <<cred, expired, model, weights, active, msgs, usage, req, deaths, RequestId, sent, dead>>

AskCreateCredential(a) ==
    /\ \A v \in Versions : cred[v] # "ACTIVE"
    /\ Asked(a, "create", 1, "none", "none")
AskRotate(a, v) == v < MaxVersion /\ cred[v] = "ACTIVE" /\ Asked(a, "rotate", v, "none", cred[v])
AskRevoke(a, v) == cred[v] # "none" /\ Asked(a, "revoke", v, "none", cred[v])
AskCreateModel(a, m, v) == (v # 0 => cred[v] = "ACTIVE") /\ Asked(a, "model", v, m, "none")
AskAvailability(a, m, s) == model[m].exists /\ Asked(a, s, 0, m, model[m].avail)
AskArchive(a) == Asked(a, "archive", 0, "none", "none")

Written(a, op) == adm[a].at = "tested" /\ adm[a].op = op /\ adm' = [adm EXCEPT ![a] = [AdmIdle EXCEPT !.at = "done"]]
AdmKeeps == UNCHANGED <<expired, weights, msgs, usage, req, deaths, RequestId, sent, dead>>

(* create_provider_credential: version 1 of the name, unique for good. *)
CreateCredential(a) ==
    /\ Written(a, "create")
    /\ cred' = IF cred[1] = "none" THEN [cred EXCEPT ![1] = "ACTIVE"] ELSE cred
    /\ UNCHANGED <<model, active>> /\ AdmKeeps

(* rotate_provider_credential: retire, insert the successor, rebind models.  *)
(* The successor's version is unique, so the second of two rotations fails.  *)
RotateCredential(a) ==
    LET v == adm[a].v IN
    /\ Written(a, "rotate")
    /\ IF cred[v + 1] = "none"
       THEN /\ cred' = [cred EXCEPT ![v] = "RETIRED", ![v + 1] = "ACTIVE"]
            /\ model' = [m \in Models |-> IF model[m].cred = v THEN [model[m] EXCEPT !.cred = v + 1] ELSE model[m]]
       ELSE UNCHANGED <<cred, model>>
    /\ UNCHANGED active /\ AdmKeeps

(* revoke_provider_credential: revoke and detach. *)
RevokeCredential(a) ==
    LET v == adm[a].v IN
    /\ Written(a, "revoke")
    /\ cred' = IF adm[a].seen = "REVOKED" THEN cred ELSE [cred EXCEPT ![v] = "REVOKED"]
    /\ model' = [m \in Models |-> IF model[m].cred = v
                                  THEN [model[m] EXCEPT !.cred = 0, !.avail = "UNAVAILABLE"] ELSE model[m]]
    /\ UNCHANGED active /\ AdmKeeps

(* create_model: the route is unique. *)
CreateModel(a) ==
    LET m == adm[a].m IN
    /\ Written(a, "model")
    /\ model' = IF model[m].exists THEN model
                ELSE [model EXCEPT ![m] = [exists |-> TRUE, cred |-> adm[a].v, avail |-> "UNKNOWN"]]
    /\ UNCHANGED <<cred, active>> /\ AdmKeeps

update_availability(a, s) ==
    LET m == adm[a].m IN
    /\ Written(a, s)
    /\ model' = IF adm[a].seen = s THEN model ELSE [model EXCEPT ![m].avail = s]
    /\ UNCHANGED <<cred, active>> /\ AdmKeeps

archive_conversation(a) ==
    /\ Written(a, "archive")
    /\ active' = FALSE
    /\ UNCHANGED <<cred, model>> /\ AdmKeeps

Expire(v) ==
    /\ cred[v] = "ACTIVE" /\ v \notin expired
    /\ expired' = expired \cup {v}
    /\ UNCHANGED <<cred, model, weights, active, msgs, usage, req, adm, deaths, RequestId, sent, dead>>

-----------------------------------------------------------------------------
Serve(r) == WriteInput(r) \/ Route(r) \/ Try(r) \/ WriteAnswer(r) \/ WriteError(r)
Provider(r) == Answered(r) \/ \E s \in {"DEGRADED", "UNAVAILABLE"} : Failed(r, s)
Ask(a) ==
    \/ AskCreateCredential(a) \/ AskArchive(a)
    \/ \E v \in Versions : AskRotate(a, v) \/ AskRevoke(a, v)
    \/ \E m \in Models : \/ \E v \in 0..MaxVersion : AskCreateModel(a, m, v)
                         \/ \E s \in Settable : AskAvailability(a, m, s)
Write(a) ==
    \/ CreateCredential(a) \/ RotateCredential(a) \/ RevokeCredential(a) \/ CreateModel(a)
    \/ archive_conversation(a) \/ \E s \in Settable : update_availability(a, s)

ChatNext ==
    \/ \E r \in Requests : Begin(r) \/ Serve(r) \/ Provider(r)
    \/ \E l \in Loops : Die(l)
    \/ \E a \in Admins : Ask(a) \/ Write(a)
    \/ \E v \in Versions : Expire(v)

(* Some request goes on while one can: the event loops run, and a provider  *)
(* call ends where its client has a timeout, which the Gemini client has    *)
(* not.                                                                     *)
ChatFairness ==
    WF_chatVars(\E r \in Requests :
                    Serve(r) \/ (req[r].at = "await" /\ Head1(r) \notin Untimed /\ Provider(r)))

ChatSpec == ChatInit /\ [][ChatNext]_chatVars /\ ChatFairness

-----------------------------------------------------------------------------
(* The state is well formed: a route in progress has rows for its models,   *)
(* and no model is bound to a version that was never created.               *)
ChatTypeOK ==
    /\ cred \in [Versions -> {"none", "ACTIVE", "RETIRED", "REVOKED"}]
    /\ \A m \in Models : /\ model[m].avail \in Availability
                         /\ model[m].cred # 0 => cred[model[m].cred] # "none"
    /\ \A r \in Requests :
         /\ req[r].at \in Segments \cup Ended \cup {"idle", "await"}
         /\ req[r].at \in {"try", "await"} => /\ req[r].order # <<>>
                                              /\ Range(req[r].order) \subseteq DOMAIN req[r].rows

(* The credential of a name has at most one active version, whatever        *)
(* creations, rotations and revocations run into each other: rotations      *)
(* check the status before they write it and rely on the unique version.    *)
OneActiveVersion == Cardinality({v \in Versions : cred[v] = "ACTIVE"}) <= 1

(* The conversation holds the input of every request that went on to the    *)
(* router exactly once: requests of two processes that took one number do   *)
(* not overwrite each other.                                                *)
NoMessageLost ==
    \A r \in Requests :
        /\ req[r].at \in {"route", "try", "await", "answer", "fail", "ok", "error"}
              => Cardinality({i \in DOMAIN msgs : msgs[i] = MessageBy(r, "user")}) = 1
        /\ req[r].at = "ok" => \E i, j \in DOMAIN msgs : /\ i < j /\ msgs[i] = MessageBy(r, "user")
                                                        /\ msgs[j] = MessageBy(r, "assistant")

(* An answer is in the conversation if and only if it is accounted for.     *)
AnsweredIsBilled ==
    \A r \in Requests : (MessageBy(r, "assistant") \in Range(msgs)) <=> ([req |-> r, status |-> "SUCCESS"] \in usage)

(* A request that reached a provider and has ended is accounted for unless  *)
(* its request id had been used, its number was taken or its process died.  *)
UnbilledHasReason ==
    \A r \in Requests :
        req[r].reached /\ req[r].at \in Ended =>
            \/ \E e \in usage : e.req = r
            \/ \E e \in usage : RequestId[e.req] = RequestId[r]
            \/ req[r].at = "conflict" /\ req[r].num <= Len(msgs)
            \/ req[r].at = "killed"

(* The monthly quota is checked when a request begins and counted when it   *)
(* ends, so it is overrun, but by no more than the requests in flight.      *)
QuotaOverrunBounded == Cardinality(usage) <= RequestLimit + MaxInFlight - 1

(* A credential revoked before a request began is never sent to a provider  *)
(* for it, even when a model was bound to it after the revocation.          *)
RevokedNeverSent == \A p \in sent : p[2] \notin dead[p[1]]

(* Conversation, usage, quota and credentials agree, whatever requests and  *)
(* administrators overlap, fail over, repeat an id or die: no message is   *)
(* lost, an answer is stored if and only if it is billed, what is not      *)
(* billed has one of three reasons, the quota is overrun by a bounded      *)
(* amount, and no revoked credential is sent (chat.py, usage.py, router.py,*)
(* services.py).                                                           *)
ChatAccounted ==
    /\ ChatTypeOK /\ NoMessageLost /\ AnsweredIsBilled /\ UnbilledHasReason
    /\ QuotaOverrunBounded /\ OneActiveVersion /\ RevokedNeverSent

(* Every chat request ends, unless it waits for a provider whose client has *)
(* no timeout: again and again the requests begun are all at such a point.  *)
ChatEnds ==
    []<>(\A r \in Requests : \/ req[r].at \in Ended \cup {"idle"}
                             \/ req[r].at = "await" /\ Head1(r) \in Untimed)
=============================================================================
