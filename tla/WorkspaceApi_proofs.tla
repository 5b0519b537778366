------------------------ MODULE WorkspaceApi_proofs ------------------------
(***************************************************************************)
(* Proofs about the workspace API, for any number of users, slugs,         *)
(* versions, models and overlapping requests: users, workspaces, members   *)
(* and API keys; chat, its routes, its usage and its credentials; the rate *)
(* limiter; and the shares of the routes.                                  *)
(***************************************************************************)
EXTENDS RouteShare, WorkspaceAccess, RateLimit, FiniteSetTheorems, TLAPS

Statuses == {"none", "ACTIVE", "RETIRED", "REVOKED"}
Rights == Roles \cup {"none"}
CallerRecords == [at : {"idle", "tested", "done"},
                  op : {"none", "register", "create", "member", "newkey", "rotate", "revoke"},
                  who : Emails \cup {"none"}, slug : Nat, to : Emails \cup {"none"},
                  role : Rights \cup Statuses, v : Nat]

AccessTypes ==
    /\ users \subseteq Emails /\ owner \in [Slugs -> Emails \cup {"none"}]
    /\ subscribed \subseteq Slugs /\ role \in [Slugs -> [Emails -> Rights]]
    /\ key \in [KeyVersions -> Statuses] /\ call \in [Callers -> CallerRecords]

\* The owner of a workspace is its only member with that role, and a slug nobody owns has
\* no members at all.
OwnerInv ==
    \A s \in Slugs :
        /\ owner[s] = "none" => \A e \in Emails : role[s][e] = "none"
        /\ owner[s] # "none" => /\ s \in subscribed
                                /\ \A e \in Emails : role[s][e] = "OWNER" <=> e = owner[s]

\* Only the last version of the key can be active.
KeyInv ==
    \A v, w \in KeyVersions : v < w /\ key[v] \in {"none", "ACTIVE"} => key[w] = "none"

\* What a handler has tested and nobody can undo before it writes.
TestedOK(x) ==
    x.at = "tested" =>
        /\ x.op \in {"register", "create"} => x.who \in Emails /\ x.slug \in Slugs
        /\ x.op = "member" => /\ x.slug \in Slugs /\ x.to \in Emails /\ owner[x.slug] # "none"
                              /\ x.role \in Roles \ {"OWNER"}
        /\ x.op = "rotate" => x.v \in KeyVersions /\ x.v + 1 \in KeyVersions /\ key[x.v] # "none"
        /\ x.op = "revoke" => x.v \in KeyVersions /\ key[x.v] # "none"

AccessInv ==
    /\ AccessTypes /\ OwnerInv /\ NoOrphanUser /\ KeyInv
    /\ \A c \in Callers : TestedOK(call[c])

LEMMA AskKeeps ==
    ASSUME AccessInv, NEW c \in Callers, NEW op, NEW who, NEW slug, NEW to, NEW r, NEW v,
           Tested(c, op, who, slug, to, r, v),
           [at |-> "tested", op |-> op, who |-> who, slug |-> slug, to |-> to, role |-> r, v |-> v]
               \in CallerRecords,
           TestedOK([at |-> "tested", op |-> op, who |-> who, slug |-> slug, to |-> to,
                     role |-> r, v |-> v])
    PROVE  AccessInv'
  <1> DEFINE x == [at |-> "tested", op |-> op, who |-> who, slug |-> slug, to |-> to,
                   role |-> r, v |-> v]
  <1>1. call' = [call EXCEPT ![c] = x]
        /\ users' = users /\ owner' = owner /\ subscribed' = subscribed /\ role' = role /\ key' = key
    BY DEF Tested
  <1>2. x \in CallerRecords /\ TestedOK(x)
    OBVIOUS
  <1> HIDE DEF x
  <1>3. AccessTypes'
    BY <1>1, <1>2 DEF AccessInv, AccessTypes
  <1>4. OwnerInv' /\ NoOrphanUser' /\ KeyInv'
    BY <1>1 DEF AccessInv, OwnerInv, NoOrphanUser, KeyInv
  <1>5. ASSUME NEW b \in Callers PROVE TestedOK(call[b])'
    <2>1. call'[b] = x \/ call'[b] = call[b]
      BY <1>1 DEF AccessInv, AccessTypes
    <2> QED
      BY <1>1, <1>2, <2>1 DEF AccessInv, TestedOK
  <1> QED
    BY <1>3, <1>4, <1>5 DEF AccessInv

LEMMA AccessAskKeeps ==
    ASSUME AccessInv, NEW c \in Callers, AccessAsk(c)
    PROVE  AccessInv'
  <1>0. PICK e \in Emails :
            \/ AskRegister(c, e) \/ AskCreateKey(c, e)
            \/ \E v \in KeyVersions : AskRotateKey(c, e, v) \/ AskRevokeKey(c, e, v)
            \/ \E s \in Slugs : \/ AskCreate(c, e, s)
                                \/ \E to \in Emails, r \in Roles : AskAddMember(c, e, s, to, r)
    BY DEF AccessAsk
  <1>1. CASE AskRegister(c, e)
    <2>1. PICK s \in Slugs : Tested(c, "register", e, s, "none", "none", 0)
      BY <1>1 DEF AskRegister
    <2>2. [at |-> "tested", op |-> "register", who |-> e, slug |-> s, to |-> "none",
           role |-> "none", v |-> 0] \in CallerRecords
      BY DEF CallerRecords, Slugs, Rights
    <2> QED
      BY <2>1, <2>2, AskKeeps DEF TestedOK
  <1>2. CASE AskCreateKey(c, e)
    <2>1. [at |-> "tested", op |-> "newkey", who |-> e, slug |-> 1, to |-> "none",
           role |-> "none", v |-> 1] \in CallerRecords
      BY DEF CallerRecords, Rights
    <2> QED
      BY <1>2, <2>1, AskKeeps DEF TestedOK, AskCreateKey
  <1>3. ASSUME NEW v \in KeyVersions, AskRotateKey(c, e, v) PROVE AccessInv'
    <2>1. [at |-> "tested", op |-> "rotate", who |-> e, slug |-> 1, to |-> "none",
           role |-> "none", v |-> v] \in CallerRecords
      BY AccessAssumption DEF CallerRecords, Rights
    <2> QED
      BY <1>3, <2>1, AskKeeps DEF TestedOK, AskRotateKey
  <1>4. ASSUME NEW v \in KeyVersions, AskRevokeKey(c, e, v) PROVE AccessInv'
    <2>1. key[v] \in Statuses
      BY DEF AccessInv, AccessTypes
    <2>2. [at |-> "tested", op |-> "revoke", who |-> e, slug |-> 1, to |-> "none",
           role |-> key[v], v |-> v] \in CallerRecords
      BY <2>1, AccessAssumption DEF CallerRecords
    <2> QED
      BY <1>4, <2>2, AskKeeps DEF TestedOK, AskRevokeKey
  <1>5. ASSUME NEW s \in Slugs, AskCreate(c, e, s) PROVE AccessInv'
    <2>1. [at |-> "tested", op |-> "create", who |-> e, slug |-> s, to |-> "none",
           role |-> "none", v |-> 0] \in CallerRecords
      BY DEF CallerRecords, Slugs, Rights
    <2> QED
      BY <1>5, <2>1, AskKeeps DEF TestedOK, AskCreate
  <1>6. ASSUME NEW s \in Slugs, NEW to \in Emails, NEW r \in Roles, AskAddMember(c, e, s, to, r)
        PROVE  AccessInv'
    <2>1. [at |-> "tested", op |-> "member", who |-> e, slug |-> s, to |-> to,
           role |-> r, v |-> 0] \in CallerRecords
      BY DEF CallerRecords, Slugs, Rights
    <2>2. role[s][e] # "none"
      BY <1>6 DEF AskAddMember, human_admin, require_role, ROLE_ORDER
    <2>3. owner[s] # "none"
      BY <2>2 DEF AccessInv, OwnerInv
    <2> QED
      BY <1>6, <2>1, <2>3, AskKeeps DEF TestedOK, AskAddMember
  <1> QED
    BY <1>0, <1>1, <1>2, <1>3, <1>4, <1>5, <1>6

\* A handler's transaction ends its request.
LEMMA CommitFacts ==
    ASSUME AccessInv, NEW c \in Callers, NEW op, Committed(c, op)
    PROVE  /\ call[c] \in CallerRecords /\ call[c].at = "tested" /\ call[c].op = op
           /\ TestedOK(call[c]) /\ call' \in [Callers -> CallerRecords]
           /\ \A b \in Callers : call'[b] = call[b] \/ call'[b].at = "done"
  <1>1. [NewCaller EXCEPT !.at = "done"] \in CallerRecords
        /\ [NewCaller EXCEPT !.at = "done"].at = "done"
    BY DEF NewCaller, CallerRecords, Rights
  <1> QED
    BY <1>1 DEF AccessInv, AccessTypes, Committed

\* The workspace that register and create write, when the slug is still free.
LEMMA NewWorkspaceKeeps ==
    ASSUME AccessInv, NEW c \in Callers, NEW op, Committed(c, op),
           NEW s \in Slugs, NEW e \in Emails, owner[s] = "none", NewWorkspace(s, e),
           users' \in SUBSET (users \cup {e}), key' = key
    PROVE  AccessInv'
  <1>1. /\ owner' = [owner EXCEPT ![s] = e] /\ subscribed' = subscribed \cup {s}
        /\ role' = [role EXCEPT ![s][e] = "OWNER"]
    BY DEF NewWorkspace
  <1>2. /\ owner'[s] = e /\ \A t \in Slugs \ {s} : owner'[t] = owner[t] /\ role'[t] = role[t]
        /\ role'[s][e] = "OWNER" /\ \A d \in Emails \ {e} : role'[s][d] = role[s][d]
    BY <1>1 DEF AccessInv, AccessTypes
  <1>3. AccessTypes'
    <2>1. role' \in [Slugs -> [Emails -> Rights]]
      BY <1>1 DEF AccessInv, AccessTypes, Rights, Roles
    <2>2. owner' \in [Slugs -> Emails \cup {"none"}] /\ subscribed' \subseteq Slugs
          /\ users' \subseteq Emails
      BY <1>1 DEF AccessInv, AccessTypes
    <2>3. call' \in [Callers -> CallerRecords]
      BY CommitFacts
    <2> QED
      BY <2>1, <2>2, <2>3 DEF AccessInv, AccessTypes
  <1>4. e # "none"
    BY AccessAssumption
  <1>5. OwnerInv'
    <2> SUFFICES ASSUME NEW t \in Slugs
                 PROVE  /\ owner'[t] = "none" => \A d \in Emails : role'[t][d] = "none"
                        /\ owner'[t] # "none" => /\ t \in subscribed'
                                                 /\ \A d \in Emails : role'[t][d] = "OWNER" <=> d = owner'[t]
      BY DEF OwnerInv
    <2>1. CASE t = s
      BY <1>1, <1>2, <1>4, <2>1 DEF AccessInv, OwnerInv
    <2>2. CASE t # s
      BY <1>1, <1>2, <2>2 DEF AccessInv, OwnerInv
    <2> QED
      BY <2>1, <2>2
  <1>6. NoOrphanUser'
    BY <1>2, AccessAssumption DEF AccessInv, AccessTypes, NoOrphanUser
  <1>7. KeyInv'
    BY DEF AccessInv, KeyInv
  <1>8. ASSUME NEW b \in Callers PROVE TestedOK(call[b])'
    <2>1. call'[b] = call[b] \/ call'[b].at = "done"
      BY CommitFacts
    <2>2. \A t \in Slugs : owner[t] # "none" => owner'[t] # "none"
      BY <1>2, <1>4
    <2> QED
      BY <2>1, <2>2 DEF AccessInv, TestedOK
  <1> QED
    BY <1>3, <1>5, <1>6, <1>7, <1>8 DEF AccessInv

\* A transaction that writes at most rows of API keys, or nothing.
LEMMA KeyWriteKeeps ==
    ASSUME AccessInv, NEW c \in Callers, NEW op, Committed(c, op),
           UNCHANGED <<users, owner, subscribed, role>>,
           key' \in [KeyVersions -> Statuses], KeyInv',
           \A v \in KeyVersions : key[v] # "none" => key'[v] # "none"
    PROVE  AccessInv'
  <1>1. AccessTypes'
    BY CommitFacts DEF AccessInv, AccessTypes
  <1>2. OwnerInv' /\ NoOrphanUser'
    BY DEF AccessInv, OwnerInv, NoOrphanUser
  <1>3. ASSUME NEW b \in Callers PROVE TestedOK(call[b])'
    <2>1. call'[b] = call[b] \/ call'[b].at = "done"
      BY CommitFacts
    <2> QED
      BY <2>1 DEF AccessInv, TestedOK
  <1> QED
    BY <1>1, <1>2, <1>3 DEF AccessInv

LEMMA NoKeyWritten ==
    ASSUME AccessInv, key' = key
    PROVE  /\ key' \in [KeyVersions -> Statuses] /\ KeyInv'
           /\ \A v \in KeyVersions : key[v] # "none" => key'[v] # "none"
  BY DEF AccessInv, AccessTypes, KeyInv

LEMMA RegisterKeeps ==
    ASSUME AccessInv, NEW c \in Callers, register(c) \/ create(c)
    PROVE  AccessInv'
  <1> DEFINE e == call[c].who
             s == call[c].slug
  <1>1. PICK op \in {"register", "create"} : Committed(c, op)
    BY DEF register, create
  <1>2. e \in Emails /\ s \in Slugs /\ key' = key
    BY <1>1, CommitFacts DEF TestedOK, register, create
  <1>3. CASE owner[s] = "none" /\ NewWorkspace(s, e) /\ users' \in SUBSET (users \cup {e})
    <2> HIDE DEF e, s
    <2> QED
      BY <1>1, <1>2, <1>3, NewWorkspaceKeeps
  <1>4. CASE UNCHANGED <<users, owner, subscribed, role>>
    BY <1>1, <1>2, <1>4, NoKeyWritten, KeyWriteKeeps
  <1> QED
    BY <1>3, <1>4 DEF register, create

LEMMA AddMemberKeeps ==
    ASSUME AccessInv, NEW c \in Callers, add_member(c)
    PROVE  AccessInv'
  <1> DEFINE s == call[c].slug
             e == call[c].to
             r == call[c].role
  <1>1. /\ Committed(c, "member") /\ users' = users /\ owner' = owner
        /\ subscribed' = subscribed /\ key' = key
        /\ role' = IF role[s][e] = "none" THEN [role EXCEPT ![s][e] = r] ELSE role
    BY DEF add_member
  <1>2. s \in Slugs /\ e \in Emails /\ owner[s] # "none" /\ r \in Roles \ {"OWNER"}
    BY <1>1, CommitFacts DEF TestedOK
  <1> HIDE DEF s, e, r
  <1>3. CASE role' = role
    BY <1>1, <1>3, NoKeyWritten, KeyWriteKeeps
  <1>4. CASE role[s][e] = "none" /\ role' = [role EXCEPT ![s][e] = r]
    <2>1. /\ \A t \in Slugs \ {s} : role'[t] = role[t]
          /\ role'[s][e] = r /\ \A d \in Emails \ {e} : role'[s][d] = role[s][d]
      BY <1>2, <1>4 DEF AccessInv, AccessTypes
    <2>2. role' \in [Slugs -> [Emails -> Rights]]
      BY <1>2, <1>4 DEF AccessInv, AccessTypes, Rights
    <2>3. AccessTypes'
      BY <1>1, <2>2, CommitFacts DEF AccessInv, AccessTypes
    <2>4. OwnerInv'
      <3> SUFFICES ASSUME NEW t \in Slugs
                   PROVE  /\ owner[t] = "none" => \A d \in Emails : role'[t][d] = "none"
                          /\ owner[t] # "none" => /\ t \in subscribed
                                                  /\ \A d \in Emails : role'[t][d] = "OWNER" <=> d = owner[t]
        BY <1>1 DEF OwnerInv
      <3>1. CASE t = s
        <4>1. e # owner[s] /\ r # "OWNER"
          BY <1>2, <1>4 DEF AccessInv, OwnerInv
        <4>2. t \in subscribed /\ \A d \in Emails : role[s][d] = "OWNER" <=> d = owner[s]
          BY <1>2, <3>1 DEF AccessInv, OwnerInv
        <4> QED
          BY <1>2, <2>1, <3>1, <4>1, <4>2
      <3>2. CASE t # s
        BY <2>1, <3>2 DEF AccessInv, OwnerInv
      <3> QED
        BY <3>1, <3>2
    <2>5. NoOrphanUser' /\ KeyInv'
      BY <1>1 DEF AccessInv, NoOrphanUser, KeyInv
    <2>6. ASSUME NEW b \in Callers PROVE TestedOK(call[b])'
      <3>1. call'[b] = call[b] \/ call'[b].at = "done"
        BY <1>1, CommitFacts
      <3> QED
        BY <1>1, <3>1 DEF AccessInv, TestedOK
    <2> QED
      BY <2>3, <2>4, <2>5, <2>6 DEF AccessInv
  <1> QED
    BY <1>1, <1>3, <1>4

LEMMA KeyStepsKeep ==
    ASSUME AccessInv, NEW c \in Callers,
           \/ create_workspace_api_key(c) \/ rotate_workspace_api_key(c)
           \/ revoke_workspace_api_key(c)
    PROVE  AccessInv'
  <1>0. key \in [KeyVersions -> Statuses]
        /\ \A v, w \in KeyVersions : v < w /\ key[v] \in {"none", "ACTIVE"} => key[w] = "none"
    BY DEF AccessInv, AccessTypes, KeyInv
  <1>1. CASE key' = key
    <2>1. PICK op : Committed(c, op)
      BY DEF create_workspace_api_key, rotate_workspace_api_key, revoke_workspace_api_key
    <2>2. UNCHANGED <<users, owner, subscribed, role>>
      BY DEF create_workspace_api_key, rotate_workspace_api_key, revoke_workspace_api_key
    <2> QED
      BY <1>1, <2>1, <2>2, NoKeyWritten, KeyWriteKeeps
  <1>2. CASE create_workspace_api_key(c) /\ key[1] = "none"
    <2>1. Committed(c, "newkey") /\ key' = [key EXCEPT ![1] = "ACTIVE"]
          /\ UNCHANGED <<users, owner, subscribed, role>>
      BY <1>2 DEF create_workspace_api_key
    <2>2. 1 \in KeyVersions /\ KeyVersions \subseteq Nat \ {0}
      BY AccessAssumption
    <2>3. key' \in [KeyVersions -> Statuses] /\ key'[1] = "ACTIVE"
          /\ \A v \in KeyVersions \ {1} : key'[v] = key[v]
      BY <1>0, <2>1, <2>2 DEF Statuses
    <2>4. KeyInv'
      BY <1>0, <1>2, <2>2, <2>3 DEF KeyInv
    <2>5. \A v \in KeyVersions : key[v] # "none" => key'[v] # "none"
      BY <2>3
    <2> QED
      BY <2>1, <2>3, <2>4, <2>5, KeyWriteKeeps
  <1>3. CASE rotate_workspace_api_key(c) /\ key[call[c].v + 1] = "none"
    <2> DEFINE n == call[c].v
    <2>1. Committed(c, "rotate") /\ key' = [key EXCEPT ![n] = "RETIRED", ![n + 1] = "ACTIVE"]
          /\ UNCHANGED <<users, owner, subscribed, role>>
      BY <1>3 DEF rotate_workspace_api_key
    <2>2. n \in KeyVersions /\ n + 1 \in KeyVersions /\ key[n] # "none"
      BY <2>1, CommitFacts DEF TestedOK
    <2>3. KeyVersions \subseteq Nat /\ key[n + 1] = "none"
      BY <1>3, AccessAssumption
    <2> HIDE DEF n
    <2>4. key' \in [KeyVersions -> Statuses] /\ key'[n] = "RETIRED" /\ key'[n + 1] = "ACTIVE"
          /\ \A v \in KeyVersions \ {n, n + 1} : key'[v] = key[v]
      BY <1>0, <2>1, <2>2, <2>3 DEF Statuses
    <2>5. KeyInv'
      <3> SUFFICES ASSUME NEW v \in KeyVersions, NEW w \in KeyVersions, v < w,
                          key'[v] \in {"none", "ACTIVE"}
                   PROVE  key'[w] = "none"
        BY DEF KeyInv
      <3>1. v \in Nat /\ w \in Nat /\ n \in Nat
        BY <2>2, <2>3
      <3>2. CASE v = n + 1
        BY <1>0, <2>2, <2>3, <2>4, <3>1, <3>2
      <3>3. CASE v \notin {n, n + 1}
        <4>1. key[v] \in {"none", "ACTIVE"} /\ key[w] = "none"
          BY <1>0, <2>4, <3>3
        <4>2. v > n + 1
          BY <1>0, <2>2, <3>1, <3>3, <4>1
        <4> QED
          BY <2>4, <3>1, <4>1, <4>2
      <3> QED
        BY <2>4, <3>2, <3>3
    <2>6. \A v \in KeyVersions : key[v] # "none" => key'[v] # "none"
      BY <2>4
    <2> QED
      BY <2>1, <2>4, <2>5, <2>6, KeyWriteKeeps
  <1>4. CASE revoke_workspace_api_key(c) /\ call[c].role # "REVOKED"
    <2> DEFINE n == call[c].v
    <2>1. Committed(c, "revoke") /\ key' = [key EXCEPT ![n] = "REVOKED"]
          /\ UNCHANGED <<users, owner, subscribed, role>>
      BY <1>4 DEF revoke_workspace_api_key
    <2>2. n \in KeyVersions /\ key[n] # "none"
      BY <2>1, CommitFacts DEF TestedOK
    <2> HIDE DEF n
    <2>3. key' \in [KeyVersions -> Statuses] /\ key'[n] = "REVOKED"
          /\ \A v \in KeyVersions \ {n} : key'[v] = key[v]
      BY <1>0, <2>1, <2>2 DEF Statuses
    <2>4. KeyInv'
      BY <1>0, <2>2, <2>3 DEF KeyInv
    <2>5. \A v \in KeyVersions : key[v] # "none" => key'[v] # "none"
      BY <2>3
    <2> QED
      BY <2>1, <2>3, <2>4, <2>5, KeyWriteKeeps
  <1> QED
    BY <1>1, <1>2, <1>3, <1>4
    DEF create_workspace_api_key, rotate_workspace_api_key, revoke_workspace_api_key

\* Handlers read and test, and write later in one transaction that only the unique
\* constraints can refuse: all the same every workspace has its one owner and its
\* subscription, no user is left without a workspace, and at most one version of an API
\* key is active (services.py: register, create, add_member, the workspace API keys).
THEOREM Access == AccessSpec => []AccessSound
  <1>1. AccessInit => AccessInv
    <2> SUFFICES ASSUME AccessInit PROVE AccessInv
      OBVIOUS
    <2>1. PICK own \in [Known -> Slugs] :
              /\ \A a, b \in Known : own[a] = own[b] => a = b
              /\ users = Known
              /\ owner = [s \in Slugs |-> IF \E a \in Known : own[a] = s
                                          THEN CHOOSE a \in Known : own[a] = s ELSE "none"]
              /\ subscribed = {s \in Slugs : owner[s] # "none"}
              /\ role = [s \in Slugs |-> [e \in Emails |-> IF owner[s] = e THEN "OWNER" ELSE "none"]]
              /\ key = [v \in KeyVersions |-> IF v = 1 THEN "ACTIVE" ELSE "none"]
              /\ call = [c \in Callers |-> NewCaller]
      BY DEF AccessInit
    <2>2. \A s \in Slugs : owner[s] \in Known \cup {"none"}
      BY <2>1
    <2>3. \A a \in Known : owner[own[a]] = a
      <3> SUFFICES ASSUME NEW a \in Known PROVE owner[own[a]] = a
        OBVIOUS
      <3>1. own[a] \in Slugs
        OBVIOUS
      <3>2. own[CHOOSE b \in Known : own[b] = own[a]] = own[a]
            /\ (CHOOSE b \in Known : own[b] = own[a]) \in Known
        OBVIOUS
      <3> QED
        BY <2>1, <3>1, <3>2
    <2>4. NewCaller \in CallerRecords /\ NewCaller.at = "idle"
      BY DEF NewCaller, CallerRecords, Rights
    <2>5. AccessTypes
      BY <2>1, <2>2, <2>4, AccessAssumption DEF AccessTypes, Rights, Roles, Statuses
    <2>6. OwnerInv
      BY <2>1, <2>2, AccessAssumption DEF OwnerInv
    <2>7. NoOrphanUser
      BY <2>1, <2>3 DEF NoOrphanUser
    <2>8. KeyInv
      BY <2>1, AccessAssumption DEF KeyInv
    <2>9. \A c \in Callers : TestedOK(call[c])
      BY <2>1, <2>4 DEF TestedOK
    <2> QED
      BY <2>5, <2>6, <2>7, <2>8, <2>9 DEF AccessInv
  <1>2. AccessInv /\ [AccessNext]_accessVars => AccessInv'
    <2> SUFFICES ASSUME AccessInv, [AccessNext]_accessVars PROVE AccessInv'
      OBVIOUS
    <2>1. ASSUME NEW c \in Callers, AccessAsk(c) \/ AccessWrite(c) PROVE AccessInv'
      BY <2>1, AccessAskKeeps, RegisterKeeps, AddMemberKeeps, KeyStepsKeep DEF AccessWrite
    <2>2. CASE UNCHANGED accessVars
      BY <2>2 DEF accessVars, AccessInv, AccessTypes, OwnerInv, NoOrphanUser, KeyInv, TestedOK
    <2> QED
      BY <2>1, <2>2 DEF AccessNext
  <1>3. AccessInv => AccessSound
    <2> SUFFICES ASSUME AccessInv PROVE AccessSound
      OBVIOUS
    <2>1. OwnedAndSubscribed
      <3> SUFFICES ASSUME NEW s \in Slugs, owner[s] # "none"
                   PROVE  /\ {e \in Emails : role[s][e] = "OWNER"} = {owner[s]}
                          /\ s \in subscribed
        BY DEF OwnedAndSubscribed
      <3>1. owner[s] \in Emails
        BY DEF AccessInv, AccessTypes
      <3> QED
        BY <3>1 DEF AccessInv, OwnerInv
    <2>2. OneActiveKey
      <3> DEFINE A == {v \in KeyVersions : key[v] = "ACTIVE"}
      <3>1. \A v, w \in A : v = w
        BY AccessAssumption DEF AccessInv, KeyInv
      <3>2. CASE A = {}
        <4>1. Cardinality(A) = 0
          BY <3>2, FS_EmptySet
        <4> QED
          BY <4>1 DEF OneActiveKey
      <3>3. CASE A # {}
        <4>1. PICK v \in A : A = {v}
          BY <3>1, <3>3
        <4>2. Cardinality(A) = 1
          BY <4>1, FS_Singleton
        <4> QED
          BY <4>2 DEF OneActiveKey
      <3> QED
        BY <3>2, <3>3
    <2> QED
      BY <2>1, <2>2 DEF AccessInv, AccessSound
  <1> QED
    BY <1>1, <1>2, <1>3, PTL DEF AccessSpec

-----------------------------------------------------------------------------
(* Chat: requests, the router, usage and the provider credential. *)

ModelRows == [exists : BOOLEAN, cred : 0..MaxVersion, avail : Availability]
LoadedRows == [cred : 0..MaxVersion, avail : Availability, status : Statuses]
PartialRows == UNION {[S -> LoadedRows] : S \in SUBSET Models}
PartialHealth == UNION {[S -> Availability] : S \in SUBSET Models}
ReqRecords == [at : Segments \cup Ended \cup {"idle", "await"}, num : Nat, rows : PartialRows,
               order : Seq(Models), health : PartialHealth, reached : BOOLEAN]
AdmRecords == [at : {"idle", "tested", "done"},
               op : {"none", "create", "rotate", "revoke", "model", "archive"} \cup Settable,
               v : 0..MaxVersion, m : Models \cup {"none"}, seen : Statuses \cup Availability]
Messages == [role : {"user", "assistant"}, req : Requests]
UsageRows == [req : Requests, status : {"SUCCESS", "ERROR"}]

ChatTypes ==
    /\ cred \in [Versions -> Statuses] /\ model \in [Models -> ModelRows]
    /\ req \in [Requests -> ReqRecords] /\ adm \in [Admins -> AdmRecords]
    /\ msgs \in Seq(Messages) /\ usage \subseteq UsageRows /\ IsFiniteSet(usage)
    /\ dead \in [Requests -> SUBSET Versions] /\ sent \subseteq Requests \X (0..MaxVersion)

\* Only the last version that was ever created can be active.
CredInv == \A v, w \in Versions : v < w /\ cred[v] \in {"none", "ACTIVE"} => cred[w] = "none"

\* What an administrator's request has tested cannot be undone: the version exists.
AdmOK(x, c) ==
    /\ x.op = "rotate" => x.v \in Versions /\ x.v < MaxVersion /\ c[x.v] # "none"
    /\ x.op = "revoke" => x.v \in Versions /\ c[x.v] # "none"
    /\ x.op = "model" => x.v = 0 \/ c[x.v] # "none"
    /\ x.op \in {"model"} \cup Settable => x.m \in Models

\* A request that has not begun has nothing; one that routes has a candidate left and the
\* rows of its candidates; no row with an active credential names one revoked before it began.
ReqOK(x, d) ==
    /\ x.at = "idle" => x = Idle
    /\ x.at \in {"try", "await"} =>
           Len(x.order) >= 1 /\ \A i \in 1..Len(x.order) : x.order[i] \in DOMAIN x.rows
    /\ \A m \in DOMAIN x.rows : x.rows[m].status = "ACTIVE" => x.rows[m].cred \notin d

\* The messages of a request, and its bill.
Holds(ms, x) == \E i \in 1..Len(ms) : ms[i] = x
HoldsOnce(ms, x) ==
    \E i \in 1..Len(ms) : ms[i] = x /\ \A j \in 1..Len(ms) : ms[j] = x => j = i
Follows(ms, x, y) == \E i, j \in 1..Len(ms) : i < j /\ ms[i] = x /\ ms[j] = y
Success(r) == [req |-> r, status |-> "SUCCESS"]
MsgOK(r, at, ms, us) ==
    /\ at \in {"idle", "input"} => ~Holds(ms, MessageBy(r, "user"))
    /\ at \in {"route", "try", "await", "answer", "fail", "ok", "error"} =>
           HoldsOnce(ms, MessageBy(r, "user"))
    /\ at = "ok" => Follows(ms, MessageBy(r, "user"), MessageBy(r, "assistant"))
    /\ Holds(ms, MessageBy(r, "assistant")) <=> Success(r) \in us

\* Revoked versions stay what they are, whatever rotations run into the revocation, and only
\* requests that have begun have sent a credential.
DeadInv == \A r \in Requests : \A v \in dead[r] : cred[v] \notin {"none", "ACTIVE"}
SentInv == \A r \in Requests, v \in 0..MaxVersion :
               <<r, v>> \in sent => req[r].at # "idle" /\ v \notin dead[r]

\* Room for what is in flight was left when it was let in.
QuotaInv == Cardinality(usage) + Cardinality(InFlight) <= RequestLimit + MaxInFlight - 1

ChatInv ==
    /\ ChatTypes /\ CredInv /\ DeadInv /\ SentInv /\ QuotaInv /\ UnbilledHasReason
    /\ \A a \in Admins : AdmOK(adm[a], cred)
    /\ \A m \in Models : model[m].cred = 0 \/ cred[model[m].cred] # "none"
    /\ \A r \in Requests : ReqOK(req[r], dead[r]) /\ MsgOK(r, req[r].at, msgs, usage)

LEMMA AppendHolds ==
    ASSUME NEW T, NEW ms \in Seq(T), NEW y \in T, NEW x
    PROVE  /\ Append(ms, y) \in Seq(T) /\ Len(Append(ms, y)) = Len(ms) + 1
           /\ Holds(Append(ms, y), x) <=> Holds(ms, x) \/ x = y
           /\ x # y /\ HoldsOnce(ms, x) => HoldsOnce(Append(ms, y), x)
           /\ x = y /\ ~Holds(ms, x) => HoldsOnce(Append(ms, y), x)
           /\ Holds(ms, x) => Follows(Append(ms, y), x, y)
           /\ \A z : Follows(ms, x, z) => Follows(Append(ms, y), x, z)
<1> DEFINE ns == Append(ms, y)
<1>1. /\ ns \in Seq(T) /\ Len(ns) = Len(ms) + 1 /\ Len(ms) \in Nat /\ ns[Len(ms) + 1] = y
      /\ \A i \in 1..Len(ms) : ns[i] = ms[i]
  OBVIOUS
<1> HIDE DEF ns
<1>2. \A i : i \in 1..Len(ns) <=> i \in 1..Len(ms) \/ i = Len(ms) + 1
  BY <1>1
<1>3. Holds(ns, x) <=> Holds(ms, x) \/ x = y
  BY <1>1, <1>2 DEF Holds
<1>4. x # y /\ HoldsOnce(ms, x) => HoldsOnce(ns, x)
  <2> SUFFICES ASSUME x # y, HoldsOnce(ms, x) PROVE HoldsOnce(ns, x)
    OBVIOUS
  <2>1. PICK i \in 1..Len(ms) : ms[i] = x /\ \A j \in 1..Len(ms) : ms[j] = x => j = i
    BY DEF HoldsOnce
  <2>2. i \in 1..Len(ns) /\ ns[i] = x /\ \A j \in 1..Len(ns) : ns[j] = x => j = i
    BY <2>1, <1>1, <1>2
  <2> QED BY <2>2 DEF HoldsOnce
<1>5. x = y /\ ~Holds(ms, x) => HoldsOnce(ns, x)
  BY <1>1, <1>2 DEF HoldsOnce, Holds
<1>6. Holds(ms, x) => Follows(ns, x, y)
  <2> SUFFICES ASSUME NEW i \in 1..Len(ms), ms[i] = x PROVE Follows(ns, x, y)
    BY DEF Holds
  <2>1. i < Len(ms) + 1 /\ ns[i] = x /\ i \in 1..Len(ns) /\ Len(ms) + 1 \in 1..Len(ns)
    BY <1>1, <1>2
  <2> QED BY <2>1, <1>1 DEF Follows
<1>7. \A z : Follows(ms, x, z) => Follows(ns, x, z)
  BY <1>1, <1>2 DEF Follows
<1> QED BY <1>1, <1>3, <1>4, <1>5, <1>6, <1>7 DEF ns

\* What is not billed has a reason (UnbilledHasReason of one request).
ReasonOK(r, x, ms, us, ids) ==
    x.reached /\ x.at \in Ended =>
        \/ \E e \in us : e.req = r
        \/ \E e \in us : ids[e.req] = ids[r]
        \/ x.at = "conflict" /\ x.num <= Len(ms)
        \/ x.at = "killed"

\* What one request adds to the conversation and to the usage does not touch another.
LEMMA OthersKept ==
    ASSUME ChatInv, NEW r \in Requests, NEW q \in Requests \ {r}, NEW ms, NEW us,
           ms = msgs \/ \E kind \in {"user", "assistant"} : ms = Append(msgs, MessageBy(r, kind)),
           us = usage \/ \E st \in {"SUCCESS", "ERROR"} : us = usage \cup {[req |-> r, status |-> st]}
    PROVE  MsgOK(q, req[q].at, ms, us) /\ ReasonOK(q, req[q], ms, us, RequestId)
<1>1. msgs \in Seq(Messages) /\ req[q] \in ReqRecords
  BY DEF ChatInv, ChatTypes
<1>2. MsgOK(q, req[q].at, msgs, usage) /\ ReasonOK(q, req[q], msgs, usage, RequestId)
  BY DEF ChatInv, UnbilledHasReason, ReasonOK
<1>3. \A kind, kind2 : MessageBy(q, kind) # MessageBy(r, kind2)
  BY DEF MessageBy
<1>4. Success(q) \in us <=> Success(q) \in usage
  BY DEF Success
<1>5. \A kind \in {"user", "assistant"} : MessageBy(r, kind) \in Messages
  BY DEF MessageBy, Messages
<1>6. Len(msgs) <= Len(ms) /\ Len(msgs) \in Nat /\ Len(ms) \in Nat
  BY <1>1, <1>5
<1>7. MsgOK(q, req[q].at, ms, us)
  <2>1. CASE ms = msgs
    BY <2>1, <1>2, <1>4 DEF MsgOK
  <2>2. ASSUME NEW kind \in {"user", "assistant"}, ms = Append(msgs, MessageBy(r, kind))
        PROVE  MsgOK(q, req[q].at, ms, us)
    <3> DEFINE y == MessageBy(r, kind)
               u == MessageBy(q, "user")
               b == MessageBy(q, "assistant")
    <3>1. u # y /\ b # y /\ y \in Messages
      BY <1>3, <1>5
    <3> HIDE DEF y, u, b
    <3>2. /\ Holds(ms, u) <=> Holds(msgs, u)
          /\ HoldsOnce(msgs, u) => HoldsOnce(ms, u)
          /\ Follows(msgs, u, b) => Follows(ms, u, b)
      BY <3>1, <2>2, <1>1, AppendHolds DEF y
    <3>3. Holds(ms, b) <=> Holds(msgs, b)
      BY <3>1, <2>2, <1>1, AppendHolds DEF y
    <3> QED BY <3>2, <3>3, <1>2, <1>4 DEF MsgOK, u, b
  <2> QED BY <2>1, <2>2
<1>8. ReasonOK(q, req[q], ms, us, RequestId)
  <2>1. usage \subseteq us
    OBVIOUS
  <2>2. req[q].num \in Nat
    BY <1>1 DEF ReqRecords
  <2> QED BY <2>1, <2>2, <1>2, <1>6 DEF ReasonOK
<1> QED BY <1>7, <1>8

\* A step of chat request r, which leaves it in x.
LEMMA RequestLift ==
    ASSUME ChatInv, NEW r \in Requests, NEW x \in ReqRecords, NEW d \in SUBSET Versions,
           req' = [req EXCEPT ![r] = x], dead' = [dead EXCEPT ![r] = d],
           UNCHANGED <<cred, adm, RequestId>>, model' \in [Models -> ModelRows],
           \A m \in Models : model'[m].cred = model[m].cred,
           msgs' = msgs \/ \E kind \in {"user", "assistant"} : msgs' = Append(msgs, MessageBy(r, kind)),
           \/ usage' = usage
           \/ \E st \in {"SUCCESS", "ERROR"} : usage' = usage \cup {[req |-> r, status |-> st]},
           sent' \subseteq Requests \X (0..MaxVersion),
           \A q \in Requests \ {r}, v \in 0..MaxVersion : <<q, v>> \in sent' => <<q, v>> \in sent,
           \A v \in 0..MaxVersion : <<r, v>> \in sent' => x.at # "idle" /\ v \notin d,
           \A v \in d : cred[v] \notin {"none", "ACTIVE"},
           ReqOK(x, d), MsgOK(r, x.at, msgs', usage'), ReasonOK(r, x, msgs', usage', RequestId),
           QuotaInv'
    PROVE  ChatInv'
<1>1. /\ req \in [Requests -> ReqRecords] /\ dead \in [Requests -> SUBSET Versions]
      /\ msgs \in Seq(Messages) /\ usage \subseteq UsageRows /\ IsFiniteSet(usage)
      /\ cred \in [Versions -> Statuses] /\ adm \in [Admins -> AdmRecords]
  BY DEF ChatInv, ChatTypes
<1>2. /\ req' \in [Requests -> ReqRecords] /\ dead' \in [Requests -> SUBSET Versions]
      /\ req'[r] = x /\ dead'[r] = d
      /\ \A q \in Requests \ {r} : req'[q] = req[q] /\ dead'[q] = dead[q]
  BY <1>1
<1>3. msgs' \in Seq(Messages)
  <2>1. \A kind \in {"user", "assistant"} : MessageBy(r, kind) \in Messages
    BY DEF MessageBy, Messages
  <2>2. \A y \in Messages : Append(msgs, y) \in Seq(Messages)
    BY <1>1
  <2> QED BY <2>1, <2>2, <1>1
<1>4. usage' \subseteq UsageRows /\ IsFiniteSet(usage')
  <2>1. \A st \in {"SUCCESS", "ERROR"} : [req |-> r, status |-> st] \in UsageRows
    BY DEF UsageRows
  <2>2. \A y : IsFiniteSet(usage \cup {y})
    BY <1>1, FS_AddElement
  <2> QED BY <2>1, <2>2, <1>1
<1>5. ChatTypes'
  BY <1>1, <1>2, <1>3, <1>4 DEF ChatTypes
<1>6. CredInv' /\ \A a \in Admins : AdmOK(adm'[a], cred')
  BY DEF ChatInv, CredInv, AdmOK
<1>7. DeadInv'
  BY <1>2 DEF ChatInv, DeadInv
<1>8. SentInv'
  BY <1>2 DEF ChatInv, SentInv
<1>9. ASSUME NEW q \in Requests
      PROVE  ReqOK(req'[q], dead'[q]) /\ MsgOK(q, req'[q].at, msgs', usage')
             /\ ReasonOK(q, req'[q], msgs', usage', RequestId)
  <2>1. CASE q = r
    BY <2>1, <1>2
  <2>2. CASE q # r
    BY <2>2, <1>2, OthersKept DEF ChatInv
  <2> QED BY <2>1, <2>2
<1>10. UnbilledHasReason'
  BY <1>9 DEF UnbilledHasReason, ReasonOK
<1>11. \A m \in Models : model'[m].cred = 0 \/ cred[model'[m].cred] # "none"
  BY DEF ChatInv
<1> QED BY <1>5, <1>6, <1>7, <1>8, <1>9, <1>10, <1>11 DEF ChatInv

\* Who is in flight after a step of r.
LEMMA FlightFacts ==
    ASSUME ChatInv, NEW r \in Requests, NEW x, req' = [req EXCEPT ![r] = x]
    PROVE  /\ x.at \in Ended \cup {"idle"} => InFlight' = InFlight \ {r}
           /\ x.at \notin Ended \cup {"idle"} => InFlight' = InFlight \cup {r}
           /\ IsFiniteSet(InFlight) /\ Cardinality(InFlight) \in Nat
           /\ IsFiniteSet(usage) /\ Cardinality(usage) \in Nat
<1>1. req \in [Requests -> ReqRecords] /\ IsFiniteSet(usage)
  BY DEF ChatInv, ChatTypes
<1>2. req'[r] = x /\ \A q \in Requests \ {r} : req'[q] = req[q]
  BY <1>1
<1>3. IsFiniteSet(InFlight)
  BY FS_Subset, ChatAssumption DEF InFlight
<1> QED BY <1>1, <1>2, <1>3, FS_CardinalityType DEF InFlight

\* A request goes on, or ends without a bill.
LEMMA GoesOn ==
    ASSUME ChatInv, NEW r \in Requests, NEW x, req' = [req EXCEPT ![r] = x], usage' = usage,
           x.at \in Ended \/ req[r].at \notin Ended \cup {"idle"}
    PROVE  QuotaInv'
<1>1. /\ IsFiniteSet(InFlight) /\ Cardinality(InFlight) \in Nat /\ Cardinality(usage) \in Nat
      /\ InFlight' \in SUBSET InFlight
  BY FlightFacts DEF InFlight
<1>2. Cardinality(InFlight') <= Cardinality(InFlight) /\ Cardinality(InFlight') \in Nat
  BY <1>1, FS_Subset, FS_CardinalityType
<1> QED BY <1>1, <1>2, ChatAssumption DEF ChatInv, QuotaInv

\* A request ends with a bill.
LEMMA IsBilled ==
    ASSUME ChatInv, NEW r \in Requests, NEW x, NEW e, req' = [req EXCEPT ![r] = x],
           usage' = usage \cup {e}, x.at \in Ended, req[r].at \notin Ended \cup {"idle"}
    PROVE  QuotaInv'
<1>1. /\ IsFiniteSet(InFlight) /\ Cardinality(InFlight) \in Nat
      /\ IsFiniteSet(usage) /\ Cardinality(usage) \in Nat
      /\ InFlight' = InFlight \ {r} /\ r \in InFlight
  BY FlightFacts DEF InFlight
<1>2. Cardinality(InFlight') = Cardinality(InFlight) - 1
  BY <1>1, FS_RemoveElement
<1>3. Cardinality(usage') <= Cardinality(usage) + 1 /\ Cardinality(usage') \in Nat
  <2>1. Cardinality(usage \cup {e}) = IF e \in usage THEN Cardinality(usage) ELSE Cardinality(usage) + 1
    BY <1>1, FS_AddElement
  <2> QED BY <2>1, <1>1
<1> QED BY <1>1, <1>2, <1>3, ChatAssumption DEF ChatInv, QuotaInv

\* What every step may assume of request r.
LEMMA RequestFacts ==
    ASSUME ChatInv, NEW r \in Requests
    PROVE  /\ req[r] \in ReqRecords /\ ReqOK(req[r], dead[r]) /\ dead[r] \in SUBSET Versions
           /\ dead = [dead EXCEPT ![r] = dead[r]] /\ MsgOK(r, req[r].at, msgs, usage)
           /\ ReasonOK(r, req[r], msgs, usage, RequestId)
           /\ \A v \in dead[r] : cred[v] \notin {"none", "ACTIVE"}
           /\ \A v \in 0..MaxVersion : <<r, v>> \in sent => req[r].at # "idle" /\ v \notin dead[r]
           /\ sent \subseteq Requests \X (0..MaxVersion) /\ model \in [Models -> ModelRows]
           /\ msgs \in Seq(Messages) /\ Len(msgs) \in Nat /\ cred \in [Versions -> Statuses]
<1>1. ChatTypes /\ DeadInv /\ SentInv /\ UnbilledHasReason
  BY DEF ChatInv
<1>2. /\ req[r] \in ReqRecords /\ dead[r] \in SUBSET Versions /\ dead = [dead EXCEPT ![r] = dead[r]]
      /\ sent \subseteq Requests \X (0..MaxVersion) /\ model \in [Models -> ModelRows]
      /\ msgs \in Seq(Messages) /\ Len(msgs) \in Nat /\ cred \in [Versions -> Statuses]
  BY <1>1 DEF ChatTypes
<1>3. ReasonOK(r, req[r], msgs, usage, RequestId)
  BY <1>1 DEF UnbilledHasReason, ReasonOK
<1>4. ReqOK(req[r], dead[r]) /\ MsgOK(r, req[r].at, msgs, usage)
  BY DEF ChatInv
<1> QED BY <1>1, <1>2, <1>3, <1>4 DEF DeadInv, SentInv

LEMMA Empties ==
    <<>> \in PartialRows /\ <<>> \in PartialHealth /\ <<>> \in Seq(Models) /\ DOMAIN <<>> = {}
<1>1. DOMAIN <<>> = {} /\ <<>> \in Seq(Models)
  OBVIOUS
<1>2. \A T : <<>> \in [{} -> T]
  OBVIOUS
<1>3. {} \in SUBSET Models
  OBVIOUS
<1> QED BY <1>1, <1>2, <1>3 DEF PartialRows, PartialHealth

LEMMA IdleRecord ==
    Idle \in ReqRecords /\ Idle.at = "idle" /\ Idle.rows = <<>> /\ Idle.reached = FALSE
<1>1. "idle" \in Segments \cup Ended \cup {"idle", "await"} /\ 0 \in Nat
  OBVIOUS
<1> QED BY <1>1, Empties DEF Idle, ReqRecords

\* An ended request keeps its number and whether it reached a provider.
Closed(r, how) == [Idle EXCEPT !.at = how, !.num = req[r].num, !.reached = req[r].reached]
LEMMA EndFacts ==
    ASSUME ChatInv, NEW r \in Requests, NEW how \in Ended
    PROVE  /\ End(r, how) = [req EXCEPT ![r] = Closed(r, how)]
           /\ Closed(r, how) \in ReqRecords /\ Closed(r, how).at = how
           /\ Closed(r, how).num = req[r].num /\ Closed(r, how).reached = req[r].reached
           /\ \A d : ReqOK(Closed(r, how), d)
<1>1. req[r].num \in Nat /\ req[r].reached \in BOOLEAN
  BY RequestFacts DEF ReqRecords
<1>2. Idle \in ReqRecords /\ Idle.rows = <<>>
  BY IdleRecord
<1>3. End(r, how) = [req EXCEPT ![r] = Closed(r, how)]
  BY DEF End, Closed
<1>4. how \notin {"idle", "try", "await"}
  BY DEF Ended
<1>5. Closed(r, how) \in ReqRecords
  BY <1>1, <1>2 DEF ReqRecords, Closed
<1>6. /\ Closed(r, how).at = how /\ Closed(r, how).num = req[r].num
      /\ Closed(r, how).reached = req[r].reached /\ Closed(r, how).rows = <<>>
  BY <1>2 DEF Closed, ReqRecords
<1> QED BY <1>3, <1>4, <1>5, <1>6, Empties DEF ReqOK

\* A request on its way from the router to the answer: only its own state changes.
LEMMA Proceeds ==
    ASSUME ChatInv, NEW r \in Requests, NEW x \in ReqRecords, req' = [req EXCEPT ![r] = x],
           UNCHANGED <<cred, model, msgs, usage, adm, RequestId, dead>>,
           req[r].at \in {"route", "try", "await"}, x.at \in {"try", "await", "answer", "fail"},
           ReqOK(x, dead[r]),
           sent' = sent \/ \E v \in (0..MaxVersion) \ dead[r] : sent' = sent \cup {<<r, v>>}
    PROVE  ChatInv'
<1>1. /\ dead' = [dead EXCEPT ![r] = dead[r]] /\ dead[r] \in SUBSET Versions
      /\ MsgOK(r, req[r].at, msgs, usage) /\ \A v \in dead[r] : cred[v] \notin {"none", "ACTIVE"}
      /\ model' \in [Models -> ModelRows] /\ sent \subseteq Requests \X (0..MaxVersion)
      /\ \A v \in 0..MaxVersion : <<r, v>> \in sent => v \notin dead[r]
  BY RequestFacts
<1>2. MsgOK(r, x.at, msgs', usage')
  BY <1>1 DEF MsgOK
<1>3. ReasonOK(r, x, msgs', usage', RequestId)
  BY DEF ReasonOK, Ended
<1>4. QuotaInv'
  BY GoesOn DEF Ended
<1>5. /\ sent' \subseteq Requests \X (0..MaxVersion)
      /\ \A q \in Requests \ {r}, v \in 0..MaxVersion : <<q, v>> \in sent' => <<q, v>> \in sent
      /\ \A v \in 0..MaxVersion : <<r, v>> \in sent' => x.at # "idle" /\ v \notin dead[r]
  BY <1>1
<1> QED BY <1>1, <1>2, <1>3, <1>4, <1>5, RequestLift

\* The request is let in, or turned away.
LEMMA ChatBeginKeeps ==
    ASSUME ChatInv, NEW r \in Requests, Begin(r)
    PROVE  ChatInv'
<1> DEFINE d == {v \in Versions : cred[v] = "REVOKED"}
           n == Len(msgs) + 1
           y == [req[r] EXCEPT !.at = "input", !.num = n]
<1>1. /\ req[r] \in ReqRecords /\ req[r].at = "idle" /\ ReqOK(req[r], dead[r]) /\ Len(msgs) \in Nat
      /\ MsgOK(r, "idle", msgs, usage) /\ sent \subseteq Requests \X (0..MaxVersion)
      /\ model \in [Models -> ModelRows] /\ \A v \in 0..MaxVersion : <<r, v>> \notin sent
  BY RequestFacts DEF Begin
<1>2. req[r] = Idle /\ req[r].reached = FALSE /\ req[r].rows = <<>>
  BY <1>1 DEF ReqOK, Idle
<1>3. /\ dead' = [dead EXCEPT ![r] = d] /\ d \in SUBSET Versions
      /\ \A v \in d : cred[v] \notin {"none", "ACTIVE"}
      /\ UNCHANGED <<cred, model, msgs, usage, adm, RequestId, sent>>
  BY DEF Begin
<1> HIDE DEF d
<1>4. ASSUME NEW how \in {"quota", "archived"}, req' = End(r, how) PROVE ChatInv'
  <2> DEFINE x == Closed(r, how)
  <2>1. how \in Ended
    BY DEF Ended
  <2>2. /\ req' = [req EXCEPT ![r] = x] /\ x \in ReqRecords /\ x.at = how /\ x.reached = FALSE
        /\ ReqOK(x, d)
    BY <2>1, <1>2, <1>4, EndFacts
  <2> HIDE DEF x
  <2>3. MsgOK(r, x.at, msgs', usage') /\ ReasonOK(r, x, msgs', usage', RequestId)
    BY <2>2, <1>1, <1>3 DEF MsgOK, ReasonOK
  <2>4. QuotaInv'
    BY <2>1, <2>2, <1>3, GoesOn
  <2> QED BY <2>2, <2>3, <2>4, <1>1, <1>3, RequestLift
<1>5. ASSUME req' = [req EXCEPT ![r].at = "input", ![r].num = Len(msgs) + 1], QuotaLeft PROVE ChatInv'
  <2>1. req' = [req EXCEPT ![r] = y]
    BY <1>5
  <2>2. y \in ReqRecords /\ y.at = "input" /\ y.reached = FALSE /\ y.rows = <<>>
    <3>0. n \in Nat /\ req[r] \in ReqRecords
      BY <1>1
    <3> HIDE DEF n
    <3>1. y \in ReqRecords /\ y.at = "input" /\ y.reached = req[r].reached /\ y.rows = req[r].rows
      BY <3>0 DEF ReqRecords, Segments
    <3> QED BY <3>1, <1>2
  <2> HIDE DEF y
  <2>3. ReqOK(y, d)
    BY <2>2, Empties DEF ReqOK
  <2>4. MsgOK(r, y.at, msgs', usage') /\ ReasonOK(r, y, msgs', usage', RequestId)
    BY <2>2, <1>1, <1>3 DEF MsgOK, ReasonOK
  <2>5. QuotaInv'
    <3>1. /\ InFlight' = InFlight \cup {r} /\ IsFiniteSet(InFlight) /\ Cardinality(InFlight) \in Nat
          /\ Cardinality(usage) \in Nat
      BY <2>1, <2>2, FlightFacts DEF Ended
    <3>2. Cardinality(InFlight \cup {r}) = IF r \in InFlight THEN Cardinality(InFlight) ELSE Cardinality(InFlight) + 1
      BY <3>1, FS_AddElement
    <3>3. Cardinality(InFlight) < MaxInFlight /\ Cardinality(usage) < RequestLimit
      BY <1>5 DEF Begin, QuotaLeft
    <3> QED BY <3>1, <3>2, <3>3, <1>3, ChatAssumption DEF QuotaInv
  <2> QED BY <2>1, <2>2, <2>3, <2>4, <2>5, <1>1, <1>3, RequestLift
<1> QED BY <1>4, <1>5 DEF Begin

\* The input is stored.
LEMMA WriteInputKeeps ==
    ASSUME ChatInv, NEW r \in Requests, WriteInput(r)
    PROVE  ChatInv'
<1>1. /\ req[r] \in ReqRecords /\ req[r].at = "input" /\ ReqOK(req[r], dead[r]) /\ Len(msgs) \in Nat
      /\ MsgOK(r, "input", msgs, usage) /\ sent \subseteq Requests \X (0..MaxVersion)
      /\ dead = [dead EXCEPT ![r] = dead[r]] /\ dead[r] \in SUBSET Versions
      /\ \A v \in dead[r] : cred[v] \notin {"none", "ACTIVE"}
      /\ \A v \in 0..MaxVersion : <<r, v>> \in sent => v \notin dead[r]
      /\ model \in [Models -> ModelRows] /\ msgs \in Seq(Messages)
  BY RequestFacts DEF WriteInput
<1>2. /\ UNCHANGED <<cred, model, usage, adm, RequestId, sent, dead>>
  BY DEF WriteInput
<1>3. CASE Inserted(r, "user") /\ req' = [req EXCEPT ![r].at = "route"]
  <2> DEFINE x == [req[r] EXCEPT !.at = "route"]
  <2>1. req' = [req EXCEPT ![r] = x]
    BY <1>3
  <2>2. x \in ReqRecords /\ x.at = "route" /\ x.rows = req[r].rows
    BY <1>1 DEF ReqRecords, Segments
  <2> HIDE DEF x
  <2>3. ReqOK(x, dead[r])
    BY <2>2, <1>1 DEF ReqOK
  <2>4. msgs' = Append(msgs, MessageBy(r, "user"))
    BY <1>3 DEF Inserted
  <2>5. MsgOK(r, "route", msgs', usage')
    <3> DEFINE u == MessageBy(r, "user")
               b == MessageBy(r, "assistant")
    <3>1. u # b /\ u \in Messages
      BY DEF MessageBy, Messages
    <3> HIDE DEF u, b
    <3>2. HoldsOnce(Append(msgs, u), u)
      BY <3>1, <1>1, AppendHolds DEF MsgOK, u
    <3>3. Holds(Append(msgs, u), b) <=> Holds(msgs, b)
      BY <3>1, <1>1, AppendHolds
    <3> QED BY <3>2, <3>3, <2>4, <1>1, <1>2 DEF MsgOK, u, b
  <2>6. ReasonOK(r, x, msgs', usage', RequestId)
    BY <2>2 DEF ReasonOK, Ended
  <2>7. QuotaInv'
    BY <2>1, <1>1, <1>2, GoesOn DEF Ended
  <2> QED BY <2>1, <2>2, <2>3, <2>4, <2>5, <2>6, <2>7, <1>1, <1>2, RequestLift
<1>4. CASE req[r].num <= Len(msgs) /\ req' = End(r, "conflict") /\ UNCHANGED msgs
  <2> DEFINE x == Closed(r, "conflict")
  <2>1. "conflict" \in Ended
    BY DEF Ended
  <2>2. /\ req' = [req EXCEPT ![r] = x] /\ x \in ReqRecords /\ x.at = "conflict"
        /\ x.num = req[r].num /\ ReqOK(x, dead[r])
    BY <2>1, <1>4, EndFacts
  <2> HIDE DEF x
  <2>3. MsgOK(r, x.at, msgs', usage') /\ ReasonOK(r, x, msgs', usage', RequestId)
    BY <2>2, <1>1, <1>2, <1>4 DEF MsgOK, ReasonOK
  <2>4. QuotaInv'
    BY <2>1, <2>2, <1>2, GoesOn
  <2> QED BY <2>2, <2>3, <2>4, <1>1, <1>2, <1>4, RequestLift
<1> QED BY <1>3, <1>4 DEF WriteInput

\* What the query of the candidates loads.
LEMMA LoadedFacts ==
    ASSUME ChatInv, NEW r \in Requests
    PROVE  /\ [m \in Candidates |-> Loaded(m)] \in PartialRows
           /\ \A m \in Candidates : Loaded(m).status = "ACTIVE" => Loaded(m).cred \notin dead[r]
<1>1. /\ cred \in [Versions -> Statuses] /\ model \in [Models -> ModelRows]
      /\ \A v \in dead[r] : cred[v] \notin {"none", "ACTIVE"}
      /\ dead[r] \in SUBSET Versions
  BY RequestFacts
<1>2. ASSUME NEW m \in Candidates
      PROVE  Loaded(m) \in LoadedRows /\ (Loaded(m).status = "ACTIVE" => Loaded(m).cred \notin dead[r])
  <2> DEFINE c == model[m].cred
             st == IF c = 0 THEN "none" ELSE cred[c]
  <2>1. m \in Models /\ c \in 0..MaxVersion /\ model[m].avail \in Availability
    BY <1>1 DEF Candidates, ModelRows
  <2>2. c # 0 => c \in Versions
    BY <2>1, ChatAssumption DEF Versions
  <2>3. st \in Statuses /\ (st = "ACTIVE" => c \notin dead[r])
    BY <2>2, <1>1 DEF Statuses
  <2>4. Loaded(m) = [cred |-> c, avail |-> model[m].avail, status |-> st]
    BY DEF Loaded
  <2> HIDE DEF c, st
  <2> QED BY <2>1, <2>3, <2>4 DEF LoadedRows
<1>3. Candidates \in SUBSET Models
  BY DEF Candidates
<1>4. [m \in Candidates |-> Loaded(m)] \in [Candidates -> LoadedRows]
  BY <1>2
<1> QED BY <1>2, <1>3, <1>4 DEF PartialRows

\* The router orders all candidates.
LEMMA RouteKeeps ==
    ASSUME ChatInv, NEW r \in Requests, Route(r)
    PROVE  ChatInv'
<1>1. /\ req[r] \in ReqRecords /\ req[r].at = "route" /\ ReqOK(req[r], dead[r])
      /\ UNCHANGED <<cred, model, msgs, usage, adm, RequestId, dead, sent>>
  BY RequestFacts DEF Route
<1>2. CASE Candidates = {} /\ req' = [req EXCEPT ![r].at = "fail"]
  <2> DEFINE x == [req[r] EXCEPT !.at = "fail"]
  <2>1. req' = [req EXCEPT ![r] = x]
    BY <1>2
  <2>2. x \in ReqRecords /\ x.at = "fail" /\ x.rows = req[r].rows
    BY <1>1 DEF ReqRecords, Segments
  <2> HIDE DEF x
  <2>3. ReqOK(x, dead[r])
    BY <2>2, <1>1 DEF ReqOK
  <2> QED BY <2>1, <2>2, <2>3, <1>1, Proceeds
<1>3. ASSUME Candidates # {}, NEW pick, NEW order \in Orders(Candidates, pick),
             req' = [req EXCEPT ![r].at = "try", ![r].order = order,
                                ![r].rows = [m \in Candidates |-> Loaded(m)]]
      PROVE  ChatInv'
  <2> DEFINE rows == [m \in Candidates |-> Loaded(m)]
             x == [req[r] EXCEPT !.at = "try", !.order = order, !.rows = rows]
             n == Cardinality(Candidates)
  <2>1. IsFiniteSet(Candidates) /\ Candidates \in SUBSET Models
    <3>1. Candidates \in SUBSET Models
      BY DEF Candidates
    <3> QED BY <3>1, FS_Subset, ChatAssumption
  <2>2. n \in Nat /\ n # 0
    BY <2>1, <1>3, FS_CardinalityType, FS_EmptySet
  <2>3. order \in [1..n -> Candidates]
    BY <1>3 DEF Orders
  <2> HIDE DEF n
  <2>4. order \in Seq(Models) /\ Len(order) = n /\ \A i \in 1..n : order[i] \in Candidates
    BY <2>1, <2>2, <2>3
  <2>5. /\ rows \in PartialRows /\ DOMAIN rows = Candidates
        /\ \A m \in Candidates : rows[m].status = "ACTIVE" => rows[m].cred \notin dead[r]
    BY LoadedFacts
  <2>6. req' = [req EXCEPT ![r] = x]
    BY <1>3
  <2> HIDE DEF rows
  <2>7. x \in ReqRecords /\ x.at = "try" /\ x.rows = rows /\ x.order = order
    BY <2>4, <2>5, <1>1 DEF ReqRecords, Segments
  <2> HIDE DEF x
  <2>8. ReqOK(x, dead[r])
    BY <2>2, <2>4, <2>5, <2>7 DEF ReqOK
  <2> QED BY <2>6, <2>7, <2>8, <1>1, Proceeds
<1> QED BY <1>2, <1>3 DEF Route

\* The next candidate of a request at the router.
LEMMA HeadFacts ==
    ASSUME ChatInv, NEW r \in Requests, req[r].at \in {"try", "await"}
    PROVE  /\ Head1(r) \in DOMAIN req[r].rows /\ Head1(r) \in Models
           /\ req[r].order \in Seq(Models) /\ Len(req[r].order) >= 1
           /\ req[r].rows[Head1(r)] \in LoadedRows
           /\ req[r].rows[Head1(r)].status = "ACTIVE" => req[r].rows[Head1(r)].cred \notin dead[r]
<1>1. req[r] \in ReqRecords /\ ReqOK(req[r], dead[r])
  BY RequestFacts
<1>2. req[r].order \in Seq(Models) /\ req[r].rows \in PartialRows
  BY <1>1 DEF ReqRecords
<1>3. /\ Len(req[r].order) >= 1 /\ \A i \in 1..Len(req[r].order) : req[r].order[i] \in DOMAIN req[r].rows
      /\ \A m \in DOMAIN req[r].rows : req[r].rows[m].status = "ACTIVE" => req[r].rows[m].cred \notin dead[r]
  BY <1>1 DEF ReqOK
<1>4. Head1(r) = req[r].order[1] /\ 1 \in 1..Len(req[r].order)
  BY <1>2, <1>3 DEF Head1
<1>5. Head1(r) \in DOMAIN req[r].rows
  BY <1>3, <1>4
<1>6. PICK S \in SUBSET Models : req[r].rows \in [S -> LoadedRows]
  BY <1>2 DEF PartialRows
<1> QED BY <1>2, <1>3, <1>5, <1>6

\* A candidate is done with: the rest is tried, or nothing is left.
LEMMA MarkedKeeps ==
    ASSUME ChatInv, NEW r \in Requests, NEW status \in Availability, NEW at, NEW num \in Nat,
           req[r].at \in {"try", "await"}, at \in {"answer", "fail"} \/ (at = "try" /\ Len(req[r].order) # 1),
           \/ req' = Marked(r, status, at)
           \/ req' = [Marked(r, status, at) EXCEPT ![r].num = num],
           UNCHANGED <<cred, model, msgs, usage, adm, RequestId, dead, sent>>
    PROVE  ChatInv'
<1> DEFINE h == Head1(r)
           f == req[r]
           hl == [m \in DOMAIN f.health \cup {h} |-> IF m = h THEN status ELSE f.health[m]]
           x == [f EXCEPT !.at = at, !.order = Tail(f.order), !.health = hl]
           y == [x EXCEPT !.num = num]
<1>1. /\ f \in ReqRecords /\ ReqOK(f, dead[r]) /\ h \in Models /\ f.order \in Seq(Models)
      /\ Len(f.order) >= 1 /\ req \in [Requests -> ReqRecords]
  BY RequestFacts, HeadFacts DEF ChatInv, ChatTypes
<1>2. hl \in PartialHealth
  <2>1. f.health \in PartialHealth
    BY <1>1 DEF ReqRecords
  <2>2. PICK S \in SUBSET Models : f.health \in [S -> Availability]
    BY <2>1 DEF PartialHealth
  <2>3. S \cup {h} \in SUBSET Models /\ hl \in [S \cup {h} -> Availability]
    BY <2>2, <1>1
  <2> QED BY <2>3 DEF PartialHealth
<1>3. /\ Tail(f.order) \in Seq(Models) /\ Len(Tail(f.order)) = Len(f.order) - 1
      /\ \A i \in 1..Len(Tail(f.order)) : i + 1 \in 1..Len(f.order) /\ Tail(f.order)[i] = f.order[i + 1]
  BY <1>1
<1>4. Marked(r, status, at) = [req EXCEPT ![r] = x]
  BY <1>1 DEF Marked
<1>5. \/ req' = [req EXCEPT ![r] = x] \/ req' = [req EXCEPT ![r] = y]
  <2>1. [req EXCEPT ![r] = x][r] = x
    BY <1>1
  <2>2. [[req EXCEPT ![r] = x] EXCEPT ![r].num = num] = [req EXCEPT ![r] = y]
    BY <2>1, <1>1
  <2> QED BY <2>2, <1>4
<1> HIDE DEF hl
<1>6. /\ x \in ReqRecords /\ x.at = at /\ x.order = Tail(f.order) /\ x.rows = f.rows
  BY <1>1, <1>2, <1>3 DEF ReqRecords, Segments
<1> HIDE DEF x
<1>7. y \in ReqRecords /\ y.at = at /\ y.order = Tail(f.order) /\ y.rows = f.rows
  BY <1>6 DEF ReqRecords
<1> HIDE DEF y
<1>8. ReqOK(x, dead[r]) /\ ReqOK(y, dead[r])
  <2>1. at = "try" => Len(Tail(f.order)) >= 1
    <3> DEFINE n == Len(f.order)
               k == Len(Tail(f.order))
    <3>1. n \in Nat /\ n >= 1 /\ k = n - 1 /\ (at = "try" => n # 1)
      BY <1>1, <1>3
    <3> HIDE DEF n, k
    <3>2. at = "try" => k >= 1
      BY <3>1
    <3> QED BY <3>2 DEF k
  <2>2. \A i \in 1..Len(Tail(f.order)) : Tail(f.order)[i] \in DOMAIN f.rows
    BY <1>1, <1>3 DEF ReqOK
  <2>3. at \notin {"idle", "await"}
    OBVIOUS
  <2> QED BY <2>1, <2>2, <2>3, <1>1, <1>6, <1>7 DEF ReqOK
<1> QED BY <1>5, <1>6, <1>7, <1>8, Proceeds

\* A provider is called, or the credential is refused before.
LEMMA TryKeeps ==
    ASSUME ChatInv, NEW r \in Requests, Try(r)
    PROVE  ChatInv'
<1>1. /\ req[r] \in ReqRecords /\ req[r].at = "try" /\ ReqOK(req[r], dead[r])
      /\ UNCHANGED <<cred, model, msgs, usage, adm, RequestId, dead>> /\ dead[r] \in SUBSET Versions
  BY RequestFacts DEF Try
<1>2. CASE Usable(r)
  <2> DEFINE x == [req[r] EXCEPT !.at = "await", !.reached = TRUE]
             v == req[r].rows[Head1(r)].cred
  <2>1. req' = [req EXCEPT ![r] = x] /\ sent' = sent \cup {<<r, v>>}
    BY <1>2 DEF Try
  <2>2. x \in ReqRecords /\ x.at = "await" /\ x.rows = req[r].rows /\ x.order = req[r].order
    BY <1>1 DEF ReqRecords
  <2>3. v \in 0..MaxVersion /\ v \notin dead[r]
    <3>1. v \in 0..MaxVersion /\ (req[r].rows[Head1(r)].status = "ACTIVE" => v \notin dead[r])
      BY <1>1, HeadFacts DEF LoadedRows
    <3>2. v = 0 => v \notin dead[r]
      BY <1>1 DEF Versions
    <3> QED BY <3>1, <3>2, <1>2 DEF Usable
  <2> HIDE DEF x, v
  <2>4. ReqOK(x, dead[r])
    BY <2>2, <1>1 DEF ReqOK
  <2> QED BY <2>1, <2>2, <2>3, <2>4, <1>1, Proceeds
<1>3. CASE ~Usable(r)
  <2>1. req' = Marked(r, "UNAVAILABLE", AfterFailure(r)) /\ sent' = sent
    BY <1>3 DEF Try
  <2>2. AfterFailure(r) \in {"answer", "fail"} \/ (AfterFailure(r) = "try" /\ Len(req[r].order) # 1)
    BY DEF AfterFailure
  <2>3. "UNAVAILABLE" \in Availability /\ 0 \in Nat
    BY DEF Availability
  <2> QED BY <2>1, <2>2, <2>3, <1>1, MarkedKeeps
<1> QED BY <1>2, <1>3

\* The provider answers, or fails.
LEMMA ProviderKeeps ==
    ASSUME ChatInv, NEW r \in Requests, Provider(r)
    PROVE  ChatInv'
<1>1. Len(msgs) + 1 \in Nat
  BY RequestFacts
<1>2. CASE Answered(r)
  <2>1. /\ req[r].at = "await" /\ req' = [Marked(r, "AVAILABLE", "answer") EXCEPT ![r].num = Len(msgs) + 1]
        /\ UNCHANGED <<cred, model, msgs, usage, adm, RequestId, dead, sent>> /\ "AVAILABLE" \in Availability
    BY <1>2 DEF Answered, Availability
  <2> QED BY <2>1, <1>1, MarkedKeeps
<1>3. ASSUME NEW s \in {"DEGRADED", "UNAVAILABLE"}, Failed(r, s) PROVE ChatInv'
  <2>1. /\ req[r].at = "await" /\ req' = Marked(r, s, AfterFailure(r)) /\ s \in Availability
        /\ UNCHANGED <<cred, model, msgs, usage, adm, RequestId, dead, sent>>
    BY <1>3 DEF Failed, Availability
  <2>2. AfterFailure(r) \in {"answer", "fail"} \/ (AfterFailure(r) = "try" /\ Len(req[r].order) # 1)
    BY DEF AfterFailure
  <2> QED BY <2>1, <2>2, <1>1, MarkedKeeps
<1> QED BY <1>2, <1>3 DEF Provider

\* What the session writes of the health of models.
LEMMA HealthWritten ==
    ASSUME ChatInv, NEW r \in Requests
    PROVE  WithHealth(r) \in [Models -> ModelRows] /\ \A m \in Models : WithHealth(r)[m].cred = model[m].cred
<1>1. req[r] \in ReqRecords /\ model \in [Models -> ModelRows]
  BY RequestFacts
<1>2. req[r].health \in PartialHealth
  BY <1>1 DEF ReqRecords
<1>3. PICK S \in SUBSET Models : req[r].health \in [S -> Availability]
  BY <1>2 DEF PartialHealth
<1>4. ASSUME NEW m \in Models
      PROVE  WithHealth(r)[m] \in ModelRows /\ WithHealth(r)[m].cred = model[m].cred
  <2>1. model[m] \in ModelRows /\ (m \in DOMAIN req[r].health => req[r].health[m] \in Availability)
    BY <1>1, <1>3
  <2>2. WithHealth(r)[m] = IF m \in DOMAIN req[r].health /\ req[r].health[m] # req[r].rows[m].avail
                           THEN [model[m] EXCEPT !.avail = req[r].health[m]] ELSE model[m]
    BY DEF WithHealth
  <2>3. \A s \in Availability : /\ [model[m] EXCEPT !.avail = s] \in ModelRows
                                /\ [model[m] EXCEPT !.avail = s].cred = model[m].cred
    BY <2>1 DEF ModelRows
  <2> QED BY <2>1, <2>2, <2>3
<1>5. WithHealth(r) \in [Models -> ModelRows]
  BY <1>4 DEF WithHealth
<1> QED BY <1>4, <1>5

\* A request that cannot write its end has a reason.
LEMMA ConflictKeeps ==
    ASSUME ChatInv, NEW r \in Requests, req[r].at \in {"answer", "fail"}, req' = End(r, "conflict"),
           Recorded(RequestId[r]) \/ req[r].num <= Len(msgs),
           UNCHANGED <<cred, model, msgs, usage, adm, RequestId, sent, dead>>
    PROVE  ChatInv'
<1> DEFINE x == Closed(r, "conflict")
<1>1. "conflict" \in Ended /\ req[r].at # "idle"
  BY DEF Ended
<1>2. /\ req' = [req EXCEPT ![r] = x] /\ x \in ReqRecords /\ x.at = "conflict"
      /\ x.num = req[r].num /\ ReqOK(x, dead[r])
  BY <1>1, EndFacts
<1> HIDE DEF x
<1>3. /\ dead' = [dead EXCEPT ![r] = dead[r]] /\ dead[r] \in SUBSET Versions
      /\ MsgOK(r, req[r].at, msgs, usage) /\ \A v \in dead[r] : cred[v] \notin {"none", "ACTIVE"}
      /\ model' \in [Models -> ModelRows] /\ sent' \subseteq Requests \X (0..MaxVersion)
      /\ \A v \in 0..MaxVersion : <<r, v>> \in sent => v \notin dead[r]
  BY RequestFacts
<1>4. MsgOK(r, x.at, msgs', usage')
  BY <1>2, <1>3 DEF MsgOK
<1>5. ReasonOK(r, x, msgs', usage', RequestId)
  BY <1>2 DEF ReasonOK, Recorded
<1>6. QuotaInv'
  BY <1>1, <1>2, GoesOn
<1> QED BY <1>2, <1>3, <1>4, <1>5, <1>6, RequestLift

\* The answer and its bill, or neither.
LEMMA WriteAnswerKeeps ==
    ASSUME ChatInv, NEW r \in Requests, WriteAnswer(r)
    PROVE  ChatInv'
<1>1. /\ req[r].at = "answer" /\ UNCHANGED <<cred, adm, RequestId, sent, dead>>
  BY DEF WriteAnswer
<1>2. CASE /\ Recorded(RequestId[r]) \/ req[r].num <= Len(msgs)
           /\ req' = End(r, "conflict") /\ UNCHANGED <<msgs, usage, model>>
  BY <1>1, <1>2, ConflictKeeps
<1>3. CASE /\ Inserted(r, "assistant") /\ usage' = usage \cup {[req |-> r, status |-> "SUCCESS"]}
           /\ model' = WithHealth(r) /\ req' = End(r, "ok")
  <2> DEFINE x == Closed(r, "ok")
             u == MessageBy(r, "user")
             b == MessageBy(r, "assistant")
  <2>1. "ok" \in Ended /\ req[r].at \notin Ended \cup {"idle"}
    BY <1>1 DEF Ended
  <2>2. req' = [req EXCEPT ![r] = x] /\ x \in ReqRecords /\ x.at = "ok" /\ ReqOK(x, dead[r])
    BY <2>1, <1>3, EndFacts
  <2>3. u # b /\ b \in Messages
    BY DEF MessageBy, Messages
  <2> HIDE DEF x
  <2>4. /\ dead' = [dead EXCEPT ![r] = dead[r]] /\ dead[r] \in SUBSET Versions
        /\ MsgOK(r, "answer", msgs, usage) /\ \A v \in dead[r] : cred[v] \notin {"none", "ACTIVE"}
        /\ sent' \subseteq Requests \X (0..MaxVersion) /\ msgs \in Seq(Messages)
        /\ \A v \in 0..MaxVersion : <<r, v>> \in sent => v \notin dead[r]
    BY <1>1, RequestFacts
  <2>5. msgs' = Append(msgs, b)
    BY <1>3 DEF Inserted
  <2> HIDE DEF u, b
  <2>6. MsgOK(r, x.at, msgs', usage')
    <3>1. HoldsOnce(msgs, u) /\ Holds(msgs, u)
      BY <2>4 DEF MsgOK, u, HoldsOnce, Holds
    <3>2. HoldsOnce(msgs', u) /\ Follows(msgs', u, b)
      BY <3>1, <2>3, <2>4, <2>5, AppendHolds
    <3>3. Holds(msgs', b)
      BY <2>3, <2>4, <2>5, AppendHolds
    <3>4. Success(r) \in usage'
      BY <1>3 DEF Success
    <3> QED BY <3>2, <3>3, <3>4, <2>2 DEF MsgOK, u, b
  <2>7. ReasonOK(r, x, msgs', usage', RequestId)
    <3>1. [req |-> r, status |-> "SUCCESS"] \in usage' /\ [req |-> r, status |-> "SUCCESS"].req = r
      BY <1>3
    <3> QED BY <3>1 DEF ReasonOK
  <2>8. QuotaInv'
    <3> DEFINE e == [req |-> r, status |-> "SUCCESS"]
    <3>1. usage' = usage \cup {e} /\ x.at \in Ended /\ req' = [req EXCEPT ![r] = x]
      BY <2>1, <2>2, <1>3
    <3> HIDE DEF e
    <3> QED BY <3>1, <2>1, IsBilled
  <2>9. model' \in [Models -> ModelRows] /\ \A m \in Models : model'[m].cred = model[m].cred
    BY <1>3, HealthWritten
  <2>10. \E kind \in {"user", "assistant"} : msgs' = Append(msgs, MessageBy(r, kind))
    BY <2>5 DEF b
  <2>11. \E st \in {"SUCCESS", "ERROR"} : usage' = usage \cup {[req |-> r, status |-> st]}
    BY <1>3
  <2> QED BY <2>2, <2>4, <2>6, <2>7, <2>8, <2>9, <2>10, <2>11, <1>1, RequestLift
<1> QED BY <1>2, <1>3 DEF WriteAnswer

\* The failure and its bill, or neither.
LEMMA WriteErrorKeeps ==
    ASSUME ChatInv, NEW r \in Requests, WriteError(r)
    PROVE  ChatInv'
<1>1. /\ req[r].at = "fail" /\ UNCHANGED <<cred, msgs, adm, RequestId, sent, dead>>
  BY DEF WriteError
<1>2. CASE Recorded(RequestId[r]) /\ req' = End(r, "conflict") /\ UNCHANGED <<usage, model>>
  BY <1>1, <1>2, ConflictKeeps
<1>3. CASE /\ usage' = usage \cup {[req |-> r, status |-> "ERROR"]}
           /\ model' = WithHealth(r) /\ req' = End(r, "error")
  <2> DEFINE x == Closed(r, "error")
  <2>1. "error" \in Ended /\ req[r].at \notin Ended \cup {"idle"}
    BY <1>1 DEF Ended
  <2>2. req' = [req EXCEPT ![r] = x] /\ x \in ReqRecords /\ x.at = "error" /\ ReqOK(x, dead[r])
    BY <2>1, <1>3, EndFacts
  <2> HIDE DEF x
  <2>3. /\ dead' = [dead EXCEPT ![r] = dead[r]] /\ dead[r] \in SUBSET Versions
        /\ MsgOK(r, "fail", msgs, usage) /\ \A v \in dead[r] : cred[v] \notin {"none", "ACTIVE"}
        /\ sent' \subseteq Requests \X (0..MaxVersion)
        /\ \A v \in 0..MaxVersion : <<r, v>> \in sent => v \notin dead[r]
    BY <1>1, RequestFacts
  <2>4. MsgOK(r, x.at, msgs', usage')
    <3>1. Success(r) \in usage' <=> Success(r) \in usage
      BY <1>3 DEF Success
    <3> QED BY <3>1, <2>2, <2>3, <1>1 DEF MsgOK
  <2>5. ReasonOK(r, x, msgs', usage', RequestId)
    <3>1. [req |-> r, status |-> "ERROR"] \in usage' /\ [req |-> r, status |-> "ERROR"].req = r
      BY <1>3
    <3> QED BY <3>1 DEF ReasonOK
  <2>6. QuotaInv'
    <3> DEFINE e == [req |-> r, status |-> "ERROR"]
    <3>1. usage' = usage \cup {e} /\ x.at \in Ended /\ req' = [req EXCEPT ![r] = x]
      BY <2>1, <2>2, <1>3
    <3> HIDE DEF e
    <3> QED BY <3>1, <2>1, IsBilled
  <2>7. model' \in [Models -> ModelRows] /\ \A m \in Models : model'[m].cred = model[m].cred
    BY <1>3, HealthWritten
  <2>8. \E st \in {"SUCCESS", "ERROR"} : usage' = usage \cup {[req |-> r, status |-> st]}
    BY <1>3
  <2> QED BY <2>2, <2>3, <2>4, <2>5, <2>6, <2>7, <2>8, <1>1, RequestLift
<1> QED BY <1>2, <1>3 DEF WriteError

\* A server process dies; its requests end where they are.
LEMMA DieKeeps ==
    ASSUME ChatInv, NEW l \in Loops, Die(l)
    PROVE  ChatInv'
<1>1. /\ UNCHANGED <<cred, model, msgs, usage, adm, RequestId, sent, dead>>
      /\ req' = [r \in Requests |-> IF Loop[r] = l /\ r \in InFlight THEN End(r, "killed")[r] ELSE req[r]]
      /\ req \in [Requests -> ReqRecords]
  BY DEF Die, ChatInv, ChatTypes
<1>2. "killed" \in Ended /\ "killed" # "idle"
  BY DEF Ended
<1>3. ASSUME NEW r \in Requests
      PROVE  \/ req'[r] = req[r]
             \/ req'[r] = Closed(r, "killed") /\ r \in InFlight
  <2>1. End(r, "killed")[r] = Closed(r, "killed")
    BY <1>1, <1>2, EndFacts
  <2> QED BY <2>1, <1>1
<1>4. ASSUME NEW r \in Requests
      PROVE  /\ req'[r] \in ReqRecords /\ ReqOK(req'[r], dead[r])
             /\ MsgOK(r, req'[r].at, msgs, usage) /\ ReasonOK(r, req'[r], msgs, usage, RequestId)
             /\ req'[r].at = "idle" => req[r].at = "idle"
             /\ req'[r].at \notin Ended \cup {"idle"} => req[r].at \notin Ended \cup {"idle"}
  <2>1. CASE req'[r] = req[r]
    BY <2>1, RequestFacts
  <2>2. CASE req'[r] = Closed(r, "killed")
    <3>1. /\ req'[r] \in ReqRecords /\ ReqOK(req'[r], dead[r]) /\ req'[r].at = "killed"
      BY <2>2, <1>2, EndFacts
    <3>2. MsgOK(r, "killed", msgs, usage)
      BY RequestFacts DEF MsgOK
    <3> QED BY <3>1, <3>2, <1>2 DEF ReasonOK
  <2> QED BY <2>1, <2>2, <1>3
<1>5. ChatTypes'
  <2>1. req' \in [Requests -> ReqRecords]
    BY <1>1, <1>4
  <2> QED BY <2>1, <1>1 DEF ChatInv, ChatTypes
<1>6. QuotaInv'
  <2>1. InFlight' \in SUBSET InFlight
    BY <1>4 DEF InFlight
  <2>2. IsFiniteSet(InFlight)
    BY FS_Subset, ChatAssumption DEF InFlight
  <2>3. /\ Cardinality(InFlight') <= Cardinality(InFlight) /\ Cardinality(InFlight') \in Nat
        /\ Cardinality(InFlight) \in Nat /\ Cardinality(usage) \in Nat
    BY <2>1, <2>2, FS_Subset, FS_CardinalityType DEF ChatInv, ChatTypes
  <2> QED BY <2>3, <1>1, ChatAssumption DEF ChatInv, QuotaInv
<1>7. UnbilledHasReason' /\ SentInv' /\ DeadInv' /\ CredInv'
  BY <1>1, <1>4 DEF ChatInv, UnbilledHasReason, ReasonOK, SentInv, DeadInv, CredInv
<1> QED BY <1>1, <1>4, <1>5, <1>6, <1>7 DEF ChatInv

\* A step of administrator a, which leaves it in y: versions are neither forgotten nor, once
\* retired or revoked, made active again.
LEMMA AdminLift ==
    ASSUME ChatInv, NEW a \in Admins, NEW y \in AdmRecords, adm' = [adm EXCEPT ![a] = y],
           UNCHANGED <<msgs, usage, req, RequestId, sent, dead>>,
           cred' \in [Versions -> Statuses], CredInv', model' \in [Models -> ModelRows],
           \A v \in Versions : cred[v] # "none" => cred'[v] # "none",
           \A v \in Versions : cred[v] \notin {"none", "ACTIVE"} => cred'[v] \notin {"none", "ACTIVE"},
           \A m \in Models : model'[m].cred = 0 \/ cred'[model'[m].cred] # "none",
           AdmOK(y, cred')
    PROVE  ChatInv'
<1>1. adm \in [Admins -> AdmRecords] /\ dead \in [Requests -> SUBSET Versions]
  BY DEF ChatInv, ChatTypes
<1>2. ChatTypes'
  BY <1>1 DEF ChatInv, ChatTypes
<1>3. ASSUME NEW b \in Admins PROVE AdmOK(adm'[b], cred')
  <2>1. CASE b = a
    BY <2>1, <1>1
  <2>2. CASE b # a
    <3> DEFINE z == adm[b]
    <3>1. adm'[b] = z /\ z \in AdmRecords /\ AdmOK(z, cred)
      BY <2>2, <1>1 DEF ChatInv
    <3>2. z.v \in 0..MaxVersion
      BY <3>1 DEF AdmRecords
    <3>3. z.v # 0 => z.v \in Versions
      BY <3>2, ChatAssumption DEF Versions
    <3> HIDE DEF z
    <3> QED BY <3>1, <3>3 DEF AdmOK
  <2> QED BY <2>1, <2>2
<1>4. DeadInv'
  BY <1>1 DEF ChatInv, DeadInv
<1>5. SentInv'
  BY DEF ChatInv, SentInv
<1>6. QuotaInv'
  BY DEF ChatInv, QuotaInv, InFlight
<1>7. UnbilledHasReason'
  BY DEF ChatInv, UnbilledHasReason
<1>8. \A r \in Requests : ReqOK(req'[r], dead'[r]) /\ MsgOK(r, req'[r].at, msgs', usage')
  BY DEF ChatInv
<1> QED BY <1>2, <1>3, <1>4, <1>5, <1>6, <1>7, <1>8 DEF ChatInv

\* What every step of administrator a may assume.
LEMMA AdminFacts ==
    ASSUME ChatInv, NEW a \in Admins
    PROVE  /\ adm[a] \in AdmRecords /\ AdmOK(adm[a], cred) /\ cred \in [Versions -> Statuses]
           /\ model \in [Models -> ModelRows] /\ CredInv
           /\ \A m \in Models : model[m].cred = 0 \/ cred[model[m].cred] # "none"
  BY DEF ChatInv, ChatTypes

\* The request has read and tested.
LEMMA ChatAskKeeps ==
    ASSUME ChatInv, NEW a \in Admins, Ask(a)
    PROVE  ChatInv'
<1>1. /\ cred \in [Versions -> Statuses] /\ model \in [Models -> ModelRows] /\ CredInv
      /\ \A m \in Models : model[m].cred = 0 \/ cred[model[m].cred] # "none"
  BY AdminFacts
<1>2. ASSUME NEW op \in {"create", "rotate", "revoke", "model", "archive"} \cup Settable,
             NEW v \in 0..MaxVersion, NEW m \in Models \cup {"none"}, NEW seen \in Statuses \cup Availability,
             Asked(a, op, v, m, seen),
             op = "rotate" => v \in Versions /\ v < MaxVersion /\ cred[v] # "none",
             op = "revoke" => v \in Versions /\ cred[v] # "none",
             op = "model" => v = 0 \/ cred[v] # "none",
             op \in {"model"} \cup Settable => m \in Models
      PROVE  ChatInv'
  <2> DEFINE y == [at |-> "tested", op |-> op, v |-> v, m |-> m, seen |-> seen]
  <2>1. adm' = [adm EXCEPT ![a] = y] /\ UNCHANGED <<cred, model, msgs, usage, req, RequestId, sent, dead>>
    BY <1>2 DEF Asked
  <2>2. y \in AdmRecords /\ AdmOK(y, cred')
    BY <1>2, <2>1 DEF AdmRecords, AdmOK
  <2>3. CredInv'
    BY <2>1, <1>1 DEF CredInv
  <2> HIDE DEF y
  <2> QED BY <2>1, <2>2, <2>3, <1>1, AdminLift
<1>3. "none" \in Statuses /\ 0 \in 0..MaxVersion /\ 1 \in 0..MaxVersion /\ \A v \in Versions : v \in 0..MaxVersion
  BY ChatAssumption DEF Statuses, Versions
<1>4. CASE AskCreateCredential(a)
  <2>1. Asked(a, "create", 1, "none", "none") /\ "create" \notin {"rotate", "revoke", "model"} \cup Settable
    BY <1>4 DEF AskCreateCredential, Settable
  <2> QED BY <2>1, <1>2, <1>3
<1>5. CASE AskArchive(a)
  <2>1. Asked(a, "archive", 0, "none", "none") /\ "archive" \notin {"rotate", "revoke", "model"} \cup Settable
    BY <1>5 DEF AskArchive, Settable
  <2> QED BY <2>1, <1>2, <1>3
<1>6. ASSUME NEW v \in Versions, AskRotate(a, v) PROVE ChatInv'
  <2>1. /\ Asked(a, "rotate", v, "none", cred[v]) /\ v < MaxVersion /\ cred[v] # "none"
        /\ cred[v] \in Statuses /\ "rotate" \notin {"revoke", "model"} \cup Settable
    BY <1>1, <1>6 DEF AskRotate, Settable
  <2> QED BY <2>1, <1>2, <1>3
<1>7. ASSUME NEW v \in Versions, AskRevoke(a, v) PROVE ChatInv'
  <2>1. /\ Asked(a, "revoke", v, "none", cred[v]) /\ cred[v] # "none"
        /\ cred[v] \in Statuses /\ "revoke" \notin {"rotate", "model"} \cup Settable
    BY <1>1, <1>7 DEF AskRevoke, Settable
  <2> QED BY <2>1, <1>2, <1>3
<1>8. ASSUME NEW m \in Models, NEW v \in 0..MaxVersion, AskCreateModel(a, m, v) PROVE ChatInv'
  <2>1. /\ Asked(a, "model", v, m, "none") /\ (v = 0 \/ cred[v] # "none")
        /\ "model" \notin {"rotate", "revoke"} \cup Settable
    BY <1>8 DEF AskCreateModel, Settable
  <2> QED BY <2>1, <1>2, <1>3
<1>9. ASSUME NEW m \in Models, NEW s \in Settable, AskAvailability(a, m, s) PROVE ChatInv'
  <2>1. /\ Asked(a, s, 0, m, model[m].avail) /\ s \notin {"rotate", "revoke", "model"}
    BY <1>9 DEF AskAvailability, Settable
  <2>2. model[m].avail \in Availability
    BY <1>1 DEF ModelRows
  <2> QED BY <2>1, <2>2, <1>2, <1>3
<1> QED BY <1>4, <1>5, <1>6, <1>7, <1>8, <1>9 DEF Ask

\* What a written request is left in.
LEMMA WrittenFacts ==
    ASSUME NEW a \in Admins, NEW op, Written(a, op), AdmKeeps
    PROVE  /\ adm[a].op = op /\ UNCHANGED <<msgs, usage, req, RequestId, sent, dead>>
           /\ \E y \in AdmRecords : adm' = [adm EXCEPT ![a] = y] /\ \A c : AdmOK(y, c)
<1> DEFINE y == [AdmIdle EXCEPT !.at = "done"]
<1>1. y \in AdmRecords /\ y.op = "none"
  BY ChatAssumption DEF AdmIdle, AdmRecords, Statuses
<1>2. "none" \notin {"rotate", "revoke", "model"} \cup Settable
  BY DEF Settable
<1>3. \A c : AdmOK(y, c)
  BY <1>1, <1>2 DEF AdmOK
<1>4. adm[a].op = op /\ adm' = [adm EXCEPT ![a] = y] /\ UNCHANGED <<msgs, usage, req, RequestId, sent, dead>>
  BY DEF Written, AdmKeeps
<1> QED BY <1>1, <1>3, <1>4

\* A version is created, rotated or revoked.
LEMMA CreateCredentialKeeps ==
    ASSUME ChatInv, NEW a \in Admins, CreateCredential(a)
    PROVE  ChatInv'
<1>1. PICK y \in AdmRecords : adm' = [adm EXCEPT ![a] = y] /\ \A c : AdmOK(y, c)
  BY WrittenFacts DEF CreateCredential
<1>2. UNCHANGED <<msgs, usage, req, RequestId, sent, dead, model>>
  BY WrittenFacts DEF CreateCredential
<1>3. /\ cred \in [Versions -> Statuses] /\ model \in [Models -> ModelRows] /\ CredInv
      /\ \A m \in Models : model[m].cred = 0 \/ cred[model[m].cred] # "none"
      /\ \A m \in Models : model[m].cred \in 0..MaxVersion
  BY AdminFacts DEF ModelRows
<1>4. 1 \in Versions /\ \A v \in Versions : v # 1 => 1 < v
  BY ChatAssumption DEF Versions
<1>5. cred' = cred \/ (cred[1] = "none" /\ cred' = [cred EXCEPT ![1] = "ACTIVE"])
  BY DEF CreateCredential
<1>6. /\ cred' \in [Versions -> Statuses]
      /\ \A v \in Versions : cred[v] # "none" => cred'[v] # "none"
      /\ \A v \in Versions : cred[v] \notin {"none", "ACTIVE"} => cred'[v] \notin {"none", "ACTIVE"}
  BY <1>3, <1>4, <1>5 DEF Statuses
<1>7. CredInv'
  <2>1. CASE cred' = cred
    BY <2>1, <1>3 DEF CredInv
  <2>2. CASE cred[1] = "none" /\ cred' = [cred EXCEPT ![1] = "ACTIVE"]
    <3>1. \A w \in Versions : w # 1 => cred[w] = "none" /\ cred'[w] = "none"
      BY <2>2, <1>3, <1>4 DEF CredInv
    <3>2. \A v, w \in Versions : v < w => w # 1
      BY DEF Versions
    <3> QED BY <3>1, <3>2 DEF CredInv
  <2> QED BY <2>1, <2>2, <1>5
<1>8. \A m \in Models : model'[m].cred = 0 \/ cred'[model'[m].cred] # "none"
  <2>1. \A m \in Models : model[m].cred # 0 => model[m].cred \in Versions
    BY <1>3, ChatAssumption DEF Versions
  <2> QED BY <2>1, <1>2, <1>3, <1>6
<1> QED BY <1>1, <1>2, <1>3, <1>6, <1>7, <1>8, AdminLift

LEMMA RotateCredentialKeeps ==
    ASSUME ChatInv, NEW a \in Admins, RotateCredential(a)
    PROVE  ChatInv'
<1> DEFINE v == adm[a].v
           w == v + 1
<1>1. PICK y \in AdmRecords : adm' = [adm EXCEPT ![a] = y] /\ \A c : AdmOK(y, c)
  BY WrittenFacts DEF RotateCredential
<1>2. UNCHANGED <<msgs, usage, req, RequestId, sent, dead>> /\ adm[a].op = "rotate"
  BY WrittenFacts DEF RotateCredential
<1>3. /\ cred \in [Versions -> Statuses] /\ model \in [Models -> ModelRows] /\ CredInv
      /\ \A m \in Models : model[m].cred = 0 \/ cred[model[m].cred] # "none"
      /\ \A m \in Models : model[m].cred \in 0..MaxVersion
  BY AdminFacts DEF ModelRows
<1>4. v \in Versions /\ v < MaxVersion /\ cred[v] # "none"
  BY <1>2, AdminFacts DEF AdmOK
<1>5. \/ UNCHANGED <<cred, model>>
      \/ /\ cred[w] = "none" /\ cred' = [cred EXCEPT ![v] = "RETIRED", ![w] = "ACTIVE"]
         /\ model' = [m \in Models |-> IF model[m].cred = v THEN [model[m] EXCEPT !.cred = w] ELSE model[m]]
  BY DEF RotateCredential
<1>6. /\ w \in Versions /\ w # v /\ w \in 0..MaxVersion /\ w # 0
      /\ \A u \in Versions : u < w => u < v \/ u = v
      /\ \A u, z \in Versions : u < z => u # z
  BY <1>4, ChatAssumption DEF Versions
<1>7. \A m \in Models : model[m].cred # 0 => model[m].cred \in Versions
  BY <1>3, ChatAssumption DEF Versions
<1> HIDE DEF v, w
<1>8. CASE UNCHANGED <<cred, model>>
  <2>1. CredInv' /\ cred' = cred /\ model' = model
    BY <1>8, <1>3 DEF CredInv
  <2> QED BY <2>1, <1>1, <1>2, <1>3, AdminLift
<1>9. CASE /\ cred[w] = "none" /\ cred' = [cred EXCEPT ![v] = "RETIRED", ![w] = "ACTIVE"]
           /\ model' = [m \in Models |-> IF model[m].cred = v THEN [model[m] EXCEPT !.cred = w] ELSE model[m]]
  <2>1. /\ cred' \in [Versions -> Statuses] /\ cred'[v] = "RETIRED" /\ cred'[w] = "ACTIVE"
        /\ \A u \in Versions \ {v, w} : cred'[u] = cred[u]
    BY <1>9, <1>3, <1>4, <1>6 DEF Statuses
  <2>2. /\ \A u \in Versions : cred[u] # "none" => cred'[u] # "none"
        /\ \A u \in Versions : cred[u] \notin {"none", "ACTIVE"} => cred'[u] \notin {"none", "ACTIVE"}
    BY <2>1, <1>9
  <2>3. CredInv'
    <3> SUFFICES ASSUME NEW u \in Versions, NEW z \in Versions, u < z, cred'[u] \in {"none", "ACTIVE"}
                 PROVE  cred'[z] = "none"
      BY DEF CredInv
    <3>1. CASE u = w
      <4>1. cred[z] = "none" /\ z # w
        BY <3>1, <1>3, <1>6, <1>9 DEF CredInv
      <4>2. z # v
        BY <4>1, <1>4
      <4> QED BY <4>1, <4>2, <2>1
    <3>2. CASE u \notin {v, w}
      <4>1. cred[u] \in {"none", "ACTIVE"}
        BY <3>2, <2>1
      <4>2. cred[z] = "none"
        BY <4>1, <1>3 DEF CredInv
      <4>3. ~(u < v)
        BY <4>1, <1>3, <1>4 DEF CredInv
      <4>4. z # w /\ z # v
        BY <4>2, <4>3, <3>2, <1>4, <1>6
      <4> QED BY <4>2, <4>4, <2>1
    <3> QED BY <3>1, <3>2, <2>1
  <2>4. ASSUME NEW m \in Models
        PROVE  /\ model'[m] \in ModelRows
               /\ model'[m].cred = 0 \/ cred'[model'[m].cred] # "none"
    <3>1. model[m] \in ModelRows
      BY <1>3
    <3>2. [model[m] EXCEPT !.cred = w] \in ModelRows /\ [model[m] EXCEPT !.cred = w].cred = w
      BY <3>1, <1>6 DEF ModelRows
    <3> QED BY <3>1, <3>2, <2>1, <2>2, <1>3, <1>7, <1>9
  <2>5. model' \in [Models -> ModelRows]
    BY <2>4, <1>9
  <2> QED BY <2>1, <2>2, <2>3, <2>4, <2>5, <1>1, <1>2, AdminLift
<1> QED BY <1>5, <1>8, <1>9

LEMMA RevokeCredentialKeeps ==
    ASSUME ChatInv, NEW a \in Admins, RevokeCredential(a)
    PROVE  ChatInv'
<1> DEFINE v == adm[a].v
<1>1. PICK y \in AdmRecords : adm' = [adm EXCEPT ![a] = y] /\ \A c : AdmOK(y, c)
  BY WrittenFacts DEF RevokeCredential
<1>2. UNCHANGED <<msgs, usage, req, RequestId, sent, dead>> /\ adm[a].op = "revoke"
  BY WrittenFacts DEF RevokeCredential
<1>3. /\ cred \in [Versions -> Statuses] /\ model \in [Models -> ModelRows] /\ CredInv
      /\ \A m \in Models : model[m].cred = 0 \/ cred[model[m].cred] # "none"
      /\ \A m \in Models : model[m].cred \in 0..MaxVersion
  BY AdminFacts DEF ModelRows
<1>4. v \in Versions /\ cred[v] # "none"
  BY <1>2, AdminFacts DEF AdmOK
<1>5. /\ cred' = cred \/ cred' = [cred EXCEPT ![v] = "REVOKED"]
      /\ model' = [m \in Models |-> IF model[m].cred = v
                                    THEN [model[m] EXCEPT !.cred = 0, !.avail = "UNAVAILABLE"] ELSE model[m]]
  BY DEF RevokeCredential
<1>6. \A m \in Models : model[m].cred # 0 => model[m].cred \in Versions
  BY <1>3, ChatAssumption DEF Versions
<1> HIDE DEF v
<1>7. /\ cred' \in [Versions -> Statuses]
      /\ \A u \in Versions : cred'[u] = cred[u] \/ (u = v /\ cred'[u] = "REVOKED")
  BY <1>3, <1>4, <1>5 DEF Statuses
<1>8. /\ \A u \in Versions : cred[u] # "none" <=> cred'[u] # "none"
      /\ \A u \in Versions : cred[u] \notin {"none", "ACTIVE"} => cred'[u] \notin {"none", "ACTIVE"}
  BY <1>4, <1>7
<1>9. CredInv'
  BY <1>3, <1>7, <1>8 DEF CredInv
<1>10. ASSUME NEW m \in Models
       PROVE  /\ model'[m] \in ModelRows
              /\ model'[m].cred = 0 \/ cred'[model'[m].cred] # "none"
  <2> DEFINE z == [model[m] EXCEPT !.cred = 0, !.avail = "UNAVAILABLE"]
  <2>1. model[m] \in ModelRows /\ "UNAVAILABLE" \in Availability /\ 0 \in 0..MaxVersion
    BY <1>3, ChatAssumption DEF Availability
  <2>2. z \in ModelRows /\ z.cred = 0
    BY <2>1 DEF ModelRows
  <2>3. model'[m] = z \/ model'[m] = model[m]
    BY <1>5
  <2> QED BY <2>1, <2>2, <2>3, <1>3, <1>6, <1>8
<1>11. model' \in [Models -> ModelRows]
  BY <1>10, <1>5
<1> QED BY <1>1, <1>2, <1>7, <1>8, <1>9, <1>10, <1>11, AdminLift

\* A model is created, its availability is set, the conversation is archived.
LEMMA ModelWriteKeeps ==
    ASSUME ChatInv, NEW a \in Admins,
           \/ CreateModel(a) \/ archive_conversation(a)
           \/ \E s \in Settable : update_availability(a, s)
    PROVE  ChatInv'
<1>1. PICK y \in AdmRecords : adm' = [adm EXCEPT ![a] = y] /\ \A c : AdmOK(y, c)
  BY WrittenFacts DEF CreateModel, archive_conversation, update_availability
<1>2. UNCHANGED <<cred, msgs, usage, req, RequestId, sent, dead>>
  BY WrittenFacts DEF CreateModel, archive_conversation, update_availability
<1>3. /\ cred \in [Versions -> Statuses] /\ model \in [Models -> ModelRows] /\ CredInv
      /\ \A m \in Models : model[m].cred = 0 \/ cred[model[m].cred] # "none"
      /\ adm[a] \in AdmRecords /\ AdmOK(adm[a], cred)
  BY AdminFacts
<1>4. CredInv'
  BY <1>2, <1>3 DEF CredInv
<1>5. /\ model' \in [Models -> ModelRows]
      /\ \A m \in Models : model'[m].cred = 0 \/ cred[model'[m].cred] # "none"
  <2>1. CASE CreateModel(a)
    <3> DEFINE z == [exists |-> TRUE, cred |-> adm[a].v, avail |-> "UNKNOWN"]
    <3>1. adm[a].op = "model"
      BY <2>1 DEF CreateModel, Written
    <3>2. adm[a].m \in Models /\ (adm[a].v = 0 \/ cred[adm[a].v] # "none") /\ adm[a].v \in 0..MaxVersion
      BY <3>1, <1>3 DEF AdmOK, AdmRecords
    <3>3. z \in ModelRows /\ z.cred = adm[a].v
      BY <3>2 DEF ModelRows, Availability
    <3>4. model' = model \/ model' = [model EXCEPT ![adm[a].m] = z]
      BY <2>1 DEF CreateModel
    <3> HIDE DEF z
    <3> QED BY <3>2, <3>3, <3>4, <1>3
  <2>2. CASE archive_conversation(a)
    BY <2>2, <1>3 DEF archive_conversation
  <2>3. ASSUME NEW s \in Settable, update_availability(a, s)
        PROVE  /\ model' \in [Models -> ModelRows]
               /\ \A m \in Models : model'[m].cred = 0 \/ cred[model'[m].cred] # "none"
    <3> DEFINE z == [model[adm[a].m] EXCEPT !.avail = s]
    <3>1. adm[a].op = s
      BY <2>3 DEF update_availability, Written
    <3>2. adm[a].m \in Models /\ s \in Availability
      BY <3>1, <1>3 DEF AdmOK, Settable, Availability
    <3>3. z \in ModelRows /\ z.cred = model[adm[a].m].cred
      BY <3>2, <1>3 DEF ModelRows
    <3>4. model' = model \/ model' = [model EXCEPT ![adm[a].m] = z]
      BY <2>3 DEF update_availability
    <3> HIDE DEF z
    <3> QED BY <3>2, <3>3, <3>4, <1>3
  <2> QED BY <2>1, <2>2, <2>3
<1> QED BY <1>1, <1>2, <1>3, <1>4, <1>5, AdminLift

\* The first state.
LEMMA ChatStart == ASSUME ChatInit PROVE ChatInv
<1>1. 1 \in Versions /\ \A v \in Versions : v \in 0..MaxVersion /\ (v # 1 => 1 < v)
  BY ChatAssumption DEF Versions
<1>2. /\ cred \in [Versions -> Statuses] /\ cred[1] = "ACTIVE"
      /\ \A v \in Versions : v # 1 => cred[v] = "none"
  BY <1>1 DEF ChatInit, Statuses
<1>3. CredInv
  <2>1. \A v, w \in Versions : v < w => w # 1
    BY DEF Versions
  <2> QED BY <2>1, <1>2 DEF CredInv
<1>4. /\ model \in [Models -> ModelRows]
      /\ \A m \in Models : model[m].cred = 0 \/ cred[model[m].cred] # "none"
  <2> DEFINE z == [exists |-> TRUE, cred |-> 1, avail |-> "UNKNOWN"]
  <2>1. NoRow \in ModelRows /\ NoRow.cred = 0 /\ z \in ModelRows /\ z.cred = 1
    BY ChatAssumption DEF NoRow, ModelRows, Availability
  <2>2. model \in [Models -> {NoRow, z}]
    BY DEF ChatInit
  <2> HIDE DEF z
  <2> QED BY <2>1, <2>2, <1>2
<1>5. ASSUME NEW a \in Admins PROVE adm[a] \in AdmRecords /\ AdmOK(adm[a], cred)
  <2>1. adm[a] = AdmIdle
    BY DEF ChatInit
  <2>2. AdmIdle \in AdmRecords /\ AdmIdle.op = "none"
    BY ChatAssumption DEF AdmIdle, AdmRecords, Statuses
  <2>3. "none" \notin {"rotate", "revoke", "model"} \cup Settable
    BY DEF Settable
  <2> QED BY <2>1, <2>2, <2>3 DEF AdmOK
<1>6. msgs = <<>> /\ msgs \in Seq(Messages) /\ Len(msgs) = 0 /\ usage = {} /\ sent = {}
  BY DEF ChatInit
<1>7. ASSUME NEW r \in Requests
      PROVE  /\ req[r] = Idle /\ req[r] \in ReqRecords /\ req[r].at = "idle" /\ req[r].reached = FALSE
             /\ dead[r] = {} /\ ReqOK(req[r], dead[r]) /\ MsgOK(r, req[r].at, msgs, usage)
  <2>1. req[r] = Idle /\ dead[r] = {}
    BY DEF ChatInit
  <2>2. ReqOK(req[r], dead[r])
    BY <2>1, IdleRecord, Empties DEF ReqOK
  <2>3. \A x : ~Holds(msgs, x)
    BY <1>6 DEF Holds
  <2>4. MsgOK(r, "idle", msgs, usage)
    BY <2>3, <1>6 DEF MsgOK
  <2> QED BY <2>1, <2>2, <2>4, IdleRecord
<1>8. ChatTypes
  <2>1. req \in [Requests -> ReqRecords] /\ dead \in [Requests -> SUBSET Versions]
    BY <1>7 DEF ChatInit
  <2>2. adm \in [Admins -> AdmRecords]
    BY <1>5 DEF ChatInit
  <2>3. IsFiniteSet({})
    BY FS_EmptySet
  <2> QED BY <2>1, <2>2, <2>3, <1>2, <1>4, <1>6 DEF ChatTypes
<1>9. DeadInv /\ SentInv /\ UnbilledHasReason
  BY <1>6, <1>7 DEF DeadInv, SentInv, UnbilledHasReason
<1>10. QuotaInv
  <2>1. InFlight = {}
    BY <1>7 DEF InFlight
  <2>2. Cardinality({}) = 0
    BY FS_EmptySet
  <2> QED BY <2>1, <2>2, <1>6, ChatAssumption DEF QuotaInv
<1> QED BY <1>3, <1>4, <1>5, <1>7, <1>8, <1>9, <1>10 DEF ChatInv

\* Every step keeps the invariant.
LEMMA ChatStep == ASSUME ChatInv, [ChatNext]_chatVars PROVE ChatInv'
<1>1. ASSUME NEW r \in Requests, Begin(r) \/ Serve(r) \/ Provider(r) PROVE ChatInv'
  BY <1>1, ChatBeginKeeps, WriteInputKeeps, RouteKeeps, TryKeeps, WriteAnswerKeeps, WriteErrorKeeps,
     ProviderKeeps DEF Serve
<1>2. ASSUME NEW l \in Loops, Die(l) PROVE ChatInv'
  BY <1>2, DieKeeps
<1>3. ASSUME NEW a \in Admins, Ask(a) \/ Write(a) PROVE ChatInv'
  BY <1>3, ChatAskKeeps, CreateCredentialKeeps, RotateCredentialKeeps, RevokeCredentialKeeps,
     ModelWriteKeeps DEF Write
<1>4. ASSUME UNCHANGED <<cred, model, msgs, usage, req, adm, RequestId, sent, dead>> PROVE ChatInv'
  <2>1. ChatTypes' /\ CredInv' /\ DeadInv' /\ SentInv'
    BY <1>4 DEF ChatInv, ChatTypes, CredInv, DeadInv, SentInv
  <2>2. QuotaInv' /\ UnbilledHasReason'
    BY <1>4 DEF ChatInv, QuotaInv, InFlight, UnbilledHasReason
  <2> QED BY <2>1, <2>2, <1>4 DEF ChatInv
<1>5. ASSUME NEW v \in Versions, Expire(v) PROVE ChatInv'
  BY <1>5, <1>4 DEF Expire
<1>6. CASE UNCHANGED chatVars
  BY <1>6, <1>4 DEF chatVars
<1> QED BY <1>1, <1>2, <1>3, <1>5, <1>6 DEF ChatNext

\* The messages of a request and the versions that are active, counted.
LEMMA OneOfThem ==
    ASSUME NEW S, NEW i \in S, \A j \in S : j = i
    PROVE  Cardinality(S) = 1
<1>1. S = {i}
  OBVIOUS
<1> QED BY <1>1, FS_Singleton

LEMMA ChatMeans == ASSUME ChatInv PROVE ChatAccounted
<1>1. ChatTypes /\ CredInv /\ SentInv /\ QuotaInv /\ UnbilledHasReason
  BY DEF ChatInv
<1>2. msgs \in Seq(Messages) /\ DOMAIN msgs = 1..Len(msgs)
  BY <1>1 DEF ChatTypes
<1>3. ChatTypeOK
  <2>1. cred \in [Versions -> {"none", "ACTIVE", "RETIRED", "REVOKED"}]
    BY <1>1 DEF ChatTypes, Statuses
  <2>2. ASSUME NEW m \in Models
        PROVE  model[m].avail \in Availability /\ (model[m].cred # 0 => cred[model[m].cred] # "none")
    BY <1>1 DEF ChatTypes, ModelRows, ChatInv
  <2>3. ASSUME NEW r \in Requests
        PROVE  /\ req[r].at \in Segments \cup Ended \cup {"idle", "await"}
               /\ req[r].at \in {"try", "await"} => /\ req[r].order # <<>>
                                                    /\ Range(req[r].order) \subseteq DOMAIN req[r].rows
    <3>1. req[r] \in ReqRecords /\ ReqOK(req[r], dead[r])
      BY RequestFacts
    <3>2. req[r].at \in Segments \cup Ended \cup {"idle", "await"} /\ req[r].order \in Seq(Models)
      BY <3>1 DEF ReqRecords
    <3>3. DOMAIN req[r].order = 1..Len(req[r].order)
      BY <3>2
    <3>4. ASSUME req[r].at \in {"try", "await"}
          PROVE  req[r].order # <<>> /\ Range(req[r].order) \subseteq DOMAIN req[r].rows
      <4>1. Len(req[r].order) >= 1 /\ \A i \in 1..Len(req[r].order) : req[r].order[i] \in DOMAIN req[r].rows
        BY <3>1, <3>4 DEF ReqOK
      <4>2. req[r].order # <<>>
        BY <4>1
      <4> QED BY <4>1, <4>2, <3>3 DEF Range
    <3> QED BY <3>2, <3>4
  <2> QED BY <2>1, <2>2, <2>3 DEF ChatTypeOK
<1>4. NoMessageLost
  <2> SUFFICES ASSUME NEW r \in Requests
               PROVE  /\ req[r].at \in {"route", "try", "await", "answer", "fail", "ok", "error"}
                            => Cardinality({i \in DOMAIN msgs : msgs[i] = MessageBy(r, "user")}) = 1
                      /\ req[r].at = "ok" => \E i, j \in DOMAIN msgs : /\ i < j /\ msgs[i] = MessageBy(r, "user")
                                                                      /\ msgs[j] = MessageBy(r, "assistant")
    BY DEF NoMessageLost
  <2> DEFINE u == MessageBy(r, "user")
             S == {i \in DOMAIN msgs : msgs[i] = u}
  <2>1. MsgOK(r, req[r].at, msgs, usage)
    BY RequestFacts
  <2>2. req[r].at \in {"route", "try", "await", "answer", "fail", "ok", "error"} => Cardinality(S) = 1
    <3> SUFFICES ASSUME HoldsOnce(msgs, u) PROVE Cardinality(S) = 1
      BY <2>1 DEF MsgOK
    <3>1. \E i \in S : \A j \in S : j = i
      BY <1>2 DEF HoldsOnce
    <3> HIDE DEF S
    <3> QED BY <3>1, OneOfThem
  <2>3. req[r].at = "ok" => \E i, j \in DOMAIN msgs : /\ i < j /\ msgs[i] = u
                                                     /\ msgs[j] = MessageBy(r, "assistant")
    BY <2>1, <1>2 DEF MsgOK, Follows
  <2> QED BY <2>2, <2>3
<1>5. AnsweredIsBilled
  <2> SUFFICES ASSUME NEW r \in Requests
               PROVE  MessageBy(r, "assistant") \in Range(msgs) <=> [req |-> r, status |-> "SUCCESS"] \in usage
    BY DEF AnsweredIsBilled
  <2> DEFINE b == MessageBy(r, "assistant")
  <2>1. Holds(msgs, b) <=> Success(r) \in usage
    BY RequestFacts DEF MsgOK
  <2>2. Holds(msgs, b) <=> b \in Range(msgs)
    BY <1>2 DEF Holds, Range
  <2> QED BY <2>1, <2>2 DEF Success
<1>6. QuotaOverrunBounded
  <2>1. IsFiniteSet(InFlight)
    BY FS_Subset, ChatAssumption DEF InFlight
  <2>2. Cardinality(InFlight) \in Nat /\ Cardinality(usage) \in Nat
    BY <2>1, <1>1, FS_CardinalityType DEF ChatTypes
  <2> QED BY <2>2, <1>1, ChatAssumption DEF QuotaInv, QuotaOverrunBounded
<1>7. OneActiveVersion
  <2> DEFINE S == {v \in Versions : cred[v] = "ACTIVE"}
  <2>1. \A v, w \in S : v = w
    <3>1. \A v, w \in Versions : v < w \/ v = w \/ w < v
      BY DEF Versions
    <3> QED BY <3>1, <1>1 DEF CredInv
  <2>2. CASE S = {}
    BY <2>2, FS_EmptySet DEF OneActiveVersion
  <2>3. CASE S # {}
    <3> HIDE DEF S
    <3>1. Cardinality(S) = 1
      BY <2>1, <2>3, OneOfThem
    <3> QED BY <3>1 DEF OneActiveVersion, S
  <2> QED BY <2>2, <2>3
<1>8. RevokedNeverSent
  <2> SUFFICES ASSUME NEW p \in sent PROVE p[2] \notin dead[p[1]]
    BY DEF RevokedNeverSent
  <2>1. p \in Requests \X (0..MaxVersion)
    BY <1>1 DEF ChatTypes
  <2>2. p[1] \in Requests /\ p[2] \in 0..MaxVersion /\ <<p[1], p[2]>> \in sent
    BY <2>1
  <2> QED BY <2>2, <1>1 DEF SentInv
<1> QED BY <1>1, <1>3, <1>4, <1>5, <1>6, <1>7, <1>8 DEF ChatAccounted

(* Whatever requests and administrators overlap, fail over, repeat an id    *)
(* or die with their process: no input of a chat is lost, an answer is      *)
(* stored if and only if it is billed, what reached a provider and is not   *)
(* billed has a reason, the monthly quota is overrun by less than the       *)
(* requests in flight, and a credential revoked before a request began is   *)
(* never sent for it (chat.py, usage.py, router.py, services.py).           *)
THEOREM Chat == ChatSpec => []ChatAccounted
<1>1. ChatSpec => []ChatInv
  BY ChatStart, ChatStep, PTL DEF ChatSpec
<1>2. ChatInv => ChatAccounted
  BY ChatMeans
<1> QED BY <1>1, <1>2, PTL

-----------------------------------------------------------------------------
(* The rate limiter. *)

Admissions == [at : Nat, ends : Nat, nth : Nat, life : Nat]
Windows == [count : Nat, expires : Nat]

\* The requests of one key that were counted and let through between one loss of windows and
\* the next: each within its window, no more than the limit of one window, no two of one
\* place, and windows that do not overlap.
AdmittedOK(as) ==
    /\ as \subseteq Admissions
    /\ \A x \in as : /\ x.at < x.ends /\ x.ends <= x.at + Window
                     /\ 1 <= x.nth /\ x.nth <= Limit
    /\ \A x, y \in as : \/ x.ends = y.ends /\ (x.nth = y.nth => x = y)
                        \/ x.ends + Window <= y.ends
                        \/ y.ends + Window <= x.ends

\* What the window of the key remembers of them: while it runs, the requests let through are
\* its own, counted, or of windows before it; once it is over, all their windows are.
WindowOK(as, b, now) ==
    /\ b.expires <= now + Window
    /\ b.expires > now => \A x \in as : \/ x.ends = b.expires /\ x.nth <= b.count
                                        \/ x.ends + Window <= b.expires
    /\ b.expires <= now => \A x \in as : x.ends <= now

\* Of what was let through: the requests counted while the windows were lost l times, and
\* every request is counted or was let through for want of an answer.
CountedIn(as, l) == {x \in as : x.life = l /\ x.nth # 0}
AllowedOK(as, n, fo) ==
    /\ \A x \in as : x.life \in 0..n /\ (x.nth = 0 => fo)
    /\ \A l \in 0..n : AdmittedOK(CountedIn(as, l))
KeyOK(as, b, now, n, fo) ==
    AllowedOK(as, n, fo) /\ b \in Windows /\ WindowOK(CountedIn(as, n), b, now)

LimitInv ==
    /\ clock \in Nat /\ losses \in Nat
    /\ win = [k \in LimitKeys |-> win[k]]
    /\ allowed = [k \in LimitKeys |-> allowed[k]]
    /\ \A k \in LimitKeys : KeyOK(allowed[k], win[k], clock, losses, failOpen)

LEMMA AdmittedTypes ==
    ASSUME NEW as, as \subseteq Admissions
    PROVE  \A x \in as : x.at \in Nat /\ x.ends \in Nat /\ x.nth \in Nat
BY DEF Admissions

\* The requests of one window are no more than the limit.
LEMMA WindowBound ==
    ASSUME NEW as, AdmittedOK(as), NEW e
    PROVE  LET own == {x \in as : x.ends = e}
           IN  IsFiniteSet(own) /\ Cardinality(own) <= Limit
<1> DEFINE own == {x \in as : x.ends = e}
           place == [x \in own |-> x.nth]
<1>0. \A x \in as : x.at \in Nat /\ x.ends \in Nat /\ x.nth \in Nat
    BY AdmittedTypes DEF AdmittedOK
<1>1. ASSUME NEW x \in own PROVE x.nth \in 1..Limit
    <2>1. 1 <= x.nth /\ x.nth <= Limit BY DEF AdmittedOK
    <2>2. x.nth \in Nat BY <1>0
    <2> QED BY ONLY <2>1, <2>2, LimitAssumption
<1>2. ASSUME NEW x \in own, NEW y \in own, x.nth = y.nth PROVE x = y
    <2>1. \/ x.ends = y.ends /\ (x.nth = y.nth => x = y)
          \/ x.ends + Window <= y.ends
          \/ y.ends + Window <= x.ends
        BY DEF AdmittedOK
    <2>2. x.ends = y.ends /\ x.ends \in Nat BY <1>0
    <2>3. ~(x.ends + Window <= y.ends) /\ ~(y.ends + Window <= x.ends) BY <2>2, LimitAssumption
    <2> QED BY <2>1, <2>3, <1>2
<1>3. place \in Injection(own, 1..Limit) BY <1>1, <1>2 DEF Injection, IsInjective
<1>4. IsFiniteSet(1..Limit) /\ Cardinality(1..Limit) = Limit BY FS_Interval, LimitAssumption
<1>5. IsFiniteSet(own) /\ Cardinality(own) <= Cardinality(1..Limit)
    <2> HIDE DEF own, place
    <2> QED BY <1>3, <1>4, FS_Injection
<1> QED BY <1>4, <1>5

\* A stretch of a window's length meets at most two windows.
LEMMA StretchBound ==
    ASSUME NEW as, AdmittedOK(as), NEW t \in Nat
    PROVE  Cardinality(InStretch(as, t)) <= 2 * Limit
<1> DEFINE S == InStretch(as, t)
           Own(e) == {x \in as : x.ends = e}
<1>0. \A x \in as : x.at \in Nat /\ x.ends \in Nat /\ x.nth \in Nat
    BY AdmittedTypes DEF AdmittedOK
<1>1. ASSUME NEW x \in S, NEW y \in S, NEW z \in S
      PROVE  x.ends = y.ends \/ x.ends = z.ends \/ y.ends = z.ends
    <2>1. ASSUME NEW a \in S
          PROVE  a \in as /\ t < a.ends /\ a.ends < t + Window + Window /\ a.ends \in Nat
        <3>1. a \in as /\ t <= a.at /\ a.at < t + Window BY DEF InStretch
        <3>2. a.at < a.ends /\ a.ends <= a.at + Window BY <3>1 DEF AdmittedOK
        <3>3. a.at \in Nat /\ a.ends \in Nat BY <3>1, <1>0
        <3>4. t < a.ends /\ a.ends < t + Window + Window
            BY <3>1, <3>2, <3>3, LimitAssumption
        <3> QED BY <3>1, <3>3, <3>4
    <2>2. \A a, b \in {x, y, z} : a.ends = b.ends \/ a.ends + Window <= b.ends \/ b.ends + Window <= a.ends
        BY <2>1 DEF AdmittedOK
    <2>3. /\ x.ends = y.ends \/ x.ends + Window <= y.ends \/ y.ends + Window <= x.ends
          /\ x.ends = z.ends \/ x.ends + Window <= z.ends \/ z.ends + Window <= x.ends
          /\ y.ends = z.ends \/ y.ends + Window <= z.ends \/ z.ends + Window <= y.ends
        BY <2>2
    <2>4. /\ t < x.ends /\ x.ends < t + Window + Window /\ x.ends \in Nat
          /\ t < y.ends /\ y.ends < t + Window + Window /\ y.ends \in Nat
          /\ t < z.ends /\ z.ends < t + Window + Window /\ z.ends \in Nat
        BY <2>1
    <2> QED BY <2>3, <2>4, LimitAssumption
<1>2. \E d, e : S \subseteq Own(d) \cup Own(e)
    <2>1. CASE \E x, y \in S : x.ends # y.ends
        <3>1. PICK x, y \in S : x.ends # y.ends BY <2>1
        <3>2. S \subseteq Own(x.ends) \cup Own(y.ends) BY <3>1, <1>1 DEF InStretch
        <3> QED BY <3>2
    <2>2. CASE \A x, y \in S : x.ends = y.ends
        <3>1. CASE S = {}  BY <3>1
        <3>2. CASE S # {}
            <4>1. PICK x \in S : TRUE BY <3>2
            <4>2. S \subseteq Own(x.ends) \cup Own(x.ends) BY <4>1, <2>2 DEF InStretch
            <4> QED BY <4>2
        <3> QED BY <3>1, <3>2
    <2> QED BY <2>1, <2>2
<1>3. PICK d, e : S \subseteq Own(d) \cup Own(e) BY <1>2
<1>4. IsFiniteSet(Own(d)) /\ Cardinality(Own(d)) <= Limit BY WindowBound
<1>5. IsFiniteSet(Own(e)) /\ Cardinality(Own(e)) <= Limit BY WindowBound
<1> HIDE DEF S, Own
<1>6. /\ IsFiniteSet(Own(d) \cup Own(e))
      /\ Cardinality(Own(d) \cup Own(e)) = Cardinality(Own(d)) + Cardinality(Own(e)) - Cardinality(Own(d) \cap Own(e))
    BY <1>4, <1>5, FS_Union
<1>7. /\ Cardinality(Own(d)) \in Nat /\ Cardinality(Own(e)) \in Nat
      /\ Cardinality(Own(d) \cap Own(e)) \in Nat
    <2>1. IsFiniteSet(Own(d) \cap Own(e)) BY <1>4, FS_Subset
    <2> QED BY <2>1, <1>4, <1>5, FS_CardinalityType
<1>8. Cardinality(S) <= Cardinality(Own(d) \cup Own(e)) /\ Cardinality(S) \in Nat
    <2>1. IsFiniteSet(S) /\ Cardinality(S) <= Cardinality(Own(d) \cup Own(e))
        BY <1>3, <1>6, FS_Subset
    <2> QED BY <2>1, FS_CardinalityType
<1>9. Cardinality(S) <= 2 * Limit BY <1>4, <1>5, <1>6, <1>7, <1>8, LimitAssumption
<1> QED BY <1>9 DEF S

\* The window of a key after a request, and the requests let through then.
NextWindow(b, now) ==
    IF b.expires <= now THEN [count |-> 1, expires |-> now + Window] ELSE [b EXCEPT !.count = @ + 1]
Admitted(as, c, now, l) ==
    IF c.count > Limit THEN as
    ELSE as \cup {[at |-> now, ends |-> c.expires, nth |-> c.count, life |-> l]}
CountedOK(as, c, more, now) ==
    /\ c \in Windows /\ WindowOK(as, c, now)
    /\ AdmittedOK(more) /\ WindowOK(more, c, now)

LEMMA CountedFacts ==
    ASSUME NEW as, AdmittedOK(as), NEW b \in Windows, NEW now \in Nat, WindowOK(as, b, now),
           NEW l \in Nat
    PROVE  CountedOK(as, NextWindow(b, now), Admitted(as, NextWindow(b, now), now, l), now)
<1> DEFINE c == NextWindow(b, now)
           more == Admitted(as, c, now, l)
<1>c. c = IF b.expires <= now THEN [count |-> 1, expires |-> now + Window]
          ELSE [b EXCEPT !.count = @ + 1]
    BY DEF NextWindow
<1>m. more = IF c.count > Limit THEN as
             ELSE as \cup {[at |-> now, ends |-> c.expires, nth |-> c.count, life |-> l]}
    BY DEF Admitted
<1> SUFFICES CountedOK(as, c, more, now) OBVIOUS
<1> HIDE DEF c, more
<1> DEFINE a == [at |-> now, ends |-> c.expires, nth |-> c.count, life |-> l]
<1>1. /\ c \in Windows /\ c.count \in Nat /\ c.expires \in Nat /\ 1 <= c.count
      /\ now < c.expires /\ c.expires <= now + Window
    BY <1>c, LimitAssumption DEF Windows, WindowOK
<1>2. \A x \in as : x.at \in Nat /\ x.ends \in Nat /\ x.nth \in Nat
    BY AdmittedTypes DEF AdmittedOK
<1>w. b.expires \in Nat /\ b.count \in Nat BY DEF Windows
<1>3. ASSUME NEW x \in as
      PROVE  \/ x.ends = c.expires /\ x.nth < c.count
             \/ x.ends + Window <= c.expires
    <2>x. x.ends \in Nat /\ x.nth \in Nat BY <1>2
    <2>1. CASE b.expires <= now
        <3>1. c.count = 1 /\ c.expires = now + Window BY <1>c, <2>1
        <3>2. x.ends <= now BY <2>1 DEF WindowOK
        <3> QED BY ONLY <3>1, <3>2, <2>x, LimitAssumption, now \in Nat
    <2>2. CASE ~(b.expires <= now)
        <3>1. c.count = b.count + 1 /\ c.expires = b.expires BY <1>c, <2>2 DEF Windows
        <3>2. b.expires > now BY <2>2, <1>w
        <3>3. \/ x.ends = b.expires /\ x.nth <= b.count
              \/ x.ends + Window <= b.expires
            BY <3>2 DEF WindowOK
        <3> QED BY ONLY <3>1, <3>3, <1>w, <2>x
    <2> QED BY <2>1, <2>2
<1>4. WindowOK(as, c, now)
    <2>1. ASSUME NEW x \in as
          PROVE  \/ x.ends = c.expires /\ x.nth <= c.count
                 \/ x.ends + Window <= c.expires
        <3>1. x.nth \in Nat BY <1>2
        <3>2. x.nth < c.count => x.nth <= c.count BY ONLY <3>1, <1>1
        <3> QED BY <3>2, <1>3
    <2>2. ~(c.expires <= now) BY <1>1
    <2> QED BY <2>1, <2>2, <1>1 DEF WindowOK
<1>5. CASE c.count > Limit
    BY <1>5, <1>m, <1>1, <1>4 DEF CountedOK
<1>6. CASE ~(c.count > Limit)
    <2>1. a \in Admissions BY <1>1 DEF Admissions
    <2>2. a.at = now /\ a.ends = c.expires /\ a.nth = c.count OBVIOUS
    <2>3. more = as \cup {a} BY <1>6, <1>m
    <2> HIDE DEF a
    <2>4. /\ a.at < a.ends /\ a.ends <= a.at + Window /\ 1 <= a.nth /\ a.nth <= Limit
        BY <2>2, <1>1, <1>6, LimitAssumption
    <2>5. \A x \in as : (x.ends = a.ends /\ x.nth # a.nth) \/ x.ends + Window <= a.ends
        <3>1. \A x \in as : x.nth < c.count => x.nth # c.count BY <1>1, <1>2
        <3> QED BY <3>1, <2>2, <1>3
    <2>6. \A x, y \in more : \/ x.ends = y.ends /\ (x.nth = y.nth => x = y)
                             \/ x.ends + Window <= y.ends
                             \/ y.ends + Window <= x.ends
        BY <2>3, <2>5 DEF AdmittedOK
    <2>7. AdmittedOK(more) BY <2>1, <2>3, <2>4, <2>6 DEF AdmittedOK
    <2>8. WindowOK(more, c, now)
        <3>1. ~(c.expires <= now) /\ a.ends = c.expires /\ a.nth <= c.count BY <2>2, <1>1
        <3>2. \A x \in as : \/ x.ends = c.expires /\ x.nth <= c.count
                            \/ x.ends + Window <= c.expires
            BY <1>4, <1>1 DEF WindowOK
        <3> QED BY <3>1, <3>2, <2>3, <1>1 DEF WindowOK
    <2> QED BY <2>7, <2>8, <1>1, <1>4 DEF CountedOK
<1> QED BY <1>5, <1>6

\* A window dropped because it is over.
LEMMA DroppedFacts ==
    ASSUME NEW as, NEW b \in Windows, NEW now \in Nat, WindowOK(as, b, now), b.expires <= now
    PROVE  NoWindow \in Windows /\ WindowOK(as, NoWindow, now)
<1>1. NoWindow \in Windows /\ NoWindow.expires = 0 BY DEF NoWindow, Windows
<1>2. 0 <= now /\ 0 <= now + Window /\ ~(0 > now) BY LimitAssumption
<1> QED BY <1>1, <1>2 DEF WindowOK

LEMMA LimitInitInv == LimitInit => LimitInv
<1> SUFFICES ASSUME LimitInit PROVE LimitInv OBVIOUS
<1>1. NoWindow \in Windows BY DEF NoWindow, Windows
<1>2. AdmittedOK({}) /\ WindowOK({}, NoWindow, 0)
    BY LimitAssumption DEF AdmittedOK, WindowOK, NoWindow
<1>3. \A l : CountedIn({}, l) = {} BY DEF CountedIn
<1>4. KeyOK({}, NoWindow, 0, 0, failOpen) BY <1>1, <1>2, <1>3 DEF KeyOK, AllowedOK
<1> QED BY <1>4 DEF LimitInit, LimitInv

\* One more request let through: counted in its life, or not at all.
LEMMA AddedFacts ==
    ASSUME NEW as, NEW a, NEW l
    PROVE  CountedIn(as \cup {a}, l) =
               IF a.life = l /\ a.nth # 0 THEN CountedIn(as, l) \cup {a} ELSE CountedIn(as, l)
BY DEF CountedIn

\* A request let through for want of an answer is not counted.
LEMMA UncountedKey ==
    ASSUME NEW as, NEW b, NEW now, NEW n \in Nat, KeyOK(as, b, now, n, TRUE),
           NEW u, u.nth = 0, u.life = n
    PROVE  KeyOK(as \cup {u}, b, now, n, TRUE)
<1>1. \A l : CountedIn(as \cup {u}, l) = CountedIn(as, l) BY AddedFacts
<1>2. u.life \in 0..n OBVIOUS
<1> QED BY <1>1, <1>2 DEF KeyOK, AllowedOK

\* A request is counted, and let through or refused.
LEMMA CountedKey ==
    ASSUME NEW as, NEW b, NEW now \in Nat, NEW n \in Nat, NEW fo, KeyOK(as, b, now, n, fo)
    PROVE  LET c == NextWindow(b, now)
           IN  KeyOK(as, c, now, n, fo) /\ KeyOK(Admitted(as, c, now, n), c, now, n, fo)
<1> DEFINE c == NextWindow(b, now)
           own == CountedIn(as, n)
           more == Admitted(own, c, now, n)
           all == Admitted(as, c, now, n)
           a == [at |-> now, ends |-> c.expires, nth |-> c.count, life |-> n]
<1>1. /\ b \in Windows /\ AdmittedOK(own) /\ WindowOK(own, b, now)
      /\ AllowedOK(as, n, fo)
    <2>1. n \in 0..n OBVIOUS
    <2> QED BY <2>1 DEF KeyOK, AllowedOK
<1>2. CountedOK(own, c, more, now) BY <1>1, CountedFacts
<1>3. KeyOK(as, c, now, n, fo) BY <1>1, <1>2 DEF KeyOK, CountedOK
<1>4. CASE c.count > Limit
    <2>1. all = as BY <1>4 DEF Admitted
    <2> QED BY <1>3, <2>1
<1>5. CASE ~(c.count > Limit)
    <2>1. all = as \cup {a} /\ more = own \cup {a} BY <1>5 DEF Admitted
    <2>2. c.count # 0
        <3>1. b.count \in Nat BY <1>1 DEF Windows
        <3> QED BY <3>1 DEF NextWindow
    <2>3. a.life = n /\ a.nth = c.count OBVIOUS
    <2> HIDE DEF a, all, more
    <2>4. CountedIn(all, n) = more BY <2>1, <2>2, <2>3, AddedFacts
    <2>5. \A l : l # n => CountedIn(all, l) = CountedIn(as, l) BY <2>1, <2>3, AddedFacts
    <2> HIDE DEF own, c
    <2>6. \A l \in 0..n : AdmittedOK(CountedIn(all, l))
        BY <1>1, <1>2, <2>4, <2>5 DEF AllowedOK, CountedOK
    <2>7. \A x \in all : x.life \in 0..n /\ (x.nth = 0 => fo)
        <3>1. n \in 0..n OBVIOUS
        <3>2. \A x \in as : x.life \in 0..n /\ (x.nth = 0 => fo) BY <1>1 DEF AllowedOK
        <3> QED BY <2>1, <2>2, <2>3, <3>1, <3>2
    <2>8. KeyOK(all, c, now, n, fo) BY <1>2, <2>4, <2>6, <2>7 DEF KeyOK, AllowedOK, CountedOK
    <2> QED BY <1>3, <2>8 DEF all, c
<1> QED BY <1>4, <1>5

\* The windows and the requests let through stay functions of the keys.
LEMMA KeysStay ==
    ASSUME NEW f, f = [j \in LimitKeys |-> f[j]], NEW k \in LimitKeys, NEW v,
           NEW g, g = [f EXCEPT ![k] = v]
    PROVE  /\ g = [j \in LimitKeys |-> g[j]] /\ g[k] = v
           /\ \A j \in LimitKeys \ {k} : g[j] = f[j]
OBVIOUS

\* One key is counted, in memory or in Redis, with or without the request let through.
LEMMA CountInv ==
    ASSUME LimitInv, NEW k \in LimitKeys,
           NEW ws, ws = [win EXCEPT ![k] = Counted(k)],
           Let(k, Counted(k))
    PROVE  /\ ws = [j \in LimitKeys |-> ws[j]]
           /\ allowed' = [j \in LimitKeys |-> allowed'[j]]
           /\ \A j \in LimitKeys : KeyOK(allowed'[j], ws[j], clock, losses, failOpen)
<1> DEFINE c == NextWindow(win[k], clock)
           all == Admitted(allowed[k], c, clock, losses)
<1>1. c = Counted(k) BY DEF Counted, NextWindow
<1>2. /\ clock \in Nat /\ losses \in Nat
      /\ \A j \in LimitKeys : KeyOK(allowed[j], win[j], clock, losses, failOpen)
    BY DEF LimitInv
<1>3. KeyOK(allowed[k], c, clock, losses, failOpen) /\ KeyOK(all, c, clock, losses, failOpen)
    BY <1>2, CountedKey
<1>4. allowed' = allowed \/ allowed' = [allowed EXCEPT ![k] = all]
    BY <1>1 DEF Let, LetThrough, Admitted
<1>5. ws = [win EXCEPT ![k] = c] BY <1>1
<1>a. win = [j \in LimitKeys |-> win[j]] /\ allowed = [j \in LimitKeys |-> allowed[j]]
    BY DEF LimitInv
<1> HIDE DEF all, c
<1>6. /\ ws = [j \in LimitKeys |-> ws[j]] /\ ws[k] = c
      /\ \A j \in LimitKeys \ {k} : ws[j] = win[j]
    BY <1>5, <1>a, KeysStay
<1>7. /\ allowed' = [j \in LimitKeys |-> allowed'[j]] /\ allowed'[k] \in {allowed[k], all}
      /\ \A j \in LimitKeys \ {k} : allowed'[j] = allowed[j]
    <2>1. CASE allowed' = allowed BY <1>a, <2>1
    <2>2. CASE allowed' = [allowed EXCEPT ![k] = all] BY <1>a, <2>2, KeysStay
    <2> QED BY <1>4, <2>1, <2>2
<1>8. \A j \in LimitKeys : KeyOK(allowed'[j], ws[j], clock, losses, failOpen)
    BY <1>2, <1>3, <1>6, <1>7
<1> QED BY <1>6, <1>7, <1>8

LEMMA MemoryCheckInv ==
    ASSUME LimitInv, NEW k \in LimitKeys, MemoryCheck(k)
    PROVE  LimitInv'
<1> DEFINE ws == [win EXCEPT ![k] = Counted(k)]
<1>1. win' = Purged(ws) /\ Let(k, Counted(k)) /\ UNCHANGED <<clock, losses, failOpen>>
    BY DEF MemoryCheck, setting
<1>2. /\ ws = [j \in LimitKeys |-> ws[j]]
      /\ allowed' = [j \in LimitKeys |-> allowed'[j]]
      /\ \A j \in LimitKeys : KeyOK(allowed'[j], ws[j], clock, losses, failOpen)
    BY <1>1, CountInv
<1> HIDE DEF ws
<1>3. win' = ws \/ win' = [j \in LimitKeys |-> IF ws[j].expires > clock THEN ws[j] ELSE NoWindow]
    BY <1>1 DEF Purged
<1>4. clock \in Nat /\ losses \in Nat BY DEF LimitInv
<1>5. ASSUME NEW j \in LimitKeys PROVE KeyOK(allowed'[j], win'[j], clock, losses, failOpen)
    <2>1. KeyOK(allowed'[j], ws[j], clock, losses, failOpen) BY <1>2
    <2>2. CASE win'[j] = ws[j] BY <2>1, <2>2
    <2>3. CASE win'[j] = NoWindow /\ ~(ws[j].expires > clock)
        <3>1. /\ AllowedOK(allowed'[j], losses, failOpen) /\ ws[j] \in Windows
              /\ WindowOK(CountedIn(allowed'[j], losses), ws[j], clock)
            BY <2>1 DEF KeyOK
        <3>2. ws[j].expires <= clock BY <3>1, <2>3, <1>4 DEF Windows
        <3>3. NoWindow \in Windows /\ WindowOK(CountedIn(allowed'[j], losses), NoWindow, clock)
            BY <3>1, <3>2, <1>4, DroppedFacts
        <3> QED BY <3>1, <3>3, <2>3 DEF KeyOK
    <2> QED BY <1>3, <2>2, <2>3
<1>6. win' = [j \in LimitKeys |-> win'[j]] BY <1>2, <1>3
<1> QED BY <1>1, <1>2, <1>4, <1>5, <1>6 DEF LimitInv

\* Redis fails: the key may have been counted, and the request may be let through.
LEMMA RedisFailsInv ==
    ASSUME LimitInv, NEW k \in LimitKeys, RedisFails(k)
    PROVE  LimitInv'
<1> DEFINE c == NextWindow(win[k], clock)
           u == [at |-> clock, ends |-> clock, nth |-> 0, life |-> losses]
           all == allowed[k] \cup {u}
<1>1. /\ win' = win \/ win' = [win EXCEPT ![k] = c]
      /\ allowed' = allowed \/ (failOpen /\ allowed' = [allowed EXCEPT ![k] = all])
      /\ UNCHANGED <<clock, losses, failOpen>>
    BY DEF RedisFails, LetThrough, setting, Counted, NextWindow
<1>2. /\ clock \in Nat /\ losses \in Nat
      /\ \A j \in LimitKeys : KeyOK(allowed[j], win[j], clock, losses, failOpen)
      /\ win = [j \in LimitKeys |-> win[j]] /\ allowed = [j \in LimitKeys |-> allowed[j]]
    BY DEF LimitInv
<1>3. KeyOK(allowed[k], c, clock, losses, failOpen) BY <1>2, CountedKey
<1>4. ASSUME NEW w \in {win[k], c}, NEW as, as = allowed[k] \/ (failOpen /\ as = all)
      PROVE  KeyOK(as, w, clock, losses, failOpen)
    <2>1. KeyOK(allowed[k], w, clock, losses, failOpen) BY <1>2, <1>3
    <2>2. CASE as = allowed[k] BY <2>1, <2>2
    <2>3. CASE failOpen /\ as = all
        <3>1. u.nth = 0 /\ u.life = losses OBVIOUS
        <3> HIDE DEF u, c
        <3>2. KeyOK(allowed[k], w, clock, losses, TRUE) BY <2>1, <2>3 DEF KeyOK, AllowedOK
        <3>3. KeyOK(all, w, clock, losses, TRUE) BY <1>2, <3>1, <3>2, UncountedKey
        <3> QED BY <2>3, <3>3 DEF KeyOK, AllowedOK
    <2> QED BY <1>4, <2>2, <2>3
<1> HIDE DEF c, all
<1>5. /\ win' = [j \in LimitKeys |-> win'[j]] /\ win'[k] \in {win[k], c}
      /\ \A j \in LimitKeys \ {k} : win'[j] = win[j]
    <2>1. CASE win' = win BY <1>2, <2>1
    <2>2. CASE win' = [win EXCEPT ![k] = c] BY <1>2, <2>2, KeysStay
    <2> QED BY <1>1, <2>1, <2>2
<1>6. /\ allowed' = [j \in LimitKeys |-> allowed'[j]]
      /\ allowed'[k] = allowed[k] \/ (failOpen /\ allowed'[k] = all)
      /\ \A j \in LimitKeys \ {k} : allowed'[j] = allowed[j]
    <2>1. CASE allowed' = allowed BY <1>2, <2>1
    <2>2. CASE failOpen /\ allowed' = [allowed EXCEPT ![k] = all] BY <1>2, <2>2, KeysStay
    <2> QED BY <1>1, <2>1, <2>2
<1>7. KeyOK(allowed'[k], win'[k], clock, losses, failOpen) BY <1>4, <1>5, <1>6
<1>8. \A j \in LimitKeys : KeyOK(allowed'[j], win'[j], clock, losses, failOpen)
    BY <1>2, <1>5, <1>6, <1>7
<1> QED BY <1>1, <1>2, <1>5, <1>6, <1>8 DEF LimitInv

\* Windows are lost: what is let through from now on is counted anew.
LEMMA LoseWindowsInv ==
    ASSUME LimitInv, LoseWindows
    PROVE  LimitInv'
<1>1. /\ losses' = losses + 1 /\ UNCHANGED <<clock, failOpen, allowed>>
      /\ win' = [k \in LimitKeys |-> win'[k]]
      /\ \A k \in LimitKeys : win'[k] \in Left(win[k])
    BY DEF LoseWindows, setting
<1>2. clock \in Nat /\ losses \in Nat /\ allowed = [k \in LimitKeys |-> allowed[k]]
    BY DEF LimitInv
<1>3. ASSUME NEW k \in LimitKeys PROVE KeyOK(allowed[k], win'[k], clock, losses + 1, failOpen)
    <2>1. /\ AllowedOK(allowed[k], losses, failOpen) /\ win[k] \in Windows
          /\ win[k].expires <= clock + Window
        BY DEF LimitInv, KeyOK, WindowOK
    <2>2. win'[k] \in Windows /\ win'[k].expires <= clock + Window
        <3>1. NoWindow \in Windows /\ NoWindow.expires = 0 BY DEF NoWindow, Windows
        <3>2. 0 <= clock + Window BY <1>2, LimitAssumption
        <3>3. \/ win'[k] = NoWindow
              \/ \E c \in 1..win[k].count : win'[k] = [win[k] EXCEPT !.count = c]
            BY <1>1 DEF Left
        <3>4. ASSUME NEW c \in 1..win[k].count, win'[k] = [win[k] EXCEPT !.count = c]
              PROVE  win'[k] \in Windows /\ win'[k].expires = win[k].expires
            BY <2>1, <3>4 DEF Windows
        <3> QED BY <2>1, <3>1, <3>2, <3>3, <3>4
    <2>3. CountedIn(allowed[k], losses + 1) = {}
        BY <1>2, <2>1 DEF CountedIn, AllowedOK
    <2>4. AdmittedOK({}) /\ WindowOK({}, win'[k], clock)
        BY <2>2 DEF AdmittedOK, WindowOK
    <2>5. AllowedOK(allowed[k], losses + 1, failOpen)
        <3>1. \A l \in 0..(losses + 1) : l \in 0..losses \/ l = losses + 1 BY <1>2
        <3>2. \A l \in 0..losses : l \in 0..(losses + 1) BY <1>2
        <3> QED BY <2>1, <2>3, <2>4, <3>1, <3>2 DEF AllowedOK
    <2> QED BY <2>2, <2>3, <2>4, <2>5 DEF KeyOK
<1>4. losses + 1 \in Nat BY <1>2
<1> QED BY <1>1, <1>2, <1>3, <1>4 DEF LimitInv

LEMMA LimitStep == LimitInv /\ [LimitNext]_limitVars => LimitInv'
<1> SUFFICES ASSUME LimitInv, [LimitNext]_limitVars PROVE LimitInv' OBVIOUS
<1>1. CASE Tick
    <2>1. clock' = clock + 1 /\ UNCHANGED <<win, allowed, losses, failOpen>>
        BY <1>1 DEF Tick, setting
    <2>2. clock \in Nat BY DEF LimitInv
    <2>3. ASSUME NEW k \in LimitKeys PROVE KeyOK(allowed[k], win[k], clock + 1, losses, failOpen)
        <3> DEFINE own == CountedIn(allowed[k], losses)
        <3>1. /\ AllowedOK(allowed[k], losses, failOpen) /\ win[k] \in Windows
              /\ WindowOK(own, win[k], clock) /\ losses \in 0..losses
            BY DEF LimitInv, KeyOK
        <3>2. AdmittedOK(own) BY <3>1 DEF AllowedOK
        <3> HIDE DEF own
        <3>3. WindowOK(own, win[k], clock + 1)
            BY <2>2, <3>1, <3>2, LimitAssumption DEF WindowOK, Windows, AdmittedOK, Admissions
        <3> QED BY <3>1, <3>3 DEF KeyOK, own
    <2>4. clock + 1 \in Nat BY <2>2
    <2> QED BY <2>1, <2>3, <2>4 DEF LimitInv
<1>2. CASE LoseWindows BY <1>2, LoseWindowsInv
<1>3. ASSUME NEW k \in LimitKeys, MemoryCheck(k) PROVE LimitInv' BY <1>3, MemoryCheckInv
<1>4. ASSUME NEW k \in LimitKeys, RedisCheck(k) PROVE LimitInv'
    <2>1. /\ win' = [win EXCEPT ![k] = Counted(k)] /\ Let(k, Counted(k))
          /\ UNCHANGED <<clock, losses, failOpen>>
        BY <1>4 DEF RedisCheck, setting
    <2> QED BY <2>1, CountInv DEF LimitInv
<1>5. ASSUME NEW k \in LimitKeys, RedisFails(k) PROVE LimitInv' BY <1>5, RedisFailsInv
<1>6. CASE UNCHANGED limitVars BY <1>6 DEF limitVars, setting, LimitInv
<1> QED BY <1>1, <1>2, <1>3, <1>4, <1>5, <1>6 DEF LimitNext

\* As long as the windows are not lost, no stretch of a window's length lets more than two
\* windows' worth of requests of a key through, whatever MemoryRateLimiter purges and wherever
\* the script of RedisRateLimiter fails; what it lets through in want of an answer, when it is
\* set to fail open, comes on top.
THEOREM TwiceTheLimitAlways == LimitSpec => []TwiceTheLimit
<1>1. LimitInv => TwiceTheLimit
    <2> SUFFICES ASSUME LimitInv, NEW k \in LimitKeys, NEW t \in 0..MaxTime, NEW l \in 0..losses
                 PROVE  Cardinality(InStretch(GovernedIn(allowed[k], l), t)) <= 2 * Limit
        BY DEF TwiceTheLimit
    <2>1. AllowedOK(allowed[k], losses, failOpen) /\ t \in Nat BY DEF LimitInv, KeyOK
    <2>2. AdmittedOK(CountedIn(allowed[k], l)) BY <2>1 DEF AllowedOK
    <2>3. GovernedIn(allowed[k], l) = CountedIn(allowed[k], l)
        BY <2>1 DEF AllowedOK, GovernedIn, CountedIn
    <2> QED BY <2>1, <2>2, <2>3, StretchBound
<1> QED BY LimitInitInv, LimitStep, <1>1, PTL DEF LimitSpec

-----------------------------------------------------------------------------
(* The shares of the routes of a tier. *)

\* Sums over the routes of the tier.
Sum(f) == TotalWeight(f, ShareModels)
Plus(f, g) == [m \in ShareModels |-> f[m] + g[m]]
Only(c, d) == [m \in ShareModels |-> IF m = c THEN d ELSE 0]
Counts == [ShareModels -> Nat]

LEMMA TicketsMember ==
    ASSUME NEW f, NEW p
    PROVE  p \in Tickets(f, ShareModels) <=>
             \E m \in ShareModels : \E i \in 1..f[m] : p = <<m, i>>
BY DEF Tickets

LEMMA TicketsFinite ==
    ASSUME NEW f \in Counts
    PROVE  IsFiniteSet(Tickets(f, ShareModels)) /\ Sum(f) \in Nat
<1> DEFINE Of(m) == {m} \X (1..f[m])
           Parts == {Of(m) : m \in ShareModels}
           part == [m \in ShareModels |-> Of(m)]
<1>1. part \in Surjection(ShareModels, Parts) BY DEF Surjection
<1>2. IsFiniteSet(Parts) BY <1>1, FS_Surjection, ShareAssumption
<1>3. ASSUME NEW m \in ShareModels PROVE IsFiniteSet(Of(m))
    <2>1. f[m] \in Nat BY DEF Counts
    <2>2. IsFiniteSet(1..f[m]) BY <2>1, FS_Interval
    <2>3. IsFiniteSet({m}) BY FS_Singleton
    <2> QED BY <2>2, <2>3, FS_Product
<1>4. \A T \in Parts : IsFiniteSet(T) BY <1>3
<1>5. IsFiniteSet(UNION Parts) BY <1>2, <1>4, FS_UNION
<1> QED BY <1>5, FS_CardinalityType DEF Tickets, Sum, TotalWeight

LEMMA SumPlus ==
    ASSUME NEW f \in Counts, NEW g \in Counts
    PROVE  Plus(f, g) \in Counts /\ Sum(Plus(f, g)) = Sum(f) + Sum(g)
<1> DEFINE F == Tickets(f, ShareModels)
           G == Tickets(g, ShareModels)
           shift == [p \in G |-> <<p[1], f[p[1]] + p[2]>>]
           H == {shift[p] : p \in G}
<1>1. Plus(f, g) \in Counts BY DEF Plus, Counts
<1>2. IsFiniteSet(F) /\ IsFiniteSet(G) BY TicketsFinite
<1>3. \A p \in G : \E m \in ShareModels : \E i \in 1..g[m] : p = <<m, i>> BY TicketsMember
<1>4. ASSUME NEW p \in G, NEW q \in G, shift[p] = shift[q] PROVE p = q
    <2>1. PICK m \in ShareModels : \E i \in 1..g[m] : p = <<m, i>> BY <1>3
    <2>2. PICK i \in 1..g[m] : p = <<m, i>> BY <2>1
    <2>3. PICK n \in ShareModels : \E i_1 \in 1..g[n] : q = <<n, i_1>> BY <1>3
    <2>4. PICK j \in 1..g[n] : q = <<n, j>> BY <2>3
    <2>5. shift[p] = <<m, f[m] + i>> /\ shift[q] = <<n, f[n] + j>> BY <2>2, <2>4
    <2>6. m = n /\ f[m] + i = f[m] + j BY <1>4, <2>5
    <2>7. f[m] \in Nat /\ g[m] \in Nat BY DEF Counts
    <2>8. i = j BY <2>6, <2>7
    <2> QED BY <2>2, <2>4, <2>6, <2>8
<1>5. shift \in Surjection(G, H) BY DEF Surjection
<1>6. shift \in Injection(G, H) BY <1>4, <1>5 DEF Injection, IsInjective, Surjection
<1>m. \A p : p \in H <=> \E m \in ShareModels : \E i \in 1..g[m] : p = <<m, f[m] + i>>
    <2>1. ASSUME NEW p \in H PROVE \E m \in ShareModels : \E i \in 1..g[m] : p = <<m, f[m] + i>>
        <3>1. PICK q \in G : p = shift[q] OBVIOUS
        <3>2. PICK m \in ShareModels : \E i \in 1..g[m] : q = <<m, i>> BY <1>3
        <3>3. PICK i \in 1..g[m] : q = <<m, i>> BY <3>2
        <3> QED BY <3>1, <3>3
    <2>2. ASSUME NEW m \in ShareModels, NEW i \in 1..g[m] PROVE <<m, f[m] + i>> \in H
        <3>1. <<m, i>> \in G BY TicketsMember
        <3> QED BY <3>1
    <2> QED BY <2>1, <2>2
<1> HIDE DEF shift, H
<1>7. IsFiniteSet(H) /\ Cardinality(H) = Cardinality(G) BY <1>2, <1>5, <1>6, FS_Surjection
<1>8. Tickets(Plus(f, g), ShareModels) = F \cup H
    <2>p. \A m \in ShareModels : Plus(f, g)[m] = f[m] + g[m] /\ f[m] \in Nat /\ g[m] \in Nat
        BY DEF Plus, Counts
    <2>1. ASSUME NEW p \in Tickets(Plus(f, g), ShareModels) PROVE p \in F \cup H
        <3>1. PICK m \in ShareModels : \E i \in 1..Plus(f, g)[m] : p = <<m, i>>
            BY <2>1, TicketsMember
        <3>2. PICK i \in 1..(f[m] + g[m]) : p = <<m, i>> BY <3>1, <2>p
        <3>3. CASE i <= f[m]
            <4>1. i \in 1..f[m] BY <3>3, <2>p
            <4> QED BY <4>1, <3>2, TicketsMember
        <3>4. CASE i > f[m]
            <4>1. i - f[m] \in 1..g[m] /\ i = f[m] + (i - f[m]) BY <3>4, <2>p
            <4> QED BY <4>1, <3>2, <1>m
        <3> QED BY <3>3, <3>4, <2>p
    <2>2. ASSUME NEW p \in F PROVE p \in Tickets(Plus(f, g), ShareModels)
        <3>1. PICK m \in ShareModels : \E i \in 1..f[m] : p = <<m, i>> BY <2>2, TicketsMember
        <3>2. PICK i \in 1..f[m] : p = <<m, i>> BY <3>1
        <3>3. i \in 1..Plus(f, g)[m] BY <2>p
        <3> QED BY <3>2, <3>3, TicketsMember
    <2>3. ASSUME NEW p \in H PROVE p \in Tickets(Plus(f, g), ShareModels)
        <3>1. PICK m \in ShareModels : \E i \in 1..g[m] : p = <<m, f[m] + i>> BY <1>m
        <3>2. PICK i \in 1..g[m] : p = <<m, f[m] + i>> BY <3>1
        <3>3. f[m] + i \in 1..Plus(f, g)[m] BY <2>p
        <3> QED BY <3>2, <3>3, TicketsMember
    <2> QED BY <2>1, <2>2, <2>3
<1>9. F \cap H = {}
    <2> SUFFICES ASSUME NEW p \in F, p \in H PROVE FALSE OBVIOUS
    <2>1. PICK m \in ShareModels : \E i \in 1..f[m] : p = <<m, i>> BY TicketsMember
    <2>2. PICK i \in 1..f[m] : p = <<m, i>> BY <2>1
    <2>3. PICK n \in ShareModels : \E j \in 1..g[n] : p = <<n, f[n] + j>> BY <1>m
    <2>4. PICK j \in 1..g[n] : p = <<n, f[n] + j>> BY <2>3
    <2>5. m = n /\ i = f[m] + j BY <2>2, <2>4
    <2>6. f[m] \in Nat /\ g[m] \in Nat BY DEF Counts
    <2> QED BY <2>5, <2>6
<1>10. Cardinality(F \cup H) = Cardinality(F) + Cardinality(H)
    <2>1. Cardinality(F \cup H) = Cardinality(F) + Cardinality(H) - Cardinality(F \cap H)
        BY <1>2, <1>7, FS_Union
    <2>2. Cardinality(F \cap H) = 0 BY <1>9, FS_EmptySet
    <2>3. Cardinality(F) \in Nat /\ Cardinality(H) \in Nat BY <1>2, <1>7, FS_CardinalityType
    <2> QED BY <2>1, <2>2, <2>3
<1> QED BY <1>1, <1>7, <1>8, <1>10 DEF Sum, TotalWeight

LEMMA SumOnly ==
    ASSUME NEW c \in ShareModels, NEW d \in Nat
    PROVE  Only(c, d) \in Counts /\ Sum(Only(c, d)) = d
<1>1. Only(c, d) \in Counts BY DEF Only, Counts
<1> DEFINE T == Tickets(Only(c, d), ShareModels)
           place == [i \in 1..d |-> <<c, i>>]
<1>2. \A p : p \in T <=> \E i \in 1..d : p = <<c, i>>
    <2>1. ASSUME NEW p \in T PROVE \E i \in 1..d : p = <<c, i>>
        <3>1. PICK m \in ShareModels : \E i \in 1..Only(c, d)[m] : p = <<m, i>> BY TicketsMember
        <3>2. PICK i \in 1..Only(c, d)[m] : p = <<m, i>> BY <3>1
        <3>3. m = c BY <3>2 DEF Only
        <3> QED BY <3>2, <3>3 DEF Only
    <2>2. ASSUME NEW i \in 1..d PROVE <<c, i>> \in T
        <3>1. i \in 1..Only(c, d)[c] BY DEF Only
        <3> QED BY <3>1, TicketsMember
    <2> QED BY <2>1, <2>2
<1>3. place \in Surjection(1..d, T) /\ place \in Injection(1..d, T)
    <2> HIDE DEF T
    <2> QED BY <1>2 DEF Surjection, Injection, IsInjective
<1>4. IsFiniteSet(1..d) /\ Cardinality(1..d) = d BY FS_Interval
<1> HIDE DEF T, place
<1>5. Cardinality(T) = d BY <1>3, <1>4, FS_Surjection
<1> QED BY <1>1, <1>5 DEF T, Sum, TotalWeight

LEMMA SumMono ==
    ASSUME NEW f \in Counts, NEW g \in Counts, \A m \in ShareModels : f[m] <= g[m]
    PROVE  /\ Sum(f) <= Sum(g)
           /\ Sum(f) = Sum(g) => \A m \in ShareModels : f[m] = g[m]
<1> DEFINE F == Tickets(f, ShareModels)
           G == Tickets(g, ShareModels)
<1>t. \A m \in ShareModels : f[m] \in Nat /\ g[m] \in Nat BY DEF Counts
<1>1. ASSUME NEW p \in F PROVE p \in G
    <2>1. PICK m \in ShareModels : \E i \in 1..f[m] : p = <<m, i>> BY <1>1, TicketsMember
    <2>2. PICK i \in 1..f[m] : p = <<m, i>> BY <2>1
    <2>3. i \in 1..g[m] BY <1>t
    <2> QED BY <2>2, <2>3, TicketsMember
<1>2. IsFiniteSet(G) BY TicketsFinite
<1>e. \A m \in ShareModels : g[m] > f[m] => <<m, g[m]>> \in G /\ <<m, g[m]>> \notin F
    <2> SUFFICES ASSUME NEW m \in ShareModels, g[m] > f[m]
                 PROVE  <<m, g[m]>> \in G /\ <<m, g[m]>> \notin F
        OBVIOUS
    <2>1. g[m] \in 1..g[m] /\ g[m] \notin 1..f[m] BY <1>t
    <2>2. <<m, g[m]>> \in G BY <2>1, TicketsMember
    <2>3. ASSUME <<m, g[m]>> \in F PROVE FALSE
        <3>1. PICK n \in ShareModels : \E i \in 1..f[n] : <<m, g[m]>> = <<n, i>> BY <2>3, TicketsMember
        <3> QED BY <3>1, <2>1
    <2> QED BY <2>2, <2>3
<1> HIDE DEF F, G
<1>3. Cardinality(F) <= Cardinality(G) /\ (Cardinality(G) = Cardinality(F) => G = F)
    BY <1>1, <1>2, FS_Subset
<1>4. ASSUME G = F, NEW m \in ShareModels PROVE f[m] = g[m]
    <2>1. ~(g[m] > f[m]) BY <1>e, <1>4
    <2> QED BY <2>1, <1>t
<1> QED BY <1>3, <1>4 DEF F, G, Sum, TotalWeight

LEMMA SumConstant ==
    ASSUME NEW d \in Nat
    PROVE  /\ [m \in ShareModels |-> d] \in Counts
           /\ Sum([m \in ShareModels |-> d]) = Cardinality(ShareModels) * d
<1> DEFINE f == [m \in ShareModels |-> d]
<1>1. f \in Counts BY DEF Counts
<1>2. Tickets(f, ShareModels) = ShareModels \X (1..d)
    <2>1. ASSUME NEW p \in Tickets(f, ShareModels) PROVE p \in ShareModels \X (1..d)
        <3>1. PICK m \in ShareModels : \E i \in 1..f[m] : p = <<m, i>> BY <2>1, TicketsMember
        <3> QED BY <3>1
    <2>2. ASSUME NEW m \in ShareModels, NEW i \in 1..d PROVE <<m, i>> \in Tickets(f, ShareModels)
        <3>1. i \in 1..f[m] OBVIOUS
        <3> HIDE DEF f
        <3> QED BY <3>1, TicketsMember
    <2> HIDE DEF f
    <2> QED BY <2>1, <2>2
<1>3. IsFiniteSet(1..d) /\ Cardinality(1..d) = d BY FS_Interval
<1>4. Cardinality(ShareModels \X (1..d)) = Cardinality(ShareModels) * d
    BY <1>3, FS_Product, ShareAssumption
<1> QED BY <1>1, <1>2, <1>4 DEF Sum, TotalWeight

-----------------------------------------------------------------------------
Size == Cardinality(ShareModels)
Raised == [m \in ShareModels |-> current[m] + Total]

\* The current weight of a route is what it is behind, no route is a whole choice ahead,
\* and the current weights cancel out: raised by the total each, they sum up to the totals.
ShareInv ==
    /\ weight \in [ShareModels -> 1..MaxWeight]
    /\ current \in [ShareModels -> Int] /\ picks \in Counts
    /\ \A m \in ShareModels : /\ current[m] = Behind(m)
                              /\ current[m] > -Total
                              /\ 2 * current[m] <= (Size - 1) * Total
    /\ Sum(Raised) = Size * Total

LEMMA ShareTypes ==
    ASSUME weight \in [ShareModels -> 1..MaxWeight]
    PROVE  /\ weight \in Counts /\ Total \in Nat /\ Size \in Nat
           /\ \A m \in ShareModels : /\ weight[m] \in Nat /\ 1 <= weight[m] /\ weight[m] <= Total
                                     /\ Total > 0 /\ Size >= 1
<1>1. weight \in Counts /\ \A m \in ShareModels : weight[m] \in Nat /\ 1 <= weight[m]
    BY ShareAssumption DEF Counts
<1>2. Total = Sum(weight) /\ Total \in Nat BY <1>1, TicketsFinite DEF Total, Sum
<1>3. Size \in Nat BY ShareAssumption, FS_CardinalityType DEF Size
<1>4. ASSUME NEW m \in ShareModels PROVE weight[m] <= Total /\ Size >= 1
    <2>1. weight[m] \in Nat BY <1>1
    <2>2. Only(m, weight[m]) \in Counts /\ Sum(Only(m, weight[m])) = weight[m] BY <2>1, SumOnly
    <2>3. \A n \in ShareModels : Only(m, weight[m])[n] <= weight[n] BY <1>1 DEF Only
    <2>4. weight[m] <= Total BY <1>1, <1>2, <2>2, <2>3, SumMono
    <2>5. Size # 0 BY ShareAssumption, FS_EmptySet DEF Size
    <2> QED BY <2>4, <2>5, <1>3
<1>5. \A m \in ShareModels : Total > 0
    <2> SUFFICES ASSUME NEW m \in ShareModels PROVE Total > 0 OBVIOUS
    <2> QED BY <1>1, <1>2, <1>4
<1> QED BY <1>1, <1>2, <1>3, <1>4, <1>5

LEMMA ShareInitInv == ShareInit => ShareInv
<1> SUFFICES ASSUME ShareInit PROVE ShareInv OBVIOUS
<1>1. /\ weight \in [ShareModels -> 1..MaxWeight]
      /\ current = [m \in ShareModels |-> 0] /\ picks = [m \in ShareModels |-> 0]
    BY DEF ShareInit
<1>2. /\ weight \in Counts /\ Total \in Nat /\ Size \in Nat
      /\ \A m \in ShareModels : /\ weight[m] \in Nat /\ Total > 0 /\ Size >= 1
    BY <1>1, ShareTypes
<1>3. picks \in Counts /\ Picked = 0
    <2>1. picks \in Counts /\ Sum(picks) = Cardinality(ShareModels) * 0 BY <1>1, SumConstant
    <2>2. Cardinality(ShareModels) * 0 = 0 BY <1>2 DEF Size
    <2> QED BY <2>1, <2>2 DEF Picked, Sum
<1>4. ASSUME NEW m \in ShareModels
      PROVE  current[m] = Behind(m) /\ current[m] > -Total /\ 2 * current[m] <= (Size - 1) * Total
    <2>1. current[m] = 0 /\ picks[m] = 0 BY <1>1
    <2>2. Behind(m) = 0 BY <1>2, <1>3, <2>1 DEF Behind
    <2>3. Size - 1 \in Nat BY <1>2
    <2>4. (Size - 1) * Total \in Nat BY <2>3, <1>2
    <2>5. (Size - 1) * Total >= 0 BY <2>4
    <2> QED BY <2>1, <2>2, <2>5, <1>2
<1>5. Sum(Raised) = Size * Total
    <2>1. Raised = [m \in ShareModels |-> Total] BY <1>1, <1>2 DEF Raised
    <2> QED BY <2>1, <1>2, SumConstant DEF Size
<1> QED BY <1>1, <1>3, <1>4, <1>5 DEF ShareInv

LEMMA PickInv ==
    ASSUME ShareInv, NEW c \in Chosen(weight, current, ShareModels),
           current' = AfterChoice(weight, current, ShareModels, c),
           picks' = [picks EXCEPT ![c] = @ + 1], UNCHANGED weight
    PROVE  ShareInv'
<1> DEFINE T == Total
           y == [m \in ShareModels |-> current[m] + weight[m]]
           F == [m \in ShareModels |-> y[m] + T]
<1>1. /\ weight \in [ShareModels -> 1..MaxWeight] /\ weight \in Counts /\ T \in Nat /\ Size \in Nat
      /\ \A m \in ShareModels : /\ weight[m] \in Nat /\ 1 <= weight[m] /\ weight[m] <= T
                                /\ T > 0 /\ Size >= 1
    BY ShareTypes DEF ShareInv
<1>2. /\ c \in ShareModels /\ T > 0
      /\ \A m \in ShareModels : y[m] \in Int /\ y[m] <= y[c]
    BY <1>1 DEF Chosen, ShareInv
<1>3. /\ picks \in Counts /\ \A m \in ShareModels : current[m] \in Int /\ picks[m] \in Nat
    BY DEF ShareInv, Counts
<1>4. \A m \in ShareModels : current[m] > -T /\ 2 * current[m] <= (Size - 1) * T
    BY DEF ShareInv
<1>5. Sum(Raised) = Size * T BY DEF ShareInv
<1>6. /\ current' \in [ShareModels -> Int]
      /\ \A m \in ShareModels : current'[m] = IF m = c THEN y[m] - T ELSE y[m]
    BY <1>1, <1>2, <1>3 DEF AfterChoice, ShareInv, Total
<1>7. /\ Total' = T /\ weight' = weight
    BY DEF Total
<1> HIDE DEF T
<1>8. F \in Counts /\ Sum(F) = Size * T + T
    <2>1. Raised \in Counts
        <3>1. \A m \in ShareModels : current[m] + T \in Nat BY <1>1, <1>3, <1>4
        <3> QED BY <3>1 DEF Raised, Counts, T
    <2>2. F = Plus(Raised, weight) BY <1>1, <1>3 DEF Plus, Raised, T
    <2>3. Plus(Raised, weight) \in Counts /\ Sum(Plus(Raised, weight)) = Sum(Raised) + Sum(weight)
        BY <1>1, <2>1, SumPlus
    <2>4. Sum(weight) = T BY DEF T, Total, Sum
    <2> QED BY <2>2, <2>3, <2>4, <1>5
<1>9. /\ [m \in ShareModels |-> T] \in Counts /\ Sum([m \in ShareModels |-> T]) = Size * T
      /\ Size * T \in Nat
    <2>1. Size * T \in Nat BY <1>1
    <2>2. /\ [m \in ShareModels |-> T] \in Counts
          /\ Sum([m \in ShareModels |-> T]) = Cardinality(ShareModels) * T
        BY <1>1, SumConstant
    <2> QED BY <2>1, <2>2 DEF Size
<1>10. y[c] > 0
    <2> SUFFICES ASSUME ~(y[c] > 0) PROVE FALSE OBVIOUS
    <2>1. ASSUME NEW m \in ShareModels PROVE F[m] <= [n \in ShareModels |-> T][m]
        <3>1. y[m] <= y[c] /\ y[m] \in Int /\ y[c] \in Int BY <1>2
        <3> HIDE DEF y
        <3> QED BY <3>1, <1>1
    <2>2. Sum(F) <= Sum([n \in ShareModels |-> T])
        <3> DEFINE K == [n \in ShareModels |-> T]
        <3>1. F \in Counts /\ K \in Counts /\ \A m \in ShareModels : F[m] <= K[m] BY <1>8, <1>9, <2>1
        <3> HIDE DEF F, K
        <3>2. Sum(F) <= Sum(K) BY <3>1, SumMono
        <3> QED BY <3>2 DEF K
    <2> HIDE DEF F
    <2>3. Size * T + T <= Size * T BY <1>8, <1>9, <2>2
    <2> QED BY <2>3, <1>1, <1>2, <1>9
<1>11. ASSUME NEW m \in ShareModels PROVE current'[m] > -T
    <2>1. current'[m] = IF m = c THEN y[m] - T ELSE y[m] BY <1>6
    <2>2. y[m] = current[m] + weight[m] OBVIOUS
    <2> HIDE DEF y
    <2> QED BY <2>1, <2>2, <1>1, <1>2, <1>3, <1>4, <1>10
<1>12. ASSUME NEW m \in ShareModels PROVE 2 * current'[m] <= (Size - 1) * T
    <2> DEFINE B == (Size - 1) * T
    <2>1. current'[m] = IF m = c THEN y[m] - T ELSE y[m] BY <1>6
    <2>2. y[m] = current[m] + weight[m] /\ F[m] = y[m] + T /\ F[c] = y[c] + T BY <1>2
    <2>3. Size \in Int /\ T \in Int /\ B \in Int /\ Size * T = B + T BY <1>1
    <2>4. 2 * current[m] <= B BY <1>4
    <2>5. y[m] \in Int /\ y[c] \in Int /\ y[m] <= y[c] BY <1>2
    <2> HIDE DEF y, B
    <2>6. CASE m = c
        BY <2>1, <2>2, <2>3, <2>4, <2>6, <1>1, <1>3 DEF B
    <2>7. CASE m # c
        <3>1. F[m] \in Nat /\ F[c] \in Nat BY <1>2, <1>8 DEF Counts
        <3> HIDE DEF F
        <3>2. /\ Only(m, F[m]) \in Counts /\ Sum(Only(m, F[m])) = F[m]
              /\ Only(c, F[c]) \in Counts /\ Sum(Only(c, F[c])) = F[c]
            BY <1>2, <3>1, SumOnly
        <3> DEFINE P == Plus(Only(m, F[m]), Only(c, F[c]))
        <3>3. P \in Counts /\ Sum(P) = F[m] + F[c] BY <3>2, SumPlus
        <3>4. \A n \in ShareModels : P[n] <= F[n]
            BY <1>8, <2>7, <3>1 DEF Plus, Only, Counts
        <3> HIDE DEF P
        <3>5. Sum(P) <= Sum(F) BY <1>8, <3>3, <3>4, SumMono
        <3>6. y[m] + T + (y[c] + T) <= B + T + T BY <2>2, <2>3, <3>3, <3>5, <1>8
        <3>7. 2 * y[m] <= B BY <3>6, <2>3, <2>5
        <3> QED BY <2>1, <2>7, <3>7 DEF B
    <2> QED BY <2>6, <2>7
<1>13. Sum(Raised') = Size * T
    <2> DEFINE R == [m \in ShareModels |-> current'[m] + T]
    <2>1. Raised' = R BY <1>7 DEF Raised
    <2>2. R \in Counts
        <3>1. \A m \in ShareModels : current'[m] + T \in Nat BY <1>1, <1>6, <1>11
        <3> QED BY <3>1 DEF Counts
    <2>3. Only(c, T) \in Counts /\ Sum(Only(c, T)) = T BY <1>1, <1>2, SumOnly
    <2>4. F = Plus(R, Only(c, T))
        BY <1>1, <1>2, <1>6 DEF Plus, Only
    <2> HIDE DEF R, F
    <2>5. Sum(F) = Sum(R) + T BY <2>2, <2>3, <2>4, SumPlus
    <2>6. Sum(R) \in Nat BY <2>2, TicketsFinite
    <2> QED BY <2>1, <2>5, <2>6, <1>1, <1>8, <1>9
<1>14. picks' \in Counts /\ Picked' = Picked + 1 /\ Picked \in Nat
    <2>1. Only(c, 1) \in Counts /\ Sum(Only(c, 1)) = 1 BY <1>2, SumOnly
    <2>2. picks' = Plus(picks, Only(c, 1))
        <3>1. picks' = [m \in ShareModels |-> IF m = c THEN picks[m] + 1 ELSE picks[m]]
            BY <1>2, <1>3 DEF Counts
        <3>2. \A m \in ShareModels : Only(c, 1)[m] = IF m = c THEN 1 ELSE 0 BY DEF Only
        <3>3. \A m \in ShareModels : picks[m] + 0 = picks[m] BY <1>3
        <3> QED BY <3>1, <3>2, <3>3 DEF Plus
    <2>3. picks' \in Counts /\ Sum(picks') = Sum(picks) + 1 BY <1>3, <2>1, <2>2, SumPlus
    <2>4. Sum(picks) \in Nat BY <1>3, TicketsFinite
    <2> QED BY <2>3, <2>4 DEF Picked, Sum
<1>15. ASSUME NEW m \in ShareModels PROVE current'[m] = Behind(m)'
    <2>1. current[m] = weight[m] * Picked - picks[m] * T BY DEF ShareInv, Behind, T
    <2>2. Behind(m)' = weight[m] * (Picked + 1) - picks'[m] * T BY <1>7, <1>14 DEF Behind
    <2>3. picks'[m] = IF m = c THEN picks[m] + 1 ELSE picks[m] BY <1>3 DEF Counts
    <2>4. current'[m] = IF m = c THEN y[m] - T ELSE y[m] BY <1>6
    <2>5. y[m] = current[m] + weight[m] OBVIOUS
    <2>6. weight[m] * (Picked + 1) = weight[m] * Picked + weight[m] BY <1>1, <1>14
    <2>7. (picks[m] + 1) * T = picks[m] * T + T BY <1>1, <1>3
    <2>8. weight[m] * Picked \in Int /\ picks[m] * T \in Int BY <1>1, <1>3, <1>14
    <2> HIDE DEF y
    <2>9. CASE m = c BY <2>1, <2>2, <2>3, <2>4, <2>5, <2>6, <2>7, <2>8, <2>9, <1>1
    <2>10. CASE m # c BY <2>1, <2>2, <2>3, <2>4, <2>5, <2>6, <2>8, <2>10, <1>1
    <2> QED BY <2>9, <2>10
<1> QED BY <1>1, <1>6, <1>7, <1>11, <1>12, <1>13, <1>14, <1>15 DEF ShareInv

LEMMA WholeChoices ==
    ASSUME NEW T \in Nat, T > 0, NEW z \in Int, T * z > -T
    PROVE  T * z >= 0
<1>1. CASE z >= 0
    <2>1. z \in Nat BY <1>1
    <2>2. T * z \in Nat BY <2>1
    <2> QED BY <2>2
<1>2. CASE ~(z >= 0)
    <2> DEFINE k == -1 - z
    <2>1. k \in Nat /\ z = -1 - k BY <1>2
    <2> HIDE DEF k
    <2>2. T * z = -T - T * k BY <2>1
    <2>3. T * k \in Nat BY <2>1
    <2> QED BY <2>2, <2>3
<1> QED BY <1>1, <1>2

LEMMA CommonFactor ==
    ASSUME NEW T \in Int, NEW a \in Int, NEW b \in Int, NEW q \in Int
    PROVE  a * (T * q) - b * T = T * (a * q - b)
OBVIOUS

LEMMA RoundExact ==
    ASSUME ShareInv, Picked % Total = 0, NEW c \in ShareModels
    PROVE  Behind(c) = 0
<1>1. /\ Total \in Nat /\ Total > 0 /\ Size \in Nat
      /\ \A m \in ShareModels : weight[m] \in Nat
    BY ShareTypes DEF ShareInv
<1>2. Picked \in Nat BY TicketsFinite DEF ShareInv, Picked, Sum
<1>3. PICK q \in Int : Picked = Total * q
    <2>1. Picked = Total * (Picked \div Total) + (Picked % Total) BY <1>1, <1>2
    <2>2. Picked \div Total \in Int BY <1>1, <1>2
    <2> DEFINE d == Picked \div Total
    <2>3. d \in Int /\ Picked = Total * d + 0 BY <2>1, <2>2
    <2> HIDE DEF d
    <2>4. Total * d + 0 = Total * d BY <2>3, <1>1
    <2> QED BY <2>3, <2>4
<1>4. ASSUME NEW m \in ShareModels PROVE current[m] \in Int /\ current[m] >= 0
    <2>1. current[m] = weight[m] * Picked - picks[m] * Total /\ current[m] > -Total
        BY DEF ShareInv, Behind
    <2>2. picks[m] \in Nat /\ weight[m] \in Nat BY <1>1 DEF ShareInv, Counts
    <2> DEFINE z == weight[m] * q - picks[m]
    <2>3. z \in Int BY <1>3, <2>2
    <2>4. current[m] = Total * z
        <3>1. weight[m] * (Total * q) - picks[m] * Total = Total * (weight[m] * q - picks[m])
            BY <1>1, <2>2, CommonFactor
        <3>2. current[m] = weight[m] * (Total * q) - picks[m] * Total BY <1>3, <2>1
        <3> QED BY <3>1, <3>2
    <2> HIDE DEF z
    <2> QED BY <1>1, <2>1, <2>3, <2>4, WholeChoices
<1> DEFINE K == [m \in ShareModels |-> Total]
<1>5. K \in Counts /\ Sum(K) = Size * Total BY <1>1, SumConstant DEF Size
<1>6. Raised \in Counts BY <1>1, <1>4 DEF Raised, Counts
<1>7. \A m \in ShareModels : K[m] <= Raised[m] BY <1>1, <1>4 DEF Raised
<1>8. Sum(K) = Sum(Raised) BY <1>5 DEF ShareInv
<1>9. K[c] = Raised[c]
    <2> HIDE DEF K
    <2> QED BY <1>5, <1>6, <1>7, <1>8, SumMono
<1>10. current[c] = 0 BY <1>1, <1>4, <1>9 DEF Raised
<1> QED BY <1>10 DEF ShareInv

\* Smooth weighted round robin (_weighted_order of ModelRouter) gives every route exactly its
\* share after every full round, and at no time strays from it by more than SmoothShare says,
\* for any number of routes, any weights and any resolution of ties.
THEOREM SmoothShareAlways == ShareSpec => []SmoothShare
<1>1. ShareInv /\ [Pick]_shareVars => ShareInv'
    <2> SUFFICES ASSUME ShareInv, [Pick]_shareVars PROVE ShareInv' OBVIOUS
    <2>1. CASE Pick
        <3>1. PICK c \in Chosen(weight, current, ShareModels) :
                  /\ current' = AfterChoice(weight, current, ShareModels, c)
                  /\ picks' = [picks EXCEPT ![c] = @ + 1]
            BY <2>1, Zenon DEF Pick
        <3>2. UNCHANGED weight BY <2>1 DEF Pick
        <3> QED BY <3>1, <3>2, PickInv
    <2>2. CASE UNCHANGED shareVars
        BY <2>2 DEF shareVars, ShareInv, Behind, Picked, Total, Raised, Sum
    <2> QED BY <2>1, <2>2
<1>2. ShareInv => SmoothShare
    <2> SUFFICES ASSUME ShareInv, NEW m \in ShareModels
                 PROVE  /\ Picked % Total = 0 => Behind(m) = 0
                        /\ -Behind(m) < Total
                        /\ 2 * Behind(m) <= (Cardinality(ShareModels) - 1) * Total
        BY DEF SmoothShare
    <2>1. /\ current[m] = Behind(m) /\ current[m] > -Total /\ current[m] \in Int
          /\ 2 * current[m] <= (Size - 1) * Total
        BY DEF ShareInv
    <2>2. Total \in Nat BY ShareTypes DEF ShareInv
    <2>3. -Behind(m) < Total BY <2>1, <2>2
    <2> QED BY <2>1, <2>3, RoundExact DEF Size
<1> QED BY ShareInitInv, <1>1, <1>2, PTL DEF ShareSpec
============================================================================
