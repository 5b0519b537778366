--------------------------- MODULE WorkspaceAccess ---------------------------
(***************************************************************************)
(* Users, workspaces, memberships and workspace API keys.  The handlers    *)
(* run in threads with a database session each: a handler reads and tests, *)
(* and its writes are one transaction that a unique constraint may refuse. *)
(***************************************************************************)
EXTENDS Naturals, FiniteSets

CONSTANTS Emails,
          MaxSlug,      \* the slugs of one name: name, name-2, ... name-MaxSlug
          KeyVersions,  \* bound on the versions of the API key, 1..n
          Callers,      \* requests 1..n, begun in this order
          Known         \* users registered before the first request

ASSUME AccessAssumption ==
    /\ MaxSlug \in Nat \ {0} /\ "none" \notin Emails /\ Known \subseteq Emails
    /\ KeyVersions \subseteq Nat \ {0} /\ 1 \in KeyVersions

VARIABLES users,       \* registered users
          owner,       \* [slug -> owner_user_id of the workspace, or "none"]
          subscribed,  \* slugs whose workspace has a subscription
          role,        \* [slug -> [Emails -> role of the membership, or "none"]]
          key,         \* [version -> status of the API key of workspace 1, or "none"]
          call         \* [Callers -> the handler: what it has read]

accessVars == <<users, owner, subscribed, role, key, call>>

Slugs == 1..MaxSlug
Roles == {"VIEWER", "MEMBER", "ADMIN", "OWNER"}
ROLE_ORDER(r) == CASE r = "none" -> 0 [] r = "VIEWER" -> 1 [] r = "MEMBER" -> 2
                   [] r = "ADMIN" -> 3 [] r = "OWNER" -> 4
NewCaller == [at |-> "idle", op |-> "none", who |-> "none", slug |-> 0, to |-> "none", role |-> "none", v |-> 0]

(* Known users each own a workspace, the first one has an API key. *)
AccessInit ==
    \E own \in [Known -> Slugs] :
        /\ \A a, b \in Known : own[a] = own[b] => a = b
        /\ \E a \in Known : own[a] = 1
        /\ users = Known
        /\ owner = [s \in Slugs |-> IF \E a \in Known : own[a] = s THEN CHOOSE a \in Known : own[a] = s ELSE "none"]
        /\ subscribed = {s \in Slugs : owner[s] # "none"}
        /\ role = [s \in Slugs |-> [e \in Emails |-> IF owner[s] = e THEN "OWNER" ELSE "none"]]
        /\ key = [v \in KeyVersions |-> IF v = 1 THEN "ACTIVE" ELSE "none"]
        /\ call = [c \in Callers |-> NewCaller]

require_role(s, e, min) == ROLE_ORDER(role[s][e]) >= ROLE_ORDER(min)
human_admin(s, e) == e \in users /\ require_role(s, e, "ADMIN")

(* Nothing is written until the transaction of the handler. *)
Tested(c, op, who, slug, to, r, v) ==
    /\ call[c].at = "idle"
    /\ \A b \in Callers : b < c => call[b].at # "idle"
    /\ call' = [call EXCEPT ![c] = [at |-> "tested", op |-> op, who |-> who, slug |-> slug,
                                    to |-> to, role |-> r, v |-> v]]
    /\ UNCHANGED <<users, owner, subscribed, role, key>>

(* register takes the first free slug of the name. *)
AskRegister(c, e) ==
    /\ e \notin users
    /\ \E s \in Slugs : /\ owner[s] = "none" /\ \A t \in Slugs : t < s => owner[t] # "none"
                        /\ Tested(c, "register", e, s, "none", "none", 0)

(* create refuses a slug in use. *)
AskCreate(c, e, s) == e \in users /\ owner[s] = "none" /\ Tested(c, "create", e, s, "none", "none", 0)

\* Mutant: the role OWNER is not refused.
AskAddMemberAnyRole(c, e, s, to, r) ==
    /\ human_admin(s, e) /\ to \in users /\ role[s][to] = "none"
    /\ Tested(c, "member", e, s, to, r, 0)

(* add_member: an existing user who is not yet a member, never as owner. *)
AskAddMember(c, e, s, to, r) ==
    /\ human_admin(s, e) /\ r # "OWNER" /\ to \in users /\ role[s][to] = "none"
    /\ Tested(c, "member", e, s, to, r, 0)

AskCreateKey(c, e) == human_admin(1, e) /\ Tested(c, "newkey", e, 1, "none", "none", 1)
AskRotateKey(c, e, v) ==
    /\ human_admin(1, e) /\ key[v] = "ACTIVE" /\ v + 1 \in KeyVersions
    /\ Tested(c, "rotate", e, 1, "none", "none", v)
AskRevokeKey(c, e, v) ==
    /\ human_admin(1, e) /\ key[v] # "none"
    /\ Tested(c, "revoke", e, 1, "none", key[v], v)

-----------------------------------------------------------------------------
Committed(c, op) == call[c].at = "tested" /\ call[c].op = op /\ call' = [call EXCEPT ![c] = [NewCaller EXCEPT !.at = "done"]]
NewWorkspace(s, e) ==
    /\ owner' = [owner EXCEPT ![s] = e]
    /\ subscribed' = subscribed \cup {s}
    /\ role' = [role EXCEPT ![s][e] = "OWNER"]

(* The user, the workspace, the membership and the subscription, or nothing *)
(* when the email or the slug has been taken.                               *)
register(c) ==
    LET e == call[c].who  s == call[c].slug IN
    /\ Committed(c, "register")
    /\ IF owner[s] = "none" /\ e \notin users
       THEN users' = users \cup {e} /\ NewWorkspace(s, e)
       ELSE UNCHANGED <<users, owner, subscribed, role>>
    /\ UNCHANGED key

create(c) ==
    LET s == call[c].slug IN
    /\ Committed(c, "create")
    /\ IF owner[s] = "none" THEN NewWorkspace(s, call[c].who) ELSE UNCHANGED <<owner, subscribed, role>>
    /\ UNCHANGED <<users, key>>

(* The membership (workspace, user) is unique. *)
add_member(c) ==
    LET s == call[c].slug  e == call[c].to IN
    /\ Committed(c, "member")
    /\ role' = IF role[s][e] = "none" THEN [role EXCEPT ![s][e] = call[c].role] ELSE role
    /\ UNCHANGED <<users, owner, subscribed, key>>

(* Version 1 of the name is unique, so a name is created once. *)
create_workspace_api_key(c) ==
    /\ Committed(c, "newkey")
    /\ key' = IF key[1] = "none" THEN [key EXCEPT ![1] = "ACTIVE"] ELSE key
    /\ UNCHANGED <<users, owner, subscribed, role>>

(* The predecessor is retired whatever has become of it since it was read;  *)
(* the version of the successor is unique.                                  *)
rotate_workspace_api_key(c) ==
    LET v == call[c].v IN
    /\ Committed(c, "rotate")
    /\ key' = IF key[v + 1] = "none" THEN [key EXCEPT ![v] = "RETIRED", ![v + 1] = "ACTIVE"] ELSE key
    /\ UNCHANGED <<users, owner, subscribed, role>>

(* A row read as revoked is not written. *)
revoke_workspace_api_key(c) ==
    /\ Committed(c, "revoke")
    /\ key' = IF call[c].role = "REVOKED" THEN key ELSE [key EXCEPT ![call[c].v] = "REVOKED"]
    /\ UNCHANGED <<users, owner, subscribed, role>>

AccessAsk(c) ==
    \E e \in Emails :
        \/ AskRegister(c, e) \/ AskCreateKey(c, e)
        \/ \E v \in KeyVersions : AskRotateKey(c, e, v) \/ AskRevokeKey(c, e, v)
        \/ \E s \in Slugs : \/ AskCreate(c, e, s)
                            \/ \E to \in Emails, r \in Roles : AskAddMember(c, e, s, to, r)
AccessWrite(c) ==
    \/ register(c) \/ create(c) \/ add_member(c)
    \/ create_workspace_api_key(c) \/ rotate_workspace_api_key(c) \/ revoke_workspace_api_key(c)

AccessNext == \E c \in Callers : AccessAsk(c) \/ AccessWrite(c)

AccessSpec == AccessInit /\ [][AccessNext]_accessVars

-----------------------------------------------------------------------------
(* Every workspace has exactly one owner, who is the one its row names, and *)
(* a subscription, so the quota check never finds one missing.              *)
OwnedAndSubscribed ==
    \A s \in Slugs : owner[s] # "none" =>
        /\ {e \in Emails : role[s][e] = "OWNER"} = {owner[s]}
        /\ s \in subscribed

(* A registration that loses a race for its slug leaves no user behind.     *)
NoOrphanUser == \A e \in users : \E s \in Slugs : owner[s] = e

(* Concurrent rotations and revocations leave at most one active version of *)
(* an API key.                                                              *)
OneActiveKey == Cardinality({v \in KeyVersions : key[v] = "ACTIVE"}) <= 1

(* Users, workspaces, members and keys stay consistent when requests        *)
(* overlap (services.py: register, create, add_member, the API keys).      *)
AccessSound == OwnedAndSubscribed /\ NoOrphanUser /\ OneActiveKey
=============================================================================
