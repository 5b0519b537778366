------------------------------ MODULE RateLimit ------------------------------
(***************************************************************************)
(* The edge limiter of the workspace API: a fixed window per credential or *)
(* client address, in the process's memory under a lock or in Redis by one *)
(* script.  Redis may fail, and the limiter then refuses or lets through,  *)
(* as it is set.  A restart loses the windows, or with Redis the last      *)
(* requests counted.                                                       *)
(***************************************************************************)
EXTENDS Naturals, FiniteSets

CONSTANTS LimitKeys,   \* credentials and addresses
          Limit,       \* rate_limit_requests
          Window,      \* rate_limit_window_seconds
          MaxTime,     \* bound on the clock
          MaxLosses,   \* bound on the restarts that lose windows
          MaxWindows   \* the number of windows above which memory is purged

(* Both settings are at least 1 (config.py, lines 58 and 59). *)
ASSUME LimitAssumption == Limit \in Nat \ {0} /\ Window \in Nat \ {0}

VARIABLES backend,  \* rate_limit_backend
          failOpen, \* rate_limit_fail_open
          clock,
          win,      \* [LimitKeys -> requests counted and when the window ends]
          losses,   \* how often windows were lost
          allowed   \* history: [LimitKeys -> the requests let through]: when, in the
                    \* window that ends when, the how manieth of that window (0 when
                    \* Redis gave no answer), and after how many losses

setting == <<backend, failOpen>>
limitVars == <<setting, clock, win, losses, allowed>>

NoWindow == [count |-> 0, expires |-> 0]

LimitInit ==
    /\ backend \in {"memory", "redis"} /\ failOpen \in BOOLEAN
    /\ backend = "memory" => ~failOpen
    /\ clock = 0 /\ losses = 0
    /\ win = [k \in LimitKeys |-> NoWindow]
    /\ allowed = [k \in LimitKeys |-> {}]

LetThrough(k, ends, nth) ==
    allowed' = [allowed EXCEPT ![k] =
                   @ \cup {[at |-> clock, ends |-> ends, nth |-> nth, life |-> losses]}]

(* The request that made the window's count c is let through. *)
Let(k, c) == IF c.count > Limit THEN UNCHANGED allowed ELSE LetThrough(k, c.expires, c.count)

(* A window that is missing or over is started anew. *)
Counted(k) ==
    IF win[k].expires <= clock THEN [count |-> 1, expires |-> clock + Window]
    ELSE [win[k] EXCEPT !.count = @ + 1]

\* Mutant: the purge drops the windows that still count.
PurgedLive(ws) ==
    IF Cardinality({k \in LimitKeys : ws[k] # NoWindow}) <= MaxWindows THEN ws
    ELSE [k \in LimitKeys |-> IF ws[k].expires <= clock THEN ws[k] ELSE NoWindow]

(* Too many windows: the ones that are over are dropped. *)
Purged(ws) ==
    IF Cardinality({k \in LimitKeys : ws[k] # NoWindow}) <= MaxWindows THEN ws
    ELSE [k \in LimitKeys |-> IF ws[k].expires > clock THEN ws[k] ELSE NoWindow]

MemoryCheck(k) ==
    /\ backend = "memory"
    /\ win' = Purged([win EXCEPT ![k] = Counted(k)])
    /\ Let(k, Counted(k))
    /\ UNCHANGED <<setting, clock, losses>>

(* INCR, EXPIRE of a new key and TTL are one script. *)
RedisCheck(k) ==
    /\ backend = "redis"
    /\ win' = [win EXCEPT ![k] = Counted(k)]
    /\ Let(k, Counted(k))
    /\ UNCHANGED <<setting, clock, losses>>

(* Redis failed, and the request is refused or let through as it is set; *)
(* the script may have run all the same.                                 *)
RedisFails(k) ==
    /\ backend = "redis"
    /\ win' \in {win, [win EXCEPT ![k] = Counted(k)]}
    /\ IF failOpen THEN LetThrough(k, clock, 0) ELSE UNCHANGED allowed
    /\ UNCHANGED <<setting, clock, losses>>

(* What a restart leaves of a window: nothing, or in Redis, whose file lacks *)
(* the last moments, what it had counted before.                             *)
Left(w) == {NoWindow} \cup
           IF backend = "redis" THEN {[w EXCEPT !.count = c] : c \in 1..w.count} ELSE {}

(* The process that keeps the windows, or Redis, is started again. *)
LoseWindows ==
    /\ losses < MaxLosses
    /\ losses' = losses + 1
    /\ win' \in [LimitKeys -> UNION {Left(win[k]) : k \in LimitKeys}]
    /\ \A k \in LimitKeys : win'[k] \in Left(win[k])
    /\ UNCHANGED <<setting, clock, allowed>>

Tick == clock < MaxTime /\ clock' = clock + 1 /\ UNCHANGED <<setting, win, losses, allowed>>

(* Bound: requests beyond the first refused one of a window are left out.   *)
Counting(k) == win[k].count <= Limit \/ win[k].expires <= clock

LimitNext ==
    \/ Tick \/ LoseWindows
    \/ \E k \in LimitKeys : Counting(k) /\ (MemoryCheck(k) \/ RedisCheck(k) \/ RedisFails(k))

LimitSpec == LimitInit /\ [][LimitNext]_limitVars

(* The requests let through in the stretch of a window's length from t on. *)
InStretch(as, t) == {x \in as : t <= x.at /\ x.at < t + Window}

(* Let through while the windows had been lost l times, other than for want of *)
(* an answer by a limiter that is set to.                                      *)
GovernedIn(as, l) == {x \in as : x.life = l /\ ~(failOpen /\ x.nth = 0)}

(* No stretch of time as long as a window lets more than two windows' worth *)
(* of requests through, whatever the purges and the failures of Redis, as   *)
(* long as the windows are not lost meanwhile; requests let through because *)
(* Redis failed and the limiter fails open come on top of them.             *)
TwiceTheLimit ==
    \A k \in LimitKeys, t \in 0..MaxTime, l \in 0..losses :
        Cardinality(InStretch(GovernedIn(allowed[k], l), t)) <= 2 * Limit
=============================================================================
