----------------------------- MODULE RouteShare -----------------------------
(***************************************************************************)
(* The shares that smooth weighted round robin gives the routes of one     *)
(* tier, for every choice of small weights, as long as the tier keeps its  *)
(* routes.                                                                 *)
(***************************************************************************)
EXTENDS WorkspaceChat

CONSTANTS ShareModels,   \* routes of the tier
          MaxWeight,     \* bound on a weight (schemas.py, line 192: 1 to 10000)
          Rounds         \* bound: full rounds of the tier that are checked

ASSUME ShareAssumption == IsFiniteSet(ShareModels) /\ MaxWeight \in Nat

VARIABLES weight,   \* [ShareModels -> weight]
          current,  \* [ShareModels -> the router's current weight]
          picks     \* [ShareModels -> how often it was chosen]

shareVars == <<weight, current, picks>>

ShareInit ==
    /\ weight \in [ShareModels -> 1..MaxWeight]
    /\ current = [m \in ShareModels |-> 0]
    /\ picks = [m \in ShareModels |-> 0]

Picked == TotalWeight(picks, ShareModels)
Total == TotalWeight(weight, ShareModels)

(* One request: the choice that _weighted_order makes under its lock. *)
Pick ==
    /\ Picked < Rounds * Total
    /\ \E c \in Chosen(weight, current, ShareModels) :
          /\ current' = AfterChoice(weight, current, ShareModels, c)
          /\ picks' = [picks EXCEPT ![c] = @ + 1]
    /\ UNCHANGED weight

ShareSpec == ShareInit /\ [][Pick]_shareVars

(* How far a route is behind its share, in units of 1 / Total of a choice. *)
Behind(m) == weight[m] * Picked - picks[m] * Total

(* After every full round each route has been chosen exactly as often as    *)
(* its weight says; at any time it is less than one choice ahead of its     *)
(* share, and behind it by no more than half a choice for each other route, *)
(* whatever the weights and the ties (_weighted_order).                     *)
SmoothShare ==
    \A m \in ShareModels :
        /\ Picked % Total = 0 => Behind(m) = 0
        /\ -Behind(m) < Total
        /\ 2 * Behind(m) <= (Cardinality(ShareModels) - 1) * Total
=============================================================================
