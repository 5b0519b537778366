SPECIFICATION FairSpec
CONSTANTS
    Confirmers = {c1}
    Editors = {e1}
    Againers = {a1, a2}
    NoRequest = NoRequest
    MaxRevision = 2
    Slots = 2
    MaxLost = 1
    MaxCrashes = 1
INVARIANTS PlannerHasResearch ConfirmedOnce
PROPERTY ConfirmedIsPlanned
CHECK_DEADLOCK FALSE
