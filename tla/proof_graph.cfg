SPECIFICATION Spec
CONSTANTS
    s1 = s1
    s2 = s2
    a1 = a1
    a2 = a2
    a3 = a3
    a4 = a4
    g1 = g1
    q1 = q1
    x1 = x1
    x2 = x2
    x3 = x3
    x4 = x4
    Steps = {s1, s2}
    FirstStep = s1
    Refs = {g1, q1, x1, x2, x3, x4}
    Required = {g1, q1}
    Goals = {g1}
    RoutedGoals = {g1}
    Assertions = {a1, a2, a3, a4}
    Fixtures <- MCFixtures
    Plans <- MCPlans
    MaxGapIterations = 256
    MaxRefinements = 3
INVARIANTS EvidenceAgrees ConfirmedIsProved
CHECK_DEADLOCK FALSE
