SPECIFICATION MCSpec
CONSTANTS
    Entry = "triple-validation"
    MaxRefinements = 0
    Workers = {w1, w2}
    Reconcilers = {}
    NoOwner = NoOwner
    MaxAttempts = 2
    MaxStalled = 1
    MaxCrashes = 0
    MaxThrows = 0
    MaxStalls = 1
    MaxExpiries = 1
SYMMETRY WorkerSymmetry
INVARIANTS BuilderAtMostOnce
PROPERTY ImplementsGovernedRun
CHECK_DEADLOCK FALSE
