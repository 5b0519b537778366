SPECIFICATION MCSpec
CONSTANTS
    Entry = "researcher"
    MaxRefinements = 1
    Workers = {w1}
    Reconcilers = {}
    NoOwner = NoOwner
    MaxAttempts = 2
    MaxStalled = 1
    MaxCrashes = 1
    MaxThrows = 1
    MaxStalls = 0
    MaxExpiries = 0
INVARIANTS TypeOK PassedIsVerified
CHECK_DEADLOCK FALSE
