SPECIFICATION MCSpec
CONSTANTS
    Entry = "confirmation"
    MaxRefinements = 0
    Workers = {w1, w2}
    Reconcilers = {}
    NoOwner = NoOwner
    MaxAttempts = 3
    MaxStalled = 1
    MaxCrashes = 0
    MaxThrows = 0
    MaxStalls = 1
    MaxExpiries = 0
PROPERTY NeverRerun
CHECK_DEADLOCK FALSE
