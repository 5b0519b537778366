SPECIFICATION MCFairSpec
CONSTANTS
    Entry = "hash"
    MaxRefinements = 0
    Workers = {w1}
    Reconcilers = {r1}
    NoOwner = NoOwner
    MaxAttempts = 2
    MaxStalled = 1
    MaxCrashes = 1
    MaxThrows = 0
    MaxStalls = 0
    MaxExpiries = 0
INVARIANTS CommittedMeansApplied TerminalCommittedMeansDone
PROPERTIES EveryJobEnds ExecutedIsApplied
CHECK_DEADLOCK FALSE
