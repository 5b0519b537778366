SPECIFICATION FairSpec
INVARIANTS
    QueueTypeOK
    BuilderAuthorized
    DecidedOnce
PROPERTIES
    DoneIsFinal
    QueuedRunEnds
CONSTANTS
    Slots = {s1}
    Inline = inline
    Deciders = {d1, d2}
    Packages = {p1, p2}
    None = None
    MaxStalled = 1
    MaxCrashes = 2
    MaxStalls = 1
CHECK_DEADLOCK FALSE
