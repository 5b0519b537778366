SPECIFICATION MCSpec
CONSTANTS
    Convs = {c1, c2}
    Runs = {r1}
    Msgs = {m1, m2, m3}
    Vague = {m1}
    None = None
    MaxTurns = 2
    MaxClicks = 1
    MaxFaults = 1
    MaxVisits = 2
    Forgotten = Forgotten
    f1 = f1
    f2 = f2
    Followed <- MCFollowed
    NoRun = NoRun
    MaxLog <- MCMaxLog
    MaxEffects = 2
    MaxFailures = 1
CHECK_DEADLOCK FALSE
INVARIANTS
  ChatShown
  TurnsKept
  RunShown
PROPERTY DoneIsShown
