SPECIFICATION MCSpec
CONSTANTS
  e1 = e1
  e2 = e2
  Executions = {e1, e2}
  Runner <- MCRunner
  Platform = "posix"
  Steps = 2
  MaxFiles = 0
  FileBound = 1
  Tries = 2
  Calls = {"health", "research", "other"}
  MaxKids = 3
  MaxDeaths = 2
  Launches = {1, 2}
  Environments <- MCEnvironments
  LaunchFaults = 1
  MaxSource = 2
CHECK_DEADLOCK FALSE
INVARIANTS
  ExecutionIsGoverned
  BridgeIsSound
  LaunchIsSound
PROPERTIES ExecutionEnds CallEnds LaunchEnds
