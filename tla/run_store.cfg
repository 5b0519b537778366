SPECIFICATION MCSpec
CONSTANTS
  MaxEvents = 1
  MaxCalls = 2
  MaxFaults = 1
  ArtCalls = {"c1", "c2", "c3"}
  Pids = {"server", "worker"}
  MaxRepeats = 1
  Uploads = {"u1", "u2"}
  Requests = {"q1", "q2"}
  MaxVersions = 2
  MaxSelections = 3
CHECK_DEADLOCK FALSE
INVARIANTS
  RunIsRecorded
  ArtifactsWhole
  AuditAgrees
  RecordDescribesTree
PROPERTY StreamCatchesUp
