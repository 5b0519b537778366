SPECIFICATION ProvSpec
CONSTANTS
  Providers <- MCProviders
  Alias = "gemini"
  Models = {"m1"}
  EnvKey <- MCEnvKey
  Panels = {c1}
  Runs = {r1}
  MaxEdits = 2
  MaxCrashes = 1
  MaxFaults = 1
CHECK_DEADLOCK FALSE
INVARIANTS
  SelectionHolds
