SPECIFICATION Spec
CONSTANTS
  SyncModes = {1, 2}
  TimedSync = TRUE
  Faults = {"write", "short", "fsync", "power"}
  Workloads <- MCWorkloads
  MaxOps = 3
  MaxCrashes = 3
  MaxSnapshots = 2
INVARIANTS
  LogNumbered
CHECK_DEADLOCK FALSE
