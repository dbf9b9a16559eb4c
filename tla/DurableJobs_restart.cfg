CONSTANTS
  j1 = j1
  j2 = j2
  r1 = r1
  r2 = r2
  Jobs = {j1, j2}
  PlanJobs = {j1}
  Runs = {r1, r2}
  NoRun = NoRun
  NoJob = NoJob
  EntryStatuses = {"queued"}
  Faults = {"crash"}
  MaxFaults = 1
  MaxCancels = 0
  BufferedInput = FALSE
SPECIFICATION FairSpec
INVARIANTS LaunchHoldsLock
PROPERTIES BoundRunIsClosed
CHECK_DEADLOCK FALSE
