CONSTANTS
  j1 = j1
  r1 = r1
  Jobs = {j1}
  PlanJobs = {j1}
  Runs = {r1}
  NoRun = NoRun
  NoJob = NoJob
  EntryStatuses = {"queued", "approved", "revision_requested"}
  Faults = {"cursor", "context", "flag_ttl", "lock_ttl", "crash"}
  MaxFaults = 2
  MaxCancels = 2
  BufferedInput = TRUE
SPECIFICATION FairSpec
PROPERTIES CancelledIsNotLaunched 
CHECK_DEADLOCK FALSE
