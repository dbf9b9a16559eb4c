CONSTANTS
  j1 = j1
  r1 = r1
  Jobs = {j1}
  PlanJobs = {}
  Runs = {r1}
  NoRun = NoRun
  NoJob = NoJob
  EntryStatuses = {"queued"}
  Faults = {"crash"}
  MaxFaults = 1
  MaxCancels = 0
  BufferedInput = FALSE
SPECIFICATION FairSpec
PROPERTIES QueueSurvivesRestart
CHECK_DEADLOCK FALSE
