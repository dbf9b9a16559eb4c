CONSTANTS
  j1 = j1
  j2 = j2
  r1 = r1
  r2 = r2
  Jobs = {j1, j2}
  PlanJobs = {}
  Runs = {r1, r2}
  NoRun = NoRun
  NoJob = NoJob
  EntryStatuses = {"queued"}
  Faults <- AllFaults
  MaxFaults = 2
  MaxCancels = 0
  BufferedInput = FALSE
SPECIFICATION Spec
SYMMETRY Symmetry
INVARIANTS LifecycleInv SideEffectsOnce SuccessIsEarned RunsNotShared
PROPERTIES TerminalIsFinal FinalizedStaysClosed ImplementsJobLife
CHECK_DEADLOCK FALSE
