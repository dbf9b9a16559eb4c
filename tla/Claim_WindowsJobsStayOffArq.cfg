SPECIFICATION Spec
CONSTANTS
  NumJobs = 1
  Nodes = {n1}
  Notes <- MCNotes
  Drains = {d1}
  GiveUpAfter = 2
  Faults = {"worker_restart"}
  MaxFaults = 1
INVARIANT WindowsJobsStayOffArq
CHECK_DEADLOCK FALSE
