SPECIFICATION FairSpec
CONSTANTS
  NumJobs = 1
  Nodes = {n1}
  Notes <- MCNotes
  Drains = {d1, d2}
  GiveUpAfter = 2
  Faults = {"claim_lost", "post_lost", "timeout", "daemon_crash", "web_crash", "cancel", "other_key", "worker_restart", "database"}
  MaxFaults = 1
INVARIANTS DuplicatesAreExplained OneRunPerClaim
CHECK_DEADLOCK FALSE
PROPERTIES EndedStaysEnded EveryNoteSettles RunningJobsEnd
