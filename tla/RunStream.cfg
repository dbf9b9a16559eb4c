CONSTANTS
  Faults = {"bad", "flood", "timeout", "refused", "expired", "http", "network", "drop", "error_event", "crash"}
  MaxFaults = 2
  PlanModes = {TRUE}
  Kinds = {"extra", "plan_call"}
  MaxEvents = 1
  MaxReconnects = 1
  MaxPolls = 2
  MaxWatchers = 2
SPECIFICATION FairSpec
INVARIANTS ResumesInOrder OutcomeIsCloud
PROPERTIES FinalTextStays WatchingEnds
CHECK_DEADLOCK FALSE
