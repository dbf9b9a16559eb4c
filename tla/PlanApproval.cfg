SPECIFICATION FairSpec
CONSTANTS
  Plans = {p1, p2}
  AutoPlans = {p2}
  Owners = {o1}
  Requests = {r1, r2}
  Faults = {"worker_crash", "bot_crash", "web_crash", "policy", "telegram", "zombie"}
  MaxFaults = 1
INVARIANTS ApprovalInv ExecutionIsApproved
PROPERTIES DecisionsAreFinal ApprovedIsExecuted
CHECK_DEADLOCK FALSE
