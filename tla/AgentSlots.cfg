SPECIFICATION Spec
CONSTANTS
  Handlers = {bot, web}
  Repos = {r1, r2}
  Agents = {a1, a2}
  Jobs = {j1}
  MaxSlots = 2
  MaxId = 3
  MaxOps = 4
  MaxCrashes = 1
INVARIANTS OneSlotOneRepo
PROPERTIES SwitchHeals MislinksHaveACause SyncUnlinksDeleted
VIEW View
SYMMETRY Symmetry
CHECK_DEADLOCK FALSE
