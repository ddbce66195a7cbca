\* One action of every kind that can be aborted, interrupted or baked, faults, and an operator who keeps pumping.
SPECIFICATION PumpedSpec
CONSTANTS
  None = None
  c1 = c1
  c2 = c2
  c3 = c3
  ActionId = {a1}
  Executor = {e1, e2}
  Commander = {c1}
  MaxWeight = 1
  Kinds = {"upgrade", "provision", "release", "restore"}
  Policies <- OnePolicy
  Overrides = {}
  Weights = {1}
  Batches = 1
  ReleasePlan <- ShortPlan
  WindowFrom = 2
  ExpiryAge = 1
  AccelerantAge = 1
  InflightTtl = 2
  BakeWindow = 0
  ScheduleDelays = {0, 1}
  MaxNow = 3
  MaxFaults = 2
  MaxDrafts = 1
  MaxChanges = 0
  MaxUpgrades = 1
  SlowCalls = FALSE
INVARIANTS OneExecutor
PROPERTIES EventuallyEnds StartsApprovedAndFresh
\* A baton with nothing to do and the clock at its bound stops.
CHECK_DEADLOCK FALSE
