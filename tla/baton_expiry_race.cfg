\* An APPROVED release expires under its running preflight.
SPECIFICATION Spec
CONSTANTS
  None = None
  c1 = c1
  c2 = c2
  c3 = c3
  ActionId = {a1, a2}
  Executor = {e1, e2}
  Commander = {c1}
  MaxWeight = 1
  Kinds = {"release"}
  Policies <- OnePolicy
  Overrides = {}
  Weights = {1}
  Batches = 1
  ReleasePlan <- ShortPlan
  WindowFrom = 2
  ExpiryAge = 1
  AccelerantAge = 1
  InflightTtl = 2
  BakeWindow = 1
  ScheduleDelays = {0}
  MaxNow = 2
  MaxFaults = 1
  MaxDrafts = 2
  MaxChanges = 0
  MaxUpgrades = 1
  SlowCalls = FALSE
INVARIANTS AtMostOneOpen
\* A baton with nothing to do and the clock at its bound stops.
CHECK_DEADLOCK FALSE
