\* Votes, weights and policies that change under a proposal.
SPECIFICATION Spec
CONSTANTS
  None = None
  c1 = c1
  c2 = c2
  c3 = c3
  ActionId = {a1}
  Executor = {e1}
  Commander = {c1, c2, c3}
  MaxWeight = 2
  Kinds = {"restore", "grant"}
  Policies <- ManyPolicies
  Overrides <- StrictPolicies
  Weights = {0, 1, 2}
  Batches = 1
  ReleasePlan <- ShortPlan
  WindowFrom = 2
  ExpiryAge = 1
  AccelerantAge = 1
  InflightTtl = 2
  BakeWindow = 1
  ScheduleDelays = {0}
  MaxNow = 1
  MaxFaults = 0
  MaxDrafts = 2
  MaxChanges = 2
  MaxUpgrades = 0
  SlowCalls = FALSE
PROPERTY VotesMeetConfiguredPolicy
\* A baton with nothing to do and the clock at its bound stops.
CHECK_DEADLOCK FALSE
