\* Two grants or revokes, a failing call, an upgrade of the baton.
SPECIFICATION FairSpec
CONSTANTS
  None = None
  Never = Never
  Ticks = {1, 2}
  c1 = c1
  c2 = c2
  Canisters <- MCCanisters
  Base = {baton}
  Grantees = {dev}
  Horizon = 1
  RetryAfter = 1
  MaxNow = 2
  MaxGrants = 2
  MaxFailures = 1
  MaxUpgrades = 1
INVARIANTS
  BaseStays
  TrackedUnlessOverlapped
PROPERTY
  DueRowsGo
\* The clock and the grants stop at their bounds.
CHECK_DEADLOCK FALSE
