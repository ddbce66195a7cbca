\* Concurrent approvals, signer changes and expiries over two proposals; two running actions, a failing call.
SPECIFICATION CanisterSpec
CONSTANTS
  p1 = p1
  p2 = p2
  p3 = p3
  t1 = t1
  t2 = t2
  Principal = {p1, p2, p3}
  MaxProposals = 2
  Other = Other
  Changes <- SomeChanges
  ExpirySecs = {1}
  MaxNow = 2
  MaxLosses = 1
  Targets <- MCTargets
  Builds = {w1, w2}
  Sweeper = sweeper
  Pieces = 2
  Admins = {a1}
  Slots = {q1, q2}
  Ladder <- TwoRungs
  Funds = 4
  Floors = {2, 3}
  Iterations = 2
  MaxCallErrors = 1
  MaxOutside = 1
SYMMETRY Symmetry
INVARIANTS CommitteeCanDecide RunsMatchOutcome SweptBeforeDeleted
\* Once every proposal is decided and the clock is at its bound nothing is left to do.
CHECK_DEADLOCK FALSE
