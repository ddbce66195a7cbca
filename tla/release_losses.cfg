\* Executors die in the middle of steps and rollbacks.
SPECIFICATION FairSpec
CONSTANTS
  None = None
  f1 = f1
  f2 = f2
  b1 = b1
  b2 = b2
  Frontends <- TwoFronts
  Backends <- TwoBacks
  NewWasm = {f1, b1, b2}
  NewBundle = {f1, f2}
  MaxFailures = 2
  MaxLosses = 2
INVARIANT SnapshotsAreOld
PROPERTIES Ends
\* A release that has ended stops.
CHECK_DEADLOCK FALSE
