\* Calls fail, also during the rollback; operators abort; no executor dies.
SPECIFICATION Spec
CONSTANTS
  None = None
  f1 = f1
  f2 = f2
  b1 = b1
  b2 = b2
  Frontends <- TwoFronts
  Backends <- TwoBacks
  NewWasm = {f1, b1, b2}
  NewBundle = {f1, f2}
  MaxFailures = 5
  MaxLosses = 0
INVARIANTS ChangesAreUndoable NewFrontOnNewBacks
PROPERTIES ImplementsAtomicRelease
\* A release that has ended stops.
CHECK_DEADLOCK FALSE
