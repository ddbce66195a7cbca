\* Two actions, two failing calls, one loss.
SPECIFICATION Spec
CONSTANTS
  None = None
  c1 = c1
  c2 = c2
  f1 = f1
  f2 = f2
  Canisters <- MCCanisters
  Files <- MCFiles
  Kinds = {"upgrade", "restore", "provision"}
  Pieces = 2
  Probed = {c2}
  Extra = {f2}
  FilesPerExecute = 1
  SnapshotLimit = 2
  SnapshotsKept = 1
  MaxActions = 2
  MaxFailures = 2
  MaxSwallowed = 1
  MaxLosses = 1
INVARIANTS
  UpgradeEndsWhole
  WayBackExists
  RestoreOutcomeIsTrue
  ProvisionedAsApproved
\* The last action may be the last.
CHECK_DEADLOCK FALSE
