\* A sheet's stand with a canister handed away and one to grow by, and a stand people
\* create; one fault, two builds asked for, one rename or upgrade.
SPECIFICATION FairSpec
CONSTANTS
  None = None
  Jobs <- MCJobs
  Slots = {1, 2}
  Stands = {1, 2}
  Canisters = {1, 2, 3, 4, 5, 6}
  StandOf <- MCStandOf
  RowOf <- MCRowOf
  NameOf <- MCNameOf
  Files <- MCFiles
  Optional = {2, 5}
  HandedAway = {1, 4}
  Sheet = {1}
  MaxFaults = 1
  MaxRetries = 2
  MaxChanges = 1
INVARIANTS
  OneRoundAtATime
  BuiltIsWhole
  PendingIsCovered
PROPERTY
  BuildsSettle
\* Every stand is built or has failed, and nobody asks again.
CHECK_DEADLOCK FALSE
