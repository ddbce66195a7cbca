\* One call that fails after it was done, and the build asked for again.
SPECIFICATION Spec
CONSTANTS
  None = None
  Jobs <- MCJobs
  Slots = {1, 2}
  Stands = {1, 2}
  Canisters = {1, 2, 3}
  StandOf <- MCStandOf
  RowOf <- MCRowOf
  NameOf <- MCNameOf
  Files <- MCFiles
  Optional = {2}
  HandedAway = {1}
  Sheet = {1}
  MaxFaults = 1
  MaxRetries = 2
  MaxChanges = 0
INVARIANT
  FailedIsRetryable
\* Every stand is built or has failed, and nobody asks again.
CHECK_DEADLOCK FALSE
