\* Two of each, one failing call or loss of each part.
SPECIFICATION Spec
CONSTANTS
  p1 = p1
  p2 = p2
  h1 = h1
  h2 = h2
  s1 = s1
  s2 = s2
  m1 = m1
  m2 = m2
  w0 = w0
  w1 = w1
  Controller = controller
  People = {p1, p2}
  Codes = {code}
  SectionNames = {a, b}
  StandNames = {x, y}
  Keys = {"grant.assign", "stand.create", "stand.edit", "stand.delete"}
  Offers <- MCOffers
  Commanders <- MCCommanders
  MaxGrants = 2
  MaxScopes = 1
  Namespaces = {n1, n2}
  Paths = {1, 2}
  Operators = {o1}
  TheRound = round
  NoFile = NoFile
  Unlisted = Unlisted
  MAX_FILES = 1
  MaxUploads = 2
  MaxLosses = 1
  Members = {m1, m2}
  Modules = {w0, w1}
  Wishes <- MCWishes
  Readers = {r1, r2}
  MaxActions = 2
  Governed = {1, 2}
  Builds = {w0, w1}
  Requests = {q1, q2}
  Keep = 1
  MaxTaken = 2
  MaxFailed = 1
  Tanks <- MCHosts
  Clerks = {k1, k2}
  NoRow = NoRow
  Full = 5
  Tankful = 2
  Reserve = 2
  SweepReserve = 1
  MinPolicy = 3
  TopupPolicy = 1
  CreateCycles = 3
  Amounts = {2}
  MaxClerked = 3
  MaxTrouble = 1
  Monitors = {A, B}
  Nobody = Nobody
  Hosts <- MCHosts
  Settings = {j1, j2}
  MaxSettings = 2
  MaxUnset = 1
  Uploaders = {u1, u2}
  Visits = {v1, v2}
  MaxVisits = 6
  MaxMissteps = 1
  Values = {"va", "vb"}
  Blank = "blank"
  OldRows = 3
  MaxRows = 4
  MaxWrites = 2
  BATCH = 2
  PAGE = 2
  DeclaredKeys <- MCDeclaredKeys
  Backend = "backend"
  Store = "store"
  DEPOSIT = 20
  FEE = 5
  KEEP = 1
  Budget = 40
  Floor = 20
  StoreFloor = 16
  Purses = {61, 86, 120}
  MaxRuns = 3
  Publishers = {b1, b2}
  Files = {"f1", "f2"}
  Contents = {"c1", "c2"}
  Absent = Absent
  Registries <- MCRegistries
  MaxPublished = 3
  MaxKilled = 1
  Fleet <- MCFleet
  Keepers <- MCKeepers
  TRANSIENT_ATTEMPTS = 2
  MaxShips = 2
  MaxBlips = 1
  MaxActs = 1
  Drafts <- MCDrafts
  Quarters = {"y"}
  NoSheet = NoSheet
  MaxDrafts = 1
  MaxBroken = 1
INVARIANTS
  NobodyInheritsAScope
  DoneServesTheBundle
  RowsFollowBaton
  RowsAreTrue
  DestroyPaysBack
  OnlyTheMonitor
  PermitsAreOnRecord
  RowsAreFound
  MadeOnce
  PreflightIsEnough
  PublishedExactly
  ReportsAreTrue
  SheetIsKept
PROPERTY
  GrantsAddNoPowers
\* Every part stops at its bounds.
CHECK_DEADLOCK FALSE
