CONSTANTS
  p = p
  q = q
  x = x
  y = y
  clip = clip
  latency = latency
  None = None
  Fixture = Fixture
  Callers <- MCCallers
  Ids <- MCIds
  Files <- MCFiles
  Kinds <- MCKinds
  MaxIndex = 2
  MaxWrites = 1
  MaxSwaps = 1
SPECIFICATION FairSpec
INVARIANTS RegistriesSound SourcesExact
PROPERTIES IndexNeverReused FleetImplementsRoster RemovedEverywhere
CHECK_DEADLOCK FALSE
