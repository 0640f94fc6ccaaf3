CONSTANTS
  p = p
  q = q
  x = x
  y = y
  clip = clip
  latency = latency
  None = None
  Fixture = Fixture
  Callers <- MCCallers
  Ids <- MCOneId
  Files <- MCFiles
  Kinds <- MCKinds
  MaxIndex = 2
  MaxWrites = 0
  MaxSwaps = 1
SPECIFICATION Spec
PROPERTY HandleActsOnItsCamera
CHECK_DEADLOCK FALSE
