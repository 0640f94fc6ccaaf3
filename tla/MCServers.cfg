CONSTANTS
  viewer = viewer
  teardown = teardown
  None = None
  Sessions <- MCSessions
  Specs <- MCSpecs
  After <- MCAfter
  MaxCams = 2
  MaxPlays = 3
  MaxSets = 2
  p = p
  q = q
  r = r
  s = s
  Nobody = Nobody
  door = door
  Callers <- MCCallers
  Cameras <- MCCameras
SPECIFICATION ServersSpec
INVARIANTS ArmingSound NoWriteToClosedStream AdvertisedAreServed NothingOrphaned
PROPERTIES ArmingEnds CloseReturns OnvifCloseReturns
CHECK_DEADLOCK FALSE
