CONSTANTS
  viewer = viewer
  teardown = teardown
  None = None
  Sessions <- MCSessions
  Specs <- MCSpecs
  After <- MCAfter
  MaxCams = 2
  MaxPlays = 2
  MaxSets = 1
  p = p
  q = q
  r = r
  s = s
  Nobody = Nobody
  door = door
  Callers <- MCThree
  Cameras <- MCCameras
SPECIFICATION ServersSpec
PROPERTY NoTeardownAfterSwap
CHECK_DEADLOCK FALSE
