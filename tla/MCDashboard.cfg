CONSTANTS
  p = p
  q = q
  door = door
  None = None
  Callers <- MCCallers
  Cameras <- MCCameras
  Max = 1
  Buffer = 1
  MaxRuns = 2
  MaxAdds = 1
  Unit = 10
  FleetFiles <- MCFleetFiles
  CommandLines <- MCCommandLines
  Requests <- MCRequests
SPECIFICATION DashboardSpec
INVARIANTS ActiveIsInFlight CancelSettles
INVARIANTS ShutdownOrder StartedFleetSound
PROPERTIES OnlyCurrentSpeaks CallsReturn RunReturns
CHECK_DEADLOCK FALSE
