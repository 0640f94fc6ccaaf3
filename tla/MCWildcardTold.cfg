CONSTANTS
  p = p
  q = q
  door = door
  None = None
  Callers <- MCCallers
  Cameras <- MCCameras
  Max = 1
  Buffer = 1
  MaxRuns = 2
  MaxAdds = 1
  Unit = 10
  FleetFiles <- MCZonedFiles
  CommandLines <- MCCommandLines
  Requests <- MCRequests
SPECIFICATION DashboardSpec
INVARIANTS NoWildcardTold
CHECK_DEADLOCK FALSE
