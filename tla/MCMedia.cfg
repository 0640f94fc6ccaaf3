CONSTANTS
  DTS <- MCDTS
  Keys <- MCKeys
  What <- MCWhat
  Specs <- MCSpecs
  First <- MCFirst
  FrameDur = 2
  TsMod = 6
  Million = 3
  MaxEvents = 3
  MaxFrames = 6
  MaxSwaps = 2
  Interval = 2
  Guard = 3
  MaxDelay = 4
  MaxNow = 11
  p = p
  q = q
  None = None
  Handlers <- MCHandlers
  Names <- MCNames
  MaxUploads = 1
  MaxVersions = 2
  MaxScans = 2
  c1 = c1
  c2 = c2
  Unit = 5
  Conns <- MCConns
  ControlSets <- MCControlSets
  Draws <- MCDraws
  MaxRequests = 3
  MaxControl = 1
SPECIFICATION MediaSpec
INVARIANTS FramesKept HeldByRunningHold ClockKept KeepsNewest
INVARIANTS ScheduleKept AtMostOneAfterCancel
INVARIANTS Replayable LieOnOwnAnswer
INVARIANTS ReportOfFile
PROPERTIES DeleteSparesInUse ScanTruthful
CHECK_DEADLOCK FALSE
