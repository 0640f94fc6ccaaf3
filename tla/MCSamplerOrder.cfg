CONSTANTS
  a = a
  b = b
  added = added
  removed = removed
  Subscribers <- MCSubscribers
  Changes <- MCChanges
  Buffer = 2
  MaxSeq = 3
  p = p
  q = q
  door = door
  Viewers <- MCViewers
  Ids <- MCIds
  Slots = 1
  MaxCams = 2
  MaxFlights = 3
  Askers <- MCAskers
  Watchers <- MCWatchers
  FreshFor = 1
  IdleAfter = 1
  GpuRetry = 1
  ChanSize = 1
  MaxClock = 2
  MaxReadings = 2
SPECIFICATION WatchingSpec
PROPERTIES OlderNotPublished
CHECK_DEADLOCK FALSE
