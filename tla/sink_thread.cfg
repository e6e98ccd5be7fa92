\* Frames of 2.5 microseconds: both conversions round.
SPECIFICATION Spec
CONSTANTS
  Rate = 2
  UsecPerSec = 5
  InitialBlock = 5
  MinLatency = 3
  MaxLatency = 8
  Latencies = {3}
  NoLatency = NoLatency
  MayFail = TRUE
  MaySuspend = TRUE
  Prompt = FALSE
  Uninitialised = {0, 20}
  MaxRewinds = 1
  MaxClock = 4
INVARIANTS
  TypeOK
  RenderWithinLatency
  LatencyBounded
  RenderWithoutRewind
  WriterPaced
PROPERTIES
  ImplementsPlayback
  CatchesUp
  RequestsHandled
  StopsAfterFailure
\* The thread ends, and the bounded clock stops.
CHECK_DEADLOCK FALSE
