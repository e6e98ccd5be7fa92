\* No rewind is requested, but the sink is suspended and resumed.
SPECIFICATION Spec
CONSTANTS
  Rate = 1
  UsecPerSec = 2
  InitialBlock = 4
  MinLatency = 2
  MaxLatency = 6
  Latencies = {2}
  NoLatency = NoLatency
  MayFail = FALSE
  MaySuspend = TRUE
  Prompt = TRUE
  Uninitialised = {0, 20}
  MaxRewinds = 0
  MaxClock = 12
INVARIANTS
  PacedSinceResume
\* The thread ends, and the bounded clock stops.
CHECK_DEADLOCK FALSE
