\* Unloaded at any time.
SPECIFICATION Spec
CONSTANTS
  EarlyUnload = TRUE
  Failures = {}
  RtcThreadQuits = FALSE
INVARIANTS
  MainThreadIsOver
\* An unloaded module does nothing more.
CHECK_DEADLOCK FALSE
