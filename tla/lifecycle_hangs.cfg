\* Unloaded while the event loop runs.
SPECIFICATION Spec
CONSTANTS
  EarlyUnload = FALSE
  Failures = {}
  RtcThreadQuits = FALSE
PROPERTIES
  UnloadCompletes
\* An unloaded module does nothing more.
CHECK_DEADLOCK FALSE
