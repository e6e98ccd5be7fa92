\* Unloaded while the event loop runs, and the worker told to quit.
SPECIFICATION Spec
CONSTANTS
  EarlyUnload = FALSE
  Failures = {"arguments", "sink", "thread"}
  RtcThreadQuits = TRUE
INVARIANTS
  TypeOK
  IoUsesNothingGone
  MainThreadIsOver
  SecondSinkOnlyAtUnload
  EachWaitIsAnswered
PROPERTIES
  UnloadCompletes
\* An unloaded module does nothing more.
CHECK_DEADLOCK FALSE
