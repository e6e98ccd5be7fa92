\* Two channels, each at one of two volumes: a mean of 5/2 is rounded.
SPECIFICATION Spec
CONSTANTS
  Volumes = {1, 4}
  MaxSettings = 4
  MaxOthers = 2
INVARIANTS
  CopiedWhenQuiet
PROPERTIES
  MutedNotOlderThanVolume
  ChangeIsCopied
\* The subscription ends.
CHECK_DEADLOCK FALSE
