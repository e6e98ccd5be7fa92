\* 200 Hz makes a block of 8 bytes; the sink writes half and one and a half.
SPECIFICATION EngineSpec
CONSTANTS
  SampleRateHz = 200
  NumChannels = 2
  WriteSizes = {4, 12}
  EngineNegotiatesFirst = TRUE
  BufferMayFail = FALSE
  MaxOffered = 40
INVARIANTS
  NoArithmeticFault
  EngineHearsAll
PROPERTIES
  RecordingStarts
  UsesTheDevice
\* The engine ends, and the sound is bounded.
CHECK_DEADLOCK FALSE
