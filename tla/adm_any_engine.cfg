\* Any order of calls, and a buffer that may refuse a block.  200 Hz makes a
\* block of 8 bytes; the sink writes half a block and two and a half.
SPECIFICATION Spec
CONSTANTS
  SampleRateHz = 200
  NumChannels = 2
  WriteSizes = {4, 20}
  EngineNegotiatesFirst = FALSE
  BufferMayFail = TRUE
  MaxOffered = 28
INVARIANTS
  StreamIntegrity
  ResidueBounded
  ReceivedInOrder
PROPERTIES
  NoDeliveryAfterStop
  ImplementsBlockStream
\* A division by zero ends the process.
CHECK_DEADLOCK FALSE
