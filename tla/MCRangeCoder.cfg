CONSTANTS
  Base = 4
  Bot = 32
  MaxTotal = 5
  MaxBytes = 100
  Chunk = 2
  MaxSent = 5
  Streams <- MCStreams
  Models <- MCModels
  Messages <- MCMessages
SPECIFICATION CoderSpec
INVARIANTS
  RoundTrip
  WithinStream
  ValueInRange
\* The run is over when everything has been received.
CHECK_DEADLOCK FALSE
