SPECIFICATION LiveSpec
CONSTANTS
  Streams <- MCStreams
  Chunks <- MCChunks
INVARIANTS TlsInv StreamsIntact
PROPERTY TlsAnswers
CHECK_DEADLOCK FALSE
