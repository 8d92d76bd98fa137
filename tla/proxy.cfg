CONSTANTS
  HeaderSize = 2
  Shapes <- MCShapes
  MaxChunks = 1
  HeaderEnd = 2
  MaxClient = 2
SPECIFICATION FairSpec
INVARIANTS
  DecoderExact
  AnswerKept
  ClientBytesKept
  UpstreamInOrder
PROPERTIES
  AnswerChannel
  RegistryDrains
CHECK_DEADLOCK FALSE
