SPECIFICATION LinkSpec
CONSTANTS
  BLOCK_LEN = 2
  Lengths = {1, 2, 3, 4, 5}
  AnswerLengths = {0, 1, 2, 3, 4, 5}
  Filler = 120
  MaxLen = 8
  MaxFaults = 0
  Requests <- MCRequests
  Bodies <- MCBodies
  ErrorText <- MCErrorText
  DebugText <- MCDebugText
INVARIANT OneBlock
PROPERTY ImplementsExchange BodyAfterAck
