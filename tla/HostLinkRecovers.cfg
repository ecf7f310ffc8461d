SPECIFICATION FaultSpec
CONSTANTS
  BLOCK_LEN = 2
  Lengths = {1, 3}
  AnswerLengths = {0, 3}
  Filler = 120
  MaxLen = 8
  MaxFaults = 2
  Requests <- MCRequests
  Bodies <- MCBodies
  ErrorText <- MCErrorText
  DebugText <- MCDebugText
PROPERTY Recovers
INVARIANT TypeOK WithinHeader
