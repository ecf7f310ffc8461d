SPECIFICATION PromptSpec
CONSTANTS
  Channels = {c1, c2}
  TVs = {t1, t2}
  Emergency = emergency
  MaxMessages = 2
INVARIANTS TypeOK
PROPERTIES ImplementsBroadcast FailureEnds
\* The process may end, and one without ready tasks waits.
CHECK_DEADLOCK FALSE
