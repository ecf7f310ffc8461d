SPECIFICATION Spec
CONSTANTS
  Channels = {c1, c2}
  TVs = {t1, t2}
  Emergency = emergency
  MaxMessages = 1
PROPERTIES FailureEnds
\* The process may end, and one without ready tasks waits.
CHECK_DEADLOCK FALSE
