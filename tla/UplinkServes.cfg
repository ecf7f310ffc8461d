SPECIFICATION Spec
CONSTANTS
  Channels = {c1}
  Frames = 2
  Satellites = {s1, s2}
  Drain = drain
  Nobody = nobody
  MaxQueue = 2
INVARIANTS TypeOK OneReader AtMostOneWasted
PROPERTIES InOrder KeepsServing DrainTakesOver
