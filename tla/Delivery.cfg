SPECIFICATION Spec
CONSTANTS
  Byte = 2
  Ports = {2, 13}
  Emergency = 0
  Frames <- MCFrames
  Requests <- MCRequests
  Capacity = 2
  Tv = tv
  Garbage = garbage
  MaxFrames = 2
INVARIANTS TypeOK Delivered ChannelDecides ListTells AtMostOneLate
PROPERTIES Ends ShowsAll
