SPECIFICATION StableSpec
CONSTANTS
  MAX_CHANNEL_COUNT = 3
  Channel = {c0, c1, c2, c3, cF}
  EMERGENCY_CHANNEL = c0
  OnesId = cF
  Time = {zero, t1, t2, ones}
  ZeroTime = zero
  Ones = ones
  FLASH_FIRST_BOOT = canary
  Corrupt = corrupt
  Updates <- MCUpdates
  c1 = c1
  c2 = c2
  c3 = c3
  t1 = t1
  t2 = t2
INVARIANTS
  TypeOK
  NoDuplicateChannels
  ConfirmedKept
  FreshDecoderEmpty
  ConfirmedStored
PROPERTY ImplementsSubscriptions
SYMMETRY OrdinaryChannels
