SPECIFICATION CutSpec
CONSTANTS
  MAX_CHANNEL_COUNT = 2
  Channel = {c0, c1, cF}
  EMERGENCY_CHANNEL = c0
  OnesId = cF
  Time = {zero, t1, t2, ones}
  ZeroTime = zero
  Ones = ones
  FLASH_FIRST_BOOT = canary
  Corrupt = corrupt
  Updates <- MCOpenWindows
  c1 = c1
  c2 = c2
  c3 = c3
  t1 = t1
  t2 = t2
INVARIANT ConfirmedKept
