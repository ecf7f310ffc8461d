SPECIFICATION Spec
CONSTANTS
  TOTAL_SIZE = 6
  BLOCK_SIZE = 2
  Images <- MCImages
  FF = 255
  MaxReports = 2
  Good = {f1, f2}
  Skipped = skipped
  Broken = broken
  MaxEntries = 2
  MaxRaw = 3
  ROLLING_TIME_SECONDS = 2
  ENC_TEST_SIZE = 3
  DEC_TEST_SIZE = 2
  Times = {1, 2, 3}
  MaxRounds = 3
INVARIANTS InStep Installed DumpsAligned AllTested RightAlarms RatesEnforced RightComparison
PROPERTIES UtilitiesEnd
\* The programs end.
CHECK_DEADLOCK FALSE
