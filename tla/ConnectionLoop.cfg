SPECIFICATION FairSpec
CONSTANTS
  Calls = {s1, s2}
  Debounce = 1
  MinDelay = 1
  MaxDelay = 4
  Environment = {"watchdog", "hidden", "close"}
INVARIANT NowIsNow
PROPERTIES BacksOff SendsServed
\* A loop that was closed has nothing left to do.
CHECK_DEADLOCK FALSE
