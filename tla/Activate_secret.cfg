\* A device that is activated, and whose first connection fails.
SPECIFICATION Spec
CONSTANTS
  dynamic = TRUE
  TIMEOUT_MS = 2
  CLOCK = 16
  MaxTime = 4
  MaxFaults = 1
INVARIANT SignedWithSecret
CHECK_DEADLOCK FALSE
