SPECIFICATION ESpec
CONSTANTS
  Retries = 3
  Faults = {"resolver"}
INVARIANT ResolverDeathFailsClosed
CHECK_DEADLOCK FALSE
