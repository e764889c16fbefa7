SPECIFICATION SSpec
CONSTANTS
  w1 = w1  p1 = p1  c1 = c1  c2 = c2
  Workloads = {w1}
  Proxies = {p1}
  Calls = {c1}
  None = None
  Host = Host
  Adversity = {"restart"}
  Retries = 2
  Faults = {}
INVARIANT Contained
CHECK_DEADLOCK FALSE
