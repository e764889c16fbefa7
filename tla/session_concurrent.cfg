SPECIFICATION FairSpec
CONSTANTS
  w1 = w1  w2 = w2  p1 = p1  p2 = p2  c1 = c1  c2 = c2
  Workloads = {w1}
  Proxies = {p1, p2}
  Calls = {c1, c2}
  None = None
  Host = Host
  Adversity = {"restart", "flaky", "rmFails", "parallel", "earlyShutdown", "hostCrash", "execResolves"}
INVARIANTS EgressInv EgressBeforeUse
PROPERTY HandlersReturn
CHECK_DEADLOCK FALSE
