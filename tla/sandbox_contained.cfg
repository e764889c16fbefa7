SPECIFICATION SSpec
CONSTANTS
  w1 = w1  p1 = p1  c1 = c1  c2 = c2
  Workloads = {w1}
  Proxies = {p1}
  Calls = {c1, c2}
  None = None
  Host = Host
  Adversity = {"parallel", "flaky", "rmFails", "earlyShutdown", "hostCrash", "execResolves"}
  Retries = 2
  Faults = {"iptables"}
INVARIANTS STypeOK Contained
PROPERTY ActiveOnlyWhenSetUp
CHECK_DEADLOCK FALSE
