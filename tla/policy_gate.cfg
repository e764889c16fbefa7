SPECIFICATION FairSpec
CONSTANTS
  h1 = "h1"  h2 = "h2"
  a = "/a"  b = "/b"
  GET = "GET"  POST = "POST"
  Hosts = {"h1", "h2"}
  Paths = {"/a", "/b"}
  Methods = {"GET", "POST"}
  Missing = "missing"
  Unresolved = "unresolved"
  Ips = {"ip1", "ip2"}
  Files <- MCFiles
INVARIANTS GateTypeOK AuditedOnce DecidedAsDocumented RefusedNamesAreUseless
PROPERTIES LearnedAddressAccepted QueriesAnswered ImplementsMonitor
