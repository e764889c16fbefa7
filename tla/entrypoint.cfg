SPECIFICATION EFairSpec
CONSTANTS
  Retries = 3
  Faults = {"iptables", "mitmdump", "policy", "resolver"}
INVARIANTS ETypeOK ReadyMeansFiltered TornDown ChainsInv
PROPERTY EntrypointSettles
CHECK_DEADLOCK FALSE
