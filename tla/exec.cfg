SPECIFICATION ExecFairSpec
CONSTANTS
  MaxOut = 3
  MaxIn = 2
INVARIANTS ExecTypeOK ExecInv NoFalseSuccess
PROPERTIES NothingAfterResult Settles
CHECK_DEADLOCK FALSE
