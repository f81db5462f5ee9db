\* Events taken in order, nothing lost, no reconcile: do the echoes end?
CONSTANTS
  c0 = c0
  a = a
  x = x
  None = None
  Commit <- Line
  Ancestors <- LineAncestors
  InOrder = TRUE
  Reconciles = FALSE
  MaxUserOps = 2
  MaxFaults = 0
  MaxQueue = 2
SPECIFICATION FairSpec
PROPERTIES EchoesEnd
CHECK_DEADLOCK FALSE
