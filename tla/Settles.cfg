\* Everything that can go wrong between the hosts, with the hourly reconcile.
CONSTANTS
  c0 = c0
  a = a
  x = x
  None = None
  Commit <- Fork
  Ancestors <- ForkAncestors
  InOrder = FALSE
  Reconciles = TRUE
  MaxUserOps = 2
  MaxFaults = 1
  MaxQueue = 2
SPECIFICATION FairSpec
INVARIANTS TypeOK NothingForgotten
PROPERTIES Settles
