\* Does the row of a propagated delete name the tip the delete removed?
CONSTANTS
  c0 = c0
  a = a
  b = b
  x = x
  r1 = r1
  r2 = r2
  w1 = w1
  w2 = w2
  None = None
  NoRef = NoRef
  NoWorker = NoWorker
  Commit <- Fork
  Ancestors <- ForkAncestors
  Ref <- OneRef
  Worker <- TwoWorkers
  Direction = "bidirectional"
  OverrideTo <- Free
  Legacy = "none"
  AncestryFaults = FALSE
  Crashes = FALSE
  MaxUserOps = 2
  MaxJobs = 2
  ContentOf <- Rebased
  Empty = "empty"
  Merges <- NoMerges
  MaxClassify = 2
SPECIFICATION Spec
SYMMETRY ForkSymmetry
INVARIANTS DeletedTipWasRemoved
CHECK_DEADLOCK FALSE
