\* Two branches, one of them pinned to one side by a ref_override: what an event
\* or a reconcile may touch.
CONSTANTS
  c0 = c0
  a = a
  b = b
  x = x
  r1 = r1
  r2 = r2
  w1 = w1
  w2 = w2
  None = None
  NoRef = NoRef
  NoWorker = NoWorker
  Commit <- Line
  Ancestors <- LineAncestors
  Ref <- TwoRefs
  Worker <- OneWorker
  Direction = "bidirectional"
  OverrideTo <- Pinned
  Legacy = "target"
  AncestryFaults = TRUE
  Crashes = TRUE
  MaxUserOps = 1
  MaxJobs = 2
  ContentOf <- Rebased
  Empty = "empty"
  Merges <- NoMerges
  MaxClassify = 2
SPECIFICATION Spec
INVARIANTS IndInv
PROPERTIES NoBlindOverwrite EventScope AuthoritativeSideKept ImplementsContract
CHECK_DEADLOCK FALSE
