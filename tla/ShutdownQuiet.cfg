\* The same pod: is anything still working when main has drained?
CONSTANTS
  push = push
  restore = restore
  event = event
  garbage = garbage
  Detached <- OneDetached
  Restores <- OneRestore
  Message <- TwoMessages
  Malformed <- OneMalformed
  BatchSize = 2
  MaxReceives = 2
  MaxStops = 1
SPECIFICATION Spec
INVARIANTS DrainedIsQuiet
CHECK_DEADLOCK FALSE
