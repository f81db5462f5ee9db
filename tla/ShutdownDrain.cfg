\* A pod stopped or killed once, then restarted, while a webhook, a restore and
\* two messages are on their way.
CONSTANTS
  push = push
  restore = restore
  event = event
  garbage = garbage
  Detached <- OneDetached
  Restores <- OneRestore
  Message <- TwoMessages
  Malformed <- OneMalformed
  BatchSize = 2
  MaxReceives = 2
  MaxStops = 1
SPECIFICATION FairSpec
INVARIANTS TypeOK AckedMeansSynced DrainedStartedWork
PROPERTIES ImplementsDelivery ShutdownEnds EventsEnd
CHECK_DEADLOCK FALSE
