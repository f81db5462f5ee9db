\* Rows of one or two units, a file of five, a ring of three: every rotation, kill
\* and restart over five rows and three processes.
CONSTANTS
  LineSizes <- ShortAndLong
  MaxBytes = 5
  RingSize = 3
  TailBytes = 4
  DiskFaults = TRUE
  MaxRows = 5
  MaxStarts = 3
  Repo = {"r1", "r2"}
  Trigger = {"webhook"}
  Mark = {"del", "hold"}
  All = "all"
  KindOf <- Rows
  Limit = {1, 3}
  MaxPage = 2
SPECIFICATION Spec
INVARIANTS TypeOK ConsoleShowsNewest ConsoleSkipsNothing DiskBounded KillCostsTwoRows ButtonsWork
CHECK_DEADLOCK FALSE
