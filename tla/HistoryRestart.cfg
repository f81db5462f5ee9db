\* A tail as long as the file: does a restart show what the console showed?
CONSTANTS
  LineSizes <- ShortAndLong
  MaxBytes = 4
  RingSize = 2
  TailBytes = 4
  DiskFaults = FALSE
  MaxRows = 5
  MaxStarts = 3
  Repo = {"r1", "r2"}
  Trigger = {"webhook"}
  Mark = {"del", "hold"}
  All = "all"
  KindOf <- Rows
  Limit = {1, 3}
  MaxPage = 2
SPECIFICATION Spec
INVARIANTS RestartKeepsConsole
CHECK_DEADLOCK FALSE
