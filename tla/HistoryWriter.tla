--------------------------- MODULE HistoryWriter ---------------------------
(***************************************************************************)
(* internal/history: the JSONL file of mirror outcomes, rotated at a size  *)
(* limit into one older generation, and the ring the console reads, which  *)
(* a restart restores from the end of the live file.                       *)
(*                                                                         *)
(* Record and rotate run under one mutex, so each is one step; what        *)
(* interleaves with them is the process being stopped or killed, a write   *)
(* cut short and a failing disk.  Rows are numbered in the order they are  *)
(* recorded.  A file is the sequence of the writes made to it, each whole  *)
(* or cut.                                                                 *)
(***************************************************************************)
EXTENDS Naturals, Sequences, FiniteSets

CONSTANTS
  LineSizes,   \* lengths a marshalled row can have, newline included
  MaxBytes,    \* defaultMaxBytes
  RingSize,    \* defaultRingSize
  TailBytes,   \* tailScanBytes
  DiskFaults,  \* may a rename, a reopen or a write fail
  MaxRows,     \* bound: rows recorded
  MaxStarts    \* bound: times the process starts

ASSUME HistorySetup ==
  /\ LineSizes \subseteq Nat \ {0}
  /\ \A n \in LineSizes : n <= MaxBytes
  /\ {MaxBytes, RingSize, TailBytes} \subseteq Nat \ {0}
  /\ DiskFaults \in BOOLEAN
  /\ {MaxRows, MaxStarts} \subseteq Nat

VARIABLES
  sink,       \* what Record reaches: "down", "none" (Nop), "memory" (w.f = nil), "file"
  size,       \* w.size
  ring,       \* w.ring, oldest first
  live, old,  \* events.jsonl and events.jsonl.1
  rows,       \* rows recorded so far
  starts,
  \* For the properties only:
  restored,   \* the ring this process started from
  base,       \* rows recorded before this process started
  shown,      \* the ring when the previous process ended
  kills,      \* processes killed with a row in hand
  faulty,     \* the disk has failed
  misses      \* rotations whose rename failed

ghosts == <<restored, base, shown, kills>>
vars == <<sink, size, ring, live, old, rows, starts, ghosts, faulty, misses>>

Fault == IF DiskFaults THEN BOOLEAN ELSE {FALSE}

Write == [row : Nat, at : Nat, len : LineSizes, got : Nat]

Bytes(f) == IF f = <<>> THEN 0 ELSE f[Len(f)].at + f[Len(f)].got
GrowFromStart(f, row, len, got) ==  \* mutant: a file opened without O_APPEND
  IF got = 0 THEN f
  ELSE Append(f, [row |-> row, at |-> 0, len |-> len, got |-> got])
\* A write appends what it got through.
Grow(f, row, len, got) ==
  IF got = 0 THEN f
  ELSE Append(f, [row |-> row, at |-> Bytes(f), len |-> len, got |-> got])

LastOf(s, n) == SubSeq(s, IF Len(s) > n THEN Len(s) - n + 1 ELSE 1, Len(s))

-----------------------------------------------------------------------------
\* A write is a line that parses if it begins one inside the window tail reads
\* and its JSON is all there: only the newline may be missing, and only when
\* nothing was written behind it.
Parses(f, i) ==
  LET left == Bytes(f) - f[i].at IN
  /\ left <= TailBytes
  /\ left = TailBytes \/ i = 1 \/ f[i - 1].got = f[i - 1].len
  /\ f[i].got = f[i].len \/ (f[i].got = f[i].len - 1 /\ i = Len(f))

TailOldest(f) ==  \* mutant: stops reading once the ring is full
  LET good  == {i \in DOMAIN f : Parses(f, i)}
      count == IF Cardinality(good) > RingSize THEN RingSize ELSE Cardinality(good)
      Nth(k) == CHOOSE i \in good : Cardinality({j \in good : j <= i}) = k
  IN [k \in 1..count |-> f[Nth(k)].row]
\* tail: the newest rows of the live file that parse, the oldest of them first
TailOf(f) ==
  LET good  == {i \in DOMAIN f : Parses(f, i)}
      count == IF Cardinality(good) > RingSize THEN RingSize ELSE Cardinality(good)
      Nth(k) == CHOOSE i \in good : Cardinality({j \in good : j >= i}) = count - k + 1
  IN [k \in 1..count |-> f[Nth(k)].row]

PushLate(s, row) ==  \* mutant: > for >=
  Append(LastOf(s, RingSize), row)
\* push
Push(s, row) == Append(LastOf(s, RingSize - 1), row)

-----------------------------------------------------------------------------
Init ==
  /\ sink = "down"
  /\ size = 0
  /\ ring = <<>>
  /\ live = <<>>
  /\ old = <<>>
  /\ rows = 0
  /\ starts = 0
  /\ restored = <<>>
  /\ base = 0
  /\ shown = <<>>
  /\ kills = 0
  /\ faulty = FALSE
  /\ misses = 0

Truncated(f) == <<>>  \* mutant: O_TRUNC
\* openForAppend keeps what is there.
Opened(f) == f

SizeUnread(f) == 0  \* mutant: New without Stat
\* info.Size() of the file New opens
StatSize(f) == Bytes(f)

\* New, or main going on with the no-op sink when New fails.
Start ==
  /\ sink = "down"
  /\ starts < MaxStarts
  /\ starts' = starts + 1
  /\ base' = rows
  /\ \/ /\ sink' = "file"
        /\ size' = StatSize(live)
        /\ ring' = TailOf(live)
        /\ restored' = TailOf(live)
        /\ live' = Opened(live)
        /\ UNCHANGED faulty
     \/ /\ DiskFaults
        /\ faulty' = TRUE
        /\ sink' = "none"
        /\ restored' = <<>>
        /\ UNCHANGED <<size, ring, live>>
  /\ UNCHANGED <<old, rows, shown, kills, misses>>

\* The row still fits the live file.
Fits(len) == size + len <= MaxBytes

\* w.f.Write: a failing disk may take part of the line; w.size counts what it took.
WriteLine(f, at, len, fault) ==
  \E got \in IF fault THEN 0..len ELSE {len} :
    /\ live' = Grow(f, rows + 1, len, got)
    /\ size' = at + got

\* Record while the file takes the row as it is.
RecordFits(len, fault) ==
  /\ sink = "file"
  /\ Fits(len)
  /\ WriteLine(live, size, len, fault)
  /\ UNCHANGED <<sink, old, misses>>

\* Record with a rotation before the write.  A rename that fails is logged and the
\* same file is reopened; a reopen that fails ends the writing.
RecordRotates(len, fault) ==
  /\ sink = "file"
  /\ ~Fits(len)
  /\ \E renamed \in IF fault THEN BOOLEAN ELSE {TRUE} :
       LET fresh == IF renamed THEN <<>> ELSE Opened(live) IN
       /\ old' = IF renamed THEN live ELSE old
       /\ misses' = IF renamed THEN misses ELSE misses + 1
       /\ \/ WriteLine(fresh, 0, len, fault) /\ UNCHANGED sink
          \/ fault /\ sink' = "memory" /\ live' = fresh /\ UNCHANGED size

\* Record: the ring first, whatever the file then does.
Record(len) ==
  /\ sink # "down"
  /\ rows < MaxRows
  /\ rows' = rows + 1
  /\ ring' = IF sink = "none" THEN ring ELSE Push(ring, rows + 1)
  /\ \E fault \in Fault :
       /\ faulty' = (faulty \/ fault)
       /\ \/ RecordFits(len, fault)
          \/ RecordRotates(len, fault)
          \/ sink # "file" /\ ~fault /\ UNCHANGED <<sink, size, live, old, misses>>
  /\ UNCHANGED <<starts, ghosts>>

Down ==
  /\ sink' = "down"
  /\ size' = 0
  /\ ring' = <<>>
  /\ shown' = ring
  /\ UNCHANGED <<starts, restored, base>>

\* Close at the end of main, or a kill between two rows.
Stop ==
  /\ sink # "down"
  /\ Down
  /\ UNCHANGED <<live, old, rows, kills, faulty, misses>>

\* The process is killed inside Record, before the rename of a rotation or after it:
\* the row is cut or not begun.
Killed(len) ==
  /\ sink = "file"
  /\ rows < MaxRows
  /\ rows' = rows + 1
  /\ kills' = kills + 1
  /\ \/ UNCHANGED <<live, old>>
     \/ \E got \in 0..(len - 1) :
          IF Fits(len)
            THEN live' = Grow(live, rows + 1, len, got) /\ UNCHANGED old
            ELSE live' = Grow(<<>>, rows + 1, len, got) /\ old' = live
  /\ Down
  /\ UNCHANGED <<faulty, misses>>

Next ==
  \/ Start
  \/ Stop
  \/ \E len \in LineSizes : Record(len) \/ Killed(len)

Spec == Init /\ [][Next]_vars

-----------------------------------------------------------------------------
RowSeq == Seq(1..MaxRows)
\* The type invariant: a file is a run of back-to-back writes.
TypeOK ==
  /\ sink \in {"down", "none", "memory", "file"}
  /\ {size, rows, starts, base, kills, misses} \subseteq Nat
  /\ faulty \in BOOLEAN
  /\ {ring, restored, shown} \subseteq RowSeq
  /\ \A f \in {live, old} : \A i \in DOMAIN f :
       /\ f[i] \in Write
       /\ f[i].got \in 1..f[i].len
       /\ f[i].at = IF i = 1 THEN 0 ELSE f[i - 1].at + f[i - 1].got

\* The k-th write of f begins a line and its JSON is all there.
Legible(f, k) ==
  /\ k = 1 \/ f[k - 1].got = f[k - 1].len
  /\ f[k].got = f[k].len \/ (f[k].got = f[k].len - 1 /\ k = Len(f))
\* Rows that a reader of the two files could still get at.
RowsOf(f) == {f[k].row : k \in {i \in DOMAIN f : Legible(f, i)}}
OnDisk == RowsOf(live) \cup RowsOf(old)

\* The console always shows the newest rows in the order they were recorded, and
\* exactly as many as the ring holds: what this process restored, then all it has
\* recorded since, rotations, failed writes and a lost file handle included.
ConsoleShowsNewest == sink \in {"file", "memory"} =>
  ring = LastOf(restored \o [k \in 1..(rows - base) |-> base + k], RingSize)

\* The console has no hole: whatever cut lines, glued lines, rotations and restarts
\* lie behind it, it shows its rows oldest first, and every row a reader of the files
\* can still get at, from the oldest shown on (tail skips the lines it cannot parse).
ConsoleSkipsNothing == sink \in {"file", "memory"} /\ ring # <<>> =>
  /\ \A i, j \in DOMAIN ring : i < j => ring[i] < ring[j]
  /\ \A row \in OnDisk : row >= ring[1] => \E i \in DOMAIN ring : ring[i] = row

\* "the live file never exceeds maxBytes and the on-disk total stays bounded by
\* 2x maxBytes even for the last line" (Record), across restarts, kills and writes
\* cut short.  A rename that fails leaves the file in place and the size counted from
\* zero: each such rotation costs at most one more maxBytes, whatever follows.
DiskBounded == \A f \in {live, old} : Bytes(f) <= MaxBytes + misses * MaxBytes

FirstOnDisk == IF old # <<>> THEN old[1].row ELSE IF live # <<>> THEN live[1].row ELSE rows + 1

\* A process killed while it writes costs the audit trail the row in hand and the
\* next one, which lands on the same line, and nothing else: between the oldest
\* row kept and the newest, no other is missing, rotation or not.
KillCostsTwoRows == ~faulty =>
  Cardinality((FirstOnDisk..rows) \ OnDisk) <= 2 * kills

\* New "restores the in-memory tail from it, so a pod restart does not blank the
\* console": a process that has just started shows what the last one showed.
RestartKeepsConsole == sink = "file" /\ base = rows /\ kills = 0 =>
  \A k \in DOMAIN shown : \E j \in DOMAIN ring : ring[j] = shown[k]
=============================================================================
