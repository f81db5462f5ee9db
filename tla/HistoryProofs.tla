--------------------------- MODULE HistoryProofs ---------------------------
(***************************************************************************)
(* The disk bound of the history writer, for every line size, limit and    *)
(* number of rows, restarts, kills and failing writes and renames.         *)
(*                                                                         *)
(* DiskBounded is not inductive: what keeps the live file small is the     *)
(* size the writer counts, which must never fall behind the file by more   *)
(* than the rotations that failed to rename account for (Counted).         *)
(***************************************************************************)
EXTENDS HistoryWriter, SequenceTheorems, TLAPS

Files ==
  /\ sink \in {"down", "none", "memory", "file"}
  /\ live \in Seq(Write) /\ old \in Seq(Write)
  /\ size \in Nat /\ rows \in Nat /\ misses \in Nat

\* What rotations whose rename failed may have left behind.
Missed == misses * MaxBytes

\* The writer counts every byte of the live file but those.
Counted == sink = "file" => Bytes(live) <= size + Missed

DiskInv == Files /\ Counted /\ DiskBounded

-----------------------------------------------------------------------------
LEMMA Limits == /\ MaxBytes \in Nat
                /\ \A len \in LineSizes : len \in Nat /\ len > 0 /\ len <= MaxBytes
  BY HistorySetup

\* A file's size is a number.
LEMMA BytesNat == ASSUME NEW f \in Seq(Write) PROVE Bytes(f) \in Nat
  <1>1. CASE f = <<>>
    BY <1>1 DEF Bytes
  <1>2. CASE f # <<>>
    <2>1. Len(f) \in Nat \ {0} /\ DOMAIN f = 1..Len(f)
      BY <1>2, LenProperties, EmptySeq
    <2>2. f[Len(f)] \in Write
      BY <2>1, ElementOfSeq
    <2>3. QED
      BY <1>2, <2>2 DEF Bytes, Write
  <1>3. QED
    BY <1>1, <1>2

\* A write makes the file longer by what it got through.
LEMMA GrowBytes ==
  ASSUME NEW f \in Seq(Write), NEW row \in Nat, NEW len \in LineSizes, NEW got \in 0..len
  PROVE  /\ Grow(f, row, len, got) \in Seq(Write)
         /\ Bytes(Grow(f, row, len, got)) = Bytes(f) + got
  <1>1. Bytes(f) \in Nat /\ got \in Nat
    BY BytesNat, Limits
  <1>2. CASE got = 0
    BY <1>1, <1>2 DEF Grow
  <1>3. CASE got # 0
    <2> DEFINE w == [row |-> row, at |-> Bytes(f), len |-> len, got |-> got]
               g == Append(f, w)
    <2>1. w \in Write /\ w.at = Bytes(f) /\ w.got = got
      BY <1>1 DEF Write
    <2>2. Grow(f, row, len, got) = g
      BY <1>3 DEF Grow
    <2> HIDE DEF w
    <2>3. g \in Seq(Write) /\ Len(g) = Len(f) + 1 /\ g[Len(f) + 1] = w /\ Len(f) \in Nat
      BY <2>1, AppendProperties, LenProperties
    <2>4. g # <<>>
      BY <2>3, EmptySeq
    <2>5. Bytes(g) = w.at + w.got
      BY <2>3, <2>4 DEF Bytes
    <2>6. QED
      BY <2>1, <2>2, <2>3, <2>5
  <1>4. QED
    BY <1>2, <1>3

LEMMA EmptyFile == <<>> \in Seq(Write) /\ Bytes(<<>>) = 0
  BY EmptySeq DEF Bytes

\* One more failed rename allows one more maxBytes.
LEMMA MissMore == ASSUME NEW n \in Nat
                  PROVE  /\ n * MaxBytes \in Nat
                         /\ (n + 1) * MaxBytes = n * MaxBytes + MaxBytes
  BY Limits

-----------------------------------------------------------------------------
LEMMA DiskInit == Init => DiskInv
  <1> SUFFICES ASSUME Init PROVE DiskInv
    OBVIOUS
  <1>1. Files /\ Counted
    BY EmptyFile DEF Init, Files, Counted
  <1>2. misses * MaxBytes = 0 /\ misses = 0
    BY Limits DEF Init
  <1>3. DiskBounded
    BY <1>2, EmptyFile, Limits DEF Init, DiskBounded
  <1>4. QED
    BY <1>1, <1>3 DEF DiskInv

\* The size counted is the file's own.
LEMMA StartStep == DiskInv /\ Start => DiskInv'
  <1> SUFFICES ASSUME DiskInv, Start PROVE DiskInv'
    OBVIOUS
  <1>1. /\ live' = live /\ old' = old /\ rows' = rows /\ misses' = misses
        /\ \/ sink' = "file" /\ size' = Bytes(live)
           \/ sink' = "none" /\ size' = size
    BY DEF Start, Opened, StatSize
  <1>2. Bytes(live) \in Nat /\ misses * MaxBytes \in Nat
    BY BytesNat, MissMore DEF DiskInv, Files
  <1>3. Files'
    BY <1>1, <1>2 DEF DiskInv, Files
  <1>4. Counted'
    BY <1>1, <1>2 DEF Counted, Missed
  <1>5. DiskBounded'
    BY <1>1 DEF DiskInv, DiskBounded
  <1>6. QED
    BY <1>3, <1>4, <1>5 DEF DiskInv

\* A row that fits, cut or whole, in Record or in the hands of a killed process.
LEMMA FitsStep ==
  ASSUME DiskInv, sink = "file", NEW len \in LineSizes, Fits(len), NEW got \in 0..len,
         live' = Grow(live, rows + 1, len, got), old' = old, misses' = misses,
         rows' = rows + 1,
         (sink' = "file" /\ size' = size + got) \/ (sink' = "down" /\ size' = 0)
  PROVE  DiskInv'
  <1>1. /\ live \in Seq(Write) /\ rows + 1 \in Nat /\ size \in Nat /\ got \in Nat
        /\ got <= len /\ size + len <= MaxBytes /\ MaxBytes \in Nat /\ Missed \in Nat
        /\ len \in Nat
    BY Limits, MissMore DEF DiskInv, Files, Fits, Missed
  <1>2. /\ live' \in Seq(Write)
        /\ Bytes(live)' = Bytes(live) + got
        /\ Bytes(live) \in Nat
    BY <1>1, GrowBytes, BytesNat
  <1>3. Bytes(live) <= size + Missed
    BY DEF DiskInv, Counted
  <1>4. Missed' = Missed
    BY DEF Missed
  <1>5. Files'
    BY <1>1, <1>2 DEF DiskInv, Files
  <1>6. Counted'
    BY <1>1, <1>2, <1>3, <1>4 DEF Counted
  <1>7. Bytes(live)' <= MaxBytes + Missed'
    BY <1>1, <1>2, <1>3, <1>4
  <1>8. DiskBounded'
    BY <1>7 DEF DiskInv, DiskBounded, Missed
  <1>9. QED
    BY <1>5, <1>6, <1>8 DEF DiskInv

\* A rotation that renamed, whatever then became of the row.
LEMMA RotateStep ==
  ASSUME DiskInv, NEW len \in LineSizes, NEW got \in 0..len,
         live' = Grow(<<>>, rows + 1, len, got), old' = live, misses' = misses,
         rows' = rows + 1,
         (sink' = "file" /\ size' = got) \/ (sink' \in {"down", "memory"} /\ size' \in Nat)
  PROVE  DiskInv'
  <1>1. /\ live \in Seq(Write) /\ rows + 1 \in Nat /\ got \in Nat /\ got <= len /\ len <= MaxBytes
        /\ MaxBytes \in Nat /\ Missed \in Nat /\ len \in Nat
    BY Limits, MissMore DEF DiskInv, Files, Missed
  <1>2. live' \in Seq(Write) /\ Bytes(live)' = got
    <2>1. <<>> \in Seq(Write) /\ Bytes(<<>>) = 0
      BY EmptyFile
    <2> DEFINE g == Grow(<<>>, rows + 1, len, got)
    <2>2. g \in Seq(Write) /\ Bytes(g) = Bytes(<<>>) + got
      BY <1>1, <2>1, GrowBytes
    <2>3. Bytes(g) = got
      BY <1>1, <2>1, <2>2
    <2>4. live' = g
      OBVIOUS
    <2> HIDE DEF g
    <2>5. QED
      BY <2>2, <2>3, <2>4
  <1>3. Missed' = Missed
    BY DEF Missed
  <1>4. Files'
    BY <1>1, <1>2 DEF DiskInv, Files
  <1>5. Counted'
    BY <1>1, <1>2, <1>3 DEF Counted
  <1>6. Bytes(live)' <= MaxBytes + Missed' /\ Bytes(old)' <= MaxBytes + Missed'
    BY <1>1, <1>2, <1>3 DEF DiskInv, DiskBounded, Missed
  <1>7. DiskBounded'
    BY <1>6 DEF DiskBounded, Missed
  <1>8. QED
    BY <1>4, <1>5, <1>7 DEF DiskInv

\* A rotation that could not rename: the file stays, the count starts again.
LEMMA MissStep ==
  ASSUME DiskInv, NEW len \in LineSizes, NEW got \in 0..len,
         live' = Grow(live, rows + 1, len, got), old' = old, misses' = misses + 1,
         rows' = rows + 1,
         (sink' = "file" /\ size' = got) \/ (got = 0 /\ sink' = "memory" /\ size' = size)
  PROVE  DiskInv'
  <1>1. /\ live \in Seq(Write) /\ rows + 1 \in Nat /\ got \in Nat /\ got <= len /\ len <= MaxBytes
        /\ MaxBytes \in Nat /\ Missed \in Nat /\ len \in Nat /\ size \in Nat
    BY Limits, MissMore DEF DiskInv, Files, Missed
  <1>2. live' \in Seq(Write) /\ Bytes(live)' = Bytes(live) + got /\ Bytes(live) \in Nat
    BY <1>1, GrowBytes, BytesNat
  <1>3. Missed' = Missed + MaxBytes
    BY MissMore DEF DiskInv, Files, Missed
  <1>4. Bytes(live) <= MaxBytes + Missed /\ Bytes(old) <= MaxBytes + Missed
    BY DEF DiskInv, DiskBounded, Missed
  <1>5. Files'
    BY <1>1, <1>2 DEF DiskInv, Files
  <1>6. Counted'
    BY <1>1, <1>2, <1>3, <1>4 DEF Counted
  <1>7. Bytes(old) \in Nat /\ Bytes(old)' = Bytes(old)
    BY BytesNat DEF DiskInv, Files
  <1>8. Bytes(live)' <= MaxBytes + Missed' /\ Bytes(old)' <= MaxBytes + Missed'
    BY <1>1, <1>2, <1>3, <1>4, <1>7
  <1>9. DiskBounded'
    BY <1>8 DEF DiskBounded, Missed
  <1>10. QED
    BY <1>5, <1>6, <1>9 DEF DiskInv

LEMMA RecordStep == ASSUME DiskInv, NEW len \in LineSizes, Record(len) PROVE DiskInv'
  <1>1. PICK fault \in Fault :
          \/ RecordFits(len, fault)
          \/ RecordRotates(len, fault)
          \/ sink # "file" /\ ~fault /\ UNCHANGED <<sink, size, live, old, misses>>
    BY DEF Record
  <1>2. rows' = rows + 1 /\ fault \in BOOLEAN
    <2>1. rows' = rows + 1
      BY DEF Record
    <2>2. Fault \subseteq BOOLEAN
      BY DEF Fault
    <2>3. QED
      BY <2>1, <2>2
  <1>3. len \in Nat /\ \A b \in BOOLEAN : (IF b THEN 0..len ELSE {len}) \subseteq 0..len
    BY Limits
  <1>4. CASE RecordFits(len, fault)
    <2>1. PICK got \in IF fault THEN 0..len ELSE {len} :
            live' = Grow(live, rows + 1, len, got) /\ size' = size + got
      BY <1>4 DEF RecordFits, WriteLine
    <2>2. got \in 0..len
      BY <1>2, <1>3
    <2>3. sink = "file" /\ Fits(len) /\ UNCHANGED <<sink, old, misses>>
      BY <1>4 DEF RecordFits
    <2>4. sink' = "file" /\ size' = size + got /\ old' = old /\ misses' = misses
      BY <2>1, <2>3
    <2>5. QED
      BY <1>2, <2>1, <2>2, <2>3, <2>4, FitsStep
  <1>5. CASE RecordRotates(len, fault)
    <2>1. PICK renamed \in BOOLEAN :
            LET fresh == IF renamed THEN <<>> ELSE live IN
            /\ old' = IF renamed THEN live ELSE old
            /\ misses' = IF renamed THEN misses ELSE misses + 1
            /\ \/ WriteLine(fresh, 0, len, fault) /\ UNCHANGED sink
               \/ fault /\ sink' = "memory" /\ live' = fresh /\ UNCHANGED size
      BY <1>2, <1>5 DEF RecordRotates, Opened
    <2> DEFINE fresh == IF renamed THEN <<>> ELSE live
    <2>2. sink = "file" /\ size \in Nat
      BY <1>5 DEF RecordRotates, DiskInv, Files
    <2>3. PICK got \in 0..len :
            /\ live' = Grow(fresh, rows + 1, len, got)
            /\ \/ sink' = "file" /\ size' = got
               \/ got = 0 /\ sink' = "memory" /\ size' = size
      <3>1. CASE WriteLine(fresh, 0, len, fault) /\ UNCHANGED sink
        <4>1. PICK got \in IF fault THEN 0..len ELSE {len} :
                live' = Grow(fresh, rows + 1, len, got) /\ size' = 0 + got
          BY <3>1 DEF WriteLine
        <4>2. got \in 0..len /\ size' = got
          BY <1>2, <1>3, <4>1
        <4>3. QED
          BY <2>2, <3>1, <4>1, <4>2
      <3>2. CASE fault /\ sink' = "memory" /\ live' = fresh /\ UNCHANGED size
        <4>1. 0 \in 0..len /\ Grow(fresh, rows + 1, len, 0) = fresh
          BY <1>3 DEF Grow
        <4>2. QED
          BY <3>2, <4>1
      <3>3. QED
        BY <2>1, <3>1, <3>2
    <2>4. CASE renamed
      BY <1>2, <2>1, <2>2, <2>3, <2>4, RotateStep
    <2>5. CASE ~renamed
      <3>1. /\ live' = Grow(live, rows + 1, len, got) /\ old' = old /\ misses' = misses + 1
            /\ \/ sink' = "file" /\ size' = got
               \/ got = 0 /\ sink' = "memory" /\ size' = size
        BY <2>1, <2>3, <2>5
      <3>2. QED
        BY <1>2, <3>1, MissStep
    <2>6. QED
      BY <2>4, <2>5
  <1>6. CASE sink # "file" /\ ~fault /\ UNCHANGED <<sink, size, live, old, misses>>
    BY <1>2, <1>6 DEF DiskInv, Files, Counted, DiskBounded, Missed, Bytes
  <1>7. QED
    BY <1>1, <1>4, <1>5, <1>6

LEMMA StopStep == DiskInv /\ Stop => DiskInv'
  BY DEF DiskInv, Stop, Down, Files, Counted, DiskBounded, Missed, Bytes

LEMMA KilledStep == ASSUME DiskInv, NEW len \in LineSizes, Killed(len) PROVE DiskInv'
  <1>1. /\ sink = "file" /\ rows' = rows + 1 /\ sink' = "down" /\ size' = 0 /\ misses' = misses
        /\ len \in Nat /\ len > 0
    BY Limits DEF Killed, Down
  <1>2. CASE UNCHANGED <<live, old>>
    BY <1>1, <1>2 DEF DiskInv, Files, Counted, DiskBounded, Missed, Bytes
  <1>3. ASSUME NEW got \in 0..(len - 1),
               IF Fits(len)
                 THEN live' = Grow(live, rows + 1, len, got) /\ UNCHANGED old
                 ELSE live' = Grow(<<>>, rows + 1, len, got) /\ old' = live
        PROVE  DiskInv'
    <2>1. got \in 0..len
      BY <1>1
    <2>2. QED
      BY <1>1, <1>3, <2>1, FitsStep, RotateStep
  <1>4. QED
    BY <1>2, <1>3 DEF Killed

LEMMA DiskStep == DiskInv /\ [Next]_vars => DiskInv'
  <1> SUFFICES ASSUME DiskInv, [Next]_vars PROVE DiskInv'
    OBVIOUS
  <1>1. CASE UNCHANGED vars
    BY <1>1 DEF vars, DiskInv, Files, Counted, DiskBounded, Missed, Bytes
  <1>2. QED
    BY <1>1, StartStep, StopStep, RecordStep, KilledStep DEF Next

\* Neither file outgrows maxBytes by more than a maxBytes for each rename that failed
\* (Record's rotation before the write, and the size New reads).
THEOREM Bounded == Spec => []DiskBounded
  <1>1. Spec => []DiskInv
    BY DiskInit, DiskStep, PTL DEF Spec
  <1>2. DiskInv => DiskBounded
    BY DEF DiskInv
  <1>3. QED
    BY <1>1, <1>2, PTL
=============================================================================
