----------------------------- MODULE KillProofs -----------------------------
(***************************************************************************)
(* What a kill costs the history files: for every row size, limit, number  *)
(* of rows, restarts and kills, at most two rows each.                     *)
(*                                                                         *)
(* A kill does its damage in two steps.  The row in hand is cut now; the   *)
(* next row, whenever it is written, is glued to what the cut left, and a  *)
(* row that lacked only its newline becomes unreadable with it.  Due says  *)
(* what a torn file has still to lose, and Paid that what is missing and   *)
(* what is due never exceed two rows for each kill.                        *)
(***************************************************************************)
EXTENDS HistoryProofs, FiniteSetTheorems

\* f does not end with a newline.
Torn(f) == f # <<>> /\ f[Len(f)].got # f[Len(f)].len

\* The row that can be read only until another is written behind it.
Fragile(f) == IF Torn(f) /\ Legible(f, Len(f)) THEN {f[Len(f)].row} ELSE {}

Due(f) == IF ~Torn(f) THEN 0 ELSE IF Legible(f, Len(f)) THEN 2 ELSE 1

InOrder(f) == \A i, j \in DOMAIN f : i < j => f[i].row < f[j].row
UpTo(f, n) == \A i \in DOMAIN f : f[i].row \in 1..n

Lines ==
  /\ InOrder(live) /\ UpTo(live, rows)
  /\ InOrder(old) /\ UpTo(old, rows)
  /\ \A i \in DOMAIN old, j \in DOMAIN live : old[i].row < live[j].row

Missing == (FirstOnDisk..rows) \ OnDisk

Paid == Cardinality(Missing) + Due(live) <= 2 * kills

\* As long as the disk has not failed, the writer knows its file.
Healthy == sink \in {"down", "file"} /\ (sink = "file" => size = Bytes(live))

KillInv == kills \in Nat /\ (~faulty => Lines /\ Healthy /\ Paid)

-----------------------------------------------------------------------------
(* Counting.                                                               *)

LEMMA OneMore ==
  ASSUME NEW S, IsFiniteSet(S), NEW x, NEW T \in SUBSET (S \cup {x})
  PROVE  IsFiniteSet(T) /\ Cardinality(T) \in Nat /\ Cardinality(T) <= Cardinality(S) + 1
  <1>1. /\ IsFiniteSet(S \cup {x})
        /\ Cardinality(S \cup {x}) = IF x \in S THEN Cardinality(S) ELSE Cardinality(S) + 1
    BY FS_AddElement
  <1>2. IsFiniteSet(T) /\ Cardinality(T) <= Cardinality(S \cup {x})
    BY <1>1, FS_Subset
  <1>3. Cardinality(S) \in Nat /\ Cardinality(T) \in Nat
    BY <1>2, FS_CardinalityType
  <1>4. QED
    BY <1>1, <1>2, <1>3

LEMMA NoMore ==
  ASSUME NEW S, IsFiniteSet(S), NEW T \in SUBSET S
  PROVE  IsFiniteSet(T) /\ Cardinality(T) \in Nat /\ Cardinality(T) <= Cardinality(S)
  BY FS_Subset, FS_CardinalityType

\* Rows on disk are those the files can show, and what is missing can be counted.
LEMMA MissingCounted ==
  ASSUME Files, Lines
  PROVE  /\ OnDisk = RowsOf(live) \cup RowsOf(old)
         /\ FirstOnDisk \in Nat
         /\ IsFiniteSet(Missing)
         /\ Cardinality(Missing) \in Nat
  <1>1. OnDisk = RowsOf(live) \cup RowsOf(old)
    BY DEF OnDisk, RowsOf, Legible
  <1>2. FirstOnDisk \in Nat
    <2>1. \A f \in {live, old} : f # <<>> => 1 \in DOMAIN f
      BY LenProperties, EmptySeq DEF Files
    <2>2. QED
      BY <2>1 DEF FirstOnDisk, Files, Lines, UpTo
  <1>3. IsFiniteSet(FirstOnDisk..rows)
    BY <1>2, FS_Interval DEF Files
  <1>4. IsFiniteSet(Missing)
    BY <1>3, FS_Subset DEF Missing
  <1>5. QED
    BY <1>1, <1>2, <1>4, FS_CardinalityType

-----------------------------------------------------------------------------
(* One more write.                                                         *)

\* What g is to f once the row n + 1 was written to it as w.
Grown(f, g, n, w) ==
  /\ InOrder(g) /\ UpTo(g, n + 1)
  /\ g # <<>>
  /\ g[1].row = IF f = <<>> THEN n + 1 ELSE f[1].row
  /\ \A j \in DOMAIN g : j \in DOMAIN f \/ g[j].row = n + 1
  /\ \A j \in DOMAIN f : j \in DOMAIN g /\ g[j] = f[j]
  /\ RowsOf(f) \ Fragile(f) \subseteq RowsOf(g)
  /\ ~Torn(f) /\ w.got \in {w.len, w.len - 1} => n + 1 \in RowsOf(g)
  /\ w.got = w.len => Due(g) = 0
  /\ w.got # w.len => Due(g) = IF ~Torn(f) /\ w.got = w.len - 1 THEN 2 ELSE 1

LEMMA Written ==
  ASSUME NEW f \in Seq(Write), NEW n \in Nat, InOrder(f), UpTo(f, n),
         NEW w \in Write, w.row = n + 1, NEW g, g = Append(f, w)
  PROVE  Grown(f, g, n, w)
  <1> DEFINE m == Len(f)
  <1>1. /\ m \in Nat /\ DOMAIN f = 1..m
        /\ Len(g) = m + 1 /\ DOMAIN g = 1..(m + 1)
        /\ g[m + 1] = w
        /\ \A i \in 1..m : g[i] = f[i]
        /\ f = <<>> <=> m = 0
        /\ g # <<>>
    <2>1. g \in Seq(Write) /\ Len(g) = m + 1 /\ g[m + 1] = w /\ \A i \in 1..m : g[i] = f[i]
      BY AppendProperties
    <2>2. m \in Nat /\ DOMAIN f = 1..m /\ DOMAIN g = 1..Len(g)
      BY <2>1, LenProperties
    <2>3. f = <<>> <=> m = 0
      BY EmptySeq
    <2>4. g # <<>>
      BY <2>1, <2>2, EmptySeq
    <2>5. QED
      BY <2>1, <2>2, <2>3, <2>4
  <1> HIDE DEF m
  <1>2. \A i \in 1..m : f[i] \in Write /\ f[i].row \in 1..n
    BY <1>1, ElementOfSeq DEF UpTo
  <1>3. InOrder(g) /\ UpTo(g, n + 1)
    <2>1. UpTo(g, n + 1)
      BY <1>1, <1>2 DEF UpTo
    <2>2. ASSUME NEW i \in 1..(m + 1), NEW j \in 1..(m + 1), i < j
          PROVE  g[i].row < g[j].row
      <3>1. i \in 1..m /\ f[i].row \in Nat /\ f[i].row <= n
        BY <1>1, <1>2, <2>2
      <3>2. CASE j = m + 1
        BY <1>1, <3>1, <3>2
      <3>3. CASE j # m + 1
        BY <1>1, <2>2, <3>1, <3>3 DEF InOrder
      <3>4. QED
        BY <3>2, <3>3
    <2>3. QED
      BY <1>1, <2>1, <2>2 DEF InOrder
  <1>4. g[1].row = IF f = <<>> THEN n + 1 ELSE f[1].row
    BY <1>1
  <1>5. \A j \in DOMAIN g : j \in DOMAIN f \/ g[j].row = n + 1
    BY <1>1
  <1>6. RowsOf(f) \ Fragile(f) \subseteq RowsOf(g)
    <2> SUFFICES ASSUME NEW i \in 1..m, Legible(f, i), f[i].row \notin Fragile(f)
                 PROVE  f[i].row \in RowsOf(g)
      BY <1>1 DEF RowsOf
    <2>1. f[i].got = f[i].len
      <3>1. CASE i = m
        BY <1>1, <3>1 DEF Fragile, Torn, m
      <3>2. CASE i # m
        BY <3>2 DEF Legible, m
      <3>3. QED
        BY <3>1, <3>2
    <2>2. i = 1 \/ (i - 1 \in 1..m /\ f[i - 1].got = f[i - 1].len)
      BY <1>1 DEF Legible
    <2>3. Legible(g, i)
      BY <1>1, <2>1, <2>2 DEF Legible
    <2>4. i \in DOMAIN g /\ g[i].row = f[i].row
      BY <1>1
    <2>5. QED
      BY <2>3, <2>4 DEF RowsOf
  <1>7. Torn(f) <=> m # 0 /\ f[m].got # f[m].len
    BY <1>1 DEF Torn, m
  <1>8. Legible(g, m + 1) <=> ~Torn(f) /\ w.got \in {w.len, w.len - 1}
    <2>1. Legible(g, m + 1) <=> /\ m + 1 = 1 \/ g[m].got = g[m].len
                                /\ w.got = w.len \/ w.got = w.len - 1
      BY <1>1 DEF Legible
    <2>2. CASE m = 0
      BY <1>7, <2>1, <2>2
    <2>3. CASE m # 0
      BY <1>1, <1>7, <2>1, <2>3
    <2>4. QED
      BY <2>2, <2>3
  <1>9. ~Torn(f) /\ w.got \in {w.len, w.len - 1} => n + 1 \in RowsOf(g)
    BY <1>1, <1>8 DEF RowsOf
  <1>10. Torn(g) <=> w.got # w.len
    BY <1>1 DEF Torn
  <1>11. /\ w.got = w.len => Due(g) = 0
         /\ w.got # w.len => Due(g) = IF ~Torn(f) /\ w.got = w.len - 1 THEN 2 ELSE 1
    BY <1>1, <1>8, <1>10 DEF Due
  <1>12. QED
    BY <1>1, <1>3, <1>4, <1>5, <1>6, <1>9, <1>11 DEF Grown

\* What Grow appends, unless the write got nowhere.
LEMMA GrowWrites ==
  ASSUME NEW f \in Seq(Write), NEW row \in Nat, NEW len \in LineSizes, NEW got \in 0..len
  PROVE  \/ got = 0 /\ Grow(f, row, len, got) = f
         \/ /\ got # 0
            /\ \E w \in Write : /\ w.row = row /\ w.len = len /\ w.got = got
                                /\ Grow(f, row, len, got) = Append(f, w)
  <1>1. Bytes(f) \in Nat /\ got \in Nat
    BY BytesNat, Limits
  <1> DEFINE w == [row |-> row, at |-> Bytes(f), len |-> len, got |-> got]
  <1>2. w \in Write /\ w.row = row /\ w.len = len /\ w.got = got
    BY <1>1 DEF Write
  <1>3. Grow(f, row, len, got) = IF got = 0 THEN f ELSE Append(f, w)
    BY DEF Grow
  <1> HIDE DEF w
  <1>4. QED
    BY <1>2, <1>3

\* A file that nothing was written to.
LEMMA NoLines == ASSUME NEW n \in Nat
                 PROVE InOrder(<<>>) /\ UpTo(<<>>, n) /\ ~Torn(<<>>) /\ Due(<<>>) = 0
  BY EmptySeq DEF InOrder, UpTo, Torn, Due

-----------------------------------------------------------------------------
(* The cost of a row, whole or cut.                                        *)

Cost(len, got) == IF got = len THEN 0 ELSE 2

\* A row that goes into the live file.
LEMMA RowFits ==
  ASSUME Files, Lines, NEW len \in LineSizes, NEW got \in 0..len,
         live' = Grow(live, rows + 1, len, got), old' = old, rows' = rows + 1
  PROVE  /\ Lines' /\ Cardinality(Missing)' \in Nat /\ Due(live)' \in Nat
         /\ Cardinality(Missing)' + Due(live)' <= Cardinality(Missing) + Due(live) + Cost(len, got)
  <1>1. /\ live \in Seq(Write) /\ old \in Seq(Write) /\ rows \in Nat /\ rows + 1 \in Nat
        /\ len \in Nat /\ len > 0 /\ got \in Nat
    BY Limits DEF Files
  <1>2. /\ OnDisk = RowsOf(live) \cup RowsOf(old) /\ FirstOnDisk \in Nat
        /\ IsFiniteSet(Missing) /\ Cardinality(Missing) \in Nat
    BY MissingCounted
  <1>3. Due(live) \in Nat
    BY DEF Due
  <1>4. OnDisk' = RowsOf(live') \cup RowsOf(old)
    BY DEF OnDisk, RowsOf, Legible
  <1>5. UpTo(old, rows + 1) /\ UpTo(live, rows + 1)
    BY <1>1 DEF Lines, UpTo
  <1>6. CASE got = 0
    <2>1. live' = live
      BY <1>1, <1>6, GrowWrites
    <2>2. Lines'
      BY <1>5, <2>1 DEF Lines
    <2>3. Missing' \subseteq Missing \cup {rows + 1}
      BY <1>1, <1>2, <1>4, <2>1 DEF Missing, FirstOnDisk
    <2>4. Cardinality(Missing') \in Nat /\ Cardinality(Missing') <= Cardinality(Missing) + 1
      BY <1>2, <2>3, OneMore
    <2>5. QED
      BY <1>1, <1>2, <1>3, <1>6, <2>1, <2>2, <2>4 DEF Cost
  <1>7. CASE got # 0
    <2>1. PICK w \in Write : /\ w.row = rows + 1 /\ w.len = len /\ w.got = got
                             /\ live' = Append(live, w)
      BY <1>1, <1>7, GrowWrites
    <2> DEFINE g == Append(live, w)
    <2>0. g = Append(live, w) /\ live' = g
      BY <2>1
    <2> HIDE DEF g
    <2>2. /\ InOrder(g) /\ UpTo(g, rows + 1)
          /\ g # <<>>
          /\ g[1].row = IF live = <<>> THEN rows + 1 ELSE live[1].row
          /\ \A j \in DOMAIN g : j \in DOMAIN live \/ g[j].row = rows + 1
          /\ \A j \in DOMAIN live : j \in DOMAIN g /\ g[j] = live[j]
          /\ RowsOf(live) \ Fragile(live) \subseteq RowsOf(g)
          /\ ~Torn(live) /\ got \in {len, len - 1} => rows + 1 \in RowsOf(g)
          /\ got = len => Due(g) = 0
          /\ got # len => Due(g) = IF ~Torn(live) /\ got = len - 1 THEN 2 ELSE 1
      <3>1. InOrder(live) /\ UpTo(live, rows)
        BY DEF Lines
      <3>2. Grown(live, g, rows, w)
        BY <1>1, <2>0, <2>1, <3>1, Written
      <3>3. QED
        BY <2>1, <3>2 DEF Grown
    <2>3. live' = g
      BY <2>0
    <2>4. Lines'
      <3>1. \A i \in DOMAIN old, j \in DOMAIN g : old[i].row < g[j].row
        BY <1>1, <2>2 DEF Lines, UpTo
      <3>2. QED
        BY <1>5, <2>2, <2>3, <3>1 DEF Lines
    <2>5. FirstOnDisk' = FirstOnDisk
      BY <2>2, <2>3 DEF FirstOnDisk
    <2>6. Missing' \subseteq Missing \cup Fragile(live) \cup ({rows + 1} \ RowsOf(g))
      BY <1>1, <1>2, <1>4, <2>2, <2>3, <2>5 DEF Missing
    <2>7. CASE ~Torn(live) /\ got \in {len, len - 1}
      <3>1. Missing' \subseteq Missing
        BY <2>2, <2>6, <2>7 DEF Fragile
      <3>2. Cardinality(Missing') \in Nat /\ Cardinality(Missing') <= Cardinality(Missing)
        BY <1>2, <3>1, NoMore
      <3>3. Due(g) <= Cost(len, got) /\ Due(g) \in Nat
        BY <1>1, <2>2, <2>7 DEF Cost
      <3>4. QED
        BY <1>1, <1>2, <1>3, <2>3, <2>4, <3>2, <3>3 DEF Cost
    <2>8. CASE ~Torn(live) /\ got \notin {len, len - 1}
      <3>1. Missing' \subseteq Missing \cup {rows + 1}
        BY <2>6, <2>8 DEF Fragile
      <3>2. Cardinality(Missing') \in Nat /\ Cardinality(Missing') <= Cardinality(Missing) + 1
        BY <1>2, <3>1, OneMore
      <3>3. QED
        BY <1>1, <1>2, <1>3, <2>2, <2>3, <2>4, <2>8, <3>2 DEF Cost
    <2>9. CASE Torn(live) /\ Legible(live, Len(live))
      <3>1. Fragile(live) = {live[Len(live)].row} /\ Due(live) = 2
        BY <2>9 DEF Fragile, Due
      <3>2. IsFiniteSet(Missing \cup Fragile(live))
            /\ Cardinality(Missing \cup Fragile(live)) \in Nat
            /\ Cardinality(Missing \cup Fragile(live)) <= Cardinality(Missing) + 1
        BY <1>2, <3>1, OneMore
      <3>3. Missing' \subseteq (Missing \cup Fragile(live)) \cup {rows + 1}
        BY <2>6
      <3>4. Cardinality(Missing') \in Nat
            /\ Cardinality(Missing') <= Cardinality(Missing \cup Fragile(live)) + 1
        BY <3>2, <3>3, OneMore
      <3>5. QED
        BY <1>1, <1>2, <2>2, <2>3, <2>4, <2>9, <3>1, <3>2, <3>4 DEF Cost
    <2>10. CASE Torn(live) /\ ~Legible(live, Len(live))
      <3>1. Fragile(live) = {} /\ Due(live) = 1
        BY <2>10 DEF Fragile, Due
      <3>2. Missing' \subseteq Missing \cup {rows + 1}
        BY <2>6, <3>1
      <3>3. Cardinality(Missing') \in Nat /\ Cardinality(Missing') <= Cardinality(Missing) + 1
        BY <1>2, <3>2, OneMore
      <3>4. QED
        BY <1>1, <1>2, <2>2, <2>3, <2>4, <2>10, <3>1, <3>3 DEF Cost
    <2>11. QED
      BY <2>7, <2>8, <2>9, <2>10
  <1>8. QED
    BY <1>6, <1>7

\* A row for which the files rotate: what the older generation held is forgotten,
\* and what was due on the live file will never be written.
LEMMA RowRotates ==
  ASSUME Files, Lines, live # <<>>, NEW len \in LineSizes, NEW got \in 0..len,
         live' = Grow(<<>>, rows + 1, len, got), old' = live, rows' = rows + 1
  PROVE  /\ Lines' /\ Cardinality(Missing)' \in Nat /\ Due(live)' \in Nat
         /\ Cardinality(Missing)' + Due(live)' <= Cardinality(Missing) + Cost(len, got)
  <1>1. /\ live \in Seq(Write) /\ rows \in Nat /\ rows + 1 \in Nat /\ <<>> \in Seq(Write)
        /\ len \in Nat /\ len > 0 /\ got \in Nat
    BY Limits, EmptySeq DEF Files
  <1>2. /\ OnDisk = RowsOf(live) \cup RowsOf(old) /\ FirstOnDisk \in Nat
        /\ IsFiniteSet(Missing) /\ Cardinality(Missing) \in Nat
    BY MissingCounted
  <1>3. OnDisk' = RowsOf(live') \cup RowsOf(live)
    BY DEF OnDisk, RowsOf, Legible
  <1>4. UpTo(live, rows + 1)
    BY <1>1 DEF Lines, UpTo
  <1>5. 1 \in DOMAIN live /\ live[1].row \in Nat
    BY <1>1, LenProperties, EmptySeq DEF Lines, UpTo
  <1>6. FirstOnDisk' = live[1].row /\ FirstOnDisk <= live[1].row
    <2>1. old # <<>> => 1 \in DOMAIN old /\ old[1].row \in Nat
      BY LenProperties, EmptySeq DEF Files, Lines, UpTo
    <2>2. QED
      BY <1>5, <2>1 DEF FirstOnDisk, Lines
  <1>7. \A r \in RowsOf(old) : r \in Nat /\ r < live[1].row
    BY <1>5 DEF RowsOf, Lines, UpTo
  <1>8. Missing' \subseteq Missing \cup ({rows + 1} \ RowsOf(live'))
    BY <1>1, <1>2, <1>3, <1>5, <1>6, <1>7 DEF Missing
  <1>9. InOrder(<<>>) /\ UpTo(<<>>, rows) /\ UpTo(<<>>, rows + 1) /\ ~Torn(<<>>) /\ Due(<<>>) = 0
        /\ DOMAIN <<>> = {}
    BY <1>1, NoLines, EmptySeq
  <1>10. CASE got = 0
    <2>1. live' = <<>>
      BY <1>1, <1>10, GrowWrites
    <2>2. Lines'
      BY <1>4, <1>9, <2>1 DEF Lines
    <2>3. Missing' \subseteq Missing \cup {rows + 1}
      BY <1>8
    <2>4. Cardinality(Missing') \in Nat /\ Cardinality(Missing') <= Cardinality(Missing) + 1
      BY <1>2, <2>3, OneMore
    <2>5. QED
      BY <1>1, <1>2, <1>9, <1>10, <2>1, <2>2, <2>4 DEF Cost
  <1>11. CASE got # 0
    <2>1. PICK w \in Write : /\ w.row = rows + 1 /\ w.len = len /\ w.got = got
                             /\ live' = Append(<<>>, w)
      <3> DEFINE none == <<>>
      <3>1. none \in Seq(Write) /\ live' = Grow(none, rows + 1, len, got)
        BY <1>1
      <3> HIDE DEF none
      <3>2. \E w \in Write : /\ w.row = rows + 1 /\ w.len = len /\ w.got = got
                             /\ live' = Append(none, w)
        BY <1>1, <1>11, <3>1, GrowWrites
      <3>3. QED
        BY <3>2 DEF none
    <2> DEFINE none == <<>>
               g == Append(none, w)
    <2>0. /\ g = Append(none, w) /\ live' = g
          /\ none \in Seq(Write) /\ InOrder(none) /\ UpTo(none, rows) /\ ~Torn(none)
          /\ DOMAIN none = {}
      BY <1>1, <1>9, <2>1
    <2> HIDE DEF none, g
    <2>2. /\ InOrder(g) /\ UpTo(g, rows + 1)
          /\ \A j \in DOMAIN g : g[j].row = rows + 1
          /\ got \in {len, len - 1} => rows + 1 \in RowsOf(g)
          /\ got = len => Due(g) = 0
          /\ got # len => Due(g) = IF got = len - 1 THEN 2 ELSE 1
      <3>1. Grown(none, g, rows, w)
        BY <1>1, <2>0, <2>1, Written
      <3>2. QED
        BY <2>0, <2>1, <3>1 DEF Grown
    <2>3. live' = g
      BY <2>0
    <2>4. Lines'
      <3>1. \A i \in DOMAIN live, j \in DOMAIN g : live[i].row < g[j].row
        BY <1>1, <2>2 DEF Lines, UpTo
      <3>2. QED
        BY <1>4, <2>2, <2>3, <3>1 DEF Lines
    <2>5. CASE got \in {len, len - 1}
      <3>1. Missing' \subseteq Missing
        BY <1>8, <2>2, <2>3, <2>5
      <3>2. Cardinality(Missing') \in Nat /\ Cardinality(Missing') <= Cardinality(Missing)
        BY <1>2, <3>1, NoMore
      <3>3. QED
        BY <1>1, <1>2, <2>2, <2>3, <2>4, <2>5, <3>2 DEF Cost
    <2>6. CASE got \notin {len, len - 1}
      <3>1. Missing' \subseteq Missing \cup {rows + 1}
        BY <1>8
      <3>2. Cardinality(Missing') \in Nat /\ Cardinality(Missing') <= Cardinality(Missing) + 1
        BY <1>2, <3>1, OneMore
      <3>3. QED
        BY <1>1, <1>2, <2>2, <2>3, <2>4, <2>6, <3>2 DEF Cost
    <2>7. QED
      BY <2>5, <2>6
  <1>12. QED
    BY <1>10, <1>11

-----------------------------------------------------------------------------
(* The invariant.                                                          *)

\* A file the counted size fills is not empty: no row alone outgrows a file.
LEMMA RotatesSomething ==
  ASSUME Files, Healthy, sink = "file", NEW len \in LineSizes, ~Fits(len)
  PROVE  live # <<>>
  <1>1. size = Bytes(live) /\ len \in Nat /\ len <= MaxBytes /\ MaxBytes \in Nat
    BY Limits DEF Healthy
  <1>2. Bytes(<<>>) = 0
    BY EmptyFile
  <1>3. QED
    BY <1>1, <1>2 DEF Fits

\* What does not touch the files leaves what is missing as it is.
LEMMA SameFiles ==
  ASSUME KillInv, Healthy', UNCHANGED <<live, old, rows, kills>>, faulty' = faulty
  PROVE  KillInv'
  BY DEF KillInv, Lines, Paid, Missing, FirstOnDisk, OnDisk, Due, Torn, Legible, InOrder, UpTo

LEMMA KillInit == Init => KillInv
  <1> SUFFICES ASSUME Init PROVE KillInv
    OBVIOUS
  <1>1. /\ live = <<>> /\ old = <<>> /\ rows = 0 /\ kills = 0 /\ sink = "down"
        /\ DOMAIN <<>> = {} /\ <<>> \in Seq(Write)
    BY EmptySeq DEF Init
  <1>2. Lines
    BY <1>1, NoLines DEF Lines
  <1>3. Missing = {}
    BY <1>1 DEF Missing, FirstOnDisk
  <1>4. Cardinality(Missing) = 0
    BY <1>3, FS_EmptySet
  <1>5. Due(live) = 0
    BY <1>1, NoLines
  <1>6. QED
    BY <1>1, <1>2, <1>4, <1>5 DEF KillInv, Healthy, Paid

LEMMA KillRecord ==
  ASSUME DiskInv, KillInv, NEW len \in LineSizes, Record(len), ~faulty'
  PROVE  KillInv'
  <1>1. /\ ~faulty /\ rows' = rows + 1 /\ kills' = kills
        /\ Files /\ Lines /\ Healthy /\ Paid /\ kills \in Nat
    BY DEF Record, ghosts, KillInv, DiskInv
  <1>2. PICK fault \in Fault : /\ faulty' = (faulty \/ fault)
                              /\ \/ RecordFits(len, fault)
                                 \/ RecordRotates(len, fault)
                                 \/ sink # "file" /\ ~fault
    BY DEF Record
  <1>3. fault = FALSE
    BY <1>2 DEF Fault
  <1>4. sink = "file"
    BY <1>1 DEF Record, Healthy
  <1>5. /\ len \in 0..len /\ len \in Nat /\ Cost(len, len) = 0
        /\ Cardinality(Missing) \in Nat /\ Due(live) \in Nat
    BY <1>1, Limits, MissingCounted DEF Cost, Due
  <1>6. CASE RecordFits(len, fault)
    <2>1. /\ live' = Grow(live, rows + 1, len, len) /\ old' = old
          /\ size' = size + len /\ sink' = sink
      BY <1>3, <1>6 DEF RecordFits, WriteLine
    <2>2. /\ Lines' /\ Cardinality(Missing)' \in Nat /\ Due(live)' \in Nat
          /\ Cardinality(Missing)' + Due(live)' <= Cardinality(Missing) + Due(live) + 0
      BY <1>1, <1>5, <2>1, RowFits
    <2>3. Bytes(live)' = Bytes(live) + len
      BY <1>1, <1>5, <2>1, GrowBytes DEF Files
    <2>4. Healthy'
      BY <1>1, <1>4, <2>1, <2>3 DEF Healthy
    <2>5. Paid'
      BY <1>1, <1>5, <2>2 DEF Paid
    <2>6. QED
      BY <1>1, <2>2, <2>4, <2>5 DEF KillInv
  <1>7. CASE RecordRotates(len, fault)
    <2>1. /\ live' = Grow(<<>>, rows + 1, len, len) /\ old' = live
          /\ size' = 0 + len /\ sink' = sink /\ ~Fits(len)
      BY <1>3, <1>7 DEF RecordRotates, WriteLine
    <2>2. live # <<>>
      BY <1>1, <1>4, <2>1, RotatesSomething
    <2>3. /\ Lines' /\ Cardinality(Missing)' \in Nat /\ Due(live)' \in Nat
          /\ Cardinality(Missing)' + Due(live)' <= Cardinality(Missing) + 0
      BY <1>1, <1>5, <2>1, <2>2, RowRotates
    <2>4. Bytes(live)' = 0 + len
      <3> DEFINE none == <<>>
      <3>1. none \in Seq(Write) /\ Bytes(none) = 0 /\ live' = Grow(none, rows + 1, len, len)
        BY <2>1, EmptyFile
      <3> HIDE DEF none
      <3>2. Bytes(Grow(none, rows + 1, len, len)) = Bytes(none) + len
        BY <1>1, <1>5, <3>1, GrowBytes DEF Files
      <3>3. QED
        BY <3>1, <3>2
    <2>5. Healthy'
      BY <1>1, <1>4, <2>1, <2>4 DEF Healthy
    <2>6. Paid'
      BY <1>1, <1>5, <2>3 DEF Paid
    <2>7. QED
      BY <1>1, <2>3, <2>5, <2>6 DEF KillInv
  <1>8. QED
    BY <1>2, <1>4, <1>6, <1>7

LEMMA KillKilled ==
  ASSUME DiskInv, KillInv, NEW len \in LineSizes, Killed(len), ~faulty'
  PROVE  KillInv'
  <1>1. /\ ~faulty /\ rows' = rows + 1 /\ kills' = kills + 1 /\ sink = "file" /\ sink' = "down"
        /\ Files /\ Lines /\ Healthy /\ Paid /\ kills \in Nat /\ len \in Nat
    BY Limits DEF Killed, Down, KillInv, DiskInv
  <1>2. PICK got \in 0..(len - 1) :
          \/ live' = Grow(live, rows + 1, len, got) /\ old' = old
          \/ ~Fits(len) /\ live' = Grow(<<>>, rows + 1, len, got) /\ old' = live
    <2>1. 0 \in 0..(len - 1) /\ Grow(live, rows + 1, len, 0) = live
      BY <1>1, Limits DEF Grow
    <2>2. QED
      BY <2>1 DEF Killed
  <1>3. /\ got \in 0..len /\ Cost(len, got) = 2
        /\ Cardinality(Missing) \in Nat /\ Due(live) \in Nat
    BY <1>1, MissingCounted DEF Cost, Due
  <1>4. /\ Lines' /\ Cardinality(Missing)' \in Nat /\ Due(live)' \in Nat
        /\ Cardinality(Missing)' + Due(live)' <= Cardinality(Missing) + Due(live) + 2
    <2>1. CASE live' = Grow(live, rows + 1, len, got) /\ old' = old
      BY <1>1, <1>3, <2>1, RowFits
    <2>2. CASE ~Fits(len) /\ live' = Grow(<<>>, rows + 1, len, got) /\ old' = live
      <3>1. live # <<>>
        BY <1>1, <2>2, RotatesSomething
      <3>2. /\ Lines' /\ Cardinality(Missing)' \in Nat /\ Due(live)' \in Nat
            /\ Cardinality(Missing)' + Due(live)' <= Cardinality(Missing) + 2
        BY <1>1, <1>3, <2>2, <3>1, RowRotates
      <3>3. QED
        BY <1>3, <3>2
    <2>3. QED
      BY <1>2, <2>1, <2>2
  <1>5. Healthy'
    BY <1>1 DEF Healthy
  <1>6. Paid'
    BY <1>1, <1>3, <1>4 DEF Paid
  <1>7. QED
    BY <1>1, <1>4, <1>5, <1>6 DEF KillInv

\* New reads the size of the file it opens.
LEMMA KillStart == KillInv /\ Start => KillInv'
  <1> SUFFICES ASSUME KillInv, Start PROVE KillInv'
    OBVIOUS
  <1>1. /\ live' = live /\ old' = old /\ rows' = rows /\ kills' = kills /\ kills \in Nat
        /\ faulty' \/ (faulty' = faulty /\ sink' = "file" /\ size' = Bytes(live))
    BY DEF Start, Opened, StatSize, KillInv
  <1>2. CASE faulty'
    BY <1>1, <1>2 DEF KillInv
  <1>3. CASE ~faulty'
    <2>1. faulty' = faulty /\ Healthy'
      BY <1>1, <1>3 DEF Healthy
    <2>2. QED
      BY <1>1, <2>1, SameFiles
  <1>4. QED
    BY <1>2, <1>3

LEMMA KillStop == KillInv /\ Stop => KillInv'
  <1> SUFFICES ASSUME KillInv, Stop PROVE KillInv'
    OBVIOUS
  <1>1. UNCHANGED <<live, old, rows, kills>> /\ faulty' = faulty /\ sink' = "down"
    BY DEF Stop, Down
  <1>2. QED
    BY <1>1, SameFiles DEF Healthy

LEMMA KillStep == DiskInv /\ KillInv /\ [Next]_vars => KillInv'
  <1> SUFFICES ASSUME DiskInv, KillInv, [Next]_vars PROVE KillInv'
    OBVIOUS
  <1>1. CASE UNCHANGED vars
    <2>1. UNCHANGED <<live, old, rows, kills>> /\ faulty' = faulty /\ sink' = sink /\ size' = size
      BY <1>1 DEF vars, ghosts
    <2>2. CASE faulty
      BY <2>1, <2>2 DEF KillInv
    <2>3. CASE ~faulty
      <3>1. Healthy'
        BY <2>1, <2>3 DEF KillInv, Healthy
      <3>2. QED
        BY <2>1, <3>1, SameFiles
    <2>4. QED
      BY <2>2, <2>3
  <1>2. ASSUME NEW len \in LineSizes, Record(len) \/ Killed(len)
        PROVE  KillInv'
    <2>1. CASE ~faulty'
      BY <1>2, <2>1, KillRecord, KillKilled
    <2>2. CASE faulty'
      <3>1. kills' \in Nat
        BY <1>2 DEF Record, Killed, ghosts, KillInv
      <3>2. QED
        BY <2>2, <3>1 DEF KillInv
    <2>3. QED
      BY <2>1, <2>2
  <1>3. QED
    BY <1>1, <1>2, KillStart, KillStop DEF Next

\* However the kills and the restarts fall, each kill loses at most the row in hand
\* and the next, as long as the disk does its part (Record, which writes a row and its
\* newline at once, after the file that New opens to append).
THEOREM KillsCostTwo == Spec => []KillCostsTwoRows
  <1>1. Spec => []DiskInv
    BY DiskInit, DiskStep, PTL DEF Spec
  <1>2. Spec => []KillInv
    BY <1>1, KillInit, KillStep, PTL DEF Spec
  <1>3. DiskInv /\ KillInv => KillCostsTwoRows
    <2> SUFFICES ASSUME DiskInv, KillInv, ~faulty
                 PROVE  Cardinality(Missing) <= 2 * kills
      BY DEF KillCostsTwoRows, Missing
    <2>1. Files /\ Lines /\ Paid /\ kills \in Nat
      BY DEF DiskInv, KillInv
    <2>2. Cardinality(Missing) \in Nat /\ Due(live) \in Nat
      BY <2>1, MissingCounted DEF Due
    <2>3. QED
      BY <2>1, <2>2 DEF Paid
  <1>4. QED
    BY <1>1, <1>2, <1>3, PTL
=============================================================================
