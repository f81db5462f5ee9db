----------------------------- MODULE RingProofs -----------------------------
(***************************************************************************)
(* What the console reads: every file stays a run of back-to-back writes,  *)
(* the ring restored from one and then pushed to is always the newest rows *)
(* in order, and a button of a page finds its row through the gate.        *)
(*                                                                         *)
(* ConsoleShowsNewest is inductive once the ring a process starts from is  *)
(* known to be no longer than a ring (Kept); that every row tail returns   *)
(* is a row of the file is RankFromEnd, by the least place where a count   *)
(* falls below a number.  ConsoleSkipsNothing needs besides that the rows  *)
(* ascend through both files (InLine, in the last section).                *)
(***************************************************************************)
EXTENDS ConsoleGate, KillProofs, WellFoundedInduction, NaturalsInduction

\* A file of rows up to n: what TypeOK says of it and that it names recorded rows.
FileUpTo(f, n) ==
  /\ f \in Seq(Write)
  /\ \A i \in DOMAIN f :
       /\ f[i] \in Write
       /\ f[i].got \in 1..f[i].len
       /\ f[i].at = IF i = 1 THEN 0 ELSE f[i - 1].at + f[i - 1].got
       /\ f[i].row \in 1..n

Kept ==
  /\ FileUpTo(live, rows) /\ FileUpTo(old, rows)
  /\ rows \in 0..MaxRows /\ base \in 0..rows
  /\ Len(restored) <= RingSize

RingInv == TypeOK /\ Kept /\ ConsoleShowsNewest

-----------------------------------------------------------------------------
(* The window.                                                             *)

\* A non-empty set of numbers has a least one.
LEMMA LeastNumber ==
  ASSUME NEW T \in SUBSET Nat, T # {}
  PROVE  \E m \in T : \A k \in T : m <= k
  <1> DEFINE R == {ss \in Nat \X Nat : ss[1] < ss[2]}
  <1>1. IsWellFoundedOn(R, Nat)
    BY NatLessThanWellFounded DEF OpToRel
  <1> HIDE DEF R
  <1>2. PICK m \in T : \A k \in T : ~ <<k, m>> \in R
    BY <1>1, WFMin
  <1>3. ASSUME NEW k \in T PROVE m <= k
    <2>1. k < m => <<k, m>> \in R
      BY DEF R
    <2>2. QED
      BY <1>2, <2>1
  <1>4. QED
    BY <1>3

\* Among places 1..n some, S: for every k up to their number one has k of S from it on.
LEMMA RankFromEnd ==
  ASSUME NEW n \in Nat, NEW S \in SUBSET (1..n), NEW k \in 1..Cardinality(S)
  PROVE  \E i \in S : Cardinality({j \in S : j >= i}) = k
  <1> DEFINE above == [i \in 1..(n + 1) |-> {j \in S : j >= i}]
             card  == [i \in 1..(n + 1) |-> Cardinality(above[i])]
             low   == {i \in 1..(n + 1) : card[i] < k}
  <1>1. IsFiniteSet(S) /\ Cardinality(S) \in Nat /\ k \in Nat /\ 1 <= k /\ k <= Cardinality(S)
    <2>1. IsFiniteSet(1..n)
      BY FS_Interval
    <2>2. IsFiniteSet(S) /\ Cardinality(S) \in Nat
      BY <2>1, FS_Subset, FS_CardinalityType
    <2>3. QED
      BY <2>2
  <1>2. ASSUME NEW i \in 1..(n + 1)
        PROVE  IsFiniteSet(above[i]) /\ card[i] \in Nat
    <2>1. above[i] \in SUBSET S /\ card[i] = Cardinality(above[i])
      OBVIOUS
    <2> HIDE DEF above, card
    <2>2. QED
      BY <1>1, <2>1, FS_Subset, FS_CardinalityType
  <1>3. card[n + 1] = 0 /\ card[1] = Cardinality(S) /\ 1 \in 1..(n + 1) /\ n + 1 \in 1..(n + 1)
    <2>1. /\ 1 \in 1..(n + 1) /\ n + 1 \in 1..(n + 1)
          /\ \A j \in S : j \in Nat /\ j >= 1 /\ ~(j >= n + 1)
      OBVIOUS
    <2>2. above[n + 1] = {} /\ above[1] = S
      BY <2>1
    <2>3. card[n + 1] = Cardinality(above[n + 1]) /\ card[1] = Cardinality(above[1])
      BY <2>1
    <2>4. QED
      BY <2>1, <2>2, <2>3, FS_EmptySet
  <1>4. ASSUME NEW m \in 2..(n + 1)
        PROVE  card[m - 1] = IF m - 1 \in S THEN card[m] + 1 ELSE card[m]
    <2>1. m \in 1..(n + 1) /\ m - 1 \in 1..(n + 1) /\ m \in Nat
      OBVIOUS
    <2>2. above[m - 1] = {j \in S : j >= m - 1} /\ above[m] = {j \in S : j >= m}
      BY <2>1
    <2>3. \A j \in S : j >= m - 1 <=> j >= m \/ j = m - 1
      BY <2>1
    <2>4. m - 1 \notin above[m]
      BY <2>1, <2>2
    <2>5. above[m - 1] = IF m - 1 \in S THEN above[m] \cup {m - 1} ELSE above[m]
      BY <2>2, <2>3
    <2>6. card[m] = Cardinality(above[m]) /\ card[m - 1] = Cardinality(above[m - 1])
      BY <2>1
    <2>7. IsFiniteSet(above[m])
      BY <1>2, <2>1
    <2> HIDE DEF above, card
    <2>8. Cardinality(above[m] \cup {m - 1}) = Cardinality(above[m]) + 1
      BY <2>4, <2>7, FS_AddElement
    <2>9. QED
      BY <2>5, <2>6, <2>8
  <1> HIDE DEF card
  <1>5. PICK m \in low : \A i \in low : m <= i
    <2>1. low \in SUBSET Nat /\ low # {}
      BY <1>1, <1>3
    <2> HIDE DEF low
    <2>2. QED
      BY <2>1, LeastNumber
  <1>6. m \in 2..(n + 1) /\ card[m] < k
    BY <1>1, <1>3
  <1>7. m - 1 \in 1..(n + 1) /\ m \in 1..(n + 1) /\ ~(card[m - 1] < k)
    <2>1. m - 1 \in 1..(n + 1) /\ ~(m <= m - 1) /\ m \in 1..(n + 1)
      BY <1>6
    <2>2. QED
      BY <1>5, <2>1
  <1> HIDE DEF low
  <1>8. m - 1 \in S /\ card[m - 1] = k
    <2>1. card[m] \in Nat /\ card[m - 1] \in Nat
      BY <1>2, <1>7
    <2>2. card[m - 1] = IF m - 1 \in S THEN card[m] + 1 ELSE card[m]
      BY <1>4, <1>6
    <2>3. QED
      BY <1>1, <1>6, <1>7, <2>1, <2>2
  <1>9. card[m - 1] = Cardinality({j \in S : j >= m - 1})
    BY <1>7 DEF card
  <1>10. QED
    BY <1>8, <1>9

\* tail returns at most a ring of rows, all of them rows of the file.
LEMMA TailRows ==
  ASSUME NEW f, NEW n \in Nat, FileUpTo(f, n)
  PROVE  TailOf(f) \in Seq(1..n) /\ Len(TailOf(f)) <= RingSize
  <1> DEFINE good  == {i \in DOMAIN f : Parses(f, i)}
             count == IF Cardinality(good) > RingSize THEN RingSize ELSE Cardinality(good)
             Nth(k) == CHOOSE i \in good : Cardinality({j \in good : j >= i}) = count - k + 1
  <1>1. DOMAIN f = 1..Len(f) /\ Len(f) \in Nat
    BY LenProperties DEF FileUpTo
  <1>2. good \in SUBSET (1..Len(f))
    BY <1>1
  <1>3. IsFiniteSet(1..Len(f))
    BY <1>1, FS_Interval
  <1>4. Cardinality(good) \in Nat
    BY <1>2, <1>3, FS_Subset, FS_CardinalityType
  <1>5. RingSize \in Nat
    BY HistorySetup
  <1> HIDE DEF good
  <1>6. count \in Nat /\ count <= RingSize /\ count <= Cardinality(good)
    BY <1>4, <1>5
  <1> HIDE DEF count
  <1>7. ASSUME NEW k \in 1..count
        PROVE  f[Nth(k)].row \in 1..n
    <2>1. count - k + 1 \in 1..Cardinality(good)
      BY <1>4, <1>6
    <2>2. \E i \in good : Cardinality({j \in good : j >= i}) = count - k + 1
      BY <1>1, <1>2, <2>1, RankFromEnd
    <2>3. Nth(k) \in good
      BY <2>2
    <2>4. QED
      BY <1>1, <1>2, <2>3 DEF FileUpTo
  <1>8. TailOf(f) = [k \in 1..count |-> f[Nth(k)].row]
    BY DEF TailOf, count, good
  <1> HIDE DEF Nth
  <1>9. TailOf(f) \in [1..count -> 1..n]
    BY <1>7, <1>8
  <1>10. TailOf(f) \in Seq(1..n)
    BY <1>6, <1>9, SeqDef
  <1>11. Len(TailOf(f)) = count
    BY <1>6, <1>9, <1>10, LenProperties
  <1>12. QED
    BY <1>6, <1>10, <1>11

\* What LastOf keeps.
LEMMA LastRows ==
  ASSUME NEW S, NEW s \in Seq(S), NEW n \in Nat
  PROVE  /\ LastOf(s, n) \in Seq(S)
         /\ Len(LastOf(s, n)) = IF Len(s) > n THEN n ELSE Len(s)
         /\ \A i \in 1..Len(LastOf(s, n)) :
              LastOf(s, n)[i] = s[(IF Len(s) > n THEN Len(s) - n ELSE 0) + i]
  <1> DEFINE m == IF Len(s) > n THEN Len(s) - n + 1 ELSE 1
  <1>1. Len(s) \in Nat /\ m \in Nat /\ m >= 1
    BY LenProperties
  <1>2. \A i \in m..Len(s) : s[i] \in S
    BY <1>1, ElementOfSeq
  <1>3. LastOf(s, n) = SubSeq(s, m, Len(s))
    BY DEF LastOf
  <1> DEFINE l == SubSeq(s, m, Len(s))
  <1> HIDE DEF m
  <1>4. /\ l \in Seq(S)
        /\ Len(l) = IF m <= Len(s) THEN Len(s) - m + 1 ELSE 0
        /\ \A i \in 1..(Len(s) - m + 1) : l[i] = s[m + i - 1]
    BY <1>1, <1>2, SubSeqProperties
  <1> HIDE DEF l
  <1>5. LastOf(s, n) = l
    BY <1>3 DEF l
  <1>6. Len(l) = IF Len(s) > n THEN n ELSE Len(s)
    <2>1. CASE Len(s) > n
      BY <1>1, <1>4, <2>1 DEF m
    <2>2. CASE ~(Len(s) > n)
      <3>1. m = 1 /\ Len(s) - m + 1 = Len(s) /\ (~(m <= Len(s)) => Len(s) = 0)
        BY <1>1, <2>2 DEF m
      <3>2. QED
        BY <1>4, <2>2, <3>1
    <2>3. QED
      BY <2>1, <2>2
  <1>7. \A i \in 1..Len(l) : l[i] = s[(IF Len(s) > n THEN Len(s) - n ELSE 0) + i]
    <2> TAKE i \in 1..Len(l)
    <2>1. l[i] = s[m + i - 1]
      BY <1>1, <1>4
    <2>2. m + i - 1 = (IF Len(s) > n THEN Len(s) - n ELSE 0) + i
      BY <1>1, <1>4 DEF m
    <2>3. QED
      BY <2>1, <2>2
  <1>8. QED
    BY <1>4, <1>5, <1>6, <1>7

\* push on the newest of a sequence gives the newest of the longer sequence.
LEMMA PushNewest ==
  ASSUME NEW S, NEW s \in Seq(S), NEW e \in S
  PROVE  Push(LastOf(s, RingSize), e) = LastOf(Append(s, e), RingSize)
  <1> DEFINE r == LastOf(s, RingSize)
             l == LastOf(r, RingSize - 1)
             a == Append(s, e)
             z == LastOf(a, RingSize)
  <1>1. RingSize \in Nat \ {0} /\ RingSize - 1 \in Nat /\ Len(s) \in Nat
    BY HistorySetup, LenProperties
  <1>2. /\ r \in Seq(S) /\ Len(r) = IF Len(s) > RingSize THEN RingSize ELSE Len(s)
        /\ \A i \in 1..Len(r) : r[i] = s[(IF Len(s) > RingSize THEN Len(s) - RingSize ELSE 0) + i]
    BY <1>1, LastRows
  <1> HIDE DEF r
  <1>3. /\ l \in Seq(S) /\ Len(l) = IF Len(r) > RingSize - 1 THEN RingSize - 1 ELSE Len(r)
        /\ \A i \in 1..Len(l) : l[i] = r[(IF Len(r) > RingSize - 1 THEN Len(r) - (RingSize - 1) ELSE 0) + i]
    BY <1>1, <1>2, LastRows
  <1> HIDE DEF l
  <1>4. /\ a \in Seq(S) /\ Len(a) = Len(s) + 1 /\ a[Len(s) + 1] = e
        /\ \A i \in 1..Len(s) : a[i] = s[i]
    BY AppendProperties
  <1> HIDE DEF a
  <1>5. /\ z \in Seq(S) /\ Len(z) = IF Len(a) > RingSize THEN RingSize ELSE Len(a)
        /\ \A i \in 1..Len(z) : z[i] = a[(IF Len(a) > RingSize THEN Len(a) - RingSize ELSE 0) + i]
    BY <1>1, <1>4, LastRows
  <1> HIDE DEF z
  <1> DEFINE p == Append(l, e)
  <1>6. /\ p \in Seq(S) /\ Len(p) = Len(l) + 1 /\ p[Len(l) + 1] = e
        /\ \A i \in 1..Len(l) : p[i] = l[i]
    BY <1>3, AppendProperties
  <1> HIDE DEF p
  <1>7. Len(p) = Len(z)
    BY <1>1, <1>2, <1>3, <1>4, <1>5, <1>6
  <1>8. ASSUME NEW i \in 1..Len(p)
        PROVE  p[i] = z[i]
    <2>1. i \in Int /\ Len(l) \in Nat /\ Len(r) \in Nat
      BY <1>2, <1>3, LenProperties
    <2>2. CASE i = Len(l) + 1
      <3>1. z[i] = a[(IF Len(a) > RingSize THEN Len(a) - RingSize ELSE 0) + i]
        BY <1>5, <1>7
      <3>2. CASE Len(s) >= RingSize
        <4>1. Len(r) = RingSize /\ Len(l) = RingSize - 1 /\ Len(a) > RingSize
          BY <1>1, <1>2, <1>3, <1>4, <3>2
        <4>2. Len(a) - RingSize + i = Len(s) + 1
          BY <1>1, <1>4, <2>1, <2>2, <4>1
        <4>3. QED
          BY <1>4, <1>6, <2>2, <3>1, <4>1, <4>2
      <3>3. CASE ~(Len(s) >= RingSize)
        <4>1. Len(r) = Len(s) /\ Len(l) = Len(s) /\ ~(Len(a) > RingSize)
          BY <1>1, <1>2, <1>3, <1>4, <3>3
        <4>2. 0 + i = Len(s) + 1
          BY <1>1, <2>1, <2>2, <4>1
        <4>3. QED
          BY <1>4, <1>6, <2>2, <3>1, <4>1, <4>2
      <3>4. QED
        BY <3>2, <3>3
    <2>3. CASE i # Len(l) + 1
      <3>1. i \in 1..Len(l) /\ p[i] = l[i]
        BY <1>3, <1>6, <2>1, <2>3
      <3>2. CASE Len(s) >= RingSize
        <4>1. /\ Len(r) = RingSize /\ Len(l) = RingSize - 1 /\ Len(a) > RingSize
              /\ Len(r) > RingSize - 1 /\ Len(r) - (RingSize - 1) = 1 /\ 1 + i \in 1..Len(r)
          <5>1. Len(r) = RingSize
            BY <1>1, <1>2, <3>2
          <5>2. Len(r) > RingSize - 1 /\ Len(r) - (RingSize - 1) = 1
            BY <1>1, <5>1
          <5>3. Len(l) = RingSize - 1
            BY <1>3, <5>2
          <5>4. Len(a) > RingSize /\ 1 + i \in 1..Len(r)
            BY <1>1, <1>4, <2>1, <3>1, <3>2, <5>1, <5>3
          <5>5. QED
            BY <5>1, <5>2, <5>3, <5>4
        <4>2. l[i] = r[1 + i]
          BY <1>3, <3>1, <4>1
        <4>3. r[1 + i] = s[Len(s) - RingSize + (1 + i)]
          <5>1. (IF Len(s) > RingSize THEN Len(s) - RingSize ELSE 0) = Len(s) - RingSize
            BY <1>1, <3>2
          <5>2. QED
            BY <1>2, <4>1, <5>1
        <4>4. /\ Len(a) - RingSize + i = Len(s) - RingSize + (1 + i)
              /\ Len(s) - RingSize + (1 + i) \in 1..Len(s)
          BY <1>1, <1>4, <2>1, <3>1, <3>2, <4>1
        <4>5. z[i] = a[Len(a) - RingSize + i]
          BY <1>5, <1>7, <4>1
        <4>6. QED
          BY <1>4, <3>1, <4>2, <4>3, <4>4, <4>5
      <3>3. CASE ~(Len(s) >= RingSize)
        <4>1. /\ Len(r) = Len(s) /\ Len(l) = Len(s) /\ ~(Len(a) > RingSize)
              /\ ~(Len(r) > RingSize - 1) /\ ~(Len(s) > RingSize) /\ 0 + i = i
          BY <1>1, <1>2, <1>3, <1>4, <2>1, <3>1, <3>3
        <4>2. l[i] = r[i] /\ r[i] = s[i] /\ z[i] = a[i] /\ a[i] = s[i]
          BY <1>2, <1>3, <1>4, <1>5, <1>7, <3>1, <4>1
        <4>3. QED
          BY <3>1, <4>2
      <3>4. QED
        BY <3>2, <3>3
    <2>4. QED
      BY <2>2, <2>3
  <1>9. p = z
    BY <1>5, <1>6, <1>7, <1>8, SeqEqual
  <1>10. QED
    BY <1>9 DEF p, l, r, z, a, Push

-----------------------------------------------------------------------------
(* The rows a process knows: those it restored and those it recorded.      *)

Recorded(b, n) == [k \in 1..(n - b) |-> b + k]

LEMMA RecordedMore ==
  ASSUME NEW s \in Seq(1..MaxRows), NEW n \in Nat, NEW b \in 0..n, n < MaxRows
  PROVE  /\ s \o Recorded(b, n) \in Seq(1..MaxRows)
         /\ s \o Recorded(b, n + 1) = Append(s \o Recorded(b, n), n + 1)
  <1> DEFINE S == 1..MaxRows
             c == Recorded(b, n)
             d == Recorded(b, n + 1)
  <1>1. n \in Nat /\ b \in Nat /\ b <= n /\ n - b \in Nat /\ (n + 1) - b = (n - b) + 1 /\ n + 1 \in S
        /\ MaxRows \in Nat
    BY HistorySetup
  <1>2. c \in Seq(S) /\ Len(c) = n - b /\ \A k \in 1..(n - b) : c[k] = b + k
    <2>1. \A k \in 1..(n - b) : b + k \in S
      BY <1>1
    <2>2. c \in [1..(n - b) -> S]
      BY <2>1 DEF Recorded
    <2>3. c \in Seq(S)
      BY <1>1, <2>2, SeqDef
    <2>4. QED
      BY <1>1, <2>2, <2>3, LenProperties DEF Recorded
  <1>3. d \in Seq(S) /\ Len(d) = n - b + 1 /\ \A k \in 1..(n - b + 1) : d[k] = b + k
    <2>1. \A k \in 1..(n - b + 1) : b + k \in S
      BY <1>1
    <2>2. d \in [1..(n - b + 1) -> S]
      BY <1>1, <2>1 DEF Recorded
    <2>3. d \in Seq(S)
      BY <1>1, <2>2, SeqDef
    <2>4. QED
      BY <1>1, <2>2, <2>3, LenProperties DEF Recorded
  <1> HIDE DEF c, d, S
  <1>4. s \in Seq(S) /\ Len(s) \in Nat
    BY LenProperties DEF S
  <1>5. /\ s \o c \in Seq(S) /\ Len(s \o c) = Len(s) + (n - b)
        /\ \A i \in 1..(Len(s) + (n - b)) : (s \o c)[i] = IF i <= Len(s) THEN s[i] ELSE c[i - Len(s)]
    <2>1. /\ s \o c \in Seq(S) /\ Len(s \o c) = Len(s) + Len(c)
          /\ \A i \in 1..(Len(s) + Len(c)) : (s \o c)[i] = IF i <= Len(s) THEN s[i] ELSE c[i - Len(s)]
      BY <1>2, <1>4, ConcatProperties
    <2>2. Len(s) + Len(c) = Len(s) + (n - b)
      BY <1>2
    <2>3. QED
      BY <2>1, <2>2
  <1>6. /\ s \o d \in Seq(S) /\ Len(s \o d) = Len(s) + (n - b + 1)
        /\ \A i \in 1..(Len(s) + (n - b + 1)) : (s \o d)[i] = IF i <= Len(s) THEN s[i] ELSE d[i - Len(s)]
    <2>1. /\ s \o d \in Seq(S) /\ Len(s \o d) = Len(s) + Len(d)
          /\ \A i \in 1..(Len(s) + Len(d)) : (s \o d)[i] = IF i <= Len(s) THEN s[i] ELSE d[i - Len(s)]
      BY <1>3, <1>4, ConcatProperties
    <2>2. Len(s) + Len(d) = Len(s) + (n - b + 1)
      BY <1>3
    <2>3. QED
      BY <2>1, <2>2
  <1> DEFINE a == Append(s \o c, n + 1)
  <1>7. /\ a \in Seq(S) /\ Len(a) = Len(s \o c) + 1 /\ a[Len(s \o c) + 1] = n + 1
        /\ \A i \in 1..Len(s \o c) : a[i] = (s \o c)[i]
    BY <1>1, <1>5, AppendProperties
  <1> HIDE DEF a
  <1>8. Len(a) = Len(s \o d)
    BY <1>1, <1>4, <1>5, <1>6, <1>7
  <1>9. ASSUME NEW i \in 1..Len(a)
        PROVE  a[i] = (s \o d)[i]
    <2>1. i \in Nat /\ i >= 1 /\ i <= Len(s) + (n - b + 1)
      BY <1>1, <1>4, <1>6, <1>8
    <2>2. CASE i <= Len(s)
      <3>1. i \in 1..Len(s \o c) /\ i \in 1..(Len(s) + (n - b)) /\ i \in 1..(Len(s) + (n - b + 1))
        BY <1>1, <1>4, <1>5, <2>1, <2>2
      <3>2. QED
        BY <1>5, <1>6, <1>7, <2>2, <3>1
    <2>3. CASE i > Len(s) /\ i <= Len(s) + (n - b)
      <3>1. /\ i \in 1..Len(s \o c) /\ i \in 1..(Len(s) + (n - b)) /\ i \in 1..(Len(s) + (n - b + 1))
            /\ i - Len(s) \in 1..(n - b) /\ i - Len(s) \in 1..(n - b + 1) /\ ~(i <= Len(s))
        BY <1>1, <1>4, <1>5, <2>1, <2>3
      <3>2. a[i] = c[i - Len(s)] /\ (s \o d)[i] = d[i - Len(s)]
        BY <1>5, <1>6, <1>7, <3>1
      <3>3. QED
        BY <1>2, <1>3, <3>1, <3>2
    <2>4. CASE i = Len(s) + (n - b) + 1
      <3>1. /\ i = Len(s \o c) + 1 /\ i \in 1..(Len(s) + (n - b + 1)) /\ ~(i <= Len(s))
            /\ i - Len(s) = n - b + 1 /\ n - b + 1 \in 1..(n - b + 1) /\ b + (n - b + 1) = n + 1
        BY <1>1, <1>4, <1>5, <2>1, <2>4
      <3>2. a[i] = n + 1 /\ (s \o d)[i] = d[n - b + 1] /\ d[n - b + 1] = n + 1
        BY <1>3, <1>6, <1>7, <3>1
      <3>3. QED
        BY <3>2
    <2>5. i <= Len(s) \/ (i > Len(s) /\ i <= Len(s) + (n - b)) \/ i = Len(s) + (n - b) + 1
      BY <1>1, <1>4, <2>1
    <2>6. QED
      BY <2>2, <2>3, <2>4, <2>5
  <1>10. a = s \o d
    BY <1>6, <1>7, <1>8, <1>9, SeqEqual
  <1>11. QED
    BY <1>5, <1>10 DEF a, c, d, S

\* A ring restored is the newest rows of what its process knows.
LEMMA RecordedNone ==
  ASSUME NEW s \in Seq(1..MaxRows), NEW n \in Nat, Len(s) <= RingSize
  PROVE  LastOf(s \o Recorded(n, n), RingSize) = s
  <1>1. Recorded(n, n) = <<>>
    BY SMT DEF Recorded
  <1>2. s \o Recorded(n, n) = s
    BY <1>1, ConcatEmptySeq
  <1>3. RingSize \in Nat /\ Len(s) \in Nat
    BY HistorySetup, LenProperties
  <1>4. /\ LastOf(s, RingSize) \in Seq(1..MaxRows)
        /\ Len(LastOf(s, RingSize)) = Len(s)
        /\ \A i \in 1..Len(s) : LastOf(s, RingSize)[i] = s[0 + i]
    BY <1>3, LastRows
  <1>5. \A i \in 1..Len(s) : 0 + i = i
    BY <1>3
  <1>6. LastOf(s, RingSize) = s
    BY <1>4, <1>5, SeqEqual
  <1>7. QED
    BY <1>2, <1>6

-----------------------------------------------------------------------------
(* The files.                                                              *)

\* The next row goes behind what is there.
LEMMA GrowFile ==
  ASSUME NEW n \in Nat, NEW f, FileUpTo(f, n), NEW len \in LineSizes, NEW got \in 0..len
  PROVE  FileUpTo(f, n + 1) /\ FileUpTo(Grow(f, n + 1, len, got), n + 1)
  <1>1. FileUpTo(f, n + 1)
    BY DEF FileUpTo
  <1>2. CASE got = 0
    BY <1>1, <1>2 DEF Grow
  <1>3. CASE got # 0
    <2> DEFINE w == [row |-> n + 1, at |-> Bytes(f), len |-> len, got |-> got]
               g == Append(f, w)
    <2>1. f \in Seq(Write) /\ Bytes(f) \in Nat /\ Len(f) \in Nat /\ DOMAIN f = 1..Len(f)
      BY BytesNat, LenProperties DEF FileUpTo
    <2>2. got \in 1..len /\ got \in Nat /\ n + 1 \in 1..(n + 1)
      BY <1>3, Limits
    <2>3. w \in Write /\ w.at = Bytes(f) /\ w.got \in 1..w.len /\ w.row \in 1..(n + 1)
      BY <2>1, <2>2 DEF Write
    <2> HIDE DEF w
    <2>4. /\ g \in Seq(Write) /\ Len(g) = Len(f) + 1 /\ g[Len(f) + 1] = w
          /\ \A i \in 1..Len(f) : g[i] = f[i]
      BY <2>1, <2>3, AppendProperties
    <2>5. DOMAIN g = 1..(Len(f) + 1)
      BY <2>4, LenProperties
    <2> HIDE DEF g
    <2>6. ASSUME NEW i \in DOMAIN g
          PROVE  /\ g[i] \in Write
                 /\ g[i].got \in 1..g[i].len
                 /\ g[i].at = IF i = 1 THEN 0 ELSE g[i - 1].at + g[i - 1].got
                 /\ g[i].row \in 1..(n + 1)
      <3>1. CASE i \in 1..Len(f)
        <4>1. g[i] = f[i] /\ (i # 1 => g[i - 1] = f[i - 1])
          BY <2>1, <2>4, <3>1
        <4>2. QED
          BY <1>1, <2>1, <3>1, <4>1 DEF FileUpTo
      <3>2. CASE i = Len(f) + 1
        <4>1. CASE f = <<>>
          <5>1. i = 1 /\ Bytes(f) = 0
            BY <3>2, <4>1, EmptySeq DEF Bytes
          <5>2. QED
            BY <2>3, <2>4, <3>2, <5>1
        <4>2. CASE f # <<>>
          <5>1. Len(f) # 0 /\ Bytes(f) = f[Len(f)].at + f[Len(f)].got
            BY <2>1, <4>2, EmptySeq DEF Bytes
          <5>2. i # 1 /\ i - 1 = Len(f) /\ g[i - 1] = f[Len(f)]
            BY <2>1, <2>4, <3>2, <5>1
          <5>3. QED
            BY <2>3, <2>4, <3>2, <5>1, <5>2
        <4>3. QED
          BY <4>1, <4>2
      <3>3. QED
        BY <2>1, <2>5, <3>1, <3>2
    <2>7. FileUpTo(g, n + 1)
      BY <2>4, <2>6 DEF FileUpTo
    <2>8. QED
      BY <1>1, <1>3, <2>7 DEF Grow, g, w
  <1>4. QED
    BY <1>2, <1>3

LEMMA NoFile == ASSUME NEW n \in Nat PROVE FileUpTo(<<>>, n)
  <1>1. <<>> \in Seq(Write) /\ DOMAIN <<>> = {}
    BY EmptySeq
  <1>2. QED
    BY <1>1 DEF FileUpTo

\* Record, whatever the disk does, and a kill inside it leave runs of writes.
LEMMA WrittenFiles ==
  ASSUME RingInv, NEW len \in LineSizes, Record(len) \/ Killed(len)
  PROVE  /\ rows' = rows + 1 /\ rows < MaxRows
         /\ FileUpTo(live', rows + 1) /\ FileUpTo(old', rows + 1)
         /\ size' \in Nat /\ misses' \in Nat
  <1>1. /\ FileUpTo(live, rows) /\ FileUpTo(old, rows) /\ rows \in Nat
        /\ size \in Nat /\ misses \in Nat /\ len \in Nat /\ len > 0
    BY HistorySetup, Limits DEF RingInv, Kept, TypeOK
  <1>2. rows' = rows + 1 /\ rows < MaxRows
    BY DEF Record, Killed
  <1>3. FileUpTo(<<>>, rows)
    BY <1>1, NoFile
  <1>4. \A got \in 0..len : \A f \in {live, <<>>} : FileUpTo(Grow(f, rows + 1, len, got), rows + 1)
    BY <1>1, <1>3, GrowFile
  <1>5. \A f \in {live, old, <<>>} : FileUpTo(f, rows + 1)
    <2>1. 0 \in 0..len
      BY <1>1
    <2>2. QED
      BY <1>1, <1>3, <2>1, GrowFile
  <1>6. CASE Killed(len)
    <2>1. PICK got \in 0..(len - 1) :
            \/ UNCHANGED <<live, old>>
            \/ live' = Grow(live, rows + 1, len, got) /\ UNCHANGED old
            \/ live' = Grow(<<>>, rows + 1, len, got) /\ old' = live
      <3>1. 0 \in 0..(len - 1)
        BY <1>1
      <3>2. QED
        BY <1>6, <3>1 DEF Killed
    <2>2. got \in 0..len
      BY <1>1
    <2>3. size' = 0 /\ misses' = misses
      BY <1>6 DEF Killed, Down
    <2>4. FileUpTo(live', rows + 1) /\ FileUpTo(old', rows + 1)
      BY <1>4, <1>5, <2>1, <2>2
    <2>5. QED
      BY <1>1, <1>2, <2>3, <2>4
  <1>7. ASSUME NEW fault \in BOOLEAN, NEW f \in {live, <<>>}, NEW at \in Nat, WriteLine(f, at, len, fault)
        PROVE  FileUpTo(live', rows + 1) /\ size' \in Nat
    <2>1. PICK got \in IF fault THEN 0..len ELSE {len} :
            live' = Grow(f, rows + 1, len, got) /\ size' = at + got
      BY <1>7 DEF WriteLine
    <2>2. got \in 0..len
      BY <1>1
    <2>3. QED
      BY <1>4, <2>1, <2>2
  <1>8. CASE Record(len)
    <2>1. PICK fault \in BOOLEAN :
            \/ RecordFits(len, fault)
            \/ RecordRotates(len, fault)
            \/ UNCHANGED <<sink, size, live, old, misses>>
      BY <1>8 DEF Record, Fault
    <2>2. CASE RecordFits(len, fault)
      BY <1>1, <1>2, <1>5, <1>7, <2>2 DEF RecordFits
    <2>3. CASE RecordRotates(len, fault)
      <3>1. PICK renamed \in BOOLEAN :
              LET fresh == IF renamed THEN <<>> ELSE live IN
              /\ old' = IF renamed THEN live ELSE old
              /\ misses' = IF renamed THEN misses ELSE misses + 1
              /\ \/ WriteLine(fresh, 0, len, fault) /\ UNCHANGED sink
                 \/ fault /\ sink' = "memory" /\ live' = fresh /\ UNCHANGED size
        BY <2>3 DEF RecordRotates, Opened
      <3>2. PICK fresh \in {live, <<>>} :
              \/ WriteLine(fresh, 0, len, fault)
              \/ live' = fresh /\ UNCHANGED size
        BY <3>1
      <3>3. FileUpTo(live', rows + 1) /\ size' \in Nat
        BY <1>1, <1>5, <1>7, <3>2
      <3>4. FileUpTo(old', rows + 1) /\ misses' \in Nat
        <4>1. old' \in {live, old} /\ misses' \in {misses, misses + 1}
          BY <3>1
        <4>2. QED
          BY <1>1, <1>5, <4>1
      <3>5. QED
        BY <1>2, <3>3, <3>4
    <2>4. CASE UNCHANGED <<sink, size, live, old, misses>>
      BY <1>1, <1>2, <1>5, <2>4
    <2>5. QED
      BY <2>1, <2>2, <2>3, <2>4
  <1>9. QED
    BY <1>6, <1>8

-----------------------------------------------------------------------------
\* What TypeOK says of the two files.
LEMMA FilesTyped ==
  ASSUME NEW n, NEW f, NEW g, FileUpTo(f, n), FileUpTo(g, n)
  PROVE  \A x \in {f, g} : \A i \in DOMAIN x :
           /\ x[i] \in Write
           /\ x[i].got \in 1..x[i].len
           /\ x[i].at = IF i = 1 THEN 0 ELSE x[i - 1].at + x[i - 1].got
  BY DEF FileUpTo

LEMMA RingInit == Init => RingInv
  <1> SUFFICES ASSUME Init PROVE RingInv
    OBVIOUS
  <1>1. <<>> \in RowSeq /\ Len(<<>>) = 0 /\ DOMAIN <<>> = {} /\ MaxRows \in Nat /\ RingSize \in Nat
    BY EmptySeq, HistorySetup DEF RowSeq
  <1>2. TypeOK
    <2>1. FileUpTo(live, 0) /\ FileUpTo(old, 0)
      BY NoFile DEF Init
    <2>2. /\ sink \in {"down", "none", "memory", "file"} /\ faulty \in BOOLEAN
          /\ {size, rows, starts, base, kills, misses} \subseteq Nat
          /\ {ring, restored, shown} \subseteq RowSeq
      <3>1. sink \in {"down", "none", "memory", "file"} /\ faulty \in BOOLEAN
        BY DEF Init
      <3>2. {size, rows, starts, base, kills, misses} \subseteq Nat
        BY DEF Init
      <3>3. ring = <<>> /\ restored = <<>> /\ shown = <<>>
        BY DEF Init
      <3>4. QED
        BY <1>1, <3>1, <3>2, <3>3
    <2>3. QED
      BY <2>1, <2>2, FilesTyped DEF TypeOK
  <1>3. Kept
    BY <1>1, NoFile DEF Init, Kept
  <1>4. ConsoleShowsNewest
    BY DEF Init, ConsoleShowsNewest
  <1>5. QED
    BY <1>2, <1>3, <1>4 DEF RingInv

\* The ring a process starts from is what tail found.
LEMMA StartRing == RingInv /\ Start => RingInv'
  <1> SUFFICES ASSUME RingInv, Start PROVE RingInv'
    OBVIOUS
  <1>1. /\ starts' = starts + 1 /\ base' = rows /\ UNCHANGED <<old, rows, shown, kills, misses>>
        /\ live' = live /\ faulty' \in BOOLEAN
        /\ \/ /\ sink' = "file" /\ size' = Bytes(live)
              /\ ring' = TailOf(live) /\ restored' = TailOf(live)
           \/ sink' = "none" /\ restored' = <<>> /\ size' = size /\ ring' = ring
    BY DEF Start, StatSize, Opened, RingInv, TypeOK
  <1>2. /\ FileUpTo(live, rows) /\ FileUpTo(old, rows) /\ rows \in 0..MaxRows /\ MaxRows \in Nat
        /\ {size, rows, starts, base, kills, misses} \subseteq Nat /\ {ring, shown} \subseteq RowSeq
    BY HistorySetup DEF RingInv, Kept, TypeOK
  <1>3. Bytes(live) \in Nat
    BY <1>2, BytesNat DEF FileUpTo
  <1>4. TailOf(live) \in RowSeq /\ Len(TailOf(live)) <= RingSize
    <2>1. TailOf(live) \in Seq(1..rows) /\ Len(TailOf(live)) <= RingSize
      BY <1>2, TailRows
    <2>2. 1..rows \subseteq 1..MaxRows
      BY <1>2
    <2>3. QED
      BY <2>1, <2>2, SeqMonotonic DEF RowSeq
  <1>5. <<>> \in RowSeq /\ Len(<<>>) = 0 /\ RingSize \in Nat
    BY EmptySeq, HistorySetup DEF RowSeq
  <1>6. restored' \in RowSeq /\ ring' \in RowSeq /\ Len(restored') <= RingSize /\ size' \in Nat
    BY <1>1, <1>2, <1>3, <1>4, <1>5
  <1>7. TypeOK'
    <2>1. /\ sink' \in {"down", "none", "memory", "file"} /\ faulty' \in BOOLEAN
          /\ {size', rows', starts', base', kills', misses'} \subseteq Nat
          /\ {ring', restored', shown'} \subseteq RowSeq
      BY <1>1, <1>2, <1>6
    <2>2. FileUpTo(live', rows) /\ FileUpTo(old', rows)
      BY <1>1, <1>2
    <2>3. QED
      BY <2>1, <2>2, FilesTyped DEF TypeOK
  <1>8. Kept'
    BY <1>1, <1>2, <1>6 DEF Kept
  <1>9. ConsoleShowsNewest'
    <2> SUFFICES ASSUME sink' \in {"file", "memory"}
                 PROVE  ring' = LastOf(restored' \o [k \in 1..(rows' - base') |-> base' + k], RingSize)
      BY DEF ConsoleShowsNewest
    <2>1. ring' = TailOf(live) /\ restored' = TailOf(live) /\ rows' = rows /\ base' = rows
      BY <1>1
    <2>2. LastOf(TailOf(live) \o Recorded(rows, rows), RingSize) = TailOf(live)
      BY <1>2, <1>4, RecordedNone DEF RowSeq
    <2>3. QED
      BY <2>1, <2>2 DEF Recorded
  <1>10. QED
    BY <1>7, <1>8, <1>9 DEF RingInv

\* A row recorded is pushed, whatever becomes of it on the disk.
LEMMA RecordRing == ASSUME RingInv, NEW len \in LineSizes, Record(len) PROVE RingInv'
  <1>1. /\ rows' = rows + 1 /\ rows < MaxRows
        /\ FileUpTo(live', rows + 1) /\ FileUpTo(old', rows + 1)
        /\ size' \in Nat /\ misses' \in Nat
    BY WrittenFiles
  <1>2. /\ sink # "down" /\ UNCHANGED <<starts, restored, base, shown, kills>>
        /\ ring' = IF sink = "none" THEN ring ELSE Push(ring, rows + 1)
    BY DEF Record, ghosts
  <1>3. /\ rows \in Nat /\ base \in 0..rows /\ MaxRows \in Nat /\ Len(restored) <= RingSize
        /\ {starts, base, kills} \subseteq Nat /\ {ring, restored, shown} \subseteq RowSeq
    BY HistorySetup DEF RingInv, Kept, TypeOK
  <1>4. faulty' \in BOOLEAN
    <2>1. \E fault \in Fault : faulty' = (faulty \/ fault)
      BY DEF Record
    <2>2. QED
      BY <2>1
  <1>5. sink' \in {"none", "memory", "file"} /\ (sink' \in {"file", "memory"} => sink \in {"file", "memory"})
    <2>1. sink \in {"none", "memory", "file"}
      BY <1>2 DEF RingInv, TypeOK
    <2>2. sink' = sink \/ (sink = "file" /\ sink' = "memory")
      BY DEF Record, RecordFits, RecordRotates
    <2>3. QED
      BY <2>1, <2>2
  <1>6. ring' \in RowSeq
    <2>1. RingSize - 1 \in Nat /\ ring \in Seq(1..MaxRows) /\ rows + 1 \in 1..MaxRows
      BY <1>1, <1>3, HistorySetup DEF RowSeq
    <2>2. LastOf(ring, RingSize - 1) \in Seq(1..MaxRows)
      BY <2>1, LastRows
    <2>3. Push(ring, rows + 1) \in Seq(1..MaxRows)
      BY <2>1, <2>2, AppendProperties DEF Push
    <2>4. QED
      BY <1>2, <2>1, <2>3 DEF RowSeq
  <1>7. TypeOK'
    <2>1. /\ {size', rows', starts', base', kills', misses'} \subseteq Nat
          /\ {ring', restored', shown'} \subseteq RowSeq
      BY <1>1, <1>2, <1>3, <1>6
    <2>2. QED
      BY <1>1, <1>4, <1>5, <2>1, FilesTyped DEF TypeOK
  <1>8. Kept'
    BY <1>1, <1>2, <1>3 DEF Kept
  <1>9. ConsoleShowsNewest'
    <2> SUFFICES ASSUME sink' \in {"file", "memory"}
                 PROVE  ring' = LastOf(restored' \o [k \in 1..(rows' - base') |-> base' + k], RingSize)
      BY DEF ConsoleShowsNewest
    <2> DEFINE known == restored \o Recorded(base, rows)
    <2>1. sink \in {"file", "memory"}
      BY <1>5
    <2>2. ring = LastOf(known, RingSize)
      BY <2>1 DEF RingInv, ConsoleShowsNewest, Recorded
    <2>3. /\ known \in Seq(1..MaxRows)
          /\ restored \o Recorded(base, rows + 1) = Append(known, rows + 1)
      BY <1>1, <1>3, RecordedMore DEF RowSeq
    <2>4. rows + 1 \in 1..MaxRows
      BY <1>1, <1>3
    <2>5. ring' = Push(ring, rows + 1)
      BY <1>2, <2>1
    <2> HIDE DEF known
    <2>6. Push(LastOf(known, RingSize), rows + 1) = LastOf(Append(known, rows + 1), RingSize)
      BY <2>3, <2>4, PushNewest
    <2>7. ring' = LastOf(restored \o Recorded(base, rows + 1), RingSize)
      BY <2>2, <2>3, <2>5, <2>6
    <2>8. QED
      BY <1>1, <1>2, <2>7 DEF Recorded
  <1>10. QED
    BY <1>7, <1>8, <1>9 DEF RingInv

\* The process ends, by itself or inside a row.
LEMMA DownRing ==
  ASSUME RingInv, Stop \/ \E len \in LineSizes : Killed(len)
  PROVE  RingInv'
  <1>1. /\ sink' = "down" /\ size' = 0 /\ ring' = <<>> /\ shown' = ring
        /\ UNCHANGED <<starts, restored, base, faulty, misses>>
    BY DEF Stop, Killed, Down
  <1>2. /\ rows \in Nat /\ rows \in 0..MaxRows /\ MaxRows \in Nat
        /\ base \in 0..rows /\ Len(restored) <= RingSize /\ faulty \in BOOLEAN
        /\ {starts, base, kills, misses} \subseteq Nat /\ {ring, restored} \subseteq RowSeq
    BY HistorySetup DEF RingInv, Kept, TypeOK
  <1>3. <<>> \in RowSeq
    BY EmptySeq DEF RowSeq
  <1>4. /\ FileUpTo(live', rows') /\ FileUpTo(old', rows')
        /\ rows' \in 0..MaxRows /\ base' \in 0..rows' /\ kills' \in Nat
    <2>1. CASE Stop
      BY <1>2, <2>1 DEF Stop, Down, RingInv, Kept
    <2>2. ASSUME NEW len \in LineSizes, Killed(len)
          PROVE  /\ FileUpTo(live', rows') /\ FileUpTo(old', rows')
                 /\ rows' \in 0..MaxRows /\ base' \in 0..rows' /\ kills' \in Nat
      <3>1. /\ rows' = rows + 1 /\ rows < MaxRows
            /\ FileUpTo(live', rows + 1) /\ FileUpTo(old', rows + 1)
        BY <2>2, WrittenFiles
      <3>2. kills' = kills + 1
        BY <2>2 DEF Killed
      <3>3. QED
        BY <1>1, <1>2, <3>1, <3>2
    <2>3. QED
      BY <2>1, <2>2
  <1>5. TypeOK'
    <2>1. /\ {size', rows', starts', base', kills', misses'} \subseteq Nat
          /\ {ring', restored', shown'} \subseteq RowSeq
      BY <1>1, <1>2, <1>3, <1>4
    <2>2. QED
      BY <1>1, <1>2, <1>4, <2>1, FilesTyped DEF TypeOK
  <1>6. Kept'
    BY <1>1, <1>2, <1>4 DEF Kept
  <1>7. ConsoleShowsNewest'
    BY <1>1 DEF ConsoleShowsNewest
  <1>8. QED
    BY <1>5, <1>6, <1>7 DEF RingInv

LEMMA RingStep == RingInv /\ [Next]_vars => RingInv'
  <1> SUFFICES ASSUME RingInv, [Next]_vars PROVE RingInv'
    OBVIOUS
  <1>1. CASE UNCHANGED vars
    BY <1>1 DEF vars, ghosts, RingInv, TypeOK, Kept, ConsoleShowsNewest
  <1>2. CASE Start
    BY <1>2, StartRing
  <1>3. CASE Stop
    BY <1>3, DownRing
  <1>4. ASSUME NEW len \in LineSizes, Record(len) \/ Killed(len) PROVE RingInv'
    BY <1>4, RecordRing, DownRing
  <1>5. QED
    BY <1>1, <1>2, <1>3, <1>4 DEF Next

LEMMA RingAlways == Spec => []RingInv
  BY RingInit, RingStep, PTL DEF Spec

\* The files are runs of back-to-back writes and the ring holds rows recorded (Record,
\* rotate, New, tail).
THEOREM TypeCorrect == Spec => []TypeOK
  <1>1. RingInv => TypeOK
    BY DEF RingInv
  <1>2. QED
    BY <1>1, RingAlways, PTL

\* The console's ring is the newest rows its process restored and recorded, whatever
\* rotations, failed writes and a lost file handle did to the file (push, tail).
THEOREM Newest == Spec => []ConsoleShowsNewest
  <1>1. RingInv => ConsoleShowsNewest
    BY DEF RingInv
  <1>2. QED
    BY <1>1, RingAlways, PTL

-----------------------------------------------------------------------------
\* gateQuery's promise, whatever rows the ring holds: a button a page of the console
\* shows works when it is pressed, if the page is narrowed by repository alone.
LEMMA GateAgrees == ring \in Seq(1..MaxRows) => ButtonsWork
  <1> SUFFICES ASSUME ring \in Seq(1..MaxRows), NEW q \in PlainQuery,
                      NEW i \in Recent(Page(q)),
                      KindOf[ring[i]].mark # All, ~Routine(KindOf[ring[i]])
               PROVE  Accepts(KindOf[ring[i]])
    BY DEF ButtonsWork
  <1> DEFINE k == KindOf[ring[i]]
             g == GateQuery(k.repo)
             p == Page(q)
  <1>1. /\ q.limit \in Nat /\ q.repo \in Repo \cup {All} /\ q.source = All
        /\ q.failures = FALSE /\ q.forced = FALSE /\ q.hideRoutine \in BOOLEAN
    BY ConsoleSetup DEF PlainQuery
  <1>2. MaxPage \in Nat /\ g.limit = MaxPage
    BY ConsoleSetup DEF GateQuery
  <1>3. /\ p.repo = q.repo /\ p.source = All /\ p.failures = FALSE /\ p.forced = FALSE
        /\ p.hideRoutine = q.hideRoutine /\ p.limit \in Nat /\ p.limit <= MaxPage
    BY <1>1, <1>2 DEF Page, PlainQuery
  <1>4. i \in DOMAIN ring /\ Passes(p, k) /\ Cardinality(Newer(p, i)) < p.limit
    BY DEF Recent
  <1>5. p.repo \in {All, k.repo}
    BY <1>4 DEF Passes
  <1>6. Passes(g, k)
    BY DEF Passes, GateQuery
  <1>7. Newer(g, i) \subseteq Newer(p, i)
    BY <1>3, <1>5 DEF Newer, Passes, GateQuery
  <1>8. IsFiniteSet(Newer(p, i))
    <2>1. DOMAIN ring = 1..Len(ring) /\ Len(ring) \in Nat
      BY LenProperties
    <2>2. IsFiniteSet(DOMAIN ring)
      BY <2>1, FS_Interval
    <2>3. QED
      BY <2>2, FS_Subset DEF Newer
  <1>9. /\ IsFiniteSet(Newer(g, i))
        /\ Cardinality(Newer(g, i)) <= Cardinality(Newer(p, i))
        /\ Cardinality(Newer(g, i)) \in Nat /\ Cardinality(Newer(p, i)) \in Nat
    BY <1>7, <1>8, FS_Subset, FS_CardinalityType
  <1>10. Cardinality(Newer(g, i)) < g.limit
    BY <1>2, <1>3, <1>4, <1>9
  <1>11. i \in Recent(g)
    BY <1>4, <1>6, <1>10 DEF Recent
  <1>12. QED
    BY <1>11 DEF Accepts

\* A button a page shows works when it is pressed (gateQuery, matchingDeleteExists,
\* matchingHoldExists), for every set of rows, page size and window.
THEOREM Buttons == Spec => []ButtonsWork
  <1>1. RingInv => ButtonsWork
    BY GateAgrees DEF RingInv, TypeOK, RowSeq
  <1>2. QED
    BY <1>1, RingAlways, PTL

-----------------------------------------------------------------------------
(* No hole between the oldest row shown and the newest: the rows of the    *)
(* files ascend, so what tail leaves out, for its window or for the size   *)
(* of the ring, is older than all it keeps; and a push forgets the oldest. *)

Ascends(s) == \A i, j \in DOMAIN s : i < j => s[i] < s[j]
Shows(s, row) == \E i \in DOMAIN s : s[i] = row

InLine ==
  /\ InOrder(live) /\ InOrder(old)
  /\ \A i \in DOMAIN old, j \in DOMAIN live : old[i].row < live[j].row
  /\ \A i \in DOMAIN ring : ring[i] <= rows

SkipInv == RingInv /\ InLine /\ ConsoleSkipsNothing

\* A later write starts further on.
LEMMA Offsets ==
  ASSUME NEW f, NEW n \in Nat, FileUpTo(f, n), NEW a \in DOMAIN f, NEW b \in DOMAIN f, a <= b
  PROVE  f[a].at <= f[b].at
  <1> DEFINE bad == {i \in DOMAIN f : i >= a /\ f[i].at < f[a].at}
  <1>1. /\ Len(f) \in Nat /\ DOMAIN f = 1..Len(f)
        /\ \A i \in DOMAIN f : f[i].at \in Nat /\ f[i].got \in Nat
        /\ \A i \in DOMAIN f : i # 1 => f[i].at = f[i - 1].at + f[i - 1].got
    <2>1. Len(f) \in Nat /\ DOMAIN f = 1..Len(f)
      BY LenProperties DEF FileUpTo
    <2>2. \A i \in DOMAIN f : f[i].at \in Nat /\ f[i].got \in Nat
      BY DEF FileUpTo, Write
    <2>3. \A i \in DOMAIN f : i # 1 => f[i].at = f[i - 1].at + f[i - 1].got
      BY DEF FileUpTo
    <2>4. QED
      BY <2>1, <2>2, <2>3
  <1>2. ASSUME bad # {} PROVE FALSE
    <2>1. bad \in SUBSET Nat
      BY <1>1
    <2>2. PICK i \in bad : \A k \in bad : i <= k
      <3> HIDE DEF bad
      <3>1. QED
        BY <1>2, <2>1, LeastNumber
    <2>3. i \in 1..Len(f) /\ a \in 1..Len(f) /\ i > a
      BY <1>1, <2>2
    <2>4. i - 1 \in DOMAIN f /\ i - 1 >= a /\ i # 1 /\ ~(i <= i - 1)
      BY <1>1, <2>3
    <2>5. f[i - 1].at < f[a].at
      BY <1>1, <2>2, <2>4
    <2>6. i - 1 \in bad
      BY <2>4, <2>5
    <2>7. QED
      BY <2>2, <2>4, <2>6
  <1>3. QED
    BY <1>1, <1>2

\* Counted from the end, an earlier place ranks higher.
LEMMA RankFalls ==
  ASSUME NEW n \in Nat, NEW S \in SUBSET (1..n), NEW i \in S
  PROVE  /\ Cardinality(S) \in Nat
         /\ Cardinality({j \in S : j >= i}) \in 1..Cardinality(S)
         /\ \A k \in S : i < k =>
              Cardinality({j \in S : j >= k}) < Cardinality({j \in S : j >= i})
  <1> DEFINE above(k) == {j \in S : j >= k}
  <1>1. IsFiniteSet(1..n)
    BY FS_Interval
  <1>2. IsFiniteSet(S) /\ Cardinality(S) \in Nat
    BY <1>1, FS_Subset, FS_CardinalityType
  <1>3. ASSUME NEW k \in S
        PROVE  /\ IsFiniteSet(above(k)) /\ Cardinality(above(k)) \in Nat
               /\ Cardinality(above(k)) <= Cardinality(S) /\ k \in above(k)
    <2>1. above(k) \in SUBSET S /\ k \in above(k)
      OBVIOUS
    <2> HIDE DEF above
    <2>2. QED
      BY <1>2, <2>1, FS_Subset, FS_CardinalityType
  <1>4. ASSUME NEW k \in S, i < k
        PROVE  Cardinality(above(k)) < Cardinality(above(i))
    <2>1. i \in Nat /\ k \in Nat /\ \A j \in S : j \in Nat /\ (j >= k => j >= i)
      BY <1>4
    <2>2. ~(i >= k) /\ i >= i
      BY <1>4, <2>1
    <2>3. i \notin above(k) /\ above(k) \cup {i} \in SUBSET above(i)
      BY <2>1, <2>2
    <2> HIDE DEF above
    <2>4. Cardinality(above(k) \cup {i}) = Cardinality(above(k)) + 1
      BY <1>3, <2>3, FS_AddElement
    <2>5. Cardinality(above(k) \cup {i}) <= Cardinality(above(i))
      BY <1>3, <2>3, FS_Subset
    <2>6. QED
      BY <1>3, <2>4, <2>5
  <1>5. Cardinality(above(i)) # 0
    <2> HIDE DEF above
    <2>1. QED
      BY <1>3, FS_EmptySet
  <1>6. QED
    BY <1>2, <1>3, <1>4, <1>5

\* tail returns rows in their order and leaves out only older ones.
LEMMA TailNewest ==
  ASSUME NEW f, NEW n \in Nat, FileUpTo(f, n), InOrder(f)
  PROVE  /\ Ascends(TailOf(f))
         /\ \A i \in DOMAIN TailOf(f) : \E p \in DOMAIN f : TailOf(f)[i] = f[p].row
         /\ TailOf(f) # <<>> =>
              \A row \in RowsOf(f) : row >= TailOf(f)[1] => Shows(TailOf(f), row)
  <1> DEFINE good  == {i \in DOMAIN f : Parses(f, i)}
             rank(i) == Cardinality({j \in good : j >= i})
             count == IF Cardinality(good) > RingSize THEN RingSize ELSE Cardinality(good)
             Nth(k) == CHOOSE i \in good : rank(i) = count - k + 1
             t == [k \in 1..count |-> f[Nth(k)].row]
  <1>1. DOMAIN f = 1..Len(f) /\ Len(f) \in Nat
    BY LenProperties DEF FileUpTo
  <1>2. good \in SUBSET (1..Len(f))
    BY <1>1
  <1>3. Cardinality(good) \in Nat /\ RingSize \in Nat
    <2>1. IsFiniteSet(1..Len(f))
      BY <1>1, FS_Interval
    <2>2. QED
      BY <1>2, <2>1, FS_Subset, FS_CardinalityType, HistorySetup
  <1>4. TailOf(f) = t
    BY DEF TailOf
  <1>5. /\ \A i \in good : rank(i) \in 1..Cardinality(good)
        /\ \A i, k \in good : i < k => rank(k) < rank(i)
    <2> HIDE DEF good
    <2>1. QED
      BY <1>1, <1>2, RankFalls
  <1>6. \A k \in 1..Cardinality(good) : \E i \in good : rank(i) = k
    <2> HIDE DEF good
    <2>1. QED
      BY <1>1, <1>2, RankFromEnd
  <1>7. good \subseteq DOMAIN f /\ \A i \in good : i \in Nat
    BY <1>1
  <1>8. \A i \in DOMAIN f : f[i].row \in Nat
    BY DEF FileUpTo
  <1> HIDE DEF rank
  <1>9. count \in Nat /\ count <= Cardinality(good)
    <2> HIDE DEF good
    <2>1. QED
      BY <1>3
  <1>10. ASSUME NEW k \in 1..count
         PROVE  Nth(k) \in good /\ rank(Nth(k)) = count - k + 1
    <2> HIDE DEF good, count
    <2>1. count - k + 1 \in 1..Cardinality(good)
      BY <1>3, <1>9
    <2>2. \E i \in good : rank(i) = count - k + 1
      BY <1>6, <2>1
    <2>3. QED
      BY <2>2
  <1> HIDE DEF Nth
  <1>11. t # <<>> => count >= 1 /\ 1 \in 1..count /\ t[1] = f[Nth(1)].row
    <2> HIDE DEF good, count
    <2>1. DOMAIN t = 1..count
      OBVIOUS
    <2>2. t # <<>> => count # 0
      <3>1. count = 0 => t = <<>>
        BY SMT
      <3>2. QED
        BY <3>1
    <2>3. QED
      BY <1>9, <2>1, <2>2
  <1>12. \A i, j \in 1..count : i < j => t[i] < t[j]
    <2> SUFFICES ASSUME NEW i \in 1..count, NEW j \in 1..count, i < j
                 PROVE  f[Nth(i)].row < f[Nth(j)].row
      BY DEF t
    <2>1. /\ Nth(i) \in good /\ Nth(j) \in good
          /\ rank(Nth(i)) = count - i + 1 /\ rank(Nth(j)) = count - j + 1
      BY <1>10
    <2> HIDE DEF good, count
    <2>2. rank(Nth(j)) < rank(Nth(i))
      BY <1>9, <2>1
    <2>3. Nth(i) < Nth(j)
      <3>1. Nth(i) # Nth(j)
        BY <1>9, <2>1
      <3>2. ~(Nth(j) < Nth(i))
        <4>1. rank(Nth(i)) \in Nat /\ rank(Nth(j)) \in Nat
          BY <1>5, <2>1
        <4>2. Nth(j) < Nth(i) => rank(Nth(i)) < rank(Nth(j))
          BY <1>5, <2>1
        <4>3. QED
          BY <2>2, <4>1, <4>2
      <3>3. QED
        BY <1>7, <2>1, <3>1, <3>2
    <2>4. QED
      BY <1>7, <2>1, <2>3 DEF InOrder
  <1>13. \A i \in 1..count : \E p \in DOMAIN f : t[i] = f[p].row
    BY <1>7, <1>10
  <1>14. ASSUME t # <<>>, NEW i \in DOMAIN f, Legible(f, i), f[i].row >= t[1]
         PROVE  \E k \in 1..count : t[k] = f[i].row
    <2> DEFINE first == Nth(1)
    <2>1. first \in good /\ first \in DOMAIN f /\ rank(first) = count /\ t[1] = f[first].row
      <3>1. 1 \in 1..count /\ t[1] = f[Nth(1)].row
        BY <1>11, <1>14
      <3>2. Nth(1) \in good /\ rank(Nth(1)) = count - 1 + 1
        BY <1>10, <3>1
      <3>3. QED
        BY <1>7, <1>9, <3>1, <3>2
    <2> HIDE DEF first
    <2>2. first <= i
      <3>1. i < first => f[i].row < f[first].row
        BY <2>1 DEF InOrder
      <3>2. QED
        BY <1>1, <1>8, <1>14, <2>1, <3>1
    <2>3. i \in good
      <3>1. f[first].at <= f[i].at
        BY <2>1, <2>2, Offsets
      <3>2. f[first].at \in Nat /\ f[i].at \in Nat /\ Bytes(f) \in Nat /\ TailBytes \in Nat
        BY <2>1, BytesNat, HistorySetup DEF FileUpTo, Write
      <3>3. Bytes(f) - f[first].at <= TailBytes
        BY <2>1 DEF Parses
      <3>4. Bytes(f) - f[i].at <= TailBytes
        BY <3>1, <3>2, <3>3
      <3>5. Parses(f, i)
        BY <1>14, <3>4 DEF Parses, Legible
      <3>6. QED
        BY <3>5
    <2> DEFINE k == count - rank(i) + 1
    <2>4. rank(i) \in 1..count
      <3>1. first < i => rank(i) < rank(first)
        BY <1>5, <2>1, <2>3
      <3>2. rank(i) \in 1..Cardinality(good)
        BY <1>5, <2>3
      <3> HIDE DEF good, count
      <3>3. first < i \/ first = i
        BY <1>1, <2>1, <2>2
      <3>4. rank(i) <= count
        BY <1>9, <2>1, <3>1, <3>2, <3>3
      <3>5. QED
        BY <1>3, <1>9, <3>2, <3>4
    <2>5. k \in 1..count /\ count - k + 1 = rank(i)
      <3> HIDE DEF good, count
      <3>1. QED
        BY <1>9, <2>4
    <2>6. Nth(k) \in good /\ rank(Nth(k)) = rank(i)
      BY <1>10, <2>5
    <2> HIDE DEF k
    <2>7. Nth(k) = i
      <3>1. rank(i) \in Nat
        BY <2>4
      <3>2. ~(i < Nth(k)) /\ ~(Nth(k) < i)
        BY <1>5, <2>3, <2>6, <3>1
      <3>3. QED
        BY <1>7, <2>3, <2>6, <3>2
    <2>8. QED
      BY <2>5, <2>7
  <1>15. DOMAIN t = 1..count
    OBVIOUS
  <1> HIDE DEF t, count, good
  <1>16. QED
    BY <1>4, <1>12, <1>13, <1>14, <1>15 DEF Ascends, Shows, RowsOf

\* push puts the new row behind the others and forgets the oldest.
LEMMA PushShows ==
  ASSUME NEW s \in Seq(1..MaxRows), NEW e \in 1..MaxRows,
         Ascends(s), \A i \in DOMAIN s : s[i] < e
  PROVE  /\ Push(s, e) # <<>> /\ Ascends(Push(s, e)) /\ Shows(Push(s, e), e)
         /\ \A i \in DOMAIN Push(s, e) : Push(s, e)[i] <= e
         /\ s = <<>> => Push(s, e)[1] = e
         /\ s # <<>> => s[1] <= Push(s, e)[1]
         /\ \A row \in Nat : Shows(s, row) /\ row >= Push(s, e)[1] => Shows(Push(s, e), row)
  <1> DEFINE l == LastOf(s, RingSize - 1)
             p == Append(l, e)
             d == IF Len(s) > RingSize - 1 THEN Len(s) - (RingSize - 1) ELSE 0
             n == Len(l)
  <1>1. RingSize - 1 \in Nat /\ Len(s) \in Nat /\ MaxRows \in Nat /\ e \in Nat
    BY HistorySetup, LenProperties
  <1>2. /\ l \in Seq(1..MaxRows) /\ n = IF Len(s) > RingSize - 1 THEN RingSize - 1 ELSE Len(s)
        /\ \A i \in 1..n : l[i] = s[d + i]
    BY <1>1, LastRows
  <1>3. d \in Nat /\ n \in Nat /\ d + n = Len(s)
    BY <1>1, <1>2
  <1> HIDE DEF d, l, n
  <1>4. /\ p \in Seq(1..MaxRows) /\ Len(p) = n + 1 /\ p[n + 1] = e /\ \A i \in 1..n : p[i] = l[i]
    BY <1>2, AppendProperties DEF n
  <1>5. p = Push(s, e)
    BY DEF Push, p, l
  <1> HIDE DEF p
  <1>6. DOMAIN p = 1..(n + 1) /\ DOMAIN s = 1..Len(s) /\ (s = <<>> <=> Len(s) = 0) /\ p # <<>>
    <2>1. DOMAIN p = 1..(n + 1) /\ DOMAIN s = 1..Len(s)
      BY <1>4, LenProperties
    <2>2. s = <<>> <=> Len(s) = 0
      BY EmptySeq
    <2>3. p # <<>>
      BY <1>3, <1>4, EmptySeq
    <2>4. QED
      BY <2>1, <2>2, <2>3
  <1>7. \A i \in DOMAIN s : s[i] \in Nat
    <2>1. \A i \in 1..Len(s) : s[i] \in 1..MaxRows
      BY ElementOfSeq
    <2>2. QED
      BY <1>1, <1>6, <2>1
  <1>8. \A i \in 1..n : d + i \in DOMAIN s /\ p[i] = s[d + i] /\ p[i] < e /\ p[i] \in Nat
    <2> TAKE i \in 1..n
    <2>1. d + i \in DOMAIN s
      BY <1>1, <1>3, <1>6
    <2>2. QED
      BY <1>2, <1>4, <1>7, <2>1
  <1>9. Ascends(p)
    <2> SUFFICES ASSUME NEW i \in 1..(n + 1), NEW j \in 1..(n + 1), i < j PROVE p[i] < p[j]
      BY <1>6 DEF Ascends
    <2>1. i \in 1..n
      BY <1>3
    <2>2. CASE j = n + 1
      BY <1>4, <1>8, <2>1, <2>2
    <2>3. CASE j # n + 1
      <3>1. j \in 1..n /\ d + i < d + j
        BY <1>3, <2>3
      <3>2. QED
        BY <1>8, <2>1, <3>1 DEF Ascends
    <2>4. QED
      BY <2>2, <2>3
  <1>10. n + 1 \in DOMAIN p /\ 1 \in DOMAIN p /\ Shows(p, e)
    BY <1>3, <1>4, <1>6 DEF Shows
  <1>11. \A i \in DOMAIN p : p[i] <= e /\ p[i] \in Nat
    <2> TAKE i \in DOMAIN p
    <2>1. CASE i = n + 1
      BY <1>1, <1>4, <2>1
    <2>2. CASE i # n + 1
      <3>1. i \in 1..n
        BY <1>3, <1>6, <2>2
      <3>2. QED
        BY <1>1, <1>8, <3>1
    <2>3. QED
      BY <2>1, <2>2
  <1>12. s = <<>> => p[1] = e
    <2>1. s = <<>> => n = 0
      BY <1>3, <1>6
    <2>2. QED
      BY <1>4, <2>1
  <1>13. ASSUME s # <<>> PROVE s[1] <= p[1]
    <2>1. Len(s) # 0 /\ 1 \in DOMAIN s
      BY <1>1, <1>6, <1>13
    <2>2. CASE n = 0
      BY <1>1, <1>4, <1>7, <2>1, <2>2
    <2>3. CASE n # 0
      <3>1. 1 \in 1..n
        BY <1>3, <2>3
      <3>2. p[1] = s[d + 1] /\ d + 1 \in DOMAIN s
        BY <1>8, <3>1
      <3>3. d = 0 \/ 1 < d + 1
        BY <1>3
      <3>4. d = 0 => s[d + 1] = s[1]
        OBVIOUS
      <3>5. QED
        BY <1>7, <2>1, <3>2, <3>3, <3>4 DEF Ascends
    <2>4. QED
      BY <2>2, <2>3
  <1>14. ASSUME NEW row \in Nat, NEW i \in DOMAIN s, s[i] = row, row >= p[1]
         PROVE  Shows(p, row)
    <2>1. s[i] < e
      OBVIOUS
    <2>2. n # 0
      BY <1>1, <1>4, <1>14, <2>1
    <2>3. 1 \in 1..n /\ p[1] = s[d + 1] /\ d + 1 \in DOMAIN s
      BY <1>3, <1>8, <2>2
    <2>4. ~(i < d + 1)
      BY <1>7, <1>14, <2>3 DEF Ascends
    <2>5. i - d \in 1..n /\ d + (i - d) = i
      <3>1. i \in Nat /\ i <= d + n /\ i >= d + 1
        <4>1. i \in 1..Len(s)
          BY <1>6, <1>14
        <4>2. i \in Nat /\ i >= 1 /\ i <= Len(s)
          BY <1>1, <4>1
        <4>3. QED
          BY <1>3, <2>4, <4>2
      <3>2. QED
        BY <1>3, <3>1
    <2>6. p[i - d] = s[i]
      <3>1. p[i - d] = s[d + (i - d)]
        BY <1>8, <2>5
      <3>2. QED
        BY <2>5, <3>1
    <2>7. i - d \in DOMAIN p
      BY <1>3, <1>6, <2>5
    <2>8. QED
      BY <1>14, <2>6, <2>7 DEF Shows
  <1>15. QED
    BY <1>5, <1>6, <1>9, <1>10, <1>11, <1>12, <1>13, <1>14 DEF Shows

\* A write makes no other row legible.
LEMMA GrowRows ==
  ASSUME NEW n \in Nat, NEW f, FileUpTo(f, n), InOrder(f),
         NEW len \in LineSizes, NEW got \in 0..len, NEW g, g = Grow(f, n + 1, len, got)
  PROVE  /\ InOrder(g)
         /\ RowsOf(g) \subseteq RowsOf(f) \cup {n + 1}
         /\ \A j \in DOMAIN g : g[j].row = n + 1 \/ (j \in DOMAIN f /\ g[j] = f[j])
  <1>1. f \in Seq(Write) /\ UpTo(f, n) /\ n + 1 \in Nat
    BY DEF FileUpTo, UpTo
  <1>2. CASE got = 0
    <2>1. g = f
      BY <1>2 DEF Grow
    <2>2. QED
      BY <2>1
  <1>3. CASE got # 0
    <2>1. PICK w \in Write : w.row = n + 1 /\ g = Append(f, w)
      BY <1>1, <1>3, GrowWrites
    <2>2. Grown(f, g, n, w)
      BY <1>1, <2>1, Written
    <2>3. /\ Len(g) = Len(f) + 1 /\ g[Len(f) + 1] = w /\ \A i \in 1..Len(f) : g[i] = f[i]
          /\ DOMAIN g = 1..(Len(f) + 1) /\ DOMAIN f = 1..Len(f) /\ Len(f) \in Nat
      <3>1. /\ g \in Seq(Write) /\ Len(g) = Len(f) + 1 /\ g[Len(f) + 1] = w
            /\ \A i \in 1..Len(f) : g[i] = f[i]
        BY <1>1, <2>1, AppendProperties
      <3>2. DOMAIN g = 1..Len(g) /\ DOMAIN f = 1..Len(f) /\ Len(f) \in Nat
        BY <1>1, <3>1, LenProperties
      <3>3. QED
        BY <3>1, <3>2
    <2>4. \A j \in DOMAIN g : g[j].row = n + 1 \/ (j \in DOMAIN f /\ g[j] = f[j])
      BY <2>1, <2>3
    <2>5. ASSUME NEW j \in DOMAIN g, Legible(g, j), g[j].row # n + 1
          PROVE  g[j].row \in RowsOf(f)
      <3>1. j \in 1..Len(f) /\ g[j] = f[j] /\ j # Len(g)
        BY <2>1, <2>3, <2>5
      <3>2. j # 1 => j - 1 \in 1..Len(f) /\ g[j - 1] = f[j - 1]
        BY <2>3, <3>1
      <3>3. Legible(f, j)
        BY <2>5, <3>1, <3>2 DEF Legible
      <3>4. QED
        BY <2>3, <3>1, <3>3 DEF RowsOf
    <2>6. QED
      BY <2>2, <2>4, <2>5 DEF Grown, RowsOf
  <1>4. QED
    BY <1>2, <1>3

\* What a row in hand does to the two files, written, cut, lost, rotated for or not.
LEMMA RowFiles ==
  ASSUME NEW len \in LineSizes, Record(len) \/ Killed(len)
  PROVE  \E got \in 0..len :
           \/ live' = Grow(live, rows + 1, len, got) /\ old' = old
           \/ live' = Grow(<<>>, rows + 1, len, got) /\ old' = live
  <1>1. len \in Nat /\ len > 0 /\ 0 \in 0..len
    BY Limits
  <1>2. \A f : Grow(f, rows + 1, len, 0) = f
    BY DEF Grow
  <1>3. CASE Killed(len)
    <2>1. CASE UNCHANGED <<live, old>>
      BY <1>1, <1>2, <2>1
    <2>2. ASSUME NEW got \in 0..(len - 1),
                 IF Fits(len)
                   THEN live' = Grow(live, rows + 1, len, got) /\ UNCHANGED old
                   ELSE live' = Grow(<<>>, rows + 1, len, got) /\ old' = live
          PROVE  \E n \in 0..len :
                   \/ live' = Grow(live, rows + 1, len, n) /\ old' = old
                   \/ live' = Grow(<<>>, rows + 1, len, n) /\ old' = live
      <3>1. got \in 0..len
        BY <1>1
      <3>2. QED
        BY <2>2, <3>1
    <2>3. QED
      BY <1>3, <2>1, <2>2 DEF Killed
  <1>4. ASSUME NEW fault \in BOOLEAN, NEW f, NEW at, WriteLine(f, at, len, fault)
        PROVE  \E got \in 0..len : live' = Grow(f, rows + 1, len, got)
    <2>1. PICK got \in IF fault THEN 0..len ELSE {len} : live' = Grow(f, rows + 1, len, got)
      BY <1>4 DEF WriteLine
    <2>2. got \in 0..len
      BY <1>1
    <2>3. QED
      BY <2>1, <2>2
  <1>5. CASE Record(len)
    <2>1. PICK fault \in BOOLEAN :
            \/ RecordFits(len, fault)
            \/ RecordRotates(len, fault)
            \/ UNCHANGED <<sink, size, live, old, misses>>
      BY <1>5 DEF Record, Fault
    <2>2. CASE RecordFits(len, fault)
      BY <1>4, <2>2 DEF RecordFits
    <2>3. CASE RecordRotates(len, fault)
      <3>1. PICK renamed \in BOOLEAN :
              LET fresh == IF renamed THEN <<>> ELSE live IN
              /\ old' = IF renamed THEN live ELSE old
              /\ \/ WriteLine(fresh, 0, len, fault)
                 \/ live' = fresh
        BY <2>3 DEF RecordRotates, Opened
      <3>2. PICK got \in 0..len :
              LET fresh == IF renamed THEN <<>> ELSE live IN
              live' = Grow(fresh, rows + 1, len, got)
        BY <1>1, <1>2, <1>4, <3>1
      <3>3. QED
        BY <3>1, <3>2
    <2>4. CASE UNCHANGED <<sink, size, live, old, misses>>
      BY <1>1, <1>2, <2>4
    <2>5. QED
      BY <2>1, <2>2, <2>3, <2>4
  <1>6. QED
    BY <1>3, <1>5

\* The files stay in line, and show no row they did not but the one in hand.
LEMMA LineKept ==
  ASSUME RingInv, InLine, NEW len \in LineSizes, Record(len) \/ Killed(len)
  PROVE  /\ rows \in Nat /\ rows' = rows + 1 /\ rows + 1 \in 1..MaxRows
         /\ InOrder(live') /\ InOrder(old')
         /\ \A i \in DOMAIN old', j \in DOMAIN live' : old'[i].row < live'[j].row
         /\ OnDisk' \subseteq OnDisk \cup {rows + 1}
  <1>1. /\ FileUpTo(live, rows) /\ FileUpTo(old, rows) /\ rows \in Nat /\ MaxRows \in Nat
        /\ rows' = rows + 1 /\ rows < MaxRows
    BY WrittenFiles, HistorySetup DEF RingInv, Kept, TypeOK
  <1>2. PICK got \in 0..len :
          \/ live' = Grow(live, rows + 1, len, got) /\ old' = old
          \/ live' = Grow(<<>>, rows + 1, len, got) /\ old' = live
    BY RowFiles
  <1>3. PICK r \in Nat : r = rows
    BY <1>1
  <1>4. /\ \A i \in DOMAIN live : live[i].row \in Nat /\ live[i].row < r + 1
        /\ \A i \in DOMAIN old : old[i].row \in Nat /\ old[i].row < r + 1
    BY <1>1, <1>3 DEF FileUpTo
  <1>5. OnDisk' = RowsOf(live') \cup RowsOf(old')
    BY DEF OnDisk, RowsOf, Legible
  <1>6. CASE live' = Grow(live, rows + 1, len, got) /\ old' = old
    <2>1. PICK f : f = live
      OBVIOUS
    <2>2. PICK g : g = Grow(f, r + 1, len, got)
      OBVIOUS
    <2>3. /\ InOrder(g) /\ RowsOf(g) \subseteq RowsOf(f) \cup {r + 1}
          /\ \A j \in DOMAIN g : g[j].row = r + 1 \/ (j \in DOMAIN f /\ g[j] = f[j])
      <3>1. FileUpTo(f, r) /\ InOrder(f)
        BY <1>1, <1>3, <2>1 DEF InLine
      <3>2. QED
        BY <2>2, <3>1, GrowRows
    <2>4. live' = g
      BY <1>3, <1>6, <2>1, <2>2
    <2>5. \A i \in DOMAIN old, j \in DOMAIN g : old[i].row < g[j].row
      BY <1>4, <2>1, <2>3 DEF InLine
    <2>6. OnDisk' \subseteq OnDisk \cup {rows + 1}
      BY <1>3, <1>5, <1>6, <2>1, <2>3, <2>4 DEF OnDisk
    <2>7. QED
      BY <1>1, <1>6, <2>3, <2>4, <2>5, <2>6 DEF InLine
  <1>7. CASE live' = Grow(<<>>, rows + 1, len, got) /\ old' = live
    <2>1. PICK f : f = <<>>
      OBVIOUS
    <2>2. PICK g : g = Grow(f, r + 1, len, got)
      OBVIOUS
    <2>3. DOMAIN f = {} /\ RowsOf(f) = {}
      BY <2>1, EmptySeq DEF RowsOf
    <2>4. /\ InOrder(g) /\ RowsOf(g) \subseteq {r + 1}
          /\ \A j \in DOMAIN g : g[j].row = r + 1
      <3>1. FileUpTo(f, r) /\ InOrder(f)
        BY <2>1, <2>3, NoFile DEF InOrder
      <3>2. /\ InOrder(g) /\ RowsOf(g) \subseteq RowsOf(f) \cup {r + 1}
            /\ \A j \in DOMAIN g : g[j].row = r + 1 \/ (j \in DOMAIN f /\ g[j] = f[j])
        BY <2>2, <3>1, GrowRows
      <3>3. QED
        BY <2>3, <3>2
    <2>5. live' = g
      BY <1>3, <1>7, <2>1, <2>2
    <2>6. OnDisk' \subseteq OnDisk \cup {rows + 1}
      BY <1>3, <1>5, <1>7, <2>4, <2>5 DEF OnDisk
    <2>7. \A i \in DOMAIN live, j \in DOMAIN g : live[i].row < g[j].row
      BY <1>4, <2>4
    <2>8. QED
      BY <1>1, <1>7, <2>4, <2>5, <2>6, <2>7 DEF InLine
  <1>8. QED
    BY <1>2, <1>6, <1>7

-----------------------------------------------------------------------------
LEMMA SkipInit == Init => SkipInv
  <1> SUFFICES ASSUME Init PROVE SkipInv
    OBVIOUS
  <1>1. DOMAIN <<>> = {}
    BY EmptySeq
  <1>2. InLine
    BY <1>1 DEF Init, InLine, InOrder
  <1>3. ConsoleSkipsNothing
    BY DEF Init, ConsoleSkipsNothing
  <1>4. QED
    BY <1>2, <1>3, RingInit DEF SkipInv

\* What tail restores has no hole, and the older file holds only older rows.
LEMMA SkipStart == ASSUME SkipInv, Start PROVE InLine' /\ ConsoleSkipsNothing'
  <1>1. /\ live' = live /\ old' = old /\ rows' = rows
        /\ \/ sink' = "file" /\ ring' = TailOf(live)
           \/ sink' = "none" /\ ring' = ring
    BY DEF Start, Opened
  <1>2. /\ FileUpTo(live, rows) /\ FileUpTo(old, rows) /\ rows \in Nat
        /\ InOrder(live) /\ InOrder(old)
        /\ \A i \in DOMAIN old, j \in DOMAIN live : old[i].row < live[j].row
        /\ \A i \in DOMAIN ring : ring[i] <= rows
    BY DEF SkipInv, RingInv, Kept, TypeOK, InLine
  <1>3. /\ \A i \in DOMAIN live : live[i].row \in 1..rows
        /\ \A i \in DOMAIN old : old[i].row \in 1..rows
    BY <1>2 DEF FileUpTo
  <1>4. PICK t : t = TailOf(live)
    OBVIOUS
  <1>5. /\ Ascends(t)
        /\ \A i \in DOMAIN t : \E p \in DOMAIN live : t[i] = live[p].row
        /\ t # <<>> => \A row \in RowsOf(live) : row >= t[1] => Shows(t, row)
        /\ t \in Seq(1..rows)
    BY <1>2, <1>4, TailNewest, TailRows
  <1>6. t # <<>> => 1 \in DOMAIN t
    BY <1>2, <1>5, LenProperties, EmptySeq
  <1>7. InLine'
    <2>1. \A i \in DOMAIN t : t[i] <= rows
      BY <1>2, <1>3, <1>5
    <2>2. \A i \in DOMAIN ring' : ring'[i] <= rows'
      BY <1>1, <1>2, <1>4, <2>1
    <2>3. QED
      BY <1>1, <1>2, <2>2 DEF InLine
  <1>8. ASSUME sink' = "file", ring' = t, t # <<>>
        PROVE  /\ \A i, j \in DOMAIN t : i < j => t[i] < t[j]
               /\ \A row \in OnDisk : row >= t[1] => \E i \in DOMAIN t : t[i] = row
    <2>1. ASSUME NEW i \in DOMAIN old, old[i].row >= t[1] PROVE FALSE
      <3>1. PICK p \in DOMAIN live : t[1] = live[p].row
        BY <1>5, <1>6, <1>8
      <3>2. QED
        BY <1>2, <1>3, <2>1, <3>1
    <2>2. \A row \in RowsOf(old) : ~(row >= t[1])
      BY <2>1 DEF RowsOf
    <2>3. QED
      BY <1>5, <1>8, <2>2 DEF Ascends, Shows, OnDisk
  <1>9. OnDisk' = OnDisk
    BY <1>1 DEF OnDisk, RowsOf, Legible
  <1>10. ConsoleSkipsNothing'
    BY <1>1, <1>4, <1>8, <1>9 DEF ConsoleSkipsNothing
  <1>11. QED
    BY <1>7, <1>10

\* A row is shown as soon as it may be on disk.
LEMMA SkipRecord ==
  ASSUME SkipInv, NEW len \in LineSizes, Record(len)
  PROVE  InLine' /\ ConsoleSkipsNothing'
  <1>1. /\ rows \in Nat /\ rows' = rows + 1 /\ rows + 1 \in 1..MaxRows
        /\ InOrder(live') /\ InOrder(old')
        /\ \A i \in DOMAIN old', j \in DOMAIN live' : old'[i].row < live'[j].row
        /\ OnDisk' \subseteq OnDisk \cup {rows + 1}
    BY LineKept DEF SkipInv
  <1>2. /\ ring \in Seq(1..MaxRows) /\ \A i \in DOMAIN ring : ring[i] <= rows
        /\ FileUpTo(live, rows) /\ FileUpTo(old, rows)
    BY DEF SkipInv, RingInv, Kept, TypeOK, RowSeq, InLine
  <1>3. /\ sink \in {"none", "memory", "file"}
        /\ ring' = IF sink = "none" THEN ring ELSE Push(ring, rows + 1)
        /\ sink' \in {"file", "memory"} => sink \in {"file", "memory"}
    <2>1. sink \in {"none", "memory", "file"}
      BY DEF Record, SkipInv, RingInv, TypeOK
    <2>2. sink' = sink \/ (sink = "file" /\ sink' = "memory")
      BY DEF Record, RecordFits, RecordRotates
    <2>3. ring' = IF sink = "none" THEN ring ELSE Push(ring, rows + 1)
      BY DEF Record
    <2>4. QED
      BY <2>1, <2>2, <2>3
  <1>4. \A i \in DOMAIN ring : ring[i] \in Nat
    <2>1. DOMAIN ring = 1..Len(ring) /\ \A i \in 1..Len(ring) : ring[i] \in 1..MaxRows
      BY <1>2, LenProperties, ElementOfSeq
    <2>2. QED
      BY <2>1
  <1>5. \A row \in OnDisk : row \in Nat
    BY <1>1, <1>2 DEF OnDisk, RowsOf, FileUpTo
  <1>6. CASE sink = "none"
    <2>1. ring' = ring /\ sink' \notin {"file", "memory"}
      BY <1>3, <1>6
    <2>2. \A i \in DOMAIN ring : ring[i] <= rows + 1
      BY <1>1, <1>2, <1>4
    <2>3. QED
      BY <1>1, <2>1, <2>2 DEF InLine, ConsoleSkipsNothing
  <1>7. CASE sink # "none"
    <2>1. PICK s, e : s = ring /\ e = rows + 1
      OBVIOUS
    <2>2. PICK p : p = Push(s, e)
      OBVIOUS
    <2>3. ring' = p /\ s \in Seq(1..MaxRows) /\ e \in 1..MaxRows /\ e \in Nat
      BY <1>1, <1>2, <1>3, <1>7, <2>1, <2>2
    <2>4. \A i \in DOMAIN s : s[i] < e /\ s[i] \in Nat
      BY <1>1, <1>2, <1>4, <2>1
    <2>5. /\ Ascends(s)
          /\ s # <<>> => \A row \in OnDisk : row >= s[1] => Shows(s, row)
      <3>1. sink \in {"file", "memory"}
        BY <1>3, <1>7
      <3>2. DOMAIN <<>> = {}
        BY EmptySeq
      <3>3. QED
        BY <2>1, <3>1, <3>2 DEF SkipInv, ConsoleSkipsNothing, Ascends, Shows
    <2>6. /\ p # <<>> /\ Ascends(p) /\ Shows(p, e)
          /\ \A i \in DOMAIN p : p[i] <= e
          /\ s = <<>> => p[1] = e
          /\ s # <<>> => s[1] <= p[1]
          /\ \A row \in Nat : Shows(s, row) /\ row >= p[1] => Shows(p, row)
      BY <2>2, <2>3, <2>4, <2>5, PushShows
    <2>7. s # <<>> => s[1] \in Nat
      BY <2>3, <2>4, LenProperties, EmptySeq
    <2>8. p[1] \in Nat
      <3>1. p \in Seq(1..MaxRows)
        <4>1. RingSize - 1 \in Nat
          BY HistorySetup
        <4>2. LastOf(s, RingSize - 1) \in Seq(1..MaxRows)
          BY <2>3, <4>1, LastRows
        <4>3. QED
          BY <2>2, <2>3, <4>2, AppendProperties DEF Push
      <3>2. p[1] \in 1..MaxRows
        <4>1. 1 \in 1..Len(p)
          BY <2>6, <3>1, LenProperties, EmptySeq
        <4>2. QED
          BY <3>1, <4>1, ElementOfSeq
      <3>3. QED
        BY <3>2, HistorySetup
    <2>9. ASSUME NEW row \in OnDisk', row >= p[1] PROVE Shows(p, row)
      <3>1. CASE row = e
        BY <2>6, <3>1
      <3>2. CASE row # e
        <4>1. row \in OnDisk /\ row \in Nat
          BY <1>1, <1>5, <2>1, <3>2
        <4>2. s # <<>>
          <5>1. row < e
            BY <1>1, <1>2, <2>1, <4>1 DEF OnDisk, RowsOf, FileUpTo
          <5>2. QED
            BY <2>3, <2>6, <2>9, <4>1, <5>1
        <4>3. row >= s[1]
          BY <2>6, <2>7, <2>8, <2>9, <4>1, <4>2
        <4>4. QED
          BY <2>5, <2>6, <2>9, <4>1, <4>2, <4>3
      <3>3. QED
        BY <3>1, <3>2
    <2>10. ConsoleSkipsNothing'
      BY <2>3, <2>6, <2>9 DEF ConsoleSkipsNothing, Ascends, Shows
    <2>11. InLine'
      BY <1>1, <2>1, <2>3, <2>6 DEF InLine
    <2>12. QED
      BY <2>10, <2>11
  <1>8. QED
    BY <1>6, <1>7

\* A process that ends shows nothing.
LEMMA SkipDown ==
  ASSUME SkipInv, Stop \/ \E len \in LineSizes : Killed(len)
  PROVE  InLine' /\ ConsoleSkipsNothing'
  <1>1. sink' = "down" /\ ring' = <<>>
    BY DEF Stop, Killed, Down
  <1>2. ConsoleSkipsNothing'
    BY <1>1 DEF ConsoleSkipsNothing
  <1>3. \A i \in DOMAIN ring' : ring'[i] <= rows'
    BY <1>1, EmptySeq
  <1>4. CASE Stop
    <2>1. UNCHANGED <<live, old, rows>>
      BY <1>4 DEF Stop
    <2>2. QED
      BY <1>2, <1>3, <2>1 DEF SkipInv, InLine
  <1>5. ASSUME NEW len \in LineSizes, Killed(len) PROVE InLine'
    <2>1. /\ InOrder(live') /\ InOrder(old')
          /\ \A i \in DOMAIN old', j \in DOMAIN live' : old'[i].row < live'[j].row
      BY <1>5, LineKept DEF SkipInv
    <2>2. QED
      BY <1>3, <2>1 DEF InLine
  <1>6. QED
    BY <1>2, <1>4, <1>5

LEMMA SkipStep == SkipInv /\ [Next]_vars => SkipInv'
  <1> SUFFICES ASSUME SkipInv, [Next]_vars PROVE SkipInv'
    OBVIOUS
  <1>1. RingInv'
    BY RingStep DEF SkipInv
  <1>2. CASE UNCHANGED vars
    <2>1. UNCHANGED <<sink, ring, live, old, rows>>
      BY <1>2 DEF vars
    <2>2. InLine'
      BY <2>1 DEF SkipInv, InLine
    <2>3. ConsoleSkipsNothing'
      BY <2>1 DEF SkipInv, ConsoleSkipsNothing, OnDisk, RowsOf, Legible
    <2>4. QED
      BY <1>1, <2>2, <2>3 DEF SkipInv
  <1>3. CASE Next
    <2>1. InLine' /\ ConsoleSkipsNothing'
      BY <1>3, SkipStart, SkipRecord, SkipDown DEF Next
    <2>2. QED
      BY <1>1, <2>1 DEF SkipInv
  <1>4. QED
    BY <1>2, <1>3

\* Whatever cut lines, glued lines, rotations, restarts and disk failures lie behind it,
\* the console has no hole: it shows every row the files can still show from its oldest
\* on, in the order they were recorded (Record, push, rotate, tail).
THEOREM NoHole == Spec => []ConsoleSkipsNothing
  <1>1. SkipInv => ConsoleSkipsNothing
    BY DEF SkipInv
  <1>2. QED
    BY <1>1, SkipInit, SkipStep, PTL DEF Spec
=============================================================================
