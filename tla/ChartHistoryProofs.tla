------------------------- MODULE ChartHistoryProofs -------------------------
(***************************************************************************)
(* Proofs about ChartHistory, for any number of points, series and ticks   *)
(* and any order of updates.                                               *)
(*                                                                         *)
(* The argument: seen from the head, a row holds its points by age, the    *)
(* oldest under the head.  A row that is written before the head advances  *)
(* loses its oldest point and keeps the newest in that place, which the    *)
(* next step of the head makes the last.                                   *)
(***************************************************************************)
EXTENDS ChartHistory, TLAPS

-----------------------------------------------------------------------------
(* The invariant.                                                          *)

\* The point of k ticks before tick t.
Aged(t, k) == IF t > k THEN t - k ELSE 0

\* The head has advanced in this tick.
Advanced == 0 \notin todo

\* The tick whose point the last place before the head is for.
Now == IF Advanced THEN tick + 1 ELSE tick

\* Row s has the tick's point and the head has not advanced: the point is
\* under the head.
Early(s) == s \notin todo /\ ~Advanced

\* The cell of row s that is j places from the head.
Around(j) == (headIdx + j) % MaxPoints
Place(s, j) == s * MaxPoints + Around(j)

Places == 0 .. MaxPoints - 1

\* What the caller keeps by updating series 0 last.
ZeroWaits == ZeroLast /\ todo # {} => 0 \in todo

RowsAged ==
  \A s \in Rows : s = 0 \/ ZeroLast =>
    \A j \in Places :
      data[Place(s, j)] = IF j = 0 /\ Early(s) THEN tick + 1
                                               ELSE Aged(Now, MaxPoints - 1 - j)

\* The page was told since the array was allocated.
Told == tick > 0 \/ todo # Rows

PageFollows ==
  /\ numSeries = 0 => page.series = <<>>
  /\ Told => /\ page.series = Serialised.series
             /\ numSeries = 0 => page.data = Serialised.data

\* A tick that began was within the bound.
WithinTicks == todo # Rows => tick < MaxTicks

ChartInv == TypeOK /\ WithinTicks /\ ZeroWaits /\ RowsAged /\ PageFollows

-----------------------------------------------------------------------------
(* Rings and rows.                                                         *)

\* Going once around a ring: no place is met twice, and the step of the head
\* moves every place by one.
LEMMA Ring ==
  ASSUME NEW h \in Places, NEW j \in Places
  PROVE  /\ (h + j) % MaxPoints = IF h + j < MaxPoints THEN h + j ELSE h + j - MaxPoints
         /\ (h + j) % MaxPoints \in Places
<1>1. MaxPoints \in Nat \ {0} /\ h \in Nat /\ j \in Nat /\ h < MaxPoints /\ j < MaxPoints
  BY ChartAssumptions DEF Places
<1>2. CASE h + j < MaxPoints
  BY <1>1, <1>2 DEF Places
<1>3. CASE h + j >= MaxPoints
  <2>1. h + j - MaxPoints \in 0 .. MaxPoints - 1
    BY <1>1, <1>3
  <2>2. (h + j) % MaxPoints = h + j - MaxPoints
    BY <1>1, <2>1
  <2>3. QED
    BY <1>1, <1>3, <2>1, <2>2 DEF Places
<1>4. QED
  BY <1>1, <1>2, <1>3

\* The rows do not overlap, and end with the array.
LEMMA RowsApart ==
  ASSUME NEW s \in Nat, NEW r \in Nat
  PROVE  /\ \A a, b \in Places : s * MaxPoints + a = r * MaxPoints + b => s = r /\ a = b
         /\ s < r => \A a \in Places : s * MaxPoints + a \in 0 .. r * MaxPoints - 1
<1>1. MaxPoints \in Nat \ {0} /\ \A a \in Places : a \in Nat /\ a < MaxPoints
  BY ChartAssumptions DEF Places
<1>2. \A x, y \in Nat : x < y => x * MaxPoints + MaxPoints <= y * MaxPoints
  <2>1. SUFFICES ASSUME NEW x \in Nat, NEW y \in Nat, x < y
                 PROVE  x * MaxPoints + MaxPoints <= y * MaxPoints
    OBVIOUS
  <2>2. PICK d \in Nat : y = x + 1 + d
    <3>1. y - x - 1 \in Nat /\ y = x + 1 + (y - x - 1)
      BY <2>1
    <3>2. QED
      BY <3>1
  <2>3. y * MaxPoints = x * MaxPoints + MaxPoints + d * MaxPoints
    BY <1>1, <2>2
  <2>4. d * MaxPoints \in Nat /\ x * MaxPoints \in Nat
    BY <1>1
  <2>5. QED
    BY <1>1, <2>3, <2>4
<1>3. s * MaxPoints \in Nat /\ r * MaxPoints \in Nat
  BY <1>1
<1>4. s < r => s * MaxPoints + MaxPoints <= r * MaxPoints
  BY <1>2
<1>5. r < s => r * MaxPoints + MaxPoints <= s * MaxPoints
  BY <1>2
<1>6. s < r \/ s = r \/ r < s
  OBVIOUS
<1>7. QED
  BY <1>1, <1>3, <1>4, <1>5, <1>6

\* One step of the head: the place j from it is the one that was j + 1 from
\* it, and the last is the one it was at.
LEMMA HeadStep ==
  ASSUME NEW h \in Places, NEW j \in Places
  PROVE  /\ (h + 1) % MaxPoints \in Places
         /\ j < MaxPoints - 1 =>
              /\ j + 1 \in Places
              /\ (((h + 1) % MaxPoints) + j) % MaxPoints = (h + (j + 1)) % MaxPoints
         /\ j = MaxPoints - 1 => (((h + 1) % MaxPoints) + j) % MaxPoints = h
<1>1. MaxPoints \in Nat \ {0} /\ h \in Nat /\ j \in Nat /\ h < MaxPoints /\ j < MaxPoints
  BY ChartAssumptions DEF Places
<1>2. CASE h + 1 < MaxPoints
  <2>1. (h + 1) % MaxPoints = h + 1 /\ h + 1 \in Places
    BY <1>1, <1>2 DEF Places
  <2>2. ((h + 1) + j) % MaxPoints =
          IF h + 1 + j < MaxPoints THEN h + 1 + j ELSE h + 1 + j - MaxPoints
    BY <2>1, Ring
  <2>3. j < MaxPoints - 1 => j + 1 \in Places
    BY <1>1 DEF Places
  <2>4. h + (j + 1) = (h + 1) + j
    BY <1>1
  <2>5. j = MaxPoints - 1 => ~(h + 1 + j < MaxPoints) /\ h + 1 + j - MaxPoints = h
    BY <1>1
  <2>6. QED
    BY <2>1, <2>2, <2>3, <2>4, <2>5
<1>3. CASE h + 1 = MaxPoints
  <2>1. (h + 1) % MaxPoints = 0 /\ 0 \in Places
    BY <1>1, <1>3 DEF Places
  <2>2. 0 + j = j /\ j % MaxPoints = j
    BY <1>1
  <2>3. ASSUME j < MaxPoints - 1
        PROVE  j + 1 \in Places /\ (h + (j + 1)) % MaxPoints = j
    <3>1. j + 1 \in Places
      BY <1>1, <2>3 DEF Places
    <3>2. ~(h + (j + 1) < MaxPoints) /\ h + (j + 1) - MaxPoints = j
      BY <1>1, <1>3
    <3>3. QED
      BY <3>1, <3>2, Ring
  <2>4. j = MaxPoints - 1 => j = h
    BY <1>1, <1>3
  <2>5. QED
    BY <2>1, <2>2, <2>3, <2>4
<1>4. QED
  BY <1>1, <1>2, <1>3

\* The two serialisations read the same cells.
LEMMA SameRow ==
  ASSUME NEW d, NEW h \in Places, NEW s \in Nat
  PROVE  BroadcastRow(d, h, s) =
           [i \in 1 .. MaxPoints |-> d[((h + i - 1) % MaxPoints) + s * MaxPoints]]
<1>1. MaxPoints \in Nat \ {0} /\ h \in Nat
  BY ChartAssumptions DEF Places
<1>2. \A i \in 1 .. MaxPoints :
        s * MaxPoints + ((h + i - 1) % MaxPoints) = ((h + i - 1) % MaxPoints) + s * MaxPoints
  <2>1. SUFFICES ASSUME NEW i \in 1 .. MaxPoints
                 PROVE  s * MaxPoints \in Int /\ (h + i - 1) % MaxPoints \in Int
    OBVIOUS
  <2>2. QED
    BY <1>1
<1>3. QED
  BY <1>2 DEF BroadcastRow

\* The rows an array holds.
Count(ns) == IF ns = 0 THEN 1 ELSE ns

LEMMA RowFacts ==
  ASSUME NEW ns \in Nat
  PROVE  /\ Count(ns) \in Nat /\ 0 \in RowsOf(ns)
         /\ \A s : s \in RowsOf(ns) <=> s \in Nat /\ s < Count(ns)
BY DEF RowsOf, Count

\* A row of an array of points is a row of points.
LEMMA RowType ==
  ASSUME NEW ns \in Nat, NEW d \in [0 .. Count(ns) * MaxPoints - 1 -> Points],
         NEW h \in Places, NEW s \in RowsOf(ns)
  PROVE  BroadcastRow(d, h, s) \in Row
<1>1. MaxPoints \in Nat \ {0} /\ s \in Nat /\ Count(ns) \in Nat /\ s < Count(ns)
  BY ChartAssumptions, RowFacts
<1>2. ASSUME NEW i \in 1 .. MaxPoints
      PROVE  d[s * MaxPoints + ((h + i - 1) % MaxPoints)] \in Points
  <2>1. i - 1 \in Places /\ h + i - 1 = h + (i - 1)
    BY <1>1 DEF Places
  <2>2. (h + i - 1) % MaxPoints \in Places
    BY <2>1, Ring
  <2>3. \A a \in Places : s * MaxPoints + a \in 0 .. Count(ns) * MaxPoints - 1
    BY <1>1, RowsApart
  <2>4. QED
    BY <2>2, <2>3
<1>3. QED
  BY <1>2 DEF BroadcastRow, Row

LEMMA TypeFacts ==
  ASSUME TypeOK
  PROVE  /\ MaxPoints \in Nat \ {0} /\ headIdx \in Places /\ headIdx % MaxPoints = headIdx
         /\ numSeries \in Nat /\ tick \in Nat /\ 0 \in Rows
         /\ \A s : s \in Rows <=> s \in Nat /\ s < Count(numSeries)
         /\ data \in [0 .. Count(numSeries) * MaxPoints - 1 -> Points]
<1>1. MaxPoints \in Nat \ {0} /\ headIdx \in Places /\ numSeries \in Nat /\ tick \in Nat
  BY ChartAssumptions DEF TypeOK, Places
<1>2. headIdx % MaxPoints = headIdx
  BY <1>1 DEF Places
<1>3. QED
  BY <1>1, <1>2, RowFacts DEF TypeOK, Count, Rows

-----------------------------------------------------------------------------
(* One point of one row, updatePoint or updateSeries.                      *)

\* What an update does to the rings.
Written(s) ==
  /\ MayUpdate(s)
  /\ data' = [data EXCEPT ![Cell(s)] = tick + 1]
  /\ headIdx' = HeadAfter(s)
  /\ todo' = todo \ {s}
  /\ UNCHANGED <<numSeries, tick>>

LEMMA PointIsWritten ==
  ASSUME TypeOK, UpdatePoint
  PROVE  Written(0)
<1>1. MaxPoints \in Nat /\ headIdx \in Nat /\ headIdx % MaxPoints = headIdx
  BY TypeFacts DEF Places
<1>2. 0 * MaxPoints + headIdx = headIdx
  BY <1>1
<1>3. Cell(0) = headIdx % MaxPoints
  BY <1>1, <1>2 DEF Cell
<1>4. QED
  BY <1>3 DEF UpdatePoint, Written, HeadAfter

LEMMA SeriesIsWritten ==
  ASSUME NEW s, UpdateSeries(s)
  PROVE  Written(s)
BY DEF UpdateSeries, Written

LEMMA WrittenKeepsType ==
  ASSUME TypeOK, NEW s \in Rows, Written(s)
  PROVE  /\ headIdx' \in Places /\ tick + 1 \in Points
         /\ data' \in [0 .. Count(numSeries) * MaxPoints - 1 -> Points]
         /\ Cell(s) \in DOMAIN data /\ Cell(s) = s * MaxPoints + headIdx
<1>1. tick + 1 \in Points
  BY ChartAssumptions DEF TypeOK, Written, MayUpdate, Points
<1>2. headIdx' \in Places
  BY TypeFacts, HeadStep DEF Written, HeadAfter
<1>3. s \in Nat /\ s < Count(numSeries) /\ Count(numSeries) \in Nat
  BY TypeFacts, RowFacts
<1>4. Cell(s) = s * MaxPoints + headIdx
  BY TypeFacts DEF Cell
<1>5. Cell(s) \in 0 .. Count(numSeries) * MaxPoints - 1
  BY <1>3, <1>4, TypeFacts, RowsApart
<1>6. QED
  BY <1>1, <1>2, <1>4, <1>5, TypeFacts DEF Written

\* Every cell but the one of the row under the head keeps its point.
LEMMA WrittenCells ==
  ASSUME TypeOK, NEW s \in Rows, Written(s), NEW r \in Rows, NEW j \in Places
  PROVE  /\ Around(0) = headIdx
         /\ Place(r, 0) = r * MaxPoints + headIdx
         /\ data'[Place(s, 0)] = tick + 1
         /\ r # s \/ j # 0 => data'[Place(r, j)] = data[Place(r, j)]
<1>1. s \in Nat /\ r \in Nat /\ headIdx \in Places /\ MaxPoints \in Nat \ {0}
  BY TypeFacts
<1>2. 0 \in Places /\ Around(0) = headIdx
  BY <1>1, TypeFacts DEF Places, Around
<1>3. Place(r, 0) = r * MaxPoints + headIdx /\ Place(s, 0) = s * MaxPoints + headIdx
  BY <1>2 DEF Place
<1>4. Cell(s) = Place(s, 0) /\ Cell(s) \in DOMAIN data
  BY <1>3, WrittenKeepsType
<1>5. data'[Place(s, 0)] = tick + 1
  BY <1>4, TypeFacts DEF Written
<1>6. Around(j) \in Places /\ (j # 0 => Around(j) # headIdx)
  <2>1. /\ Around(j) = IF headIdx + j < MaxPoints THEN headIdx + j ELSE headIdx + j - MaxPoints
        /\ Around(j) \in Places
    BY <1>1, Ring DEF Around
  <2>2. headIdx \in Nat /\ j \in Nat /\ j < MaxPoints
    BY <1>1 DEF Places
  <2>3. QED
    BY <1>1, <2>1, <2>2
<1>7. r # s \/ j # 0 => Place(r, j) # Place(s, 0)
  <2>1. \A a, b \in Places : r * MaxPoints + a = s * MaxPoints + b => r = s /\ a = b
    BY <1>1, RowsApart
  <2>2. QED
    BY <1>1, <1>3, <1>6, <2>1 DEF Place
<1>8. QED
  BY <1>2, <1>3, <1>4, <1>5, <1>7, TypeFacts DEF Written

LEMMA WrittenKeepsRows ==
  ASSUME ChartInv, NEW s \in Rows, Written(s)
  PROVE  WithinTicks' /\ ZeroWaits' /\ RowsAged'
<1>1. TypeOK /\ ZeroWaits /\ RowsAged /\ s \in todo /\ tick \in Nat
  BY TypeFacts DEF ChartInv, Written, MayUpdate
<1>2. todo' = todo \ {s} /\ tick' = tick /\ numSeries' = numSeries /\ Rows' = Rows
  BY DEF Written, Rows
<1>3. ZeroLast /\ s = 0 => todo = {0}
  BY DEF Written, MayUpdate
<1>4. WithinTicks' /\ ZeroWaits'
  BY <1>1, <1>2, <1>3 DEF ZeroWaits, WithinTicks, Written, MayUpdate
<1>5. SUFFICES ASSUME NEW r \in Rows, r = 0 \/ ZeroLast, NEW j \in Places
               PROVE  data'[Place(r, j)'] = IF j = 0 /\ Early(r)' THEN tick + 1
                                            ELSE Aged(Now', MaxPoints - 1 - j)
  BY <1>2, <1>4 DEF RowsAged, Aged
<1>6. CASE s # 0
  <2>1. headIdx' = headIdx /\ Place(r, j)' = Place(r, j)
    BY <1>2, <1>6 DEF Written, HeadAfter, Place, Around
  <2>2. (Advanced' <=> Advanced) /\ Now' = Now
    BY <1>2, <1>6 DEF Advanced, Now
  <2>3. CASE r # s
    <3>1. Early(r)' <=> Early(r)
      BY <1>2, <2>2, <2>3 DEF Early
    <3>2. QED
      BY <1>1, <1>5, <2>1, <2>2, <2>3, <3>1, WrittenCells DEF RowsAged
  <2>4. CASE r = s /\ j # 0
    BY <1>1, <1>5, <2>1, <2>2, <2>4, WrittenCells DEF RowsAged
  <2>5. CASE r = s /\ j = 0
    <3>1. ~Advanced /\ Early(r)'
      BY <1>1, <1>2, <1>5, <1>6, <2>2, <2>5 DEF ZeroWaits, Advanced, Early
    <3>2. data'[Place(s, 0)] = tick + 1
      BY <1>1, WrittenCells
    <3>3. QED
      BY <2>1, <2>5, <3>1, <3>2
  <2>6. QED
    BY <2>3, <2>4, <2>5
<1>7. CASE s = 0
  <2>1. Advanced' /\ ~Advanced /\ ~Early(r)' /\ Now = tick /\ Now' = tick + 1
    BY <1>1, <1>2, <1>7 DEF Advanced, Early, Now
  <2>2. headIdx' = (headIdx + 1) % MaxPoints
    BY <1>7 DEF Written, HeadAfter
  <2>3. headIdx \in Places /\ MaxPoints \in Nat \ {0} /\ j \in Nat /\ j < MaxPoints
    BY <1>1, TypeFacts DEF Places
  <2>4. CASE j < MaxPoints - 1
    <3>1. j + 1 \in Places /\ Place(r, j)' = Place(r, j + 1)
      BY <2>2, <2>3, <2>4, HeadStep DEF Place, Around
    <3>2. data'[Place(r, j + 1)] = data[Place(r, j + 1)]
      BY <1>1, <2>3, <3>1, WrittenCells
    <3>3. data[Place(r, j + 1)] = Aged(tick, MaxPoints - 1 - (j + 1))
      BY <1>1, <1>5, <2>1, <2>3, <3>1 DEF RowsAged
    <3>4. Aged(tick, MaxPoints - 1 - (j + 1)) = Aged(tick + 1, MaxPoints - 1 - j)
      BY <1>1, <2>3 DEF Aged
    <3>5. QED
      BY <2>1, <3>1, <3>2, <3>3, <3>4
  <2>5. CASE j = MaxPoints - 1
    <3>1. Place(r, j)' = Place(r, 0)
      <4>1. Around(j)' = headIdx
        BY <2>2, <2>3, <2>5, HeadStep DEF Around
      <4>2. QED
        BY <1>1, <4>1, WrittenCells DEF Place
    <3>2. data'[Place(r, 0)] = tick + 1
      <4>1. CASE r = 0
        BY <1>1, <1>7, <4>1, WrittenCells
      <4>2. CASE r # 0
        <5>1. 0 \in Places
          BY <2>3 DEF Places
        <5>2. Early(r)
          BY <1>3, <1>5, <1>7, <2>1, <4>2 DEF Early
        <5>3. data[Place(r, 0)] = tick + 1
          BY <1>1, <1>5, <5>1, <5>2 DEF RowsAged
        <5>4. QED
          BY <1>1, <1>7, <4>2, <5>1, <5>3, WrittenCells
      <4>3. QED
        BY <4>1, <4>2
    <3>3. Aged(tick + 1, MaxPoints - 1 - j) = tick + 1
      BY <1>1, <2>3, <2>5 DEF Aged
    <3>4. QED
      BY <2>1, <3>1, <3>2, <3>3
  <2>6. QED
    BY <2>3, <2>4, <2>5
<1>8. QED
  BY <1>6, <1>7

-----------------------------------------------------------------------------
(* The actions.                                                            *)

\* The page is told exactly what an initialization would bring.
LEMMA SerialisedAfter ==
  ASSUME headIdx' \in Places
  PROVE  /\ numSeries' = 0 =>
              Serialised' = [data |-> BroadcastRow(data', headIdx', 0), series |-> <<>>]
         /\ numSeries' \in Nat \ {0} =>
              Serialised'.series =
                [n \in 1 .. numSeries' |-> BroadcastRow(data', headIdx', n - 1)]
<1>1. BroadcastRow(data', headIdx', 0) = SerialisedRow(0)'
  BY SameRow DEF SerialisedRow
<1>2. ASSUME numSeries' \in Nat \ {0}
      PROVE  \A n \in 1 .. numSeries' :
               BroadcastRow(data', headIdx', n - 1) = SerialisedRow(n - 1)'
  <2>1. SUFFICES ASSUME NEW n \in 1 .. numSeries'
                 PROVE  BroadcastRow(data', headIdx', n - 1) = SerialisedRow(n - 1)'
    OBVIOUS
  <2>2. n - 1 \in Nat
    BY <1>2
  <2>3. QED
    BY <2>2, SameRow DEF SerialisedRow
<1>3. QED
  BY <1>1, <1>2 DEF Serialised

LEMMA UpdatePointKeeps ==
  ASSUME ChartInv, UpdatePoint
  PROVE  ChartInv'
<1>1. TypeOK /\ 0 \in Rows /\ Written(0) /\ numSeries = 0
  BY TypeFacts, PointIsWritten DEF ChartInv, UpdatePoint
<1>2. WithinTicks' /\ ZeroWaits' /\ RowsAged'
  BY <1>1, WrittenKeepsRows
<1>3. /\ headIdx' \in Places
      /\ data' \in [0 .. Count(0) * MaxPoints - 1 -> Points]
  BY <1>1, WrittenKeepsType
<1>4. BroadcastRow(data', headIdx', 0) \in Row
  BY <1>3, RowType, RowFacts
<1>5. page' = [data |-> BroadcastRow(data', headIdx', 0), series |-> <<>>]
  <2>1. page' = [page EXCEPT !.data = BroadcastRow(data', headIdx', 0)]
    BY DEF UpdatePoint
  <2>2. page \in [data : Row \cup {<<>>}, series : Seq(Row)] /\ page.series = <<>>
    BY <1>1 DEF ChartInv, TypeOK, PageFollows
  <2>3. QED
    BY <2>1, <2>2
<1>6. TypeOK'
  <2>1. page' \in [data : Row \cup {<<>>}, series : Seq(Row)]
    BY <1>4, <1>5
  <2>2. UNCHANGED <<numSeries, tick>> /\ todo' = todo \ {0}
    BY DEF UpdatePoint
  <2>3. QED
    BY <1>1, <1>3, <2>1, <2>2 DEF TypeOK, Count, Places, Rows
<1>7. PageFollows'
  <2>1. numSeries' = 0
    BY <1>1 DEF Written
  <2>2. Serialised' = page'
    BY <1>3, <1>5, <2>1, SerialisedAfter
  <2>3. QED
    BY <1>5, <2>1, <2>2 DEF PageFollows
<1>8. QED
  BY <1>2, <1>6, <1>7 DEF ChartInv

LEMMA UpdateSeriesKeeps ==
  ASSUME ChartInv, NEW s \in Rows, UpdateSeries(s)
  PROVE  ChartInv'
<1>1. TypeOK /\ Written(s) /\ numSeries \in Nat /\ s \in Nat /\ s < numSeries
  BY TypeFacts, SeriesIsWritten DEF ChartInv, UpdateSeries
<1>2. WithinTicks' /\ ZeroWaits' /\ RowsAged'
  BY <1>1, WrittenKeepsRows
<1>3. /\ headIdx' \in Places
      /\ data' \in [0 .. Count(numSeries) * MaxPoints - 1 -> Points]
  BY <1>1, WrittenKeepsType
<1>4. \A n \in 1 .. numSeries : BroadcastRow(data', headIdx', n - 1) \in Row
  <2>1. SUFFICES ASSUME NEW n \in 1 .. numSeries
                 PROVE  BroadcastRow(data', headIdx', n - 1) \in Row
    OBVIOUS
  <2>2. n - 1 \in RowsOf(numSeries)
    BY <1>1 DEF RowsOf
  <2>3. QED
    BY <1>1, <1>3, <2>2, RowType
<1>5. [n \in 1 .. numSeries |-> BroadcastRow(data', headIdx', n - 1)] \in Seq(Row)
  BY <1>1, <1>4
<1>6. page' = [data |-> page.data,
               series |-> [n \in 1 .. numSeries |-> BroadcastRow(data', headIdx', n - 1)]]
  <2>1. page' = [page EXCEPT !.series =
                   [n \in 1 .. numSeries |-> BroadcastRow(data', headIdx', n - 1)]]
    BY DEF UpdateSeries
  <2>2. page \in [data : Row \cup {<<>>}, series : Seq(Row)]
    BY <1>1 DEF TypeOK
  <2>3. QED
    BY <2>1, <2>2
<1>7. TypeOK'
  <2>1. page' \in [data : Row \cup {<<>>}, series : Seq(Row)]
    BY <1>1, <1>5, <1>6 DEF TypeOK
  <2>2. UNCHANGED <<numSeries, tick>> /\ todo' = todo \ {s}
    BY DEF UpdateSeries
  <2>3. QED
    BY <1>1, <1>3, <2>1, <2>2 DEF TypeOK, Count, Places, Rows
<1>8. PageFollows'
  <2>1. numSeries' = numSeries /\ numSeries' \in Nat \ {0}
    BY <1>1 DEF Written
  <2>2. Serialised'.series = page'.series
    BY <1>3, <1>6, <2>1, SerialisedAfter
  <2>3. QED
    BY <2>1, <2>2 DEF PageFollows
<1>9. QED
  BY <1>2, <1>7, <1>8 DEF ChartInv

LEMMA AddSeriesKeeps ==
  ASSUME ChartInv, AddSeries
  PROVE  ChartInv'
<1>1. TypeOK /\ MaxPoints \in Nat \ {0} /\ numSeries \in Nat
  BY TypeFacts DEF ChartInv
<1>2. /\ numSeries' = numSeries + 1 /\ numSeries < MaxSeries
      /\ data' = Zeros(numSeries + 1) /\ headIdx' = 0 /\ tick' = 0
      /\ todo' = RowsOf(numSeries + 1) /\ page' = page
  BY DEF AddSeries
<1>3. numSeries + 1 \in Nat \ {0} /\ numSeries + 1 \in 0 .. MaxSeries /\ Count(numSeries + 1) = numSeries + 1
  BY <1>1, <1>2, ChartAssumptions DEF Count
<1>4. Rows' = todo' /\ 0 \in todo'
  BY <1>2, <1>3, RowFacts DEF Rows
<1>5. data' = [i \in 0 .. Count(numSeries + 1) * MaxPoints - 1 |-> 0]
  BY <1>2, <1>3 DEF Zeros
<1>6. 0 \in Places /\ 0 \in Points
  BY ChartAssumptions DEF Places, Points
<1>7. TypeOK'
  <2>1. data' \in [0 .. Count(numSeries + 1) * MaxPoints - 1 -> Points]
    BY <1>5, <1>6
  <2>2. QED
    BY <1>1, <1>2, <1>3, <1>4, <1>6, <2>1 DEF TypeOK, Places, Points
<1>8. WithinTicks' /\ ZeroWaits'
  BY <1>2, <1>4 DEF ZeroWaits, WithinTicks
<1>9. RowsAged'
  <2>1. SUFFICES ASSUME NEW s \in todo', NEW j \in Places
                 PROVE  data'[Place(s, j)'] = 0 /\ ~Early(s)' /\ Aged(Now', MaxPoints - 1 - j) = 0
    BY <1>2, <1>4 DEF RowsAged, Aged, Early, Now, Advanced
  <2>2. s \in Nat /\ s < Count(numSeries + 1) /\ Count(numSeries + 1) \in Nat
    BY <1>2, <1>3, RowFacts
  <2>3. Around(j)' \in Places
    BY <1>2, <1>6, Ring DEF Around
  <2>4. Place(s, j)' \in 0 .. Count(numSeries + 1) * MaxPoints - 1
    <3>1. \A a \in Places : s * MaxPoints + a \in 0 .. Count(numSeries + 1) * MaxPoints - 1
      BY <2>2, RowsApart
    <3>2. QED
      BY <2>3, <3>1 DEF Place
  <2>5. Now' = 0 /\ ~Early(s)'
    BY <1>2, <1>4 DEF Now, Advanced, Early
  <2>6. Aged(0, MaxPoints - 1 - j) = 0
    BY <1>1 DEF Aged, Places
  <2>7. QED
    BY <1>5, <2>4, <2>5, <2>6
<1>10. PageFollows'
  BY <1>2, <1>3, <1>4 DEF PageFollows, Told
<1>11. QED
  BY <1>7, <1>8, <1>9, <1>10 DEF ChartInv

LEMMA EndTickKeeps ==
  ASSUME ChartInv, EndTick
  PROVE  ChartInv'
<1>1. /\ TypeOK /\ WithinTicks /\ ZeroWaits /\ RowsAged /\ PageFollows
      /\ 0 \in Rows /\ tick \in Nat
  BY TypeFacts DEF ChartInv
<1>2. /\ todo = {} /\ tick' = tick + 1 /\ todo' = Rows
      /\ UNCHANGED <<numSeries, headIdx, data, page>>
  BY DEF EndTick
<1>3. Rows' = Rows
  BY <1>2 DEF Rows
<1>4. TypeOK'
  <2>1. tick < MaxTicks
    BY <1>1, <1>2 DEF WithinTicks
  <2>2. tick + 1 \in 0 .. MaxTicks
    BY <1>1, <2>1, ChartAssumptions
  <2>3. QED
    BY <1>1, <1>2, <1>3, <2>2 DEF TypeOK
<1>5. WithinTicks' /\ ZeroWaits'
  BY <1>1, <1>2, <1>3 DEF ZeroWaits, WithinTicks
<1>6. Now = tick + 1 /\ Now' = tick + 1 /\ \A s \in Rows : ~Early(s) /\ ~Early(s)'
  BY <1>1, <1>2 DEF Now, Advanced, Early
<1>7. \A s, j : Place(s, j)' = Place(s, j)
  BY <1>2 DEF Place, Around
<1>8. RowsAged'
  BY <1>1, <1>2, <1>3, <1>6, <1>7 DEF RowsAged, Aged
<1>9. Told /\ Serialised' = Serialised
  BY <1>1, <1>2 DEF Told, Serialised, SerialisedRow
<1>10. PageFollows'
  BY <1>1, <1>2, <1>9 DEF PageFollows
<1>11. QED
  BY <1>4, <1>5, <1>8, <1>10 DEF ChartInv

\* What an initialization brings has the shape of a card's config.
LEMMA SerialisedType ==
  ASSUME TypeOK
  PROVE  /\ Serialised \in [data : Row \cup {<<>>}, series : Seq(Row)]
         /\ numSeries = 0 => Serialised.series = <<>>
<1>1. \A s \in Rows : SerialisedRow(s) \in Row
  <2>1. SUFFICES ASSUME NEW s \in Rows
                 PROVE  SerialisedRow(s) \in Row
    OBVIOUS
  <2>2. s \in Nat /\ headIdx \in Places /\ numSeries \in Nat
    BY TypeFacts
  <2>3. SerialisedRow(s) = BroadcastRow(data, headIdx, s)
    <3>1. BroadcastRow(data, headIdx, s) =
            [i \in 1 .. MaxPoints |-> data[((headIdx + i - 1) % MaxPoints) + s * MaxPoints]]
      BY <2>2, SameRow
    <3>2. QED
      BY <3>1 DEF SerialisedRow
  <2>4. QED
    BY <2>2, <2>3, TypeFacts, RowType DEF Rows
<1>2. numSeries \in Nat /\ 0 \in Rows
  BY TypeFacts
<1>3. CASE numSeries > 0
  <2>1. \A n \in 1 .. numSeries : SerialisedRow(n - 1) \in Row
    <3>1. \A n \in 1 .. numSeries : n - 1 \in Rows
      BY <1>2, <1>3 DEF Rows, RowsOf
    <3>2. QED
      BY <1>1, <3>1
  <2>2. [n \in 1 .. numSeries |-> SerialisedRow(n - 1)] \in Seq(Row)
    BY <1>2, <2>1
  <2>3. QED
    BY <1>3, <2>2 DEF Serialised
<1>4. CASE numSeries = 0
  BY <1>1, <1>2, <1>4 DEF Serialised
<1>5. QED
  BY <1>2, <1>3, <1>4

LEMMA PageInitKeeps ==
  ASSUME ChartInv, PageInit
  PROVE  ChartInv'
<1>1. page' = Serialised /\ UNCHANGED <<numSeries, headIdx, data, tick, todo>>
  BY DEF PageInit
<1>2. TypeOK /\ WithinTicks /\ ZeroWaits /\ RowsAged
  BY DEF ChartInv
<1>3. Rows' = Rows /\ Serialised' = Serialised
  BY <1>1 DEF Rows, Serialised, SerialisedRow
<1>4. TypeOK'
  BY <1>1, <1>2, <1>3, SerialisedType DEF TypeOK
<1>5. WithinTicks' /\ ZeroWaits'
  BY <1>1, <1>2, <1>3 DEF WithinTicks, ZeroWaits
<1>6. RowsAged'
  <2>1. Now' = Now /\ \A s : Early(s)' <=> Early(s)
    BY <1>1 DEF Now, Early, Advanced
  <2>2. \A s, j : Place(s, j)' = Place(s, j)
    BY <1>1 DEF Place, Around
  <2>3. QED
    BY <1>1, <1>2, <1>3, <2>1, <2>2 DEF RowsAged, Aged
<1>7. PageFollows'
  BY <1>1, <1>2, <1>3, SerialisedType DEF PageFollows
<1>8. QED
  BY <1>4, <1>5, <1>6, <1>7 DEF ChartInv

LEMMA ChartStutter ==
  ASSUME ChartInv, UNCHANGED vars
  PROVE  ChartInv'
<1>1. UNCHANGED <<numSeries, headIdx, data, tick, todo, page>>
  BY DEF vars
<1>2. Rows' = Rows /\ Serialised' = Serialised /\ Now' = Now
  BY <1>1 DEF Rows, Serialised, SerialisedRow, Now, Advanced
<1>3. \A s, j : Place(s, j)' = Place(s, j) /\ (Early(s)' <=> Early(s))
  BY <1>1 DEF Place, Around, Early, Advanced
<1>4. TypeOK' /\ WithinTicks' /\ ZeroWaits'
  BY <1>1, <1>2 DEF ChartInv, TypeOK, WithinTicks, ZeroWaits
<1>5. RowsAged'
  BY <1>1, <1>2, <1>3 DEF ChartInv, RowsAged, Aged
<1>6. PageFollows'
  BY <1>1, <1>2 DEF ChartInv, PageFollows, Told
<1>7. QED
  BY <1>4, <1>5, <1>6 DEF ChartInv

LEMMA ChartInit ==
  ASSUME Init
  PROVE  ChartInv
<1>1. /\ numSeries = 0 /\ headIdx = 0 /\ data = Zeros(1) /\ tick = 0 /\ todo = {0}
      /\ page = [data |-> [i \in 1 .. MaxPoints |-> 0], series |-> <<>>]
  BY DEF Init
<1>2. MaxPoints \in Nat \ {0} /\ 0 \in Places /\ 0 \in Points /\ Rows = {0}
  BY <1>1, ChartAssumptions DEF Places, Points, Rows, RowsOf
<1>3. data = [i \in 0 .. 1 * MaxPoints - 1 |-> 0]
  BY <1>1 DEF Zeros
<1>4. TypeOK
  <2>1. data \in [0 .. 1 * MaxPoints - 1 -> Points]
    BY <1>2, <1>3
  <2>2. page \in [data : Row \cup {<<>>}, series : Seq(Row)]
    BY <1>1, <1>2 DEF Row
  <2>3. QED
    BY <1>1, <1>2, <2>1, <2>2, ChartAssumptions DEF TypeOK, Places
<1>5. WithinTicks /\ ZeroWaits
  BY <1>1, <1>2 DEF WithinTicks, ZeroWaits
<1>6. RowsAged
  <2>1. SUFFICES ASSUME NEW j \in Places
                 PROVE  data[Place(0, j)] = 0 /\ ~Early(0) /\ Aged(Now, MaxPoints - 1 - j) = 0
    BY <1>2 DEF RowsAged
  <2>2. Around(j) \in Places
    BY <1>1, <1>2, Ring DEF Around
  <2>3. Place(0, j) \in 0 .. 1 * MaxPoints - 1
    BY <1>2, <2>2 DEF Place, Places
  <2>4. Now = 0 /\ ~Early(0)
    BY <1>1 DEF Now, Advanced, Early
  <2>5. Aged(0, MaxPoints - 1 - j) = 0
    BY <1>2 DEF Aged, Places
  <2>6. QED
    BY <1>3, <2>3, <2>4, <2>5
<1>7. PageFollows
  BY <1>1, <1>2 DEF PageFollows, Told
<1>8. QED
  BY <1>4, <1>5, <1>6, <1>7 DEF ChartInv

LEMMA ChartNext ==
  ASSUME ChartInv, [Next]_vars
  PROVE  ChartInv'
<1>1. CASE AddSeries
  BY <1>1, AddSeriesKeeps
<1>2. CASE EndTick
  BY <1>2, EndTickKeeps
<1>3. CASE UpdatePoint
  BY <1>3, UpdatePointKeeps
<1>4. CASE PageInit
  BY <1>4, PageInitKeeps
<1>5. ASSUME NEW s \in Rows, UpdateSeries(s)
      PROVE  ChartInv'
  BY <1>5, UpdateSeriesKeeps
<1>6. CASE UNCHANGED vars
  BY <1>6, ChartStutter
<1>7. QED
  BY <1>1, <1>2, <1>3, <1>4, <1>5, <1>6 DEF Next

LEMMA ChartInvariant == Spec => []ChartInv
<1>1. Init => ChartInv
  BY ChartInit
<1>2. ChartInv /\ [Next]_vars => ChartInv'
  BY ChartNext
<1>3. QED
  BY <1>1, <1>2, PTL DEF Spec

-----------------------------------------------------------------------------
(* What the page draws.                                                    *)

\* The place from the head of each point a row is drawn with.
LEMMA DrawnPoints ==
  ASSUME TypeOK, NEW s \in Rows, NEW k \in Places
  PROVE  /\ MaxPoints - k \in 1 .. MaxPoints /\ MaxPoints - 1 - k \in Places
         /\ SerialisedRow(s)[MaxPoints - k] = data[Place(s, MaxPoints - 1 - k)]
<1>1. MaxPoints \in Nat \ {0} /\ headIdx \in Places /\ s \in Nat
  BY TypeFacts
<1>2. MaxPoints - k \in 1 .. MaxPoints /\ MaxPoints - 1 - k \in Places
  BY <1>1 DEF Places
<1>3. headIdx + (MaxPoints - k) - 1 = headIdx + (MaxPoints - 1 - k)
  BY <1>1 DEF Places
<1>4. Around(MaxPoints - 1 - k) \in Places
  BY <1>1, <1>2, Ring DEF Around
<1>5. \A a \in Places : a + s * MaxPoints = s * MaxPoints + a
  BY <1>1 DEF Places
<1>6. Around(MaxPoints - 1 - k) + s * MaxPoints = Place(s, MaxPoints - 1 - k)
  BY <1>4, <1>5 DEF Place
<1>7. QED
  BY <1>2, <1>3, <1>6 DEF SerialisedRow, Around

\* A page that was told draws the rows of the array.
LEMMA TheRowsAreDrawn ==
  ASSUME ChartInv, Told
  PROVE  /\ Drawn(page) = Drawn(Serialised)
         /\ \A n \in DOMAIN Drawn(page) :
              n \in Nat /\ n - 1 \in Rows /\ Drawn(page)[n] = SerialisedRow(n - 1)
<1>1. numSeries \in Nat /\ TypeOK /\ PageFollows
  BY TypeFacts DEF ChartInv
<1>2. CASE numSeries = 0
  <2>1. Serialised = [data |-> SerialisedRow(0), series |-> <<>>]
    BY <1>2 DEF Serialised
  <2>2. page.series = <<>> /\ page.data = SerialisedRow(0)
    BY <1>1, <1>2, <2>1 DEF PageFollows
  <2>3. Drawn(page) = <<SerialisedRow(0)>> /\ Drawn(Serialised) = <<SerialisedRow(0)>>
    BY <2>1, <2>2 DEF Drawn
  <2>4. QED
    BY <1>1, <1>2, <2>3 DEF Rows, RowsOf
<1>3. CASE numSeries > 0
  <2>1. Serialised.series = [n \in 1 .. numSeries |-> SerialisedRow(n - 1)]
    BY <1>3 DEF Serialised
  <2>2. Serialised.series # <<>> /\ page.series = Serialised.series
    BY <1>1, <1>3, <2>1 DEF PageFollows
  <2>3. Drawn(page) = Serialised.series /\ Drawn(Serialised) = Serialised.series
    BY <2>2 DEF Drawn
  <2>4. \A n \in 1 .. numSeries : n \in Nat /\ n - 1 \in Rows
    BY <1>1, <1>3 DEF Rows, RowsOf
  <2>5. QED
    BY <2>1, <2>3, <2>4
<1>4. QED
  BY <1>1, <1>2, <1>3

-----------------------------------------------------------------------------
(* The theorems.                                                           *)

\* The head never leaves the ring, every write falls inside the array, and
\* what the page is given are whole rows of points.
THEOREM ChartTypeCorrect == Spec => []TypeOK
<1>1. ChartInv => TypeOK
  BY DEF ChartInv
<1>2. QED
  BY <1>1, ChartInvariant, PTL

\* After each tick the point that the axis labels N-k is the one of k ticks
\* ago: of series 0 in any order of updates, of every series when the caller
\* updates series 0 last.
THEOREM ChartLabelsTrue == Spec => []LabelsTrue
<1>1. ASSUME ChartInv
      PROVE  LabelsTrue
  <2>1. SUFFICES ASSUME AtTickEnd, NEW n \in DOMAIN Drawn(page), NEW k \in Places,
                        n = 1 \/ ZeroLast
                 PROVE  Drawn(page)[n][MaxPoints - k] = Aged(tick, k)
    BY DEF LabelsTrue, Places, Aged
  <2>2. TypeOK /\ RowsAged /\ 0 \in Rows /\ MaxPoints \in Nat \ {0} /\ tick \in Nat
    BY <1>1, TypeFacts DEF ChartInv
  <2>3. n \in Nat /\ n - 1 \in Rows /\ Drawn(page)[n] = SerialisedRow(n - 1)
    BY <1>1, <2>1, TheRowsAreDrawn DEF AtTickEnd, Told
  <2>4. Drawn(page)[n][MaxPoints - k] = data[Place(n - 1, MaxPoints - 1 - k)]
    BY <2>2, <2>3, DrawnPoints
  <2>5. ~Advanced /\ ~Early(n - 1) /\ Now = tick
    BY <2>1, <2>2, <2>3 DEF AtTickEnd, Advanced, Early, Now
  <2>6. MaxPoints - 1 - k \in Places
    BY <2>2, <2>3, DrawnPoints
  <2>7. n - 1 = 0 \/ ZeroLast
    BY <2>1
  <2>8. data[Place(n - 1, MaxPoints - 1 - k)] = Aged(tick, MaxPoints - 1 - (MaxPoints - 1 - k))
    BY <2>2, <2>3, <2>5, <2>6, <2>7 DEF RowsAged
  <2>9. MaxPoints - 1 - (MaxPoints - 1 - k) = k
    BY <2>2 DEF Places
  <2>10. QED
    BY <2>4, <2>8, <2>9
<1>2. QED
  BY <1>1, ChartInvariant, PTL

\* A page that followed the updates draws what one initialized just now draws,
\* for every number of points and series and any order of updates.
THEOREM ChartUpdatesAgree == Spec => []UpdatesAgreeWithInit
<1>1. ChartInv => UpdatesAgreeWithInit
  BY TheRowsAreDrawn DEF UpdatesAgreeWithInit, Told
<1>2. QED
  BY <1>1, ChartInvariant, PTL
=============================================================================
