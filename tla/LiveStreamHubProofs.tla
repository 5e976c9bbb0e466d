------------------------- MODULE LiveStreamHubProofs --------------------------
(***************************************************************************)
(* What the operators of the heatmap's history, of its engine and of the   *)
(* hub return, whatever they are given: a window of typed columns that is  *)
(* never longer than it may be, in the order of time, whose last column is *)
(* the book sampled last; and what the hub stores of an engine's updates,  *)
(* which is the engine's window.                                           *)
(***************************************************************************)
EXTENDS LiveStreamHub, SequenceTheorems, FiniteSetTheorems, TLAPS

\* A history the operators make, with its window bounded.
WellFormed(history) == history \in History /\ Len(history.columns) <= MaxColumns

LEMMA BucketIsNatural ==
  ASSUME NEW time \in Nat
  PROVE  BucketStart(time) \in Nat
  BY HeatmapConfigAssumption DEF BucketStart

LEMMA NewHistoryIsWellFormed == WellFormed(NewHistory)
  BY HeatmapConfigAssumption DEF WellFormed, NewHistory, History, NoTime

LEMMA LastOfColumns ==
  ASSUME NEW columns \in Seq(Column), columns # <<>>
  PROVE  LastOf(columns) \in Column /\ Len(columns) \in Nat \ {0}
  BY EmptySeq, LenProperties, ElementOfSeq DEF LastOf

\* An appended column is the last one, in a window that stays bounded.
LEMMA AppendedColumn ==
  ASSUME NEW columns \in Seq(Column), Len(columns) <= MaxColumns, NEW column \in Column
  PROVE  /\ AppendColumn(columns, column) \in Seq(Column)
         /\ AppendColumn(columns, column) # <<>>
         /\ Len(AppendColumn(columns, column)) <= MaxColumns
         /\ LastOf(AppendColumn(columns, column)) = column
<1> DEFINE kept == IF Len(columns) = MaxColumns THEN Tail(columns) ELSE columns
<1>1. kept \in Seq(Column) /\ Len(kept) < MaxColumns
  <2>1. CASE Len(columns) = MaxColumns
    <3>1. columns # <<>>
      BY <2>1, HeatmapConfigAssumption, EmptySeq
    <3>2. QED
      BY <2>1, <3>1, HeadTailProperties, LenProperties, HeatmapConfigAssumption
  <2>2. CASE Len(columns) # MaxColumns
    BY <2>2, LenProperties, HeatmapConfigAssumption
  <2>3. QED
    BY <2>1, <2>2
<1>2. AppendColumn(columns, column) = Append(kept, column)
  BY DEF AppendColumn
<1> HIDE DEF kept
<1>3. QED
  BY <1>1, <1>2, AppendProperties, LenProperties, HeatmapConfigAssumption DEF LastOf

\* Columns carried from a natural bucket on, none of them if there are none to
\* carry.
LEMMA CarriedColumnsAreColumns ==
  ASSUME NEW carried \in Column, NEW first \in Nat, NEW count \in Int
  PROVE  /\ CarriedColumns(carried, first, count) \in Seq(Column)
         /\ Len(CarriedColumns(carried, first, count)) = IF count < 0 THEN 0 ELSE count
<1> DEFINE number == IF count < 0 THEN 0 ELSE count
           at(offset) == [carried EXCEPT !.bucket = first + offset - 1]
<1>1. number \in Nat /\ 1 .. count = 1 .. number
  OBVIOUS
<1>2. CarriedColumns(carried, first, count) = [offset \in 1 .. number |-> at(offset)]
  BY <1>1 DEF CarriedColumns
<1>3. \A offset \in 1 .. number : at(offset) \in Column
  BY <1>1 DEF Column
<1>4. [offset \in 1 .. number |-> at(offset)] \in Seq(Column)
  <2> HIDE DEF at, number
  <2>1. QED
    BY <1>1, <1>3, IsASeq
<1>5. QED
  BY <1>1, <1>2, <1>4, LenProperties

\* Carried columns behind a window leave room for one more, or the window is full
\* and the append makes room.
LEMMA AppendedColumns ==
  ASSUME NEW columns \in Seq(Column), Len(columns) <= MaxColumns,
         NEW carried \in Seq(Column), Len(carried) <= MaxColumns
  PROVE  /\ AppendColumns(columns, carried) \in Seq(Column)
         /\ Len(AppendColumns(columns, carried)) <= MaxColumns
<1> DEFINE excess == Len(columns) + Len(carried) - MaxColumns
           kept   == SubSeq(columns, excess + 1, Len(columns))
<1>1. /\ Len(columns) \in Nat /\ Len(carried) \in Nat /\ MaxColumns \in Nat
      /\ excess \in Int
  BY LenProperties, HeatmapConfigAssumption
<1>2. CASE excess <= 0
  BY <1>1, <1>2, ConcatProperties DEF AppendColumns
<1>3. CASE excess > 0
  <2>1. \A i \in excess + 1 .. Len(columns) : columns[i] \in Column
    BY <1>1, <1>3, ElementOfSeq
  <2>2. /\ kept \in Seq(Column)
        /\ Len(kept) = IF excess + 1 <= Len(columns) THEN Len(columns) - excess ELSE 0
    <3>1. excess + 1 \in Int /\ Len(columns) \in Int
      BY <1>1
    <3> HIDE DEF excess
    <3>2. /\ kept \in Seq(Column)
          /\ Len(kept) = IF excess + 1 <= Len(columns)
                         THEN Len(columns) - (excess + 1) + 1 ELSE 0
      BY <2>1, <3>1, SubSeqProperties
    <3>3. QED
      BY <1>1, <3>2
  <2>3. AppendColumns(columns, carried) = kept \o carried
    <3>1. ~(excess <= 0)
      BY <1>1, <1>3
    <3>2. QED
      BY <3>1, Zenon DEF AppendColumns
  <2> HIDE DEF kept
  <2>4. QED
    BY <1>1, <1>3, <2>2, <2>3, ConcatProperties
<1>4. QED
  BY <1>1, <1>2, <1>3

\* The window before the new column, whatever was skipped.
LEMMA BackfilledColumns ==
  ASSUME NEW columns \in Seq(Column), columns # <<>>, Len(columns) <= MaxColumns,
         NEW carryForward, NEW bucket \in Nat
  PROVE  /\ Backfill(columns, carryForward, bucket) \in Seq(Column)
         /\ Len(Backfill(columns, carryForward, bucket)) <= MaxColumns
<1> DEFINE last    == LastOf(columns)
           elapsed == bucket - last.bucket
<1>1. last \in Column /\ last.bucket \in Nat /\ elapsed \in Int /\ MaxColumns \in Nat \ {0}
  <2>1. last \in Column
    BY LastOfColumns
  <2> HIDE DEF last
  <2>2. last.bucket \in Nat
    BY <2>1 DEF Column
  <2>3. QED
    BY <2>1, <2>2, HeatmapConfigAssumption
<1>2. CASE ~carryForward
  BY <1>2 DEF Backfill
<1>3. CASE carryForward /\ elapsed >= MaxColumns
  <2>1. Backfill(columns, carryForward, bucket)
          = CarriedColumns(last, bucket - (MaxColumns - 1), MaxColumns - 1)
    BY <1>3 DEF Backfill
  <2>2. bucket - (MaxColumns - 1) \in Nat /\ MaxColumns - 1 \in Int
    BY <1>1, <1>3
  <2> HIDE DEF last
  <2>3. QED
    BY <1>1, <2>1, <2>2, CarriedColumnsAreColumns
<1>4. CASE carryForward /\ ~(elapsed >= MaxColumns)
  <2> DEFINE carried == CarriedColumns(last, last.bucket + 1, elapsed - 1)
  <2>1. Backfill(columns, carryForward, bucket) = AppendColumns(columns, carried)
    BY <1>4 DEF Backfill
  <2>2. carried \in Seq(Column) /\ Len(carried) = IF elapsed - 1 < 0 THEN 0 ELSE elapsed - 1
    <3>1. last.bucket + 1 \in Nat /\ elapsed - 1 \in Int
      BY <1>1
    <3> HIDE DEF last
    <3>2. QED
      BY <1>1, <3>1, CarriedColumnsAreColumns
  <2>3. Len(carried) <= MaxColumns
    BY <1>1, <1>4, <2>2
  <2> HIDE DEF carried
  <2>4. QED
    BY <2>1, <2>2, <2>3, AppendedColumns
<1>5. QED
  BY <1>2, <1>3, <1>4

\* A sampled book is the last column of a window that stays well formed; a book
\* with one side changes no column.
THEOREM SampledHistory ==
  ASSUME NEW history, WellFormed(history), NEW time \in Nat, NEW book \in Book
  PROVE  /\ WellFormed(Sample(history, time, book))
         /\ Samples(book) =>
              /\ Sample(history, time, book).columns # <<>>
              /\ LastOf(Sample(history, time, book).columns).book = book
         /\ ~Samples(book) => Sample(history, time, book).columns = history.columns
<1> DEFINE bucket  == BucketStart(time)
           column  == [bucket |-> bucket, book |-> book]
           columns == history.columns
           sampled == IF columns = <<>> THEN <<column>>
                      ELSE IF bucket = LastOf(columns).bucket
                      THEN [columns EXCEPT ![Len(columns)] = column]
                      ELSE AppendColumn(Backfill(columns, history.carryForward, bucket), column)
<1>1. bucket \in Nat /\ column \in Column
  BY BucketIsNatural DEF Column
<1>2. /\ columns \in Seq(Column) /\ Len(columns) <= MaxColumns
      /\ history.carryForward \in BOOLEAN
  BY DEF WellFormed, History
<1>3. Sample(history, time, book) =
        [columns         |-> IF Samples(book) THEN sampled ELSE columns,
         lastObservation |-> time,
         carryForward    |-> history.carryForward \/ Samples(book)]
  BY DEF Sample
<1>4. Samples(book) \in BOOLEAN
  BY DEF Samples, TwoSided
<1>5. /\ sampled \in Seq(Column) /\ Len(sampled) <= MaxColumns
      /\ sampled # <<>> /\ LastOf(sampled) = column
  <2>1. CASE columns = <<>>
    <3>1. sampled = <<column>>
      BY <2>1
    <3> HIDE DEF sampled, column
    <3>2. QED
      BY <1>1, <3>1, HeatmapConfigAssumption DEF LastOf
  <2>2. CASE columns # <<>> /\ bucket = LastOf(columns).bucket
    <3>1. sampled = [columns EXCEPT ![Len(columns)] = column]
      BY <2>2
    <3>2. Len(columns) \in 1 .. Len(columns)
      BY <1>2, <2>2, LastOfColumns
    <3> HIDE DEF sampled, column, columns
    <3>3. /\ sampled \in Seq(Column) /\ Len(sampled) = Len(columns)
          /\ sampled[Len(columns)] = column
      BY <1>1, <1>2, <3>1, <3>2, ExceptSeq
    <3>4. QED
      BY <1>2, <3>2, <3>3, EmptySeq DEF LastOf
  <2>3. CASE columns # <<>> /\ bucket # LastOf(columns).bucket
    <3> DEFINE filled == Backfill(columns, history.carryForward, bucket)
    <3>1. sampled = AppendColumn(filled, column)
      BY <2>3
    <3>2. filled \in Seq(Column) /\ Len(filled) <= MaxColumns
      BY <1>1, <1>2, <2>3, BackfilledColumns
    <3> HIDE DEF sampled, column, filled
    <3>3. QED
      BY <1>1, <3>1, <3>2, AppendedColumn
  <2>4. QED
    BY <2>1, <2>2, <2>3
<1>6. column.book = book
  OBVIOUS
<1> HIDE DEF sampled, column, columns
<1>7. /\ Sample(history, time, book).columns = IF Samples(book) THEN sampled ELSE columns
      /\ Sample(history, time, book).lastObservation = time
      /\ Sample(history, time, book).carryForward = (history.carryForward \/ Samples(book))
  BY <1>3
<1>8. Sample(history, time, book) \in History
  BY <1>2, <1>3, <1>4, <1>5 DEF History
<1>9. columns = history.columns
  BY DEF columns
<1>10. QED
  BY <1>2, <1>5, <1>6, <1>7, <1>8, <1>9 DEF WellFormed

LEMMA DiscontinuityKeepsColumns ==
  ASSUME NEW history, WellFormed(history)
  PROVE  /\ WellFormed(MarkDiscontinuity(history))
         /\ MarkDiscontinuity(history).columns = history.columns
  BY DEF WellFormed, History, MarkDiscontinuity
------------------------------------------------------------------------------
(***************************************************************************)
(* What a sampled book does to the window.                                 *)
(***************************************************************************)

\* Columns in the order of time.
Chronological(columns) ==
  \A i, j \in 1 .. Len(columns) : i < j => columns[i].bucket < columns[j].bucket

\* The window that is left of older columns once newer ones were appended.
Trailing(older, newer, window) ==
  LET length == IF Len(older) + Len(newer) <= MaxColumns THEN Len(older) + Len(newer)
                                                         ELSE MaxColumns
      kept   == length - Len(newer)
  IN  /\ window \in Seq(Column) /\ Len(window) = length
      /\ \A i \in 1 .. length :
           window[i] = IF i <= kept THEN older[Len(older) - kept + i] ELSE newer[i - kept]

\* The columns a book adds to a window: its own, and those that lead to it.
NewCount(columns, carryForward, bucket) ==
  IF columns = <<>> \/ ~carryForward THEN 1
  ELSE IF bucket - LastOf(columns).bucket >= MaxColumns THEN MaxColumns
  ELSE bucket - LastOf(columns).bucket
NewColumns(columns, count, bucket, book) ==
  [i \in 1 .. count |-> [bucket |-> bucket - count + i,
                         book   |-> IF i = count THEN book ELSE LastOf(columns).book]]

LEMMA NewCountBounds ==
  ASSUME NEW columns \in Seq(Column), NEW carryForward, NEW bucket \in Nat,
         columns # <<>> => LastOf(columns).bucket < bucket
  PROVE  LET count == NewCount(columns, carryForward, bucket)
         IN  /\ count \in 1 .. MaxColumns
             /\ bucket - count + 1 \in Nat
             /\ columns # <<>> => LastOf(columns).bucket < bucket - count + 1
<1>1. columns # <<>> => LastOf(columns).bucket \in Nat
  BY LastOfColumns DEF Column
<1>2. QED
  BY <1>1, HeatmapConfigAssumption DEF NewCount

LEMMA NewColumnsType ==
  ASSUME NEW columns \in Seq(Column), NEW count \in Nat \ {0}, NEW bucket \in Nat,
         NEW book \in Book, bucket - count + 1 \in Nat, count = 1 \/ columns # <<>>,
         NEW newer, newer = NewColumns(columns, count, bucket, book)
  PROVE  /\ newer \in Seq(Column) /\ Len(newer) = count
         /\ \A i \in 1 .. count : newer[i].bucket = bucket - count + i
         /\ newer[count] = [bucket |-> bucket, book |-> book]
         /\ \A i \in 1 .. count - 1 : newer[i].book = LastOf(columns).book
<1> DEFINE at(i)  == [bucket |-> bucket - count + i,
                      book   |-> IF i = count THEN book ELSE LastOf(columns).book]
           all    == [i \in 1 .. count |-> at(i)]
<1>1. ASSUME NEW i \in 1 .. count
      PROVE  at(i) \in Column
  <2>1. bucket - count + i \in Nat
    OBVIOUS
  <2>2. (IF i = count THEN book ELSE LastOf(columns).book) \in Book
    <3>1. CASE i = count
      BY <3>1
    <3>2. CASE i # count
      <4>1. columns # <<>>
        BY <3>2
      <4>2. LastOf(columns) \in Column
        BY <4>1, LastOfColumns
      <4>3. QED
        BY <3>2, <4>2 DEF Column
    <3>3. QED
      BY <3>1, <3>2
  <2>3. QED
    BY <2>1, <2>2 DEF Column
<1>2. all \in Seq(Column)
  <2> HIDE DEF at
  <2>1. QED
    BY <1>1, IsASeq
<1>3. Len(all) = count
  OBVIOUS
<1>4. NewColumns(columns, count, bucket, book) = all
  BY DEF NewColumns
<1>5. \A i \in 1 .. count : all[i] = at(i)
  OBVIOUS
<1>6. at(count) = [bucket |-> bucket, book |-> book]
  OBVIOUS
<1> HIDE DEF all
<1>7. QED
  BY <1>2, <1>3, <1>4, <1>5, <1>6

\* What there is to show of a window that trails.
LEMMA TrailingWindow ==
  ASSUME NEW older, NEW newer, NEW window \in Seq(Column), NEW length, NEW kept,
         length = IF Len(older) + Len(newer) <= MaxColumns THEN Len(older) + Len(newer)
                                                           ELSE MaxColumns,
         kept = length - Len(newer),
         Len(window) = length,
         \A i \in 1 .. length :
           window[i] = IF i <= kept THEN older[Len(older) - kept + i] ELSE newer[i - kept]
  PROVE  Trailing(older, newer, window)
  BY Zenon DEF Trailing

\* Appending one column, or several carried ones.
LEMMA AppendColumnTrails ==
  ASSUME NEW columns \in Seq(Column), Len(columns) <= MaxColumns, NEW column \in Column
  PROVE  Trailing(columns, <<column>>, AppendColumn(columns, column))
<1> DEFINE m == Len(columns)
           one == <<column>>
           window == AppendColumn(columns, column)
<1>1. m \in Nat /\ MaxColumns \in Nat \ {0} /\ one \in Seq(Column)
      /\ Len(one) = 1 /\ one[1] = column
  BY LenProperties, HeatmapConfigAssumption
<1> HIDE DEF one
<1>2. CASE m = MaxColumns
  <2> DEFINE rest == Tail(columns)
  <2>1. rest \in Seq(Column) /\ Len(rest) = m - 1
        /\ \A i \in 1 .. m - 1 : rest[i] = columns[i + 1]
    BY <1>1, <1>2, HeadTailProperties, EmptySeq
  <2>2. window = Append(rest, column)
    BY <1>2 DEF AppendColumn
  <2> HIDE DEF rest
  <2>3. /\ window \in Seq(Column) /\ Len(window) = m
        /\ \A i \in 1 .. m - 1 : window[i] = rest[i]
        /\ window[m] = column
    BY <1>1, <2>1, <2>2, AppendProperties
  <2> HIDE DEF window, m
  <2>4. m + 1 > MaxColumns /\ MaxColumns - 1 = m - 1 /\ m - (m - 1) = 1
    BY <1>1, <1>2
  <2>5. \A i \in 1 .. m : window[i] = IF i <= m - 1 THEN columns[m - (m - 1) + i]
                                                   ELSE one[i - (m - 1)]
    <3> SUFFICES ASSUME NEW i \in 1 .. m
                 PROVE  window[i] = IF i <= m - 1 THEN columns[m - (m - 1) + i]
                                                  ELSE one[i - (m - 1)]
      OBVIOUS
    <3>1. CASE i <= m - 1
      <4>1. i \in 1 .. m - 1 /\ m - (m - 1) + i = i + 1
        BY <1>1, <3>1
      <4>2. window[i] = columns[i + 1]
        BY <2>1, <2>3, <4>1
      <4>3. QED
        BY <3>1, <4>1, <4>2
    <3>2. CASE ~(i <= m - 1)
      <4>1. i = m /\ i - (m - 1) = 1
        BY <1>1, <3>2
      <4>2. window[i] = one[1]
        BY <1>1, <2>3, <4>1
      <4>3. QED
        BY <3>2, <4>1, <4>2
    <3>3. QED
      BY <3>1, <3>2
  <2>6. /\ m = IF Len(columns) + Len(one) <= MaxColumns THEN Len(columns) + Len(one)
                                                      ELSE MaxColumns
        /\ m - 1 = m - Len(one)
    BY <1>1, <1>2 DEF m
  <2>7. Trailing(columns, one, window)
    <3>1. \A i \in 1 .. m : window[i] = IF i <= m - 1 THEN columns[Len(columns) - (m - 1) + i]
                                                     ELSE one[i - (m - 1)]
      BY <2>5 DEF m
    <3>2. QED
      BY <2>3, <2>6, <3>1, TrailingWindow
  <2>8. QED
    BY <2>7 DEF one, window
<1>3. CASE m # MaxColumns
  <2>1. window = Append(columns, column)
    BY <1>3 DEF AppendColumn
  <2>2. /\ window \in Seq(Column) /\ Len(window) = m + 1
        /\ \A i \in 1 .. m : window[i] = columns[i]
        /\ window[m + 1] = column
    BY <1>1, <2>1, AppendProperties
  <2> HIDE DEF window, m
  <2>3. m + 1 <= MaxColumns /\ (m + 1) - 1 = m /\ m - m = 0
    BY <1>1, <1>3 DEF m
  <2>4. \A i \in 1 .. m + 1 : window[i] = IF i <= m THEN columns[m - m + i] ELSE one[i - m]
    <3> SUFFICES ASSUME NEW i \in 1 .. m + 1
                 PROVE  window[i] = IF i <= m THEN columns[m - m + i] ELSE one[i - m]
      OBVIOUS
    <3>1. CASE i <= m
      <4>1. i \in 1 .. m /\ m - m + i = i
        BY <1>1, <3>1
      <4>2. QED
        BY <2>2, <3>1, <4>1
    <3>2. CASE ~(i <= m)
      <4>1. i = m + 1 /\ i - m = 1
        BY <1>1, <3>2
      <4>2. window[i] = one[1]
        BY <1>1, <2>2, <4>1
      <4>3. QED
        BY <3>2, <4>1, <4>2
    <3>3. QED
      BY <3>1, <3>2
  <2>5. /\ m + 1 = IF Len(columns) + Len(one) <= MaxColumns THEN Len(columns) + Len(one)
                                                          ELSE MaxColumns
        /\ m = (m + 1) - Len(one)
    BY <1>1, <2>3 DEF m
  <2>6. Trailing(columns, one, window)
    <3>1. \A i \in 1 .. m + 1 : window[i] = IF i <= m THEN columns[Len(columns) - m + i]
                                                     ELSE one[i - m]
      BY <2>4 DEF m
    <3>2. QED
      BY <2>2, <2>5, <3>1, TrailingWindow
  <2>7. QED
    BY <2>6 DEF one, window
<1>4. QED
  BY <1>2, <1>3

LEMMA AppendColumnsTrail ==
  ASSUME NEW columns \in Seq(Column), Len(columns) <= MaxColumns,
         NEW carried \in Seq(Column), Len(carried) <= MaxColumns
  PROVE  Trailing(columns, carried, AppendColumns(columns, carried))
<1> DEFINE m == Len(columns)
           n == Len(carried)
           excess == m + n - MaxColumns
           window == AppendColumns(columns, carried)
<1>1. m \in Nat /\ n \in Nat /\ MaxColumns \in Nat \ {0}
  BY LenProperties, HeatmapConfigAssumption
<1>2. CASE excess <= 0
  <2>1. window = columns \o carried
    BY <1>2 DEF AppendColumns
  <2>2. /\ window \in Seq(Column) /\ Len(window) = m + n
        /\ \A i \in 1 .. m + n : window[i] = IF i <= m THEN columns[i] ELSE carried[i - m]
    BY <2>1, ConcatProperties
  <2> HIDE DEF window
  <2>3. QED
    BY <1>1, <1>2, <2>2 DEF Trailing, window
<1>3. CASE excess > 0
  <2> DEFINE rest == SubSeq(columns, excess + 1, m)
  <2>1. window = rest \o carried
    <3>1. ~(excess <= 0)
      BY <1>1, <1>3
    <3>2. QED
      BY <3>1, Zenon DEF AppendColumns
  <2>2. \A i \in excess + 1 .. m : columns[i] \in Column
    BY <1>1, <1>3, ElementOfSeq
  <2>3. excess + 1 \in Int /\ m \in Int /\ excess \in 1 .. m
    BY <1>1, <1>3
  <2> HIDE DEF excess
  <2>4. /\ rest \in Seq(Column)
        /\ Len(rest) = IF excess + 1 <= m THEN m - (excess + 1) + 1 ELSE 0
        /\ \A i \in 1 .. m - (excess + 1) + 1 : rest[i] = columns[excess + 1 + i - 1]
    BY <2>2, <2>3, SubSeqProperties
  <2>5. Len(rest) = m - excess /\ \A i \in 1 .. m - excess : rest[i] = columns[excess + i]
    BY <1>1, <2>3, <2>4
  <2> HIDE DEF rest
  <2>6. window \in Seq(Column) /\ Len(window) = (m - excess) + n
        /\ \A i \in 1 .. (m - excess) + n :
             window[i] = IF i <= m - excess THEN rest[i] ELSE carried[i - (m - excess)]
    <3>1. /\ rest \o carried \in Seq(Column)
          /\ Len(rest \o carried) = Len(rest) + Len(carried)
          /\ \A i \in 1 .. Len(rest) + Len(carried) :
               (rest \o carried)[i] = IF i <= Len(rest) THEN rest[i] ELSE carried[i - Len(rest)]
      BY <2>4, ConcatProperties
    <3>2. Len(rest) = m - excess /\ Len(carried) = n
      BY <2>5
    <3> HIDE DEF n, window
    <3>3. QED
      BY <2>1, <3>1, <3>2, Zenon
  <2> HIDE DEF window
  <2>7. (m - excess) + n = MaxColumns /\ m + n > MaxColumns /\ MaxColumns - n = m - excess
    BY <1>1, <1>3 DEF excess
  <2> HIDE DEF m, n
  <2>8. ~(m + n <= MaxColumns) /\ Len(window) = MaxColumns /\ m - (m - excess) = excess
    BY <1>1, <2>3, <2>6, <2>7
  <2>9. \A i \in 1 .. MaxColumns :
          window[i] = IF i <= m - excess THEN columns[m - (m - excess) + i]
                                         ELSE carried[i - (m - excess)]
    BY <1>1, <2>3, <2>5, <2>6, <2>7, <2>8
  <2>10. Trailing(columns, carried, window)
    BY <2>6, <2>7, <2>8, <2>9, TrailingWindow DEF m, n
  <2>11. QED
    BY <2>10 DEF window
<1>4. QED
  BY <1>1, <1>2, <1>3

\* Appending twice is appending what was appended first and the rest.
LEMMA TrailingTwice ==
  ASSUME NEW older \in Seq(Column), Len(older) <= MaxColumns,
         NEW newer \in Seq(Column), Len(newer) < MaxColumns,
         NEW column \in Column, NEW window, NEW longer,
         Trailing(older, newer, window), Trailing(window, <<column>>, longer)
  PROVE  Trailing(older, Append(newer, column), longer)
<1> DEFINE m == Len(older)
           n == Len(newer)
           length == IF m + n <= MaxColumns THEN m + n ELSE MaxColumns
           all == Append(newer, column)
           one == <<column>>
<1>1. m \in Nat /\ n \in Nat /\ MaxColumns \in Nat \ {0} /\ length \in Nat
  BY LenProperties, HeatmapConfigAssumption
<1>2. all \in Seq(Column) /\ Len(all) = n + 1 /\ all[n + 1] = column
      /\ \A i \in 1 .. n : all[i] = newer[i]
  BY AppendProperties
<1>3. Len(one) = 1 /\ one[1] = column
  OBVIOUS
<1>4. Len(window) = length
      /\ \A i \in 1 .. length :
           window[i] = IF i <= length - n THEN older[m - (length - n) + i] ELSE newer[i - (length - n)]
  BY DEF Trailing
<1> DEFINE after == IF length + 1 <= MaxColumns THEN length + 1 ELSE MaxColumns
<1> HIDE DEF length, all, one
<1>5. longer \in Seq(Column) /\ Len(longer) = after
      /\ \A i \in 1 .. after :
           longer[i] = IF i <= after - 1 THEN window[length - (after - 1) + i] ELSE one[i - (after - 1)]
  BY <1>3, <1>4 DEF Trailing, one
<1>6. after = (IF m + (n + 1) <= MaxColumns THEN m + (n + 1) ELSE MaxColumns)
  BY <1>1 DEF length
<1>7. after \in Nat /\ after <= length + 1 /\ n + 1 <= after /\ n <= length /\ length - n <= m
      /\ (length - n) - (after - (n + 1)) = length - (after - 1)
      /\ 0 <= length - (after - 1)
  BY <1>1 DEF length
<1> HIDE DEF after, m, n
<1>8. ASSUME NEW i \in 1 .. after
      PROVE  longer[i] = IF i <= after - (n + 1) THEN older[m - (after - (n + 1)) + i]
                                                 ELSE all[i - (after - (n + 1))]
  <2>1. CASE i = after
    BY <1>1, <1>2, <1>3, <1>5, <1>7, <2>1
  <2>2. CASE i # after
    <3> DEFINE j == length - (after - 1) + i
    <3>1. i <= after - 1 /\ j \in 1 .. length
      BY <1>1, <1>7, <2>2
    <3>2. longer[i] = window[j]
      BY <1>5, <3>1
    <3>3. window[j] = IF j <= length - n THEN older[m - (length - n) + j] ELSE newer[j - (length - n)]
      BY <1>4, <3>1
    <3>4. CASE i <= after - (n + 1)
      <4>1. j <= length - n /\ m - (length - n) + j = m - (after - (n + 1)) + i
        BY <1>1, <1>7, <3>4
      <4>2. QED
        BY <3>2, <3>3, <3>4, <4>1
    <3>5. CASE ~(i <= after - (n + 1))
      <4>1. ~(j <= length - n) /\ j - (length - n) = i - (after - (n + 1))
            /\ i - (after - (n + 1)) \in 1 .. n
        BY <1>1, <1>7, <2>2, <3>5
      <4>2. QED
        BY <1>2, <3>2, <3>3, <3>5, <4>1
    <3>6. QED
      BY <3>4, <3>5
  <2>3. QED
    BY <2>1, <2>2
<1>9. QED
  BY <1>2, <1>5, <1>6, <1>8 DEF Trailing, m, all

\* The window after a sampled book, whatever was skipped: what is left of the window
\* before it, and the columns that lead to the book.
LEMMA SampledWindow ==
  ASSUME NEW history, WellFormed(history), NEW time \in Nat, NEW book \in Book, Samples(book),
         history.columns # <<>> => LastOf(history.columns).bucket < BucketStart(time)
  PROVE  LET columns == history.columns
             bucket  == BucketStart(time)
             count   == NewCount(columns, history.carryForward, bucket)
         IN  Trailing(columns, NewColumns(columns, count, bucket, book),
                      Sample(history, time, book).columns)
<1> DEFINE columns == history.columns
           bucket  == BucketStart(time)
           column  == [bucket |-> bucket, book |-> book]
           count   == NewCount(columns, history.carryForward, bucket)
           newer   == NewColumns(columns, count, bucket, book)
           after   == Sample(history, time, book).columns
           filled  == Backfill(columns, history.carryForward, bucket)
<1>1. /\ columns \in Seq(Column) /\ Len(columns) <= MaxColumns /\ Len(columns) \in Nat
      /\ history.carryForward \in BOOLEAN
  BY LenProperties DEF WellFormed, History
<1>2. bucket \in Nat /\ column \in Column /\ MaxColumns \in Nat \ {0}
  BY BucketIsNatural, HeatmapConfigAssumption DEF Column
<1>3. after = IF columns = <<>> THEN <<column>>
              ELSE IF bucket = LastOf(columns).bucket
              THEN [columns EXCEPT ![Len(columns)] = column]
              ELSE AppendColumn(filled, column)
  BY DEF Sample
<1>0. columns # <<>> => LastOf(columns).bucket < bucket
  OBVIOUS
<1> HIDE DEF columns, bucket, column, newer, after, filled
<1>4. columns # <<>> => /\ LastOf(columns).bucket < bucket
                        /\ LastOf(columns) \in Column /\ LastOf(columns).bucket \in Nat
                        /\ Len(columns) > 0
  <2> SUFFICES ASSUME columns # <<>>
               PROVE  /\ LastOf(columns).bucket < bucket
                      /\ LastOf(columns) \in Column /\ LastOf(columns).bucket \in Nat
                      /\ Len(columns) > 0
    OBVIOUS
  <2>1. LastOf(columns) \in Column /\ Len(columns) \in Nat \ {0}
    BY <1>1, LastOfColumns
  <2>2. LastOf(columns).bucket \in Nat
    BY <2>1 DEF Column
  <2>3. QED
    BY <1>0, <2>1, <2>2
<1>5. columns # <<>> => after = AppendColumn(filled, column)
  BY <1>2, <1>3, <1>4
<1>6. count \in 1 .. MaxColumns /\ bucket - count + 1 \in Nat
  BY <1>0, <1>1, <1>2, NewCountBounds
<1>7. count = 1 \/ columns # <<>>
  BY DEF NewCount
<1> HIDE DEF count
<1>8. /\ newer \in Seq(Column) /\ Len(newer) = count
      /\ \A i \in 1 .. count : newer[i].bucket = bucket - count + i
      /\ newer[count] = column
      /\ \A i \in 1 .. count - 1 : newer[i].book = LastOf(columns).book
  <2>1. count \in Nat \ {0} /\ bucket - count + 1 \in Nat
    BY <1>2, <1>6
  <2>2. columns \in Seq(Column) /\ bucket \in Nat /\ book \in Book
    BY <1>1, <1>2
  <2>3. QED
    BY <1>7, <2>1, <2>2, NewColumnsType DEF newer, column
<1> DEFINE one  == <<column>>
           last == LastOf(columns)
<1>9. one \in Seq(Column) /\ Len(one) = 1 /\ one[1] = column
  BY <1>2
<1> HIDE DEF one, last
<1>10. CASE count = 1 /\ after = AppendColumn(columns, column)
  <2>1. newer = one
    <3>1. \A i \in 1 .. Len(newer) : newer[i] = one[i]
      BY <1>8, <1>9, <1>10
    <3>2. QED
      BY <1>8, <1>9, <1>10, <3>1, SeqEqual
  <2>2. Trailing(columns, one, after)
    BY <1>1, <1>2, <1>10, AppendColumnTrails DEF one
  <2>3. QED
    BY <2>1, <2>2 DEF columns, bucket, count, newer, after
<1>11. CASE columns = <<>>
  <2>1. AppendColumn(columns, column) = one
    BY <1>2, <1>11 DEF AppendColumn, one
  <2>2. after = one
    BY <1>3, <1>11 DEF one
  <2>3. count = 1
    BY <1>11 DEF count, NewCount
  <2>4. QED
    BY <1>10, <2>1, <2>2, <2>3
<1>12. CASE columns # <<>> /\ ~history.carryForward
  <2>1. filled = columns /\ count = 1
    BY <1>12 DEF filled, Backfill, count, NewCount
  <2>2. QED
    BY <1>5, <1>10, <1>12, <2>1
<1>13. CASE columns # <<>> /\ history.carryForward /\ bucket - last.bucket >= MaxColumns
  <2> DEFINE n == MaxColumns - 1
  <2>1. /\ count = MaxColumns /\ n \in Nat /\ n + 1 = MaxColumns /\ n < MaxColumns
        /\ filled = CarriedColumns(last, bucket - n, n)
    BY <1>2, <1>13 DEF filled, Backfill, count, NewCount, last
  <2>2. last \in Column /\ bucket - n \in Nat /\ n \in Int
    BY <1>2, <1>4, <1>13 DEF last
  <2>3. filled \in Seq(Column) /\ Len(filled) = n
    BY <2>1, <2>2, CarriedColumnsAreColumns
  <2>4. \A i \in 1 .. n : filled[i] = [last EXCEPT !.bucket = (bucket - n) + i - 1]
    BY <2>1 DEF CarriedColumns
  <2>5. after = Append(filled, column)
    BY <1>5, <1>13, <2>1, <2>3 DEF AppendColumn
  <2>6. /\ after \in Seq(Column) /\ Len(after) = n + 1
        /\ \A i \in 1 .. n : after[i] = filled[i]
        /\ after[n + 1] = column
    BY <1>2, <2>3, <2>5, AppendProperties
  <2> HIDE DEF n
  <2>7. ASSUME NEW i \in 1 .. n + 1
        PROVE  after[i] = newer[i]
    <3>1. CASE i = n + 1
      BY <1>8, <2>1, <2>6, <3>1
    <3>2. CASE i # n + 1
      <4>1. i \in 1 .. n /\ i \in 1 .. count /\ i \in 1 .. count - 1
            /\ (bucket - n) + i - 1 = bucket - count + i
        BY <1>2, <2>1, <3>2
      <4>2. after[i] = [last EXCEPT !.bucket = bucket - count + i]
        BY <2>4, <2>6, <4>1
      <4>3. newer[i] \in Column /\ newer[i].bucket = bucket - count + i /\ newer[i].book = last.book
        BY <1>8, <4>1, ElementOfSeq DEF last
      <4>4. QED
        BY <2>2, <4>2, <4>3 DEF Column
    <3>3. QED
      BY <3>1, <3>2
  <2>8. after = newer
    BY <1>8, <2>1, <2>6, <2>7, SeqEqual
  <2>9. /\ MaxColumns = IF Len(columns) + Len(newer) <= MaxColumns THEN Len(columns) + Len(newer)
                                                              ELSE MaxColumns
        /\ 0 = MaxColumns - Len(newer)
    BY <1>1, <1>2, <1>4, <1>8, <1>13, <2>1
  <2>10. \A i \in 1 .. MaxColumns : newer[i] = IF i <= 0 THEN columns[Len(columns) - 0 + i]
                                                        ELSE newer[i - 0]
    <3> SUFFICES ASSUME NEW i \in 1 .. MaxColumns
                 PROVE  newer[i] = IF i <= 0 THEN columns[Len(columns) - 0 + i] ELSE newer[i - 0]
      OBVIOUS
    <3>1. ~(i <= 0) /\ i - 0 = i
      OBVIOUS
    <3>2. QED
      BY <3>1
  <2>11. Trailing(columns, newer, newer)
    BY <1>8, <2>1, <2>9, <2>10, TrailingWindow
  <2>12. QED
    BY <2>8, <2>11 DEF columns, bucket, count, newer, after
<1>14. CASE columns # <<>> /\ history.carryForward /\ ~(bucket - last.bucket >= MaxColumns)
  <2> DEFINE n       == bucket - last.bucket - 1
             carried == CarriedColumns(last, last.bucket + 1, n)
             both    == Append(carried, column)
  <2>1. last \in Column /\ last.bucket \in Nat /\ last.bucket < bucket /\ last.bucket + 1 \in Nat
    BY <1>4, <1>14 DEF last
  <2>2. count = n + 1 /\ n \in Nat /\ n < MaxColumns /\ filled = AppendColumns(columns, carried)
    BY <1>2, <1>14, <2>1 DEF filled, Backfill, count, NewCount, last
  <2>3. carried \in Seq(Column) /\ Len(carried) = n
    BY <2>1, <2>2, CarriedColumnsAreColumns
  <2>4. \A i \in 1 .. n : carried[i] = [last EXCEPT !.bucket = (last.bucket + 1) + i - 1]
    BY DEF CarriedColumns
  <2> HIDE DEF carried
  <2>5. /\ both \in Seq(Column) /\ Len(both) = n + 1
        /\ \A i \in 1 .. n : both[i] = carried[i]
        /\ both[n + 1] = column
    BY <1>2, <2>3, AppendProperties
  <2>6. (last.bucket + 1) + n = bucket
    BY <1>2, <2>1
  <2> HIDE DEF n, both
  <2>7. ASSUME NEW i \in 1 .. n + 1
        PROVE  both[i] = newer[i]
    <3>1. CASE i = n + 1
      BY <1>8, <2>2, <2>5, <3>1
    <3>2. CASE i # n + 1
      <4>1. i \in 1 .. n /\ i \in 1 .. count /\ i \in 1 .. count - 1
            /\ (last.bucket + 1) + i - 1 = bucket - count + i
        BY <1>2, <2>1, <2>2, <2>6, <3>2
      <4>2. both[i] = [last EXCEPT !.bucket = bucket - count + i]
        BY <2>4, <2>5, <4>1
      <4>3. newer[i] \in Column /\ newer[i].bucket = bucket - count + i /\ newer[i].book = last.book
        BY <1>8, <4>1, ElementOfSeq DEF last
      <4>4. QED
        BY <2>1, <4>2, <4>3 DEF Column
    <3>3. QED
      BY <3>1, <3>2
  <2>8. both = newer
    BY <1>8, <2>2, <2>5, <2>7, SeqEqual
  <2>9. /\ filled \in Seq(Column) /\ Len(filled) <= MaxColumns /\ Trailing(columns, carried, filled)
    <3>1. columns \in Seq(Column) /\ Len(columns) <= MaxColumns /\ Len(carried) <= MaxColumns
      BY <1>1, <1>2, <2>2, <2>3
    <3>2. QED
      BY <2>2, <2>3, <3>1, AppendColumnsTrail, AppendedColumns, Zenon
  <2>10. Trailing(filled, <<column>>, after)
    BY <1>2, <1>5, <1>14, <2>9, AppendColumnTrails
  <2>11. Trailing(columns, Append(carried, column), after)
    BY <1>1, <1>2, <2>2, <2>3, <2>9, <2>10, TrailingTwice
  <2>12. QED
    BY <2>8, <2>11 DEF both, columns, bucket, count, newer, after
<1>15. QED
  BY <1>11, <1>12, <1>13, <1>14

\* A window that trails: some of the older columns, and all of the newer ones.
LEMMA TrailingParts ==
  ASSUME NEW older \in Seq(Column), Len(older) <= MaxColumns,
         NEW newer \in Seq(Column), Len(newer) \in 1 .. MaxColumns,
         NEW window, Trailing(older, newer, window)
  PROVE  LET kept == Len(window) - Len(newer)
         IN  /\ window \in Seq(Column) /\ Len(window) \in 1 .. MaxColumns
             /\ kept \in 0 .. Len(older)
             /\ Len(older) + Len(newer) <= MaxColumns => kept = Len(older)
             /\ Len(older) + Len(newer) > MaxColumns  => Len(window) = MaxColumns
             /\ \A i \in 1 .. kept : window[i] = older[Len(older) - kept + i]
             /\ \A i \in 1 .. Len(newer) : window[kept + i] = newer[i]
             /\ LastOf(window) = LastOf(newer)
<1> DEFINE m      == Len(older)
           n      == Len(newer)
           length == IF m + n <= MaxColumns THEN m + n ELSE MaxColumns
           kept   == length - n
<1>1. m \in Nat /\ n \in 1 .. MaxColumns /\ MaxColumns \in Nat \ {0} /\ m <= MaxColumns
  BY LenProperties, HeatmapConfigAssumption
<1>2. /\ window \in Seq(Column) /\ Len(window) = length
      /\ \A i \in 1 .. length :
           window[i] = IF i <= kept THEN older[m - kept + i] ELSE newer[i - kept]
  BY DEF Trailing
<1>3. /\ length \in 1 .. MaxColumns /\ kept \in 0 .. m /\ kept + n = length
      /\ m + n <= MaxColumns => kept = m
      /\ m + n > MaxColumns  => length = MaxColumns
  BY <1>1
<1> HIDE DEF length, kept
<1>4. \A i \in 1 .. kept : window[i] = older[m - kept + i]
  BY <1>1, <1>2, <1>3
<1>5. ASSUME NEW i \in 1 .. n
      PROVE  window[kept + i] = newer[i]
  <2> DEFINE j == kept + i
  <2>1. j \in 1 .. length /\ ~(j <= kept) /\ j - kept = i
    BY <1>1, <1>3
  <2> HIDE DEF j
  <2>2. window[j] = newer[j - kept]
    BY <1>2, <2>1
  <2>3. QED
    BY <2>1, <2>2 DEF j
<1>6. LastOf(window) = LastOf(newer)
  <2>1. n \in 1 .. n
    BY <1>1
  <2>2. window[kept + n] = newer[n]
    BY <1>5, <2>1
  <2>3. QED
    BY <1>2, <1>3, <2>2 DEF LastOf
<1>7. kept = Len(window) - Len(newer)
  BY <1>1, <1>2, <1>3
<1>8. QED
  BY <1>2, <1>3, <1>4, <1>5, <1>6, <1>7

\* Time goes on: so does the window.
LEMMA TrailingIsChronological ==
  ASSUME NEW older \in Seq(Column), Len(older) <= MaxColumns, Chronological(older),
         NEW newer \in Seq(Column), Len(newer) \in 1 .. MaxColumns, Chronological(newer),
         older # <<>> => LastOf(older).bucket < newer[1].bucket,
         NEW window, Trailing(older, newer, window)
  PROVE  /\ Chronological(window)
         /\ \A i \in 1 .. Len(window) - Len(newer) : window[i].bucket <= LastOf(older).bucket
         /\ \A i \in Len(window) - Len(newer) + 1 .. Len(window) :
              older # <<>> => LastOf(older).bucket < window[i].bucket
<1> DEFINE m    == Len(older)
           n    == Len(newer)
           kept == Len(window) - n
<1>1. /\ window \in Seq(Column) /\ Len(window) \in 1 .. MaxColumns
      /\ kept \in 0 .. m
      /\ \A i \in 1 .. kept : window[i] = older[m - kept + i]
      /\ \A i \in 1 .. n : window[kept + i] = newer[i]
  BY TrailingParts
<1>2. m \in Nat /\ n \in Nat \ {0} /\ Len(window) = kept + n
  BY <1>1, LenProperties
<1>3. ASSUME NEW i \in 1 .. m
      PROVE  older[i].bucket \in Nat
  <2>1. older[i] \in Column
    BY ElementOfSeq
  <2>2. QED
    BY <2>1 DEF Column
<1>4. ASSUME NEW i \in 1 .. n
      PROVE  newer[i].bucket \in Nat
  <2>1. newer[i] \in Column
    BY ElementOfSeq
  <2>2. QED
    BY <2>1 DEF Column
<1>5. \A i, j \in 1 .. m : i < j => older[i].bucket < older[j].bucket
  BY DEF Chronological
<1>6. \A i, j \in 1 .. n : i < j => newer[i].bucket < newer[j].bucket
  BY DEF Chronological
<1>7. older # <<>> => LastOf(older) = older[m] /\ older[m].bucket < newer[1].bucket
  BY DEF LastOf
<1>8. m > 0 => older # <<>>
  OBVIOUS
<1> HIDE DEF m, n, kept
<1>9. ASSUME NEW i \in 1 .. kept
      PROVE  window[i].bucket \in Nat /\ older # <<>> /\ window[i].bucket <= older[m].bucket
  <2> DEFINE j == m - kept + i
  <2>1. j \in 1 .. m /\ m \in 1 .. m /\ m > 0
    BY <1>1, <1>2
  <2>2. window[i] = older[j]
    BY <1>1
  <2> HIDE DEF j
  <2>3. QED
    BY <1>3, <1>5, <1>8, <2>1, <2>2
<1>10. ASSUME NEW i \in kept + 1 .. kept + n
       PROVE  /\ window[i].bucket \in Nat /\ newer[1].bucket <= window[i].bucket
              /\ older # <<>> => older[m].bucket < window[i].bucket
  <2> DEFINE j == i - kept
  <2>1. j \in 1 .. n /\ 1 \in 1 .. n /\ kept + j = i
    BY <1>1, <1>2
  <2>2. window[i] = newer[j]
    BY <1>1, <2>1
  <2> HIDE DEF j
  <2>3. older # <<>> => m \in 1 .. m
    <3>1. older # <<>> => Len(older) # 0
      BY EmptySeq
    <3>2. QED
      BY <1>2, <3>1 DEF m
  <2>4. QED
    BY <1>3, <1>4, <1>6, <1>7, <2>1, <2>2, <2>3
<1>11. ASSUME NEW i \in 1 .. kept + n, NEW j \in 1 .. kept + n, i < j
       PROVE  window[i].bucket < window[j].bucket
  <2>1. CASE j <= kept
    <3> DEFINE a == m - kept + i
               b == m - kept + j
    <3>1. i \in 1 .. kept /\ j \in 1 .. kept /\ a \in 1 .. m /\ b \in 1 .. m /\ a < b
      BY <1>1, <1>2, <1>11, <2>1
    <3>2. window[i] = older[a] /\ window[j] = older[b]
      BY <1>1, <3>1
    <3> HIDE DEF a, b
    <3>3. QED
      BY <1>5, <3>1, <3>2
  <2>2. CASE i > kept
    <3> DEFINE a == i - kept
               b == j - kept
    <3>1. a \in 1 .. n /\ b \in 1 .. n /\ a < b /\ kept + a = i /\ kept + b = j
      BY <1>1, <1>2, <1>11, <2>2
    <3>2. window[i] = newer[a] /\ window[j] = newer[b]
      BY <1>1, <3>1
    <3> HIDE DEF a, b
    <3>3. QED
      BY <1>6, <3>1, <3>2
  <2>3. CASE i <= kept /\ j > kept
    <3>1. i \in 1 .. kept /\ j \in kept + 1 .. kept + n
      BY <1>1, <1>2, <2>3
    <3>2. /\ window[i].bucket <= older[m].bucket /\ older # <<>> /\ window[i].bucket \in Nat
          /\ older[m].bucket < window[j].bucket /\ window[j].bucket \in Nat
      BY <1>9, <1>10, <3>1
    <3>3. m \in 1 .. m
      BY <1>1, <1>2, <3>1
    <3>4. older[m].bucket \in Nat
      BY <1>3, <3>3
    <3>5. QED
      BY <3>2, <3>4
  <2>4. QED
    BY <1>1, <1>2, <2>1, <2>2, <2>3
<1>12. Chronological(window)
  BY <1>2, <1>11 DEF Chronological
<1>13. kept = Len(window) - Len(newer) /\ kept + n = Len(window)
  BY <1>2 DEF kept, n
<1>14. \A i \in 1 .. kept : window[i].bucket <= LastOf(older).bucket
  BY <1>7, <1>9
<1>15. \A i \in kept + 1 .. kept + n : older # <<>> => LastOf(older).bucket < window[i].bucket
  BY <1>7, <1>10
<1>16. QED
  BY <1>12, <1>13, <1>14, <1>15
------------------------------------------------------------------------------
(***************************************************************************)
(* What the engine publishes of the window, and what the hub makes of it.  *)
(***************************************************************************)

\* Columns as the hub numbers them, the next of them `next'.
NumberedColumns(columns, next) ==
  [i \in DOMAIN columns |-> [index |-> next - Len(columns) + i - 1, column |-> columns[i]]]
Numbered(engine) == NumberedColumns(engine.history.columns, engine.nextIndex)

\* The updates that add new columns, the first of them `next'.
Additions(newer, next) ==
  [i \in DOMAIN newer |-> [index |-> next + i - 1, replaces |-> FALSE, column |-> newer[i]]]

\* The last published column.
EmittedOf(columns) == IF columns = <<>> THEN NoTime ELSE LastOf(columns).bucket

LEMMA NumberedType ==
  ASSUME NEW columns \in Seq(Column), NEW next \in Nat, Len(columns) <= next
  PROVE  /\ NumberedColumns(columns, next) \in Seq(StoredColumn)
         /\ Len(NumberedColumns(columns, next)) = Len(columns)
         /\ DOMAIN NumberedColumns(columns, next) = 1 .. Len(columns)
         /\ \A i \in 1 .. Len(columns) :
              NumberedColumns(columns, next)[i]
                = [index |-> next - Len(columns) + i - 1, column |-> columns[i]]
<1> DEFINE m     == Len(columns)
           at(i) == [index |-> next - m + i - 1, column |-> columns[i]]
<1>1. m \in Nat /\ DOMAIN columns = 1 .. m
  BY LenProperties
<1>2. NumberedColumns(columns, next) = [i \in 1 .. m |-> at(i)]
  BY <1>1 DEF NumberedColumns
<1>3. ASSUME NEW i \in 1 .. m
      PROVE  at(i) \in StoredColumn
  <2>1. columns[i] \in Column /\ next - m + i - 1 \in Nat
    BY <1>1, ElementOfSeq
  <2>2. QED
    BY <2>1 DEF StoredColumn
<1> HIDE DEF at
<1>4. [i \in 1 .. m |-> at(i)] \in Seq(StoredColumn)
  <2> HIDE DEF m
  <2>1. QED
    BY <1>1, <1>3, IsASeq
<1>5. QED
  BY <1>1, <1>2, <1>4, LenProperties DEF at

LEMMA AdditionsType ==
  ASSUME NEW newer \in Seq(Column), NEW next \in Nat
  PROVE  /\ Additions(newer, next) \in Seq(ColumnUpdate)
         /\ Len(Additions(newer, next)) = Len(newer)
         /\ DOMAIN Additions(newer, next) = 1 .. Len(newer)
         /\ \A i \in 1 .. Len(newer) :
              Additions(newer, next)[i]
                = [index |-> next + i - 1, replaces |-> FALSE, column |-> newer[i]]
<1> DEFINE n     == Len(newer)
           at(i) == [index |-> next + i - 1, replaces |-> FALSE, column |-> newer[i]]
<1>1. n \in Nat /\ DOMAIN newer = 1 .. n
  BY LenProperties
<1>2. Additions(newer, next) = [i \in 1 .. n |-> at(i)]
  BY <1>1 DEF Additions
<1>3. ASSUME NEW i \in 1 .. n
      PROVE  at(i) \in ColumnUpdate
  <2>1. newer[i] \in Column /\ next + i - 1 \in Nat
    BY <1>1, ElementOfSeq
  <2>2. QED
    BY <2>1 DEF ColumnUpdate
<1> HIDE DEF at
<1>4. [i \in 1 .. n |-> at(i)] \in Seq(ColumnUpdate)
  <2> HIDE DEF n
  <2>1. QED
    BY <1>1, <1>3, IsASeq
<1>5. QED
  BY <1>1, <1>2, <1>4, LenProperties DEF at

\* The columns later than the last published one are the new ones.
LEMMA FreshAreNewer ==
  ASSUME NEW older \in Seq(Column), Len(older) <= MaxColumns, Chronological(older),
         NEW newer \in Seq(Column), Len(newer) \in 1 .. MaxColumns, Chronological(newer),
         older # <<>> => LastOf(older).bucket < newer[1].bucket,
         NEW window, Trailing(older, newer, window)
  PROVE  FreshColumns(window, EmittedOf(older)) = newer
<1> DEFINE n       == Len(newer)
           kept    == Len(window) - n
           emitted == EmittedOf(older)
           known   == {i \in DOMAIN window : window[i].bucket <= emitted}
<1>1. /\ window \in Seq(Column) /\ Len(window) \in 1 .. MaxColumns
      /\ kept \in 0 .. Len(older)
      /\ \A i \in 1 .. n : window[kept + i] = newer[i]
  BY TrailingParts
<1>2. /\ \A i \in 1 .. kept : window[i].bucket <= LastOf(older).bucket
      /\ \A i \in kept + 1 .. Len(window) :
           older # <<>> => LastOf(older).bucket < window[i].bucket
  BY TrailingIsChronological
<1>3. /\ n \in Nat \ {0} /\ Len(window) = kept + n /\ Len(older) \in Nat
      /\ DOMAIN window = 1 .. kept + n /\ kept \in Nat
  BY <1>1, LenProperties
<1>4. older = <<>> => kept = 0 /\ emitted = NoTime
  BY <1>1 DEF EmittedOf
<1>5. older # <<>> => emitted = LastOf(older).bucket /\ emitted \in Nat
  BY LastOfColumns DEF EmittedOf, Column
<1> HIDE DEF emitted
<1>6. ASSUME NEW i \in 1 .. kept + n
      PROVE  window[i].bucket \in Nat
  <2>1. window[i] \in Column
    BY <1>1, <1>3, ElementOfSeq
  <2>2. QED
    BY <2>1 DEF Column
<1>7. ASSUME NEW i \in 1 .. kept + n
      PROVE  window[i].bucket <= emitted <=> i \in 1 .. kept
  <2>1. CASE i <= kept
    <3>1. i \in 1 .. kept /\ kept # 0
      BY <1>1, <1>3, <2>1
    <3>2. window[i].bucket <= LastOf(older).bucket
      BY <1>2, <3>1
    <3>3. QED
      BY <1>4, <1>5, <3>1, <3>2
  <2>2. CASE i > kept
    <3>1. i \in kept + 1 .. Len(window) /\ i \notin 1 .. kept
      BY <1>3, <2>2
    <3>2. CASE older = <<>>
      <4>1. window[i].bucket \in Nat /\ emitted = -1
        BY <1>4, <1>6, <3>2 DEF NoTime
      <4>2. QED
        BY <3>1, <4>1
    <3>3. CASE older # <<>>
      <4>1. emitted < window[i].bucket
        BY <1>2, <1>5, <3>1, <3>3
      <4>2. QED
        BY <1>5, <1>6, <3>1, <3>3, <4>1
    <3>4. QED
      BY <3>2, <3>3
  <2>3. QED
    BY <1>1, <1>3, <2>1, <2>2
<1>8. known = 1 .. kept
  <2>1. 1 .. kept \subseteq 1 .. kept + n
    BY <1>1, <1>3
  <2>2. QED
    BY <1>3, <1>7, <2>1
<1>9. Cardinality(known) = kept
  <2>1. kept \in Int /\ 1 \in Int /\ (IF 1 > kept THEN 0 ELSE kept - 1 + 1) = kept
    BY <1>1
  <2> HIDE DEF known, kept
  <2>2. Cardinality(1 .. kept) = IF 1 > kept THEN 0 ELSE kept - 1 + 1
    BY <2>1, FS_Interval
  <2>3. QED
    BY <1>8, <2>1, <2>2
<1>10. FreshColumns(window, emitted) = SubSeq(window, kept + 1, Len(window))
  BY <1>9 DEF FreshColumns
<1> DEFINE fresh == SubSeq(window, kept + 1, Len(window))
<1>11. /\ fresh \in Seq(Column) /\ Len(fresh) = n
       /\ \A i \in 1 .. n : fresh[i] = window[(kept + 1) + i - 1]
  <2> DEFINE first == kept + 1
  <2>1. /\ first \in 1 .. Len(window) + 1 /\ Len(window) \in 0 .. Len(window)
        /\ Len(window) - first + 1 = n /\ first <= Len(window)
    BY <1>1, <1>3
  <2>2. \A i \in first .. Len(window) : window[i] \in Column
    BY <1>1, <2>1, ElementOfSeq
  <2> HIDE DEF kept, first, n
  <2>3. /\ SubSeq(window, first, Len(window)) \in Seq(Column)
        /\ Len(SubSeq(window, first, Len(window))) = n
        /\ \A i \in 1 .. n : SubSeq(window, first, Len(window))[i] = window[first + i - 1]
    BY <1>1, <2>1, <2>2, SubSeqProperties
  <2>4. QED
    BY <2>3 DEF first
<1> HIDE DEF fresh, kept
<1>12. \A i \in 1 .. n : fresh[i] = newer[i]
  <2> SUFFICES ASSUME NEW i \in 1 .. n
               PROVE  fresh[i] = newer[i]
    OBVIOUS
  <2>1. (kept + 1) + i - 1 = kept + i
    BY <1>1
  <2>2. QED
    BY <1>1, <1>11, <2>1
<1>13. fresh = newer
  BY <1>11, <1>12, SeqEqual
<1>14. QED
  BY <1>10, <1>13 DEF fresh, emitted

\* The hub's window and the engine's, after new columns.
LEMMA StoredAdditions ==
  ASSUME NEW older \in Seq(Column), Len(older) <= MaxColumns,
         NEW newer \in Seq(Column), Len(newer) \in 1 .. MaxColumns,
         NEW window, Trailing(older, newer, window),
         NEW next \in Nat, Len(older) <= next
  PROVE  /\ StoreUpdates(NumberedColumns(older, next), Additions(newer, next))
              = NumberedColumns(window, next + Len(newer))
         /\ Len(window) <= next + Len(newer)
<1> DEFINE m       == Len(older)
           n       == Len(newer)
           kept    == Len(window) - n
           stored  == NumberedColumns(older, next)
           updates == Additions(newer, next)
           after   == NumberedColumns(window, next + n)
           new     == [i \in DOMAIN updates |->
                         [index |-> updates[i].index, column |-> updates[i].column]]
           excess  == m + n - MaxColumns
           at(i)   == [index |-> next + i - 1, column |-> newer[i]]
<1>1. /\ m \in Nat /\ n \in Nat \ {0} /\ MaxColumns \in Nat \ {0} /\ m <= MaxColumns
      /\ next \in Nat /\ m <= next /\ excess \in Int /\ n <= MaxColumns
  BY LenProperties, HeatmapConfigAssumption
<1>2. /\ window \in Seq(Column) /\ Len(window) = kept + n /\ Len(window) \in 1 .. MaxColumns
      /\ kept \in 0 .. m
      /\ excess <= 0 => kept = m
      /\ excess > 0  => kept + n = MaxColumns /\ kept = m - excess
      /\ \A i \in 1 .. kept : window[i] = older[m - kept + i]
      /\ \A i \in 1 .. n : window[kept + i] = newer[i]
  <2>1. /\ window \in Seq(Column) /\ Len(window) \in 1 .. MaxColumns
        /\ kept \in 0 .. m
        /\ m + n <= MaxColumns => kept = m
        /\ m + n > MaxColumns  => Len(window) = MaxColumns
        /\ \A i \in 1 .. kept : window[i] = older[m - kept + i]
        /\ \A i \in 1 .. n : window[kept + i] = newer[i]
    BY TrailingParts
  <2>2. Len(window) = kept + n
    BY <1>1, <2>1
  <2> HIDE DEF kept
  <2>3. QED
    BY <1>1, <2>1, <2>2
<1>3. /\ stored \in Seq(StoredColumn) /\ Len(stored) = m
      /\ \A i \in 1 .. m : stored[i] = [index |-> next - m + i - 1, column |-> older[i]]
  BY NumberedType
<1>4. /\ kept \in 0 .. m /\ Len(window) = kept + n
      /\ Len(window) <= next + n /\ next + n \in Nat
  <2> HIDE DEF kept, m, n
  <2>1. kept \in 0 .. m /\ Len(window) = kept + n
    BY <1>2
  <2>2. QED
    BY <1>1, <2>1
<1>5. /\ after \in Seq(StoredColumn) /\ Len(after) = kept + n
      /\ \A i \in 1 .. kept + n :
           after[i] = [index |-> (next + n) - (kept + n) + i - 1, column |-> window[i]]
  <2> DEFINE number == next + n
  <2>1. number \in Nat /\ Len(window) <= number
    BY <1>4
  <2> HIDE DEF number, kept
  <2>2. /\ NumberedColumns(window, number) \in Seq(StoredColumn)
        /\ Len(NumberedColumns(window, number)) = Len(window)
        /\ \A i \in 1 .. Len(window) :
             NumberedColumns(window, number)[i]
               = [index |-> number - Len(window) + i - 1, column |-> window[i]]
    BY <1>2, <2>1, NumberedType
  <2>3. QED
    BY <1>2, <2>2 DEF number
<1>6. /\ Len(updates) = n /\ DOMAIN updates = 1 .. n
      /\ \A i \in 1 .. n :
           updates[i] = [index |-> next + i - 1, replaces |-> FALSE, column |-> newer[i]]
  BY AdditionsType
<1> HIDE DEF stored, updates, after, kept
<1>7. updates # <<>> /\ ~updates[1].replaces
  <2>1. 1 \in 1 .. n
    BY <1>1
  <2>2. ~updates[1].replaces
    BY <1>6, <2>1
  <2>3. QED
    BY <1>1, <1>6, <2>2
<1>8. new \in Seq(StoredColumn) /\ Len(new) = n /\ \A i \in 1 .. n : new[i] = at(i)
  <2>1. new = [i \in 1 .. n |-> at(i)]
    <3> SUFFICES \A i \in 1 .. n : [index |-> updates[i].index, column |-> updates[i].column] = at(i)
      BY <1>6
    <3>1. QED
      BY <1>6
  <2>2. ASSUME NEW i \in 1 .. n
        PROVE  at(i) \in StoredColumn
    <3>1. newer[i] \in Column /\ next + i - 1 \in Nat
      BY <1>1, ElementOfSeq
    <3>2. QED
      BY <3>1 DEF StoredColumn
  <2> HIDE DEF at, new
  <2>3. [i \in 1 .. n |-> at(i)] \in Seq(StoredColumn)
    <3> HIDE DEF n
    <3>1. QED
      BY <1>1, <2>2, IsASeq
  <2>4. QED
    BY <1>1, <2>1, <2>3, LenProperties
<1> DEFINE all    == stored \o new
           result == StoreUpdates(stored, updates)
<1>9. result = IF excess <= 0 THEN all ELSE SubSeq(all, excess + 1, m + n)
  BY <1>3, <1>7, <1>8, Zenon DEF StoreUpdates
<1> HIDE DEF new, result
<1>10. /\ all \in Seq(StoredColumn) /\ Len(all) = m + n
       /\ \A i \in 1 .. m : all[i] = stored[i]
       /\ \A i \in m + 1 .. m + n : all[i] = new[i - m]
  <2> HIDE DEF m, n
  <2>1. /\ all \in Seq(StoredColumn)
        /\ Len(all) = Len(stored) + Len(new)
        /\ \A i \in 1 .. Len(stored) + Len(new) :
             all[i] = IF i <= Len(stored) THEN stored[i] ELSE new[i - Len(stored)]
    BY <1>3, <1>8, ConcatProperties
  <2>2. Len(stored) = m /\ Len(new) = n /\ m \in Nat /\ n \in Nat
    BY <1>1, <1>3, <1>8
  <2>3. /\ Len(all) = m + n
        /\ \A i \in 1 .. m + n : all[i] = IF i <= m THEN stored[i] ELSE new[i - m]
    BY <2>1, <2>2
  <2>4. ASSUME NEW i \in 1 .. m
        PROVE  all[i] = stored[i]
    BY <2>2, <2>3
  <2>5. ASSUME NEW i \in m + 1 .. m + n
        PROVE  all[i] = new[i - m]
    BY <2>2, <2>3
  <2>6. QED
    BY <2>1, <2>3, <2>4, <2>5
<1> HIDE DEF all, excess, m, n
\* Where each of the columns that are kept comes from.
<1>11. ASSUME NEW i \in 1 .. kept + n
       PROVE  (m - kept) + i \in 1 .. m + n /\ all[(m - kept) + i] = after[i]
  <2> DEFINE j == (m - kept) + i
  <2>1. j \in 1 .. m + n
    BY <1>1, <1>2
  <2>2. after[i] = [index |-> (next + n) - (kept + n) + i - 1, column |-> window[i]]
    BY <1>5
  <2>3. CASE i <= kept
    <3>1. /\ j \in 1 .. m /\ i \in 1 .. kept /\ m - kept + i = j
          /\ next - m + j - 1 = (next + n) - (kept + n) + i - 1
      BY <1>1, <1>4, <2>3
    <3> HIDE DEF j
    <3>2. all[j] = [index |-> next - m + j - 1, column |-> older[j]] /\ window[i] = older[j]
      BY <1>2, <1>3, <1>10, <3>1
    <3>3. QED
      BY <2>1, <2>2, <3>1, <3>2 DEF j
  <2>4. CASE i > kept
    <3> DEFINE k == i - kept
    <3>1. /\ j \in m + 1 .. m + n /\ k \in 1 .. n /\ kept + k = i /\ j - m = k
          /\ next + k - 1 = (next + n) - (kept + n) + i - 1
      BY <1>1, <1>2, <2>4
    <3> HIDE DEF j, k
    <3>2. all[j] = new[k] /\ new[k] = [index |-> next + k - 1, column |-> newer[k]]
          /\ window[i] = newer[k]
      BY <1>2, <1>8, <1>10, <3>1
    <3>3. QED
      BY <2>1, <2>2, <3>1, <3>2 DEF j
  <2>5. QED
    BY <1>1, <1>2, <2>3, <2>4
<1>12. result \in Seq(StoredColumn) /\ Len(result) = kept + n
       /\ \A i \in 1 .. kept + n : result[i] = all[(m - kept) + i]
  <2>1. CASE excess <= 0
    <3>1. result = all /\ kept = m
      BY <1>2, <1>9, <2>1
    <3>2. \A i \in 1 .. kept + n : (m - kept) + i = i
      BY <1>1, <3>1
    <3>3. QED
      BY <1>10, <3>1, <3>2
  <2>2. CASE excess > 0
    <3> DEFINE first == excess + 1
               last  == m + n
    <3>1. /\ first \in 1 .. last + 1 /\ first <= last /\ last - first + 1 = kept + n
          /\ Len(all) = last /\ kept = m - excess /\ last \in Nat
      BY <1>1, <1>2, <1>10, <2>2 DEF excess
    <3>2. result = SubSeq(all, first, last)
      BY <1>1, <1>9, <2>2
    <3>3. \A i \in first .. last : all[i] \in StoredColumn
      BY <1>10, <3>1, ElementOfSeq
    <3>4. \A i \in 1 .. kept + n : first + i - 1 = (m - kept) + i
      BY <1>1, <3>1
    <3> HIDE DEF first, last
    <3>5. /\ SubSeq(all, first, last) \in Seq(StoredColumn)
          /\ Len(SubSeq(all, first, last)) = last - first + 1
          /\ \A i \in 1 .. last - first + 1 : SubSeq(all, first, last)[i] = all[first + i - 1]
      BY <1>10, <3>1, <3>3, SubSeqProperties
    <3>6. QED
      BY <3>1, <3>2, <3>4, <3>5
  <2>3. QED
    BY <1>1, <2>1, <2>2
<1>13. result = after
  BY <1>5, <1>11, <1>12, SeqEqual
<1>14. QED
  BY <1>4, <1>13 DEF result, stored, updates, after, n

\* And after the open column was sampled again.
LEMMA StoredReplacement ==
  ASSUME NEW columns \in Seq(Column), columns # <<>>, NEW column \in Column,
         NEW next \in Nat, Len(columns) <= next
  PROVE  StoreUpdates(NumberedColumns(columns, next),
                      <<[index |-> next - 1, replaces |-> TRUE, column |-> column]>>)
           = NumberedColumns([columns EXCEPT ![Len(columns)] = column], next)
<1> DEFINE m       == Len(columns)
           update  == [index |-> next - 1, replaces |-> TRUE, column |-> column]
           stored  == NumberedColumns(columns, next)
           changed == [columns EXCEPT ![m] = column]
           after   == NumberedColumns(changed, next)
           result  == [stored EXCEPT ![m].column = column]
<1>1. m \in Nat \ {0} /\ m \in 1 .. m /\ DOMAIN columns = 1 .. m
  BY LastOfColumns, LenProperties
<1>2. /\ changed \in Seq(Column) /\ Len(changed) = m
      /\ \A i \in 1 .. m : changed[i] = IF i = m THEN column ELSE columns[i]
  BY <1>1, ExceptSeq
<1>3. /\ stored \in Seq(StoredColumn) /\ Len(stored) = m /\ DOMAIN stored = 1 .. m
      /\ \A i \in 1 .. m : stored[i] = [index |-> next - m + i - 1, column |-> columns[i]]
  BY NumberedType
<1> HIDE DEF changed
<1>4. /\ after \in Seq(StoredColumn) /\ DOMAIN after = 1 .. m /\ Len(after) = m
      /\ \A i \in 1 .. m : after[i] = [index |-> next - m + i - 1, column |-> changed[i]]
  <2>1. Len(changed) <= next
    BY <1>2
  <2>2. /\ NumberedColumns(changed, next) \in Seq(StoredColumn)
        /\ Len(NumberedColumns(changed, next)) = Len(changed)
        /\ DOMAIN NumberedColumns(changed, next) = 1 .. Len(changed)
        /\ \A i \in 1 .. Len(changed) :
             NumberedColumns(changed, next)[i]
               = [index |-> next - Len(changed) + i - 1, column |-> changed[i]]
    BY <1>2, <2>1, NumberedType
  <2>3. QED
    BY <1>2, <2>2
<1>5. StoreUpdates(stored, <<update>>) = result
  <2> DEFINE updates == <<update>>
  <2>1. updates # <<>> /\ updates[1].replaces /\ updates[1].column = column
    OBVIOUS
  <2> HIDE DEF updates, update, stored
  <2>2. QED
    BY <1>3, <2>1 DEF StoreUpdates, updates
<1> HIDE DEF stored, after, m
<1>6. DOMAIN result = 1 .. m
  BY <1>3
<1>7. ASSUME NEW i \in 1 .. m
      PROVE  result[i] = after[i]
  <2>1. CASE i = m
    <3>1. result[i] = [stored[i] EXCEPT !.column = column]
      BY <1>1, <1>3, <2>1
    <3>2. stored[i] = [index |-> next - m + i - 1, column |-> columns[i]]
      BY <1>3
    <3>3. QED
      BY <1>2, <1>4, <2>1, <3>1, <3>2
  <2>2. CASE i # m
    BY <1>2, <1>3, <1>4, <2>2
  <2>3. QED
    BY <2>1, <2>2
<1>8. result = after
  <2>1. result = [i \in 1 .. m |-> result[i]] /\ after = [i \in 1 .. m |-> after[i]]
    <3>1. after = [i \in 1 .. m |-> after[i]]
      BY <1>4, LenProperties
    <3>2. result = [i \in DOMAIN stored |-> result[i]]
      OBVIOUS
    <3>3. QED
      BY <1>3, <3>1, <3>2
  <2> HIDE DEF result
  <2>2. QED
    BY <1>7, <2>1, Zenon
<1>9. QED
  BY <1>5, <1>8 DEF stored, after, changed, m
------------------------------------------------------------------------------
(***************************************************************************)
(* The engine: that what it tells is what changed of its window.           *)
(***************************************************************************)

\* A reconstructor is synchronized by a snapshot, or was before.
LEMMA ProcessedReconstructor ==
  ASSUME NEW reconstructor \in Reconstructor, NEW message \in BookMessage, NEW verdict
  PROVE  LET after == Process(reconstructor, message, verdict)
         IN  /\ after \in Reconstructor
             /\ Applies(reconstructor, message, verdict) =>
                  message.type = "snapshot" \/ reconstructor.synchronized
             /\ after.synchronized =>
                  \/ reconstructor.synchronized
                  \/ Applies(reconstructor, message, verdict) /\ message.type = "snapshot"
<1>1. /\ reconstructor.book \in Book /\ reconstructor.synchronized \in BOOLEAN
      /\ message.levels \in Batch
  BY DEF Reconstructor, BookMessage
<1>2. \A book \in Book : ApplyUpdates(book, message.levels) \in Book
  <2>1. PICK levels \in SUBSET Level : message.levels \in [levels -> Quantity \cup {0}]
    BY <1>1 DEF Batch
  <2>2. QED
    BY <2>1 DEF ApplyUpdates, Book
<1>3. EmptyBook \in Book
  BY DEF EmptyBook, Book
<1>4. Process(reconstructor, message, verdict) \in Reconstructor
  BY <1>1, <1>2, <1>3 DEF Process, Reconstructor
<1>5. QED
  BY <1>4 DEF Process, Applies

LEMMA DesynchronizedReconstructor ==
  ASSUME NEW reconstructor \in Reconstructor
  PROVE  /\ MarkDesynchronized(reconstructor) \in Reconstructor
         /\ ~MarkDesynchronized(reconstructor).synchronized
  BY DEF MarkDesynchronized, Reconstructor


\* The buckets are in the order of the times.
LEMMA BucketsInOrder ==
  ASSUME NEW early \in Nat, NEW late \in Nat, early <= late
  PROVE  BucketStart(early) <= BucketStart(late)
<1> DEFINE p == early \div TimeBucket
           q == late \div TimeBucket
           T == TimeBucket
<1>1. T \in Nat \ {0}
  BY HeatmapConfigAssumption
<1>2. /\ p \in Nat /\ q \in Nat
      /\ T * p <= early /\ late < T * q + T
  BY <1>1, Z3
<1> HIDE DEF p, q, T
<1>3. SUFFICES ASSUME p > q PROVE FALSE
  BY <1>2 DEF BucketStart, p, q, T
<1>4. PICK d \in Nat : p = q + 1 + d
  <2>1. p - q - 1 \in Nat /\ p = q + 1 + (p - q - 1)
    BY <1>2, <1>3
  <2>2. QED
    BY <2>1
<1>5. T * p = T * q + T + T * d /\ T * d \in Nat /\ T * q \in Nat
  BY <1>1, <1>2, <1>4, Z3
<1>6. QED
  BY <1>1, <1>2, <1>5

\* An engine of a live source: it published all it has, and its window is in the
\* order of time.
Consistent(engine) ==
  LET history == engine.history
      columns == history.columns
  IN  /\ engine \in Engine
      /\ Len(columns) <= MaxColumns /\ Len(columns) <= engine.nextIndex
      /\ engine.lastEmitted = EmittedOf(columns)
      /\ Chronological(columns)
      /\ columns # <<>> => /\ history.lastObservation \in Nat
                           /\ LastOf(columns).bucket <= BucketStart(history.lastObservation)

\* What an engine's updates say of its window before and after: nothing, that the
\* open column changed, or that newer ones were appended.
Replacing(engine, updates, after) ==
  LET columns == engine.history.columns
  IN  \E column \in Column :
        /\ columns # <<>>
        /\ updates = <<[index |-> engine.nextIndex - 1, replaces |-> TRUE, column |-> column]>>
        /\ after.history.columns = [columns EXCEPT ![Len(columns)] = column]
        /\ after.nextIndex = engine.nextIndex
Adding(engine, updates, after) ==
  \E newer \in Seq(Column) :
    /\ Len(newer) \in 1 .. MaxColumns
    /\ updates = Additions(newer, engine.nextIndex)
    /\ Trailing(engine.history.columns, newer, after.history.columns)
    /\ after.nextIndex = engine.nextIndex + Len(newer)
Tells(engine, updates, after) ==
  \/ /\ updates = <<>>
     /\ after.history.columns = engine.history.columns
     /\ after.nextIndex = engine.nextIndex
  \/ Replacing(engine, updates, after)
  \/ Adding(engine, updates, after)

LEMMA EngineParts ==
  ASSUME NEW engine \in Engine
  PROVE  /\ engine.status \in EngineStatus /\ engine.last \in TrackerState
         /\ engine.reconstructor \in Reconstructor /\ engine.history \in History
         /\ engine.nextIndex \in Nat /\ engine.lastEmitted \in Nat \cup {NoTime}
         /\ engine.history.columns \in Seq(Column)
         /\ engine.history.lastObservation \in Nat \cup {NoTime}
  BY DEF Engine, History

LEMMA NewEngineIsConsistent == Consistent(NewEngine) /\ NewEngine.history.columns = <<>>
<1>1. NewReconstructor \in Reconstructor
  BY DEF NewReconstructor, Reconstructor, EmptyBook, Book
<1>2. NewHistory \in History
  BY NewHistoryIsWellFormed DEF WellFormed
<1>3. NewEngine \in Engine
  BY <1>1, <1>2 DEF NewEngine, Engine, EngineStatus, TrackerState
<1>4. QED
  BY <1>3, HeatmapConfigAssumption
     DEF Consistent, NewEngine, NewHistory, EmittedOf, Chronological

\* An engine with the same window.
LEMMA SameWindow ==
  ASSUME NEW engine, Consistent(engine), NEW after \in Engine,
         after.history.columns = engine.history.columns,
         after.history.lastObservation = engine.history.lastObservation,
         after.nextIndex = engine.nextIndex, after.lastEmitted = engine.lastEmitted
  PROVE  Consistent(after) /\ Tells(engine, <<>>, after)
  BY DEF Consistent, Tells

\* What the hub makes of what is told.
LEMMA HubStoresWindow ==
  ASSUME NEW engine, Consistent(engine), NEW updates, NEW after, Tells(engine, updates, after)
  PROVE  StoreUpdates(Numbered(engine), updates) = Numbered(after)
<1> DEFINE columns == engine.history.columns
           next    == engine.nextIndex
<1>1. columns \in Seq(Column) /\ Len(columns) <= MaxColumns /\ next \in Nat /\ Len(columns) <= next
  BY EngineParts DEF Consistent
<1>2. Numbered(engine) = NumberedColumns(columns, next)
  BY DEF Numbered
<1>3. Numbered(after) = NumberedColumns(after.history.columns, after.nextIndex)
  BY DEF Numbered
<1>4. CASE /\ updates = <<>>
           /\ after.history.columns = engine.history.columns
           /\ after.nextIndex = engine.nextIndex
  BY <1>2, <1>3, <1>4 DEF StoreUpdates
<1>5. CASE Replacing(engine, updates, after)
  <2>1. PICK column \in Column :
          /\ columns # <<>>
          /\ updates = <<[index |-> next - 1, replaces |-> TRUE, column |-> column]>>
          /\ after.history.columns = [columns EXCEPT ![Len(columns)] = column]
          /\ after.nextIndex = next
    BY <1>5, Zenon DEF Replacing
  <2> HIDE DEF columns, next
  <2>2. StoreUpdates(NumberedColumns(columns, next), updates)
          = NumberedColumns([columns EXCEPT ![Len(columns)] = column], next)
    BY <1>1, <2>1, StoredReplacement
  <2>3. QED
    BY <1>2, <1>3, <2>1, <2>2
<1>6. CASE Adding(engine, updates, after)
  <2>1. PICK newer \in Seq(Column) :
          /\ Len(newer) \in 1 .. MaxColumns
          /\ updates = Additions(newer, next)
          /\ Trailing(columns, newer, after.history.columns)
          /\ after.nextIndex = next + Len(newer)
    BY <1>6, Zenon DEF Adding
  <2> HIDE DEF columns, next
  <2>2. StoreUpdates(NumberedColumns(columns, next), updates)
          = NumberedColumns(after.history.columns, next + Len(newer))
    BY <1>1, <2>1, StoredAdditions
  <2>3. QED
    BY <1>2, <1>3, <2>1, <2>2
<1>7. QED
  BY <1>4, <1>5, <1>6 DEF Tells

\* The open column sampled again.
LEMMA SampledAgain ==
  ASSUME NEW history, WellFormed(history), Chronological(history.columns),
         history.columns # <<>>, NEW time \in Nat, NEW book \in Book, Samples(book),
         LastOf(history.columns).bucket = BucketStart(time)
  PROVE  LET columns == history.columns
             column  == [bucket |-> BucketStart(time), book |-> book]
             after   == Sample(history, time, book).columns
         IN  /\ column \in Column
             /\ after = [columns EXCEPT ![Len(columns)] = column]
             /\ LastOf(after) = column /\ after # <<>> /\ Len(after) = Len(columns)
             /\ Chronological(after)
<1> DEFINE columns == history.columns
           column  == [bucket |-> BucketStart(time), book |-> book]
           after   == Sample(history, time, book).columns
           m       == Len(columns)
<1>1. column \in Column /\ column.bucket = BucketStart(time)
  BY BucketIsNatural DEF Column
<1>2. after = [columns EXCEPT ![m] = column]
  BY DEF Sample
<1>3. columns \in Seq(Column) /\ m \in Nat \ {0} /\ m \in 1 .. m
  BY LastOfColumns DEF WellFormed, History
<1>4. columns[m].bucket = column.bucket
  BY <1>1 DEF LastOf
<1>5. \A i, j \in 1 .. m : i < j => columns[i].bucket < columns[j].bucket
  BY DEF Chronological
<1> HIDE DEF columns, after, column, m
<1>6. /\ after \in Seq(Column) /\ Len(after) = m
      /\ \A i \in 1 .. m : after[i] = IF i = m THEN column ELSE columns[i]
  BY <1>1, <1>2, <1>3, ExceptSeq DEF m
<1>7. \A i \in 1 .. m : after[i].bucket = columns[i].bucket
  BY <1>4, <1>6
<1>8. Chronological(after)
  BY <1>5, <1>6, <1>7 DEF Chronological
<1>9. LastOf(after) = column /\ after # <<>>
  BY <1>3, <1>6, EmptySeq DEF LastOf
<1>10. QED
  BY <1>1, <1>2, <1>6, <1>8, <1>9 DEF columns, column, after, m

\* The new columns of a sampled book are in the order of time.
LEMMA NewColumnsInOrder ==
  ASSUME NEW columns \in Seq(Column), NEW carryForward, NEW bucket \in Nat, NEW book \in Book,
         columns # <<>> => LastOf(columns).bucket < bucket
  PROVE  LET count == NewCount(columns, carryForward, bucket)
             newer == NewColumns(columns, count, bucket, book)
         IN  /\ newer \in Seq(Column) /\ Len(newer) \in 1 .. MaxColumns
             /\ Chronological(newer)
             /\ columns # <<>> => LastOf(columns).bucket < newer[1].bucket
             /\ LastOf(newer) = [bucket |-> bucket, book |-> book]
<1> DEFINE count == NewCount(columns, carryForward, bucket)
           newer == NewColumns(columns, count, bucket, book)
<1>1. /\ count \in 1 .. MaxColumns /\ bucket - count + 1 \in Nat
      /\ columns # <<>> => LastOf(columns).bucket < bucket - count + 1
      /\ count = 1 \/ columns # <<>>
  BY NewCountBounds DEF NewCount
<1> HIDE DEF count
<1>2. count \in Nat \ {0} /\ 1 \in 1 .. count /\ bucket - count + 1 = bucket - count + 1
  BY <1>1, HeatmapConfigAssumption
<1>3. /\ newer \in Seq(Column) /\ Len(newer) = count
      /\ \A i \in 1 .. count : newer[i].bucket = bucket - count + i
      /\ newer[count] = [bucket |-> bucket, book |-> book]
  BY <1>1, <1>2, NewColumnsType
<1> HIDE DEF newer
<1>4. Chronological(newer)
  BY <1>2, <1>3 DEF Chronological
<1>5. columns # <<>> => LastOf(columns).bucket < newer[1].bucket
  BY <1>1, <1>2, <1>3
<1>6. QED
  BY <1>1, <1>3, <1>4, <1>5 DEF LastOf, count, newer

\* Emit: whatever book comes at whatever later time.
LEMMA EmitTells ==
  ASSUME NEW before, NEW engine, Consistent(engine), NEW time \in Nat, NEW book \in Book,
         ~TooEarly(engine.history, time)
  PROVE  LET result == Emit(before, engine, time, book)
         IN  /\ Consistent(result.engine)
             /\ Tells(engine, result.updates, result.engine)
             /\ result.engine.reconstructor = engine.reconstructor
             /\ result.engine.status = IF Samples(book) THEN "Live" ELSE engine.status
             /\ result.changed = (result.engine.status # before.status)
<1> DEFINE columns == engine.history.columns
           next    == engine.nextIndex
           bucket  == BucketStart(time)
           column  == [bucket |-> bucket, book |-> book]
           history == Sample(engine.history, time, book)
           after   == history.columns
           sampled == [engine EXCEPT !.history = history, !.status = "Live"]
           updates == CollectColumns(sampled)
           fresh   == {i \in DOMAIN updates : ~updates[i].replaces}
           unsold  == [engine EXCEPT !.history = history]
           final   == [sampled EXCEPT !.nextIndex = @ + Cardinality(fresh),
                                      !.lastEmitted = LastOf(history.columns).bucket]
           result  == Emit(before, engine, time, book)
<1>1. /\ engine \in Engine /\ columns \in Seq(Column) /\ WellFormed(engine.history)
      /\ Len(columns) <= MaxColumns /\ Len(columns) <= next /\ next \in Nat
      /\ engine.lastEmitted = EmittedOf(columns) /\ Chronological(columns)
  BY EngineParts DEF Consistent, WellFormed
<1>2. bucket \in Nat /\ column \in Column /\ column.bucket = bucket
  BY BucketIsNatural DEF Column
<1>3. columns # <<>> => LastOf(columns).bucket \in Nat /\ LastOf(columns).bucket <= bucket
  <2> SUFFICES ASSUME columns # <<>>
               PROVE  LastOf(columns).bucket \in Nat /\ LastOf(columns).bucket <= bucket
    OBVIOUS
  <2>1. /\ engine.history.lastObservation \in Nat
        /\ LastOf(columns).bucket <= BucketStart(engine.history.lastObservation)
    BY DEF Consistent
  <2>2. engine.history.lastObservation <= time
    BY <2>1 DEF TooEarly
  <2>3. BucketStart(engine.history.lastObservation) <= bucket
    BY <2>1, <2>2, BucketsInOrder
  <2>4. LastOf(columns) \in Column
    BY <1>1, LastOfColumns
  <2>5. LastOf(columns).bucket \in Nat
    BY <2>4 DEF Column
  <2>6. BucketStart(engine.history.lastObservation) \in Nat
    BY <2>1, BucketIsNatural
  <2> HIDE DEF columns, bucket
  <2>7. QED
    BY <1>2, <2>1, <2>3, <2>5, <2>6
<1>4. history \in History /\ Len(after) <= MaxColumns /\ after \in Seq(Column)
  <2>1. WellFormed(history)
    BY <1>1, SampledHistory
  <2> HIDE DEF history
  <2>2. QED
    BY <2>1 DEF WellFormed, History
<1>5. history.lastObservation = time /\ (~Samples(book) => after = columns)
  BY DEF Sample
<1>6. /\ DOMAIN engine = {"status", "last", "reconstructor", "history", "nextIndex", "lastEmitted"}
      /\ engine.status \in EngineStatus /\ engine.last \in TrackerState
      /\ engine.reconstructor \in Reconstructor /\ engine.lastEmitted \in Nat \cup {NoTime}
  BY <1>1 DEF Engine
<1>7. CASE ~Samples(book)
  <2>1. result = Outcome(before, unsold, <<>>)
    BY <1>7 DEF Emit
  <2> HIDE DEF history, columns
  <2>2. unsold \in Engine
    BY <1>1, <1>4 DEF Engine
  <2>3. /\ unsold.history = history /\ unsold.nextIndex = next /\ unsold.status = engine.status
        /\ unsold.lastEmitted = engine.lastEmitted
        /\ unsold.reconstructor = engine.reconstructor
    BY <1>6
  <2>4. after = columns
    BY <1>5, <1>7
  <2> HIDE DEF unsold, next, bucket
  <2>5. Consistent(unsold)
    BY <1>1, <1>3, <1>5, <2>2, <2>3, <2>4 DEF Consistent, bucket
  <2>6. Tells(engine, <<>>, unsold)
    BY <2>3, <2>4 DEF Tells, columns, next
  <2>7. QED
    BY <1>7, <2>1, <2>3, <2>5, <2>6 DEF Outcome
<1>8. CASE Samples(book)
  <2>1. result = Outcome(before, final, updates)
    BY <1>8 DEF Emit
  <2>2. /\ sampled.history = history /\ sampled.nextIndex = next /\ sampled.status = "Live"
        /\ sampled.lastEmitted = engine.lastEmitted
        /\ sampled.reconstructor = engine.reconstructor /\ sampled.last = engine.last
        /\ DOMAIN sampled = DOMAIN engine
    BY <1>6
  <2>3. updates = IF LastOf(after).bucket = engine.lastEmitted
                  THEN <<[index |-> next - 1, replaces |-> TRUE, column |-> LastOf(after)]>>
                  ELSE Additions(FreshColumns(after, engine.lastEmitted), next)
    BY <2>2 DEF CollectColumns, Additions
  <2> HIDE DEF sampled
  <2>4. /\ final.history = history /\ final.nextIndex = next + Cardinality(fresh)
        /\ final.status = "Live" /\ final.lastEmitted = LastOf(after).bucket
        /\ final.reconstructor = engine.reconstructor
    BY <1>6, <2>2
  <2>5. LastOf(after).bucket \in Nat /\ Cardinality(fresh) \in Nat => final \in Engine
    <3> SUFFICES ASSUME LastOf(after).bucket \in Nat, Cardinality(fresh) \in Nat
                 PROVE  final \in Engine
      OBVIOUS
    <3>1. sampled.nextIndex + Cardinality(fresh) \in Nat
      BY <1>1, <2>2
    <3> HIDE DEF history, fresh
    <3>2. sampled \in Engine
      <4>1. sampled = [engine EXCEPT !.history = history, !.status = "Live"]
        BY DEF sampled
      <4>2. "Live" \in EngineStatus
        BY DEF EngineStatus
      <4>3. QED
        BY <1>1, <1>4, <4>1, <4>2 DEF Engine
    <3>3. QED
      BY <3>1, <3>2 DEF Engine
  <2> HIDE DEF history, columns, final, updates
  <2>6. /\ after # <<>> /\ LastOf(after) = column /\ Chronological(after)
        /\ final.nextIndex \in Nat /\ Len(after) <= final.nextIndex
        /\ Cardinality(fresh) \in Nat
        => Consistent(final)
    <3> SUFFICES ASSUME after # <<>>, LastOf(after) = column, Chronological(after),
                        final.nextIndex \in Nat, Len(after) <= final.nextIndex,
                        Cardinality(fresh) \in Nat
                 PROVE  Consistent(final)
      OBVIOUS
    <3>1. final \in Engine /\ final.lastEmitted = EmittedOf(after)
      BY <1>2, <2>4, <2>5 DEF EmittedOf
    <3>2. LastOf(after).bucket <= BucketStart(history.lastObservation)
      BY <1>2, <1>5
    <3>3. QED
      BY <1>4, <1>5, <2>4, <3>1, <3>2 DEF Consistent
  <2>7. CASE columns # <<>> /\ LastOf(columns).bucket = bucket
    <3>1. /\ after = [columns EXCEPT ![Len(columns)] = column]
          /\ LastOf(after) = column /\ after # <<>> /\ Len(after) = Len(columns)
          /\ Chronological(after)
      BY <1>1, <1>8, <2>7, SampledAgain DEF history, columns
    <3>2. engine.lastEmitted = bucket
      BY <1>1, <2>7 DEF EmittedOf
    <3>3. updates = <<[index |-> next - 1, replaces |-> TRUE, column |-> column]>>
      BY <1>2, <2>3, <3>1, <3>2
    <3>4. fresh = {}
      BY <3>3
    <3>5. Cardinality(fresh) = 0
      BY <3>4, FS_EmptySet
    <3>6. final.nextIndex = next
      BY <1>1, <2>4, <3>5
    <3> HIDE DEF fresh, column, next
    <3>7. Consistent(final)
      BY <1>1, <2>6, <3>1, <3>5, <3>6
    <3>8. Replacing(engine, updates, final)
      BY <1>2, <2>4, <2>7, <3>1, <3>3, <3>6 DEF Replacing, columns, next
    <3>9. QED
      BY <1>8, <2>1, <2>4, <3>7, <3>8 DEF Outcome, Tells
  <2>8. CASE ~(columns # <<>> /\ LastOf(columns).bucket = bucket)
    <3> DEFINE count == NewCount(columns, engine.history.carryForward, bucket)
               newer == NewColumns(columns, count, bucket, book)
    <3>0. columns # <<>> => LastOf(columns).bucket < bucket
      BY <1>2, <1>3, <2>8
    <3>1. /\ newer \in Seq(Column) /\ Len(newer) \in 1 .. MaxColumns
          /\ Chronological(newer)
          /\ columns # <<>> => LastOf(columns).bucket < newer[1].bucket
          /\ LastOf(newer) = column
      BY <1>1, <1>2, <3>0, NewColumnsInOrder
    <3>2. Trailing(columns, newer, after)
      BY <1>1, <1>8, <3>0, SampledWindow DEF history, columns
    <3> HIDE DEF newer, column
    <3>3. /\ Len(after) \in 1 .. MaxColumns /\ LastOf(after) = column /\ Chronological(after)
          /\ after # <<>>
      BY <1>1, <3>1, <3>2, TrailingParts, TrailingIsChronological, EmptySeq
    <3>4. FreshColumns(after, engine.lastEmitted) = newer
      BY <1>1, <3>1, <3>2, FreshAreNewer
    <3>5. LastOf(after).bucket # engine.lastEmitted
      <4>1. CASE columns = <<>>
        BY <1>1, <1>2, <3>3, <4>1 DEF EmittedOf, NoTime
      <4>2. CASE columns # <<>>
        BY <1>1, <1>2, <1>3, <3>0, <3>3, <4>2 DEF EmittedOf
      <4>3. QED
        BY <4>1, <4>2
    <3>6. updates = Additions(newer, next)
      BY <2>3, <3>4, <3>5
    <3> HIDE DEF next
    <3>7. /\ DOMAIN updates = 1 .. Len(newer)
          /\ \A i \in 1 .. Len(newer) : updates[i].replaces = FALSE
      <4>1. /\ DOMAIN Additions(newer, next) = 1 .. Len(newer)
            /\ \A i \in 1 .. Len(newer) :
                 Additions(newer, next)[i]
                   = [index |-> next + i - 1, replaces |-> FALSE, column |-> newer[i]]
        BY <1>1, <3>1, AdditionsType
      <4>2. QED
        BY <3>6, <4>1
    <3>8. fresh = 1 .. Len(newer)
      BY <3>7
    <3>9. Cardinality(fresh) = Len(newer)
      <4> DEFINE n == Len(newer)
      <4>1. n \in Int /\ 1 \in Int /\ (IF 1 > n THEN 0 ELSE n - 1 + 1) = n
        BY <3>1
      <4> HIDE DEF n, fresh
      <4>2. Cardinality(1 .. n) = IF 1 > n THEN 0 ELSE n - 1 + 1
        BY <4>1, FS_Interval
      <4>3. QED
        BY <3>8, <4>1, <4>2 DEF n
    <3> HIDE DEF fresh
    <3>10. /\ Len(newer) \in Nat /\ final.nextIndex = next + Len(newer)
           /\ final.nextIndex \in Nat
           /\ Len(after) <= final.nextIndex
      <4>1. Len(after) <= next + Len(newer)
        BY <1>1, <3>1, <3>2, StoredAdditions
      <4>2. Len(newer) \in Nat
        BY <3>1, LenProperties
      <4>3. QED
        BY <1>1, <2>4, <3>9, <4>1, <4>2
    <3>11. Consistent(final)
      BY <2>6, <3>3, <3>9, <3>10
    <3>12. Adding(engine, updates, final)
      BY <2>4, <3>1, <3>2, <3>6, <3>10 DEF Adding, columns, next
    <3>13. QED
      BY <1>8, <2>1, <2>4, <3>11, <3>12 DEF Outcome, Tells
  <2>9. QED
    BY <2>7, <2>8
<1>9. QED
  BY <1>7, <1>8

\* The recovery of an engine tells nothing.
LEMMA RecoveryTells ==
  ASSUME NEW engine, Consistent(engine)
  PROVE  /\ Consistent(BeginRecovery(engine))
         /\ Tells(engine, <<>>, BeginRecovery(engine))
         /\ BeginRecovery(engine).status = "WaitingForSnapshot"
<1> DEFINE after == BeginRecovery(engine)
<1>1. engine \in Engine
  BY DEF Consistent
<1>2. MarkDesynchronized(engine.reconstructor) \in Reconstructor
  BY <1>1, EngineParts, DesynchronizedReconstructor
<1>3. /\ MarkDiscontinuity(engine.history) \in History
      /\ MarkDiscontinuity(engine.history).columns = engine.history.columns
      /\ MarkDiscontinuity(engine.history).lastObservation = engine.history.lastObservation
  BY <1>1, EngineParts DEF MarkDiscontinuity, History
<1>4. /\ after \in Engine /\ after.status = "WaitingForSnapshot"
      /\ after.history = MarkDiscontinuity(engine.history)
      /\ after.nextIndex = engine.nextIndex /\ after.lastEmitted = engine.lastEmitted
  BY <1>1, <1>2, <1>3 DEF BeginRecovery, Engine, EngineStatus, TrackerState
<1> HIDE DEF after
<1>5. Consistent(after) /\ Tells(engine, <<>>, after)
  BY <1>3, <1>4, SameWindow
<1>6. QED
  BY <1>4, <1>5 DEF after

\* What a raw message does to an engine before anything is sampled: the window is
\* the same, and only a message that is not applied may change its status.
LEMMA RebuiltEngine ==
  ASSUME NEW engine \in Engine, NEW message \in RawMessage, message.book # NotOurs
  PROVE  LET verdict  == Verdict(engine.last, message.sequence)
             gap      == verdict = "Gap"
             observed == [engine EXCEPT !.last = Observe(@, message.sequence)]
             warned   == IF gap THEN AfterGap(observed, message) ELSE observed
             applies  == Applies(warned.reconstructor, message.book, verdict)
             rebuilt  == [warned EXCEPT
                            !.reconstructor = Process(@, message.book, verdict),
                            !.last = IF gap /\ applies THEN message.sequence ELSE @]
         IN  /\ rebuilt \in Engine
             /\ rebuilt.history.columns = engine.history.columns
             /\ rebuilt.history.lastObservation = engine.history.lastObservation
             /\ rebuilt.nextIndex = engine.nextIndex
             /\ rebuilt.lastEmitted = engine.lastEmitted
             /\ applies => rebuilt.status = engine.status
<1> DEFINE verdict  == Verdict(engine.last, message.sequence)
           gap      == verdict = "Gap"
           observed == [engine EXCEPT !.last = Observe(@, message.sequence)]
           warned   == IF gap THEN AfterGap(observed, message) ELSE observed
           applies  == Applies(warned.reconstructor, message.book, verdict)
           next     == IF gap /\ applies THEN message.sequence ELSE warned.last
           book     == Process(warned.reconstructor, message.book, verdict)
           rebuilt  == [warned EXCEPT !.reconstructor = book, !.last = next]
<1>1. message.sequence \in TrackerState /\ message.book \in BookMessage
  BY DEF RawMessage, TrackerState
<1>2. Observe(engine.last, message.sequence) \in TrackerState
  BY <1>1, EngineParts DEF Observe
<1>3. /\ observed \in Engine /\ observed.history = engine.history
      /\ observed.nextIndex = engine.nextIndex /\ observed.lastEmitted = engine.lastEmitted
      /\ observed.status = engine.status
  BY <1>2 DEF Engine
<1> HIDE DEF observed
<1>4. /\ AfterGap(observed, message) \in Engine
      /\ AfterGap(observed, message).history.columns = engine.history.columns
      /\ AfterGap(observed, message).history.lastObservation = engine.history.lastObservation
      /\ AfterGap(observed, message).nextIndex = engine.nextIndex
      /\ AfterGap(observed, message).lastEmitted = engine.lastEmitted
      /\ message.book.type = "snapshot" => AfterGap(observed, message).status = engine.status
  <2>1. MarkDesynchronized(observed.reconstructor) \in Reconstructor
    BY <1>3, EngineParts, DesynchronizedReconstructor
  <2>2. /\ MarkDiscontinuity(observed.history) \in History
        /\ MarkDiscontinuity(observed.history).columns = engine.history.columns
        /\ MarkDiscontinuity(observed.history).lastObservation = engine.history.lastObservation
    BY <1>3, EngineParts DEF MarkDiscontinuity, History
  <2> DEFINE status == IF message.book.type = "snapshot" THEN observed.status ELSE "Gap"
  <2>3. /\ status \in EngineStatus
        /\ message.book.type = "snapshot" => status = engine.status
    BY <1>3, EngineParts DEF EngineStatus
  <2>4. AfterGap(observed, message)
          = [observed EXCEPT !.reconstructor = MarkDesynchronized(observed.reconstructor),
                             !.history = MarkDiscontinuity(observed.history),
                             !.status = status]
    BY DEF AfterGap
  <2> HIDE DEF status
  <2>5. QED
    BY <1>3, <2>1, <2>2, <2>3, <2>4 DEF Engine
<1>5. /\ warned \in Engine
      /\ warned.history.columns = engine.history.columns
      /\ warned.history.lastObservation = engine.history.lastObservation
      /\ warned.nextIndex = engine.nextIndex
      /\ warned.lastEmitted = engine.lastEmitted
      /\ ~gap \/ message.book.type = "snapshot" => warned.status = engine.status
  BY <1>3, <1>4
<1> HIDE DEF warned
<1>6. book \in Reconstructor
  BY <1>1, <1>5, EngineParts, ProcessedReconstructor
<1>7. next \in TrackerState
  BY <1>1, <1>5, EngineParts
<1> HIDE DEF book, next
<1>8. /\ rebuilt \in Engine
      /\ rebuilt.history = warned.history
      /\ rebuilt.nextIndex = warned.nextIndex
      /\ rebuilt.lastEmitted = warned.lastEmitted
      /\ rebuilt.status = warned.status
  BY <1>5, <1>6, <1>7 DEF Engine
<1>9. applies => rebuilt.status = engine.status
  <2>1. applies => ~gap \/ message.book.type = "snapshot"
    BY DEF Applies
  <2>2. QED
    BY <1>5, <1>8, <2>1
<1>10. QED
  BY <1>5, <1>8, <1>9 DEF rebuilt, book, next, applies, warned, observed, gap

\* process on a raw message, whatever it is.
LEMMA RawTells ==
  ASSUME NEW engine, Consistent(engine), NEW message \in RawMessage
  PROVE  LET result == ProcessRaw(engine, message)
         IN  /\ Consistent(result.engine) /\ Tells(engine, result.updates, result.engine)
             /\ ~result.changed => result.engine.status = engine.status
<1> DEFINE verdict  == Verdict(engine.last, message.sequence)
           gap      == verdict = "Gap"
           observed == [engine EXCEPT !.last = Observe(@, message.sequence)]
           warned   == IF gap THEN AfterGap(observed, message) ELSE observed
           applies  == Applies(warned.reconstructor, message.book, verdict)
           rebuilt  == [warned EXCEPT
                          !.reconstructor = Process(@, message.book, verdict),
                          !.last = IF gap /\ applies THEN message.sequence ELSE @]
           result   == ProcessRaw(engine, message)
<1>1. engine \in Engine
  BY DEF Consistent
<1>2. CASE message.book = NotOurs
  <2>1. message.sequence \in TrackerState
    BY DEF RawMessage, TrackerState
  <2>2. Observe(engine.last, message.sequence) \in TrackerState
    BY <1>1, <2>1, EngineParts DEF Observe
  <2>3. /\ observed \in Engine /\ observed.history = engine.history
        /\ observed.nextIndex = engine.nextIndex /\ observed.lastEmitted = engine.lastEmitted
    BY <1>1, <2>2 DEF Engine
  <2>4. /\ result.engine = observed /\ result.updates = <<>>
        /\ result.changed = (observed.status # engine.status)
    BY <1>2 DEF ProcessRaw, Outcome
  <2> HIDE DEF observed
  <2>5. QED
    BY <2>3, <2>4, SameWindow
<1>3. CASE message.book # NotOurs
  <2>1. /\ rebuilt \in Engine
        /\ rebuilt.history.columns = engine.history.columns
        /\ rebuilt.history.lastObservation = engine.history.lastObservation
        /\ rebuilt.nextIndex = engine.nextIndex
        /\ rebuilt.lastEmitted = engine.lastEmitted
        /\ applies => rebuilt.status = engine.status
    BY <1>1, <1>3, RebuiltEngine
  <2>2. \/ /\ result.engine = rebuilt /\ result.updates = <<>>
           /\ applies \/ result.changed = (rebuilt.status # engine.status)
        \/ /\ ~TooEarly(rebuilt.history, message.time)
           /\ result = Emit(engine, rebuilt, message.time, rebuilt.reconstructor.book)
    BY <1>3 DEF ProcessRaw, Outcome
  <2> HIDE DEF rebuilt, result, applies
  <2>3. Consistent(rebuilt) /\ Tells(engine, <<>>, rebuilt)
    BY <2>1, SameWindow
  <2>4. CASE /\ result.engine = rebuilt /\ result.updates = <<>>
             /\ applies \/ result.changed = (rebuilt.status # engine.status)
    BY <2>1, <2>3, <2>4 DEF result
  <2>5. CASE /\ ~TooEarly(rebuilt.history, message.time)
             /\ result = Emit(engine, rebuilt, message.time, rebuilt.reconstructor.book)
    <3>1. rebuilt.reconstructor.book \in Book
      BY <2>1, EngineParts DEF Reconstructor
    <3>2. message.time \in Nat
      BY DEF RawMessage
    <3>3. /\ Consistent(result.engine) /\ Tells(rebuilt, result.updates, result.engine)
          /\ result.changed = (result.engine.status # engine.status)
      BY <2>3, <2>5, <3>1, <3>2, EmitTells
    <3>4. Tells(engine, result.updates, result.engine)
      BY <2>1, <3>3 DEF Tells, Replacing, Adding
    <3>5. QED
      BY <3>3, <3>4 DEF result
  <2>6. QED
    BY <2>2, <2>4, <2>5
<1>4. QED
  BY <1>2, <1>3

\* process on a trusted event that it does not refuse.
LEMMA TrustedTells ==
  ASSUME NEW engine, Consistent(engine), NEW event \in TrustedEvent, ~Refuses(engine, event)
  PROVE  LET result == ProcessTrusted(engine, event)
         IN  /\ Consistent(result.engine) /\ Tells(engine, result.updates, result.engine)
             /\ ~result.changed => result.engine.status = engine.status
<1> DEFINE result == ProcessTrusted(engine, event)
<1>1. CASE event.type = "Invalidated"
  <2>1. /\ result.engine = BeginRecovery(engine) /\ result.updates = <<>>
        /\ result.changed = (BeginRecovery(engine).status # engine.status)
    BY <1>1 DEF ProcessTrusted, Outcome
  <2>2. QED
    BY <2>1, RecoveryTells
<1>2. CASE event.type = "Update" /\ engine.status = "WaitingForSnapshot"
  <2>1. result.engine = engine /\ result.updates = <<>>
    BY <1>2 DEF ProcessTrusted, Outcome
  <2>2. QED
    BY <2>1 DEF Tells
<1>3. CASE /\ event.type # "Invalidated"
           /\ ~(event.type = "Update" /\ engine.status = "WaitingForSnapshot")
  <2>1. event.type \in {"Snapshot", "Update"} /\ event.time \in Nat /\ event.book \in Book
    BY <1>3 DEF TrustedEvent
  <2>2. result = Emit(engine, engine, event.time, event.book)
    BY <1>3 DEF ProcessTrusted
  <2>3. ~TooEarly(engine.history, event.time)
    BY <1>3, <2>1 DEF Refuses
  <2> DEFINE emitted == Emit(engine, engine, event.time, event.book)
  <2>4. /\ Consistent(emitted.engine) /\ Tells(engine, emitted.updates, emitted.engine)
        /\ emitted.changed = (emitted.engine.status # engine.status)
    BY <2>1, <2>3, EmitTells
  <2> HIDE DEF emitted
  <2>5. QED
    BY <2>2, <2>4 DEF emitted
<1>4. QED
  BY <1>1, <1>2, <1>3
==============================================================================
