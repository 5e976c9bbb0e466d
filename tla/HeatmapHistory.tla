---------------------------- MODULE HeatmapHistory ---------------------------
(***************************************************************************)
(* The rolling window of a heatmap (src/heatmap_history.cpp): one column   *)
(* for each time bucket, the last book seen in it, skipped buckets filled  *)
(* with the column before them.                                            *)
(*                                                                         *)
(* A column's price bins are a function of its book and of the bin size    *)
(* frozen with the first column: here it is the bucket and the book.       *)
(***************************************************************************)
EXTENDS OrderBook, Sequences

CONSTANTS
  TimeBucket,    \* HeatmapConfig::time_bucket
  MaxColumns     \* HeatmapConfig::max_columns

\* HeatmapHistory's constructor throws on anything else.
ASSUME HeatmapConfigAssumption == TimeBucket \in Nat \ {0} /\ MaxColumns \in Nat \ {0}

NoTime == -1     \* no observation yet

Column  == [bucket : Nat, book : Book]
History == [columns : Seq(Column), lastObservation : Nat \cup {NoTime},
            carryForward : BOOLEAN]

NewHistory == [columns |-> <<>>, lastObservation |-> NoTime, carryForward |-> TRUE]

LastOf(s) == s[Len(s)]

BucketStart(time) == time \div TimeBucket

TwoSided(book) == \A side \in Side : Prices(book, side) # {}

\* HeatmapHistory::append evicts the oldest column of a full window.
AppendColumn(columns, column) ==
  Append(IF Len(columns) = MaxColumns THEN Tail(columns) ELSE columns, column)

\* The column carried into `count' buckets, the first of them `first'.
CarriedColumns(carried, first, count) ==
  [offset \in 1 .. count |-> [carried EXCEPT !.bucket = first + offset - 1]]

\* The window once `carried' was appended to it, which may be shorter than it.
AppendColumns(columns, carried) ==
  LET excess == Len(columns) + Len(carried) - MaxColumns
  IN  IF excess <= 0 THEN columns \o carried
      ELSE SubSeq(columns, excess + 1, Len(columns)) \o carried

\* A mutant: buckets are carried into unknown time.
BackfillThroughGaps(columns, carryForward, bucket) ==
  LET last    == LastOf(columns)
      elapsed == bucket - last.bucket
  IN  IF elapsed >= MaxColumns
      THEN CarriedColumns(last, bucket - (MaxColumns - 1), MaxColumns - 1)
      ELSE AppendColumns(columns, CarriedColumns(last, last.bucket + 1, elapsed - 1))

\* What fills the time between the last column and a later one: nothing after a
\* discontinuity, otherwise the last column, which replaces the whole window once
\* no older column would stay in it.
Backfill(columns, carryForward, bucket) ==
  LET last    == LastOf(columns)
      elapsed == bucket - last.bucket
  IN  IF ~carryForward THEN columns
      ELSE IF elapsed >= MaxColumns
      THEN CarriedColumns(last, bucket - (MaxColumns - 1), MaxColumns - 1)
      ELSE AppendColumns(columns, CarriedColumns(last, last.bucket + 1, elapsed - 1))

\* sample throws on an observation older than the last one.
TooEarly(history, time) == time < history.lastObservation

\* sample returns false on a book without both sides.
Samples(book) == TwoSided(book)

\* The window after HeatmapHistory::sample, when it does not throw.
Sample(history, time, book) ==
  LET bucket  == BucketStart(time)
      column  == [bucket |-> bucket, book |-> book]
      columns == history.columns
      sampled == IF columns = <<>> THEN <<column>>
                 ELSE IF bucket = LastOf(columns).bucket
                 THEN [columns EXCEPT ![Len(columns)] = column]
                 ELSE AppendColumn(Backfill(columns, history.carryForward, bucket), column)
  IN  [columns         |-> IF Samples(book) THEN sampled ELSE columns,
       lastObservation |-> time,
       carryForward    |-> history.carryForward \/ Samples(book)]

MarkDiscontinuity(history) == [history EXCEPT !.carryForward = FALSE]
==============================================================================
