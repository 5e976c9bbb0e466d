------------------------------ MODULE HeatmapFeed ----------------------------
(***************************************************************************)
(* One product's heatmap engine, what LiveSourceRunner feeds it            *)
(* (src/live_source.cpp) and what the hub keeps of its output; or the      *)
(* command-line replay (src/replay.cpp), which has the engine's tracker,   *)
(* reconstructor and history and reads the lines of a capture.             *)
(*                                                                         *)
(* The feed is the environment: any message may come after any other, so   *)
(* that sequence numbers and exchange times jump in every way, and the     *)
(* connection may break between any two.  LiveMarket adds the threads.     *)
(***************************************************************************)
EXTENDS LiveStreamHub, CaptureReplay

CONSTANTS
  FeedKind,          \* "coinbase", "trusted", "capture": the sources to consider
  FeedMessage,       \* the raw messages that may come: bounds the model
  FeedEvent,         \* the trusted events that may come: bounds the model
  MaxObservations    \* how long the record of observations gets: bounds the model

ASSUME FeedAssumption ==
  /\ FeedKind \subseteq {"coinbase", "trusted", "capture"}
  /\ FeedMessage \subseteq RawMessage /\ FeedEvent \subseteq TrustedEvent
  /\ MaxObservations \in Nat

VARIABLES
  kind,              \* which of process's overloads the source needs, or a replay
  engine,            \* the runner's engine_, or the replay
  stored,            \* the hub's columns_
  observations,      \* a record of the books sampled and of the breaks between
  trusted,           \* whether a snapshot came since the last break
  missed             \* whether the last message was behind a gap, and no snapshot

vars == <<kind, engine, stored, observations, trusted, missed>>

\* Both sides of a book seen in a bucket, in trusted state or not; or a break:
\* an invalidation, a lost connection, or a gap that was seen: with a book message
\* in the engine, with any in the replay.
Observation == [bucket : Nat, book : Book, trusted : BOOLEAN]
Break       == [bucket |-> NoTime]

TypeOK ==
  /\ kind \in FeedKind
  /\ engine \in Engine /\ Len(engine.history.columns) <= MaxColumns
  /\ stored \in Seq(StoredColumn) /\ Len(stored) <= MaxColumns
  /\ observations \in Seq(Observation \cup {Break})
  /\ trusted \in BOOLEAN
  /\ missed \in BOOLEAN
------------------------------------------------------------------------------
\* The record with a break, or with one observation, at its end.
Broken(record) ==
  IF record = <<>> \/ LastOf(record) = Break THEN record ELSE Append(record, Break)
Observed(record, time, book, trust) ==
  IF TwoSided(book) /\ ~TooEarly(engine.history, time)
  THEN Append(record, [bucket |-> BucketStart(time), book |-> book, trusted |-> trust])
  ELSE record

\* process and the hub's publish: nothing to tell unless something changed.
Take(outcome) ==
  /\ engine' = outcome.engine
  /\ stored' = StoreUpdates(stored, outcome.updates)

\* The runner reads on only while the engine reports no gap.
MayRead == engine.status # "Gap" /\ Len(observations) < MaxObservations

ReceiveRaw(message) ==
  /\ kind = "coinbase" /\ MayRead
  /\ Take(ProcessRaw(engine, message))
  /\ LET verdict == Verdict(engine.last, message.sequence)
         gap     == verdict = "Gap" /\ message.book # NotOurs
         before  == IF gap THEN MarkDesynchronized(engine.reconstructor)
                           ELSE engine.reconstructor
         applies == message.book # NotOurs /\ Applies(before, message.book, verdict)
         record  == IF gap THEN Broken(observations) ELSE observations
         trust   == (trusted /\ ~gap) \/ (applies /\ message.book.type = "snapshot")
     IN  /\ trusted' = trust
         /\ missed' = (verdict = "Gap" /\ ~(applies /\ message.book.type = "snapshot"))
         /\ observations' =
              IF applies
              THEN Observed(record, message.time,
                            Process(before, message.book, verdict).book, trust)
              ELSE record
  /\ UNCHANGED kind

ReceiveTrusted(event) ==
  /\ kind = "trusted" /\ MayRead
  /\ ~Refuses(engine, event)
  /\ Take(ProcessTrusted(engine, event))
  /\ IF event.type = "Invalidated"
     THEN trusted' = FALSE /\ observations' = Broken(observations)
     ELSE /\ trusted' = (trusted \/ event.type = "Snapshot")
          /\ observations' =
               IF event.type = "Update" /\ engine.status = "WaitingForSnapshot"
               THEN observations
               ELSE Observed(observations, event.time, event.book, trusted')
  /\ UNCHANGED <<kind, missed>>

\* A line of a capture.
ReplayCapture(line) ==
  /\ kind = "capture" /\ Len(observations) < MaxObservations
  /\ engine' = ReplayLine(engine, line)
  /\ LET verdict == Verdict(engine.last, line.sequence)
         gap     == verdict = "Gap"
         before  == AfterCheck(engine, line, gap).reconstructor
         applies == line.book # NotOurs /\ Applies(before, line.book, verdict)
         record  == IF gap THEN Broken(observations) ELSE observations
         trust   == (trusted /\ ~gap) \/ (applies /\ line.book.type = "snapshot")
     IN  /\ trusted' = trust
         /\ observations' =
              IF applies
              THEN Observed(record, line.time, Process(before, line.book, verdict).book, trust)
              ELSE record
  /\ UNCHANGED <<kind, stored, missed>>

\* The end of the capture, and the command is run anew.
EndOfCapture ==
  /\ kind = "capture"
  /\ engine' = NewEngine
  /\ observations' = <<>>
  /\ trusted' = FALSE
  /\ UNCHANGED <<kind, stored, missed>>

\* The catch of LiveSourceRunner::run: the connection failed, the engine reported
\* a gap or an invalidation, or it refused an event.
Recover ==
  /\ kind # "capture"
  /\ Take([engine |-> BeginRecovery(engine), updates |-> <<>>])
  /\ observations' = Broken(observations)
  /\ trusted' = FALSE
  /\ missed' = FALSE
  /\ UNCHANGED kind
------------------------------------------------------------------------------
Init ==
  /\ kind \in FeedKind
  /\ engine = NewEngine
  /\ stored = <<>>
  /\ observations = <<>>
  /\ trusted = FALSE
  /\ missed = FALSE

Next ==
  \/ \E message \in FeedMessage : ReceiveRaw(message) \/ ReplayCapture(message)
  \/ \E event \in FeedEvent : ReceiveTrusted(event)
  \/ Recover \/ EndOfCapture

Spec == Init /\ [][Next]_vars
------------------------------------------------------------------------------
(***************************************************************************)
(* Correctness.                                                            *)
(***************************************************************************)

IsObservation(i) == i \in DOMAIN observations /\ observations[i] # Break

\* A bucket is known if a book was seen in it, or it was passed over between two
\* observations with no break between them.
Known(bucket) ==
  \E i \in DOMAIN observations :
    /\ IsObservation(i)
    /\ \/ observations[i].bucket = bucket
       \/ /\ observations[i].bucket < bucket
          /\ IsObservation(i + 1) /\ observations[i + 1].bucket > bucket

\* The last book seen in or before a bucket.
LatestBook(bucket) ==
  LET seen == {i \in DOMAIN observations :
                 IsObservation(i) /\ observations[i].bucket <= bucket}
  IN  observations[CHOOSE i \in seen : \A j \in seen : j <= i].book

\* The window shows, in the order of time, the last books seen in the latest
\* known buckets, and nothing of the time behind a gap (sample, over every
\* sequence of observations and breaks).
HistoryShowsObservations ==
  LET columns == engine.history.columns
      seen    == {observations[i].bucket : i \in {j \in DOMAIN observations : IsObservation(j)}}
      shown   == {columns[i].bucket : i \in DOMAIN columns}
  IN  /\ \A i, j \in DOMAIN columns : i < j => columns[i].bucket < columns[j].bucket
      /\ \A i \in DOMAIN columns :
           /\ Known(columns[i].bucket)
           /\ columns[i].book = LatestBook(columns[i].bucket)
      /\ \A first, last \in seen : \A bucket \in first .. last :
           Known(bucket) /\ bucket \notin shown
             => Len(columns) = MaxColumns /\ bucket < columns[1].bucket

\* What the hub rebuilt from the published updates is the engine's window, with
\* consecutive indexes that end just below the next one: no update of a column is
\* lost and no replacement misses its column (collect_columns, publish_locked).
StoredColumnsAreHistory ==
  LET columns == engine.history.columns
  IN  kind # "capture" =>
        stored = [i \in DOMAIN columns |->
                    [index |-> engine.nextIndex - Len(columns) + i - 1, column |-> columns[i]]]

\* Nothing is drawn between a break and the next snapshot, however the updates
\* behind the break are numbered.
EveryObservationIsTrusted ==
  \A i \in DOMAIN observations : IsObservation(i) => observations[i].trusted

\* README.md: "When the socket closes or a sequence gap is detected, it marks the
\* retained chart stale".
GapMarksChartStale == missed => engine.status # "Live"
==============================================================================
