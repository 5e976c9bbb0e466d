-------------------------- MODULE LiveHeatmapEngine --------------------------
(***************************************************************************)
(* What makes heatmap columns of one product's feed                        *)
(* (src/live_heatmap_engine.cpp): of the raw messages of a Coinbase        *)
(* connection, whose sequence it checks and whose book it rebuilds itself, *)
(* or of the trusted events of a venue's adapter.  An engine is a record;  *)
(* each operation returns the engine after it and the column updates that  *)
(* are to be published.                                                    *)
(***************************************************************************)
EXTENDS HeatmapHistory, BookReconstructor, SequenceTracker

EngineStatus == {"WaitingForSnapshot", "Live", "Gap"}

Engine == [status        : EngineStatus,
           last          : TrackerState,
           reconstructor : Reconstructor,
           history       : History,
           nextIndex     : Nat,
           lastEmitted   : Nat \cup {NoTime}]

NewEngine == [status        |-> "WaitingForSnapshot",
              last          |-> NoSequence,
              reconstructor |-> NewReconstructor,
              history       |-> NewHistory,
              nextIndex     |-> 0,
              lastEmitted   |-> NoTime]

\* A raw message carries one product's book levels, or is of another channel or
\* of another product, which the engine refuses after it saw the sequence number.
NotOurs == [type |-> "other"]
RawMessage == [sequence : 0 .. MaxSequence, book : BookMessage \cup {NotOurs}, time : Nat]

TrustedEvent == [type : {"Snapshot", "Update"}, book : Book, time : Nat]
                  \cup {[type |-> "Invalidated"]}

\* LiveHeatmapColumnUpdate and LiveHeatmapResult; `changed' is whether the result
\* has a status_change.
ColumnUpdate == [index : Nat, replaces : BOOLEAN, column : Column]
Outcome(before, after, updates) ==
  [engine |-> after, updates |-> updates, changed |-> after.status # before.status]

\* The columns later than the last published one, which are the last of the window:
\* it is in the order of time.
FreshColumns(columns, lastEmitted) ==
  LET known == {i \in DOMAIN columns : columns[i].bucket <= lastEmitted}
  IN  SubSeq(columns, Cardinality(known) + 1, Len(columns))

\* A mutant: a column that is sampled again is published only with the next one.
CollectNewColumns(engine) ==
  LET fresh == FreshColumns(engine.history.columns, engine.lastEmitted)
  IN  [i \in DOMAIN fresh |->
         [index |-> engine.nextIndex + i - 1, replaces |-> FALSE, column |-> fresh[i]]]

\* collect_columns: the open column again if it was already published, else
\* every column since the last published one.
CollectColumns(engine) ==
  LET columns == engine.history.columns
      fresh   == FreshColumns(columns, engine.lastEmitted)
  IN  IF LastOf(columns).bucket = engine.lastEmitted
      THEN <<[index |-> engine.nextIndex - 1, replaces |-> TRUE, column |-> LastOf(columns)]>>
      ELSE [i \in DOMAIN fresh |->
              [index |-> engine.nextIndex + i - 1, replaces |-> FALSE, column |-> fresh[i]]]

\* A sampled book makes the engine live and its new columns known.
Emit(before, engine, time, book) ==
  LET history == Sample(engine.history, time, book)
      sampled == [engine EXCEPT !.history = history, !.status = "Live"]
      updates == CollectColumns(sampled)
      fresh   == {i \in DOMAIN updates : ~updates[i].replaces}
  IN  IF ~Samples(book) THEN Outcome(before, [engine EXCEPT !.history = history], <<>>)
      ELSE Outcome(before,
                   [sampled EXCEPT !.nextIndex = @ + Cardinality(fresh),
                                   !.lastEmitted = LastOf(history.columns).bucket],
                   updates)

\* LiveHeatmapEngine::begin_recovery
BeginRecovery(engine) ==
  [engine EXCEPT !.last = NoSequence,
                 !.reconstructor = MarkDesynchronized(@),
                 !.history = MarkDiscontinuity(@),
                 !.status = "WaitingForSnapshot"]

\* The gap seen with a book message, before the message is applied.
AfterGap(engine, message) ==
  [engine EXCEPT !.reconstructor = MarkDesynchronized(@),
                 !.history = MarkDiscontinuity(@),
                 !.status = IF message.book.type = "snapshot" THEN @ ELSE "Gap"]

\* LiveHeatmapEngine::process on a raw message.  A snapshot behind a gap restarts
\* the tracker.  When sample throws, what was rebuilt stays and the outcome is
\* lost; the runner ignores the message.
ProcessRaw(engine, message) ==
  LET verdict  == Verdict(engine.last, message.sequence)
      gap      == verdict = "Gap"
      observed == [engine EXCEPT !.last = Observe(@, message.sequence)]
      warned   == IF gap THEN AfterGap(observed, message) ELSE observed
      applies  == Applies(warned.reconstructor, message.book, verdict)
      rebuilt  == [warned EXCEPT
                     !.reconstructor = Process(@, message.book, verdict),
                     !.last = IF gap /\ applies THEN message.sequence ELSE @]
  IN  IF message.book = NotOurs  THEN Outcome(engine, observed, <<>>)
      ELSE IF ~applies           THEN Outcome(engine, rebuilt, <<>>)
      ELSE IF TooEarly(rebuilt.history, message.time)
      THEN [engine |-> rebuilt, updates |-> <<>>, changed |-> FALSE]
      ELSE Emit(engine, rebuilt, message.time, rebuilt.reconstructor.book)

\* LiveHeatmapEngine::process on a trusted event throws on a book older than the
\* last, before it changes anything.
Refuses(engine, event) ==
  /\ event.type # "Invalidated"
  /\ event.type = "Snapshot" \/ engine.status # "WaitingForSnapshot"
  /\ TooEarly(engine.history, event.time)

\* Otherwise: an update is for an engine that is not waiting.
ProcessTrusted(engine, event) ==
  IF event.type = "Invalidated" THEN Outcome(engine, BeginRecovery(engine), <<>>)
  ELSE IF event.type = "Update" /\ engine.status = "WaitingForSnapshot"
  THEN Outcome(engine, engine, <<>>)
  ELSE Emit(engine, engine, event.time, event.book)
==============================================================================
