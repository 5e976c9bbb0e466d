--------------------------- MODULE HeatmapFeedProofs --------------------------
(***************************************************************************)
(* For any messages, sequence numbers, times and books, of a live heatmap  *)
(* from either kind of source and of the replay of a capture: no book is   *)
(* sampled between a break of the feed and the next snapshot, the hub      *)
(* stores the engine's window, and the window shows the last books that    *)
(* were sampled and nothing of the time behind a gap.                      *)
(***************************************************************************)
EXTENDS HeatmapFeed, LiveStreamHubProofs

\* The members of an engine; what it keeps of the sequence, of the history and of
\* what it published may be anything.
Members == {"status", "last", "reconstructor", "history", "nextIndex", "lastEmitted"}

TrustedObservation == [bucket : Nat, book : Book, trusted : {TRUE}]
TrustedRecord      == Seq(TrustedObservation \cup {Break})

(***************************************************************************)
(* The inductive invariant: what lets an update be sampled is trust.  The  *)
(* record alone is not inductive: an engine whose book is synchronized, or *)
(* that is not waiting for a snapshot, samples whatever comes next.        *)
(***************************************************************************)
TrustInv ==
  /\ kind \in {"coinbase", "trusted", "capture"}
  /\ trusted \in BOOLEAN
  /\ DOMAIN engine = Members
  /\ engine.reconstructor \in Reconstructor
  /\ observations \in TrustedRecord
  /\ kind # "trusted" => (engine.reconstructor.synchronized => trusted)
  /\ kind = "trusted" => (engine.status # "WaitingForSnapshot" => trusted)

LEMMA TrustInvIsEnough == TrustInv => EveryObservationIsTrusted
<1> SUFFICES ASSUME TrustInv, NEW i \in DOMAIN observations, IsObservation(i)
             PROVE  observations[i].trusted
  BY DEF EveryObservationIsTrusted
<1>1. observations[i] \in TrustedObservation \cup {Break}
  BY DEF TrustInv, TrustedRecord
<1>2. observations[i] \in TrustedObservation
  BY <1>1 DEF IsObservation
<1>3. QED
  BY <1>2 DEF TrustedObservation

(***************************************************************************)
(* The record and the engine's operations.                                 *)
(***************************************************************************)

LEMMA BrokenRecord ==
  ASSUME NEW record \in TrustedRecord
  PROVE  Broken(record) \in TrustedRecord
  BY DEF Broken, TrustedRecord

LEMMA ObservedRecord ==
  ASSUME NEW record \in TrustedRecord, NEW time \in Nat, NEW book \in Book,
         NEW trust, trust = TRUE
  PROVE  Observed(record, time, book, trust) \in TrustedRecord
<1> DEFINE seen == [bucket |-> BucketStart(time), book |-> book, trusted |-> trust]
<1>1. seen \in TrustedObservation
  BY BucketIsNatural DEF TrustedObservation
<1> HIDE DEF seen
<1>2. Append(record, seen) \in TrustedRecord
  BY <1>1 DEF TrustedRecord
<1>3. QED
  BY <1>2 DEF Observed, seen

\* Sampling leaves the book alone and makes nothing wait.
LEMMA EmitKeeps ==
  ASSUME NEW before, NEW sampling, DOMAIN sampling = Members, NEW time, NEW book
  PROVE  LET after == Emit(before, sampling, time, book).engine
         IN  /\ DOMAIN after = Members
             /\ after.reconstructor = sampling.reconstructor
             /\ after.status \in {sampling.status, "Live"}
  BY DEF Emit, Outcome, Members

LEMMA RecoveryKeeps ==
  ASSUME NEW recovering, DOMAIN recovering = Members,
         recovering.reconstructor \in Reconstructor
  PROVE  /\ DOMAIN BeginRecovery(recovering) = Members
         /\ BeginRecovery(recovering).reconstructor
              = MarkDesynchronized(recovering.reconstructor)
         /\ BeginRecovery(recovering).status = "WaitingForSnapshot"
  BY DEF BeginRecovery, Members

(***************************************************************************)
(* The steps.                                                              *)
(***************************************************************************)

\* What a message does to the book of the engine or of the replay, once a gap was
\* looked at, and to the record of it.
LEMMA MessageKeeps ==
  ASSUME TrustInv, kind # "trusted", UNCHANGED kind,
         NEW gap \in BOOLEAN, NEW verdict, NEW message \in RawMessage,
         NEW before,
         before = IF gap THEN MarkDesynchronized(engine.reconstructor) ELSE engine.reconstructor,
         NEW applies,
         applies = (message.book # NotOurs /\ Applies(before, message.book, verdict)),
         DOMAIN engine' = Members,
         engine'.reconstructor = IF message.book = NotOurs THEN before
                                 ELSE Process(before, message.book, verdict),
         NEW trust, trust = ((trusted /\ ~gap) \/ (applies /\ message.book.type = "snapshot")),
         trusted' = trust,
         NEW record, record = (IF gap THEN Broken(observations) ELSE observations),
         observations' = (IF applies
                          THEN Observed(record, message.time,
                                        Process(before, message.book, verdict).book, trust)
                          ELSE record)
  PROVE  TrustInv'
<1>1. before \in Reconstructor /\ (before.synchronized => trusted /\ ~gap)
  BY DesynchronizedReconstructor DEF TrustInv
<1>2. record \in TrustedRecord
  BY BrokenRecord DEF TrustInv
<1>3. message.time \in Nat /\ (message.book = NotOurs \/ message.book \in BookMessage)
  BY DEF RawMessage
<1>4. trusted' \in BOOLEAN /\ kind' \in {"coinbase", "capture"}
  BY DEF TrustInv
<1>5. CASE message.book = NotOurs
  BY <1>1, <1>2, <1>4, <1>5 DEF TrustInv
<1>6. CASE message.book # NotOurs
  <2> DEFINE after == Process(before, message.book, verdict)
  <2>1. message.book \in BookMessage
    BY <1>3, <1>6
  <2>2. /\ after \in Reconstructor /\ engine'.reconstructor = after
        /\ applies => message.book.type = "snapshot" \/ before.synchronized
        /\ after.synchronized =>
             before.synchronized \/ (applies /\ message.book.type = "snapshot")
    BY <1>1, <1>6, <2>1, ProcessedReconstructor
  <2>3. after.book \in Book
    BY <2>2 DEF Reconstructor
  <2>4. applies => trust = TRUE
    BY <1>1, <1>4, <2>2
  <2>5. after.synchronized => trust
    BY <1>1, <2>2
  <2> HIDE DEF after
  <2>6. observations' \in TrustedRecord
    <3>1. CASE ~applies
      BY <1>2, <3>1
    <3>2. CASE applies
      <4>1. Observed(record, message.time, after.book, trust) \in TrustedRecord
        BY <1>2, <1>3, <2>3, <2>4, <3>2, ObservedRecord
      <4>2. QED
        BY <3>2, <4>1 DEF after
    <3>3. QED
      BY <3>1, <3>2
  <2>7. QED
    BY <1>4, <2>2, <2>5, <2>6 DEF TrustInv
<1>7. QED
  BY <1>5, <1>6

LEMMA ReceiveRawStep ==
  ASSUME TrustInv, NEW message \in FeedMessage, ReceiveRaw(message)
  PROVE  TrustInv'
<1> DEFINE verdict == Verdict(engine.last, message.sequence)
           gap     == verdict = "Gap" /\ message.book # NotOurs
           before  == IF gap THEN MarkDesynchronized(engine.reconstructor)
                             ELSE engine.reconstructor
           applies == message.book # NotOurs /\ Applies(before, message.book, verdict)
           record  == IF gap THEN Broken(observations) ELSE observations
           trust   == (trusted /\ ~gap) \/ (applies /\ message.book.type = "snapshot")
           observed == [engine EXCEPT !.last = Observe(@, message.sequence)]
           warned   == IF verdict = "Gap" THEN AfterGap(observed, message) ELSE observed
           rebuilt  == [warned EXCEPT
                          !.reconstructor = Process(@, message.book, verdict),
                          !.last = IF verdict = "Gap"
                                        /\ Applies(warned.reconstructor, message.book, verdict)
                                   THEN message.sequence ELSE @]
<1>1. message \in RawMessage /\ kind # "trusted" /\ DOMAIN engine = Members
  BY FeedAssumption DEF ReceiveRaw, TrustInv
<1>2. /\ engine' = ProcessRaw(engine, message).engine /\ trusted' = trust /\ UNCHANGED kind
      /\ observations' = (IF applies
                          THEN Observed(record, message.time,
                                        Process(before, message.book, verdict).book, trust)
                          ELSE record)
  BY DEF ReceiveRaw, Take
<1>3. DOMAIN observed = Members /\ observed.reconstructor = engine.reconstructor
  BY <1>1 DEF Members
<1>4. DOMAIN warned = Members
      /\ (message.book # NotOurs => warned.reconstructor = before)
  BY <1>3 DEF AfterGap, Members
<1>5. /\ DOMAIN rebuilt = Members
      /\ message.book # NotOurs =>
           rebuilt.reconstructor = Process(before, message.book, verdict)
  BY <1>4 DEF Members
<1>6. \/ message.book = NotOurs /\ engine' = observed
      \/ message.book # NotOurs /\ engine' = rebuilt
      \/ message.book # NotOurs
           /\ engine' = Emit(engine, rebuilt, message.time, rebuilt.reconstructor.book).engine
  BY <1>2 DEF ProcessRaw, Outcome
<1> HIDE DEF observed, warned, rebuilt
<1>7. /\ DOMAIN engine' = Members
      /\ engine'.reconstructor = IF message.book = NotOurs THEN before
                                 ELSE Process(before, message.book, verdict)
  BY <1>3, <1>5, <1>6, EmitKeeps
<1>8. gap \in BOOLEAN
  OBVIOUS
<1> HIDE DEF gap, verdict, before, applies, record, trust
<1>9. QED
  BY <1>1, <1>2, <1>7, <1>8, MessageKeeps DEF before, applies, record, trust

LEMMA ReplayCaptureStep ==
  ASSUME TrustInv, NEW line \in FeedMessage, ReplayCapture(line)
  PROVE  TrustInv'
<1> DEFINE verdict == Verdict(engine.last, line.sequence)
           gap     == verdict = "Gap"
           checked == AfterCheck(engine, line, gap)
           before  == IF gap THEN MarkDesynchronized(engine.reconstructor)
                             ELSE engine.reconstructor
           applies == line.book # NotOurs /\ Applies(before, line.book, verdict)
           record  == IF gap THEN Broken(observations) ELSE observations
           trust   == (trusted /\ ~gap) \/ (applies /\ line.book.type = "snapshot")
           rebuilt == [checked EXCEPT
                         !.reconstructor = Process(@, line.book, verdict),
                         !.last = IF gap /\ Applies(checked.reconstructor, line.book, verdict)
                                  THEN line.sequence ELSE @]
           sampled == [rebuilt EXCEPT
                         !.history = Sample(@, line.time, rebuilt.reconstructor.book)]
<1>1. line \in RawMessage /\ kind # "trusted" /\ DOMAIN engine = Members
  BY FeedAssumption DEF ReplayCapture, TrustInv
<1>2. DOMAIN checked = Members /\ checked.reconstructor = before
  BY <1>1 DEF AfterCheck, Members
<1>3. /\ engine' = ReplayLine(engine, line) /\ trusted' = trust /\ UNCHANGED kind
      /\ observations' = (IF applies
                          THEN Observed(record, line.time,
                                        Process(before, line.book, verdict).book, trust)
                          ELSE record)
  BY <1>2 DEF ReplayCapture
<1>4. /\ DOMAIN rebuilt = Members
      /\ rebuilt.reconstructor = Process(before, line.book, verdict)
  BY <1>2 DEF Members
<1>5. DOMAIN sampled = Members /\ sampled.reconstructor = rebuilt.reconstructor
  BY <1>4 DEF Members
<1>6. \/ line.book = NotOurs /\ engine' = checked
      \/ line.book # NotOurs /\ engine' \in {rebuilt, sampled}
  BY <1>3 DEF ReplayLine
<1> HIDE DEF checked, rebuilt, sampled
<1>7. /\ DOMAIN engine' = Members
      /\ engine'.reconstructor = IF line.book = NotOurs THEN before
                                 ELSE Process(before, line.book, verdict)
  BY <1>2, <1>4, <1>5, <1>6
<1>8. gap \in BOOLEAN
  OBVIOUS
<1> HIDE DEF gap, verdict, before, applies, record, trust
<1>9. QED
  BY <1>1, <1>3, <1>7, <1>8, MessageKeeps DEF before, applies, record, trust

LEMMA ReceiveTrustedStep ==
  ASSUME TrustInv, NEW event \in FeedEvent, ReceiveTrusted(event)
  PROVE  TrustInv'
<1>1. /\ event \in TrustedEvent /\ kind = "trusted" /\ kind' = "trusted"
      /\ DOMAIN engine = Members
      /\ engine' = ProcessTrusted(engine, event).engine
  BY FeedAssumption DEF ReceiveTrusted, Take, TrustInv
<1>2. CASE event.type = "Invalidated"
  <2>1. /\ trusted' = FALSE /\ observations' = Broken(observations)
        /\ engine' = BeginRecovery(engine)
    BY <1>1, <1>2 DEF ReceiveTrusted, ProcessTrusted, Outcome
  <2>2. /\ DOMAIN engine' = Members /\ engine'.status = "WaitingForSnapshot"
        /\ engine'.reconstructor \in Reconstructor
    BY <1>1, <2>1, RecoveryKeeps, DesynchronizedReconstructor DEF TrustInv
  <2>3. QED
    BY <1>1, <2>1, <2>2, BrokenRecord DEF TrustInv
<1>3. CASE event.type = "Update" /\ engine.status = "WaitingForSnapshot"
  <2>1. trusted' = trusted /\ observations' = observations /\ engine' = engine
    BY <1>1, <1>3 DEF ReceiveTrusted, ProcessTrusted, Outcome, TrustInv
  <2>2. QED
    BY <1>1, <2>1 DEF TrustInv
<1>4. CASE /\ event.type # "Invalidated"
           /\ ~(event.type = "Update" /\ engine.status = "WaitingForSnapshot")
  <2>1. event.type \in {"Snapshot", "Update"} /\ event.time \in Nat /\ event.book \in Book
    BY <1>1, <1>4 DEF TrustedEvent
  <2>2. /\ trusted' = (trusted \/ event.type = "Snapshot")
        /\ observations' = Observed(observations, event.time, event.book, trusted')
    BY <1>4 DEF ReceiveTrusted
  <2>3. trusted' = TRUE
    BY <1>1, <1>4, <2>1, <2>2 DEF TrustInv
  <2>4. engine' = Emit(engine, engine, event.time, event.book).engine
    BY <1>1, <1>4 DEF ProcessTrusted
  <2>5. DOMAIN engine' = Members /\ engine'.reconstructor = engine.reconstructor
    BY <1>1, <2>4, EmitKeeps
  <2>6. observations' \in TrustedRecord
    BY <2>1, <2>2, <2>3, ObservedRecord DEF TrustInv
  <2>7. QED
    BY <1>1, <2>3, <2>5, <2>6 DEF TrustInv
<1>5. QED
  BY <1>2, <1>3, <1>4

LEMMA NewEngineIsUntrusted ==
  /\ DOMAIN NewEngine = Members
  /\ NewEngine.reconstructor \in Reconstructor
  /\ ~NewEngine.reconstructor.synchronized
  /\ NewEngine.status = "WaitingForSnapshot"
  /\ <<>> \in TrustedRecord
  BY DEF NewEngine, NewReconstructor, Reconstructor, EmptyBook, Book, Members, TrustedRecord

LEMMA TrustStep ==
  ASSUME TrustInv, [Next]_vars
  PROVE  TrustInv'
<1>1. CASE Recover
  <2>1. /\ engine' = BeginRecovery(engine) /\ trusted' = FALSE /\ kind' = kind
        /\ observations' = Broken(observations)
    BY <1>1 DEF Recover, Take
  <2>2. /\ DOMAIN engine' = Members /\ engine'.status = "WaitingForSnapshot"
        /\ engine'.reconstructor \in Reconstructor
        /\ ~engine'.reconstructor.synchronized
    BY <2>1, RecoveryKeeps, DesynchronizedReconstructor DEF TrustInv
  <2>3. QED
    BY <2>1, <2>2, BrokenRecord DEF TrustInv
<1>2. CASE EndOfCapture
  BY <1>2, NewEngineIsUntrusted DEF EndOfCapture, TrustInv
<1>3. CASE UNCHANGED vars
  BY <1>3 DEF vars, TrustInv
<1>4. QED
  BY <1>1, <1>2, <1>3, ReceiveRawStep, ReplayCaptureStep, ReceiveTrustedStep DEF Next

\* Every book in the record of what was sampled was trusted: behind a gap, an
\* invalidation or a lost connection nothing is drawn before the next snapshot.
THEOREM ObservationsTrusted == Spec => []EveryObservationIsTrusted
<1>1. Init => TrustInv
  BY NewEngineIsUntrusted, FeedAssumption DEF Init, TrustInv
<1>2. QED
  BY <1>1, TrustStep, TrustInvIsEnough, PTL DEF Spec
------------------------------------------------------------------------------
(***************************************************************************)
(* What the hub stores of a live source, and what a replay may become.     *)
(***************************************************************************)

\* The inductive invariant.  That the hub's columns are the engine's is not
\* inductive: it takes that the engine has published all it has, that the window
\* is in the order of time and that no time before the last observation comes.
FeedInv ==
  /\ kind \in FeedKind
  /\ missed \in BOOLEAN
  /\ IF kind = "capture"
     THEN engine \in Engine /\ Len(engine.history.columns) <= MaxColumns /\ stored = <<>>
     ELSE Consistent(engine) /\ stored = Numbered(engine)

LEMMA FeedInvIsEnough ==
  ASSUME TrustInv, FeedInv
  PROVE  TypeOK /\ StoredColumnsAreHistory
<1>1. observations \in Seq(Observation \cup {Break}) /\ trusted \in BOOLEAN
  <2>1. TrustedObservation \cup {Break} \subseteq Observation \cup {Break}
    BY DEF TrustedObservation, Observation
  <2>2. observations \in Seq(TrustedObservation \cup {Break})
    BY DEF TrustInv, TrustedRecord
  <2>3. \A i \in 1 .. Len(observations) : observations[i] \in Observation \cup {Break}
    BY <2>1, <2>2, ElementOfSeq
  <2>4. /\ Len(observations) \in Nat
        /\ observations = [i \in 1 .. Len(observations) |-> observations[i]]
    BY <2>2, LenProperties
  <2> HIDE DEF Observation, Break
  <2>5. [i \in 1 .. Len(observations) |-> observations[i]] \in Seq(Observation \cup {Break})
    BY <2>3, <2>4, IsASeq
  <2>6. QED
    BY <2>4, <2>5 DEF TrustInv
<1>2. CASE kind = "capture"
  <2>1. stored \in Seq(StoredColumn) /\ Len(stored) = 0 /\ 0 <= MaxColumns
    BY <1>2, HeatmapConfigAssumption DEF FeedInv
  <2>2. QED
    BY <1>1, <1>2, <2>1 DEF FeedInv, TypeOK, StoredColumnsAreHistory
<1>3. CASE kind # "capture"
  <2>1. Consistent(engine) /\ stored = Numbered(engine)
    BY <1>3 DEF FeedInv
  <2>2. /\ engine \in Engine /\ engine.history.columns \in Seq(Column)
        /\ engine.nextIndex \in Nat /\ Len(engine.history.columns) <= engine.nextIndex
        /\ Len(engine.history.columns) <= MaxColumns
    BY <2>1, EngineParts DEF Consistent
  <2>3. stored \in Seq(StoredColumn) /\ Len(stored) = Len(engine.history.columns)
    BY <2>1, <2>2, NumberedType DEF Numbered
  <2>4. QED
    BY <1>1, <2>1, <2>2, <2>3
       DEF FeedInv, TypeOK, StoredColumnsAreHistory, Numbered, NumberedColumns
<1>4. QED
  BY <1>2, <1>3

\* One turn of the replay's loop leaves a replay.
LEMMA ReplayLineType ==
  ASSUME NEW replay \in Engine, Len(replay.history.columns) <= MaxColumns,
         NEW line \in RawMessage
  PROVE  /\ ReplayLine(replay, line) \in Engine
         /\ Len(ReplayLine(replay, line).history.columns) <= MaxColumns
<1> DEFINE verdict == Verdict(replay.last, line.sequence)
           gap     == verdict = "Gap"
           last    == Observe(replay.last, line.sequence)
           before  == IF gap THEN MarkDesynchronized(replay.reconstructor)
                             ELSE replay.reconstructor
           window  == IF gap THEN MarkDiscontinuity(replay.history) ELSE replay.history
           checked == [replay EXCEPT !.last = last, !.reconstructor = before, !.history = window]
           applies == Applies(checked.reconstructor, line.book, verdict)
           after   == Process(checked.reconstructor, line.book, verdict)
           next    == IF gap /\ applies THEN line.sequence ELSE checked.last
           rebuilt == [checked EXCEPT !.reconstructor = after, !.last = next]
           history == Sample(rebuilt.history, line.time, rebuilt.reconstructor.book)
           sampled == [rebuilt EXCEPT !.history = history]
<1>1. /\ line.sequence \in TrackerState /\ line.time \in Nat
      /\ line.book # NotOurs => line.book \in BookMessage
  BY DEF RawMessage, TrackerState
<1>2. last \in TrackerState
  BY <1>1, EngineParts DEF Observe
<1>3. before \in Reconstructor
  BY EngineParts, DesynchronizedReconstructor
<1>4. WellFormed(window)
  BY EngineParts, DiscontinuityKeepsColumns DEF WellFormed
<1>5. ReplayLine(replay, line) = IF line.book = NotOurs THEN checked
                                 ELSE IF ~applies \/ TooEarly(rebuilt.history, line.time)
                                 THEN rebuilt ELSE sampled
  BY DEF ReplayLine, AfterCheck
<1> HIDE DEF last, before, window
<1>6. /\ checked \in Engine /\ checked.history = window /\ checked.reconstructor = before
      /\ checked.last = last
  BY <1>2, <1>3, <1>4 DEF Engine, WellFormed
<1> HIDE DEF checked
<1>7. CASE line.book = NotOurs
  BY <1>4, <1>5, <1>6, <1>7 DEF WellFormed
<1>8. CASE line.book # NotOurs
  <2>1. after \in Reconstructor
    BY <1>1, <1>3, <1>6, <1>8, ProcessedReconstructor
  <2>2. next \in TrackerState
    BY <1>1, <1>2, <1>6
  <2> HIDE DEF after, next, applies
  <2>3. /\ rebuilt \in Engine /\ rebuilt.history = window /\ rebuilt.reconstructor = after
    BY <1>6, <2>1, <2>2 DEF Engine
  <2> HIDE DEF rebuilt
  <2>4. rebuilt.reconstructor.book \in Book
    BY <2>1, <2>3 DEF Reconstructor
  <2>5. WellFormed(history)
    BY <1>1, <1>4, <2>3, <2>4, SampledHistory
  <2> HIDE DEF history
  <2>6. sampled \in Engine /\ sampled.history = history
    BY <2>3, <2>5 DEF Engine, WellFormed
  <2> HIDE DEF sampled
  <2>7. QED
    BY <1>4, <1>5, <1>8, <2>3, <2>5, <2>6 DEF WellFormed
<1>9. QED
  BY <1>7, <1>8

\* A live source's step: the hub takes what the engine tells.
LEMMA TakenOutcome ==
  ASSUME FeedInv, kind # "capture", UNCHANGED kind, NEW outcome, Take(outcome),
         Consistent(outcome.engine), Tells(engine, outcome.updates, outcome.engine),
         missed' \in BOOLEAN
  PROVE  FeedInv'
<1>1. Consistent(engine) /\ stored = Numbered(engine)
  BY DEF FeedInv
<1>2. engine' = outcome.engine /\ stored' = StoreUpdates(stored, outcome.updates)
  BY DEF Take
<1>3. stored' = Numbered(outcome.engine)
  BY <1>1, <1>2, HubStoresWindow
<1>4. Numbered(engine)' = Numbered(outcome.engine)
  BY <1>2 DEF Numbered
<1>5. Consistent(engine)' <=> Consistent(outcome.engine)
  BY <1>2 DEF Consistent
<1>6. QED
  BY <1>3, <1>4, <1>5 DEF FeedInv

LEMMA FeedStep ==
  ASSUME FeedInv, [Next]_vars
  PROVE  FeedInv'
<1>1. ASSUME NEW message \in FeedMessage, ReceiveRaw(message)
      PROVE  FeedInv'
  <2>1. /\ message \in RawMessage /\ kind # "capture" /\ UNCHANGED kind
        /\ Take(ProcessRaw(engine, message)) /\ missed' \in BOOLEAN
    BY <1>1, FeedAssumption DEF ReceiveRaw
  <2>2. Consistent(engine)
    BY <2>1 DEF FeedInv
  <2> DEFINE result == ProcessRaw(engine, message)
  <2>3. Consistent(result.engine) /\ Tells(engine, result.updates, result.engine)
    BY <2>1, <2>2, RawTells
  <2> HIDE DEF result
  <2>4. QED
    BY <2>1, <2>3, TakenOutcome DEF result
<1>2. ASSUME NEW event \in FeedEvent, ReceiveTrusted(event)
      PROVE  FeedInv'
  <2>1. /\ event \in TrustedEvent /\ kind # "capture" /\ UNCHANGED kind /\ ~Refuses(engine, event)
        /\ Take(ProcessTrusted(engine, event)) /\ missed' \in BOOLEAN
    BY <1>2, FeedAssumption DEF ReceiveTrusted, FeedInv
  <2>2. Consistent(engine)
    BY <2>1 DEF FeedInv
  <2> DEFINE result == ProcessTrusted(engine, event)
  <2>3. Consistent(result.engine) /\ Tells(engine, result.updates, result.engine)
    BY <2>1, <2>2, TrustedTells
  <2> HIDE DEF result
  <2>4. QED
    BY <2>1, <2>3, TakenOutcome DEF result
<1>3. CASE Recover
  <2> DEFINE result == [engine |-> BeginRecovery(engine), updates |-> <<>>]
  <2>1. kind # "capture" /\ UNCHANGED kind /\ Take(result) /\ missed' \in BOOLEAN
    BY <1>3 DEF Recover
  <2>2. Consistent(engine)
    BY <2>1 DEF FeedInv
  <2>3. result.engine = BeginRecovery(engine) /\ result.updates = <<>>
    OBVIOUS
  <2> HIDE DEF result
  <2>4. Consistent(result.engine) /\ Tells(engine, result.updates, result.engine)
    BY <2>2, <2>3, RecoveryTells
  <2>5. QED
    BY <2>1, <2>4, TakenOutcome
<1>4. ASSUME NEW line \in FeedMessage, ReplayCapture(line)
      PROVE  FeedInv'
  <2>1. /\ line \in RawMessage /\ kind = "capture" /\ engine' = ReplayLine(engine, line)
        /\ UNCHANGED <<kind, stored, missed>>
    BY <1>4, FeedAssumption DEF ReplayCapture
  <2>2. engine \in Engine /\ Len(engine.history.columns) <= MaxColumns /\ stored = <<>>
    BY <2>1 DEF FeedInv
  <2>3. engine' \in Engine /\ Len(engine'.history.columns) <= MaxColumns
    BY <2>1, <2>2, ReplayLineType
  <2>4. QED
    BY <2>1, <2>2, <2>3 DEF FeedInv
<1>5. CASE EndOfCapture
  <2>1. NewEngine \in Engine /\ Len(NewEngine.history.columns) <= MaxColumns
    BY NewEngineIsConsistent DEF Consistent
  <2>2. QED
    BY <1>5, <2>1 DEF EndOfCapture, FeedInv
<1>6. CASE UNCHANGED vars
  BY <1>6 DEF vars, FeedInv, Consistent, Numbered
<1>7. QED
  BY <1>1, <1>2, <1>3, <1>4, <1>5, <1>6 DEF Next

LEMMA FeedInvHolds == Spec => [](TrustInv /\ FeedInv)
<1>1. Init => TrustInv
  BY NewEngineIsUntrusted, FeedAssumption DEF Init, TrustInv
<1>2. Init => FeedInv
  <2>1. Consistent(NewEngine) /\ Numbered(NewEngine) = <<>>
    BY NewEngineIsConsistent DEF Numbered, NumberedColumns
  <2>2. NewEngine \in Engine /\ Len(NewEngine.history.columns) <= MaxColumns
    BY <2>1 DEF Consistent
  <2>3. QED
    BY <2>1, <2>2 DEF Init, FeedInv, Consistent, Numbered
<1>3. QED
  BY <1>1, <1>2, TrustStep, FeedStep, PTL DEF Spec

\* The feed's state keeps its types: the windows of the engine and of the hub are
\* never longer than configured.
THEOREM TypeCorrect == Spec => []TypeOK
  BY FeedInvHolds, FeedInvIsEnough, PTL

\* What the hub rebuilt from the published updates is the engine's window, after
\* any messages, breaks and times.
THEOREM HubStoresHistory == Spec => []StoredColumnsAreHistory
  BY FeedInvHolds, FeedInvIsEnough, PTL
------------------------------------------------------------------------------
(***************************************************************************)
(* The window and the record of what was sampled.                          *)
(***************************************************************************)

\* The record's entry is a book that was seen.
SeenIn(record, i) == i \in DOMAIN record /\ record[i] # Break

\* As Known and LatestBook say it, of any record.
KnownIn(record, bucket) ==
  \E i \in DOMAIN record :
    /\ SeenIn(record, i)
    /\ \/ record[i].bucket = bucket
       \/ record[i].bucket < bucket /\ SeenIn(record, i + 1) /\ record[i + 1].bucket > bucket
LatestIn(record, bucket, book) ==
  \E i \in DOMAIN record :
    /\ SeenIn(record, i) /\ record[i].bucket <= bucket /\ record[i].book = book
    /\ \A j \in DOMAIN record : SeenIn(record, j) /\ record[j].bucket <= bucket => j <= i

\* The record and the window end alike: with the same book, or with a break.
EndsLike(record, history) ==
  LET last == LastOf(history.columns)
  IN  /\ record # <<>>
      /\ history.lastObservation \in Nat
      /\ last.bucket <= BucketStart(history.lastObservation)
      /\ \A i \in DOMAIN record : SeenIn(record, i) => record[i].bucket <= last.bucket
      /\ IF history.carryForward
         THEN /\ LastOf(record) # Break
              /\ LastOf(record).bucket = last.bucket /\ LastOf(record).book = last.book
         ELSE LastOf(record) = Break

\* Each column is of a known bucket and shows the latest book.
ShowsLatest(record, columns) ==
  \A i \in 1 .. Len(columns) :
    /\ KnownIn(record, columns[i].bucket)
    /\ LatestIn(record, columns[i].bucket, columns[i].book)

\* Only buckets that are older than a full window are not shown.
ShowsAll(record, columns) ==
  \A bucket \in Nat :
    KnownIn(record, bucket) =>
      \/ \E i \in 1 .. Len(columns) : columns[i].bucket = bucket
      \/ Len(columns) = MaxColumns /\ bucket < columns[1].bucket

\* The inductive invariant of the window.
ShowsRecord(record, history) ==
  /\ history.carryForward \in BOOLEAN
  /\ Chronological(history.columns)
  /\ IF history.columns = <<>> THEN record = <<>> ELSE EndsLike(record, history)
  /\ ShowsLatest(record, history.columns)
  /\ ShowsAll(record, history.columns)

(***************************************************************************)
(* Records that become longer.                                             *)
(***************************************************************************)

\* The entries of a record that became longer.
LEMMA LongerRecord ==
  ASSUME NEW record \in TrustedRecord, NEW entry \in TrustedObservation \cup {Break}
  PROVE  LET longer == Append(record, entry)
             n      == Len(record)
         IN  /\ longer \in TrustedRecord /\ longer # <<>> /\ LastOf(longer) = entry
             /\ n \in Nat /\ DOMAIN record = 1 .. n /\ DOMAIN longer = 1 .. n + 1
             /\ longer[n + 1] = entry
             /\ \A i \in 1 .. n : longer[i] = record[i]
<1> DEFINE entries == TrustedObservation \cup {Break}
<1>1. record \in Seq(entries) /\ entry \in entries
  BY DEF TrustedRecord
<1>2. TrustedRecord = Seq(entries)
  BY DEF TrustedRecord
<1> HIDE DEF entries
<1>3. /\ Append(record, entry) \in Seq(entries)
      /\ Len(Append(record, entry)) = Len(record) + 1
      /\ \A i \in 1 .. Len(record) : Append(record, entry)[i] = record[i]
      /\ Append(record, entry)[Len(record) + 1] = entry
  BY <1>1, AppendProperties
<1>4. Len(record) \in Nat /\ DOMAIN record = 1 .. Len(record)
  BY <1>1, LenProperties
<1>5. DOMAIN Append(record, entry) = 1 .. Len(record) + 1 /\ Append(record, entry) # <<>>
  <2> DEFINE longer == Append(record, entry)
  <2>1. longer \in Seq(entries) /\ Len(longer) = Len(record) + 1
    BY <1>3
  <2> HIDE DEF longer
  <2>2. DOMAIN longer = 1 .. Len(longer) /\ (longer = <<>> => Len(longer) = 0)
    BY <2>1, LenProperties
  <2>3. DOMAIN longer = 1 .. Len(record) + 1 /\ longer # <<>>
    BY <1>4, <2>1, <2>2
  <2>4. QED
    BY <2>3 DEF longer
<1>6. QED
  BY <1>2, <1>3, <1>4, <1>5 DEF LastOf

\* What was seen has a bucket, which a break has not.
LEMMA SeenEntry ==
  ASSUME NEW record \in TrustedRecord, NEW i, SeenIn(record, i)
  PROVE  /\ record[i] \in TrustedObservation
         /\ record[i].bucket \in Nat /\ record[i].book \in Book
         /\ i \in 1 .. Len(record) /\ Len(record) \in Nat
<1>1. i \in 1 .. Len(record) /\ record[i] # Break /\ Len(record) \in Nat
  BY LenProperties DEF SeenIn, TrustedRecord
<1>2. record[i] \in TrustedObservation \cup {Break}
  BY <1>1, ElementOfSeq DEF TrustedRecord
<1>3. record[i] \in TrustedObservation
  BY <1>1, <1>2
<1>4. QED
  BY <1>1, <1>3 DEF TrustedObservation

LEMMA NoBreak ==
  ASSUME NEW seen \in TrustedObservation
  PROVE  seen # Break /\ seen.bucket \in Nat /\ seen.book \in Book
<1>1. seen.bucket \in Nat /\ seen.book \in Book
  BY DEF TrustedObservation
<1>2. Break.bucket = -1
  BY DEF Break, NoTime
<1>3. QED
  BY <1>1, <1>2

\* A break at its end adds nothing to a record.
LEMMA BreakAddsNothing ==
  ASSUME NEW record \in TrustedRecord, NEW bucket, NEW book
  PROVE  LET longer == Append(record, Break)
         IN  /\ \A i : SeenIn(longer, i) <=> SeenIn(record, i)
             /\ \A i \in DOMAIN record : longer[i] = record[i]
             /\ KnownIn(longer, bucket) <=> KnownIn(record, bucket)
             /\ LatestIn(record, bucket, book) => LatestIn(longer, bucket, book)
<1> DEFINE longer == Append(record, Break)
           n      == Len(record)
<1>1. /\ n \in Nat /\ DOMAIN record = 1 .. n /\ DOMAIN longer = 1 .. n + 1
      /\ longer[n + 1] = Break /\ \A i \in 1 .. n : longer[i] = record[i]
  BY LongerRecord
<1> HIDE DEF longer, n, Break
<1>2. \A i : SeenIn(longer, i) <=> SeenIn(record, i)
  BY <1>1 DEF SeenIn
<1>3. \A i \in DOMAIN record : longer[i] = record[i]
  BY <1>1
<1>4. \A i : SeenIn(record, i) => longer[i] = record[i]
  BY <1>3 DEF SeenIn
<1>5. \A i : SeenIn(record, i) => i \in DOMAIN longer /\ i \in DOMAIN record
  BY <1>2 DEF SeenIn
<1>6. KnownIn(longer, bucket) <=> KnownIn(record, bucket)
  BY <1>2, <1>4, <1>5 DEF KnownIn
<1>7. LatestIn(record, bucket, book) => LatestIn(longer, bucket, book)
  BY <1>2, <1>4, <1>5 DEF LatestIn
<1>8. QED
  BY <1>2, <1>3, <1>6, <1>7 DEF longer

\* What an observation adds to a record: its bucket and those it was carried to.
LEMMA ObservationAdds ==
  ASSUME NEW record \in TrustedRecord, NEW seen \in TrustedObservation, NEW bucket \in Nat
  PROVE  LET longer == Append(record, seen)
             last   == LastOf(record)
         IN  /\ KnownIn(longer, bucket) <=>
                  \/ KnownIn(record, bucket)
                  \/ bucket = seen.bucket
                  \/ /\ record # <<>> /\ last # Break
                     /\ last.bucket < bucket /\ bucket < seen.bucket
             /\ \A book : bucket < seen.bucket /\ LatestIn(record, bucket, book)
                            => LatestIn(longer, bucket, book)
             /\ seen.bucket <= bucket => LatestIn(longer, bucket, seen.book)
<1> DEFINE longer == Append(record, seen)
           n      == Len(record)
           last   == LastOf(record)
<1>1. /\ n \in Nat /\ DOMAIN record = 1 .. n /\ DOMAIN longer = 1 .. n + 1
      /\ longer[n + 1] = seen /\ \A i \in 1 .. n : longer[i] = record[i]
  BY LongerRecord
<1>2. seen # Break /\ seen.bucket \in Nat
  BY NoBreak
<1>3. record # <<>> <=> n # 0
  BY EmptySeq DEF TrustedRecord
<1>4. last = record[n]
  BY DEF LastOf
<1>5. \A i : SeenIn(record, i) => record[i].bucket \in Nat
  BY SeenEntry
<1> HIDE DEF longer, n, last, Break
<1>6. \A i : SeenIn(longer, i) <=> SeenIn(record, i) \/ i = n + 1
  BY <1>1, <1>2 DEF SeenIn
<1>7. \A i : SeenIn(record, i) => i \in 1 .. n /\ longer[i] = record[i]
  BY <1>1 DEF SeenIn
<1>8. SeenIn(record, n) <=> record # <<>> /\ last # Break
  BY <1>1, <1>3, <1>4 DEF SeenIn
<1>9. ASSUME KnownIn(longer, bucket)
      PROVE  \/ KnownIn(record, bucket)
             \/ bucket = seen.bucket
             \/ record # <<>> /\ last # Break /\ last.bucket < bucket /\ bucket < seen.bucket
  <2>1. PICK i \in DOMAIN longer :
          /\ SeenIn(longer, i)
          /\ \/ longer[i].bucket = bucket
             \/ longer[i].bucket < bucket /\ SeenIn(longer, i + 1) /\ longer[i + 1].bucket > bucket
    BY <1>9, Zenon DEF KnownIn
  <2>2. CASE i = n + 1
    <3>1. ~SeenIn(longer, i + 1)
      BY <1>1, <2>2 DEF SeenIn
    <3>2. QED
      BY <1>1, <2>1, <2>2, <3>1
  <2>3. CASE SeenIn(record, i) /\ i # n
    <3>1. i \in 1 .. n /\ longer[i] = record[i] /\ i + 1 # n + 1
      BY <1>1, <1>7, <2>3
    <3>2. SeenIn(longer, i + 1) => SeenIn(record, i + 1) /\ longer[i + 1] = record[i + 1]
      BY <1>6, <1>7, <3>1
    <3>3. KnownIn(record, bucket)
      BY <1>1, <2>1, <2>3, <3>1, <3>2 DEF KnownIn
    <3>4. QED
      BY <3>3
  <2>4. CASE SeenIn(record, n) /\ i = n
    <3>1. longer[n] = record[n] /\ longer[n + 1] = seen /\ n \in DOMAIN record
      BY <1>1, <1>7, <2>4
    <3>2. CASE longer[i].bucket = bucket
      BY <2>4, <3>1, <3>2 DEF KnownIn
    <3>3. CASE longer[i].bucket < bucket /\ longer[i + 1].bucket > bucket
      BY <1>2, <1>4, <1>8, <2>4, <3>1, <3>3
    <3>4. QED
      BY <2>1, <3>2, <3>3
  <2>5. QED
    BY <1>6, <2>1, <2>2, <2>3, <2>4
<1>10. ASSUME KnownIn(record, bucket)
       PROVE  KnownIn(longer, bucket)
  <2>1. PICK i \in DOMAIN record :
          /\ SeenIn(record, i)
          /\ \/ record[i].bucket = bucket
             \/ record[i].bucket < bucket /\ SeenIn(record, i + 1) /\ record[i + 1].bucket > bucket
    BY <1>10, Zenon DEF KnownIn
  <2>2. i \in DOMAIN longer /\ SeenIn(longer, i) /\ longer[i] = record[i]
    BY <1>1, <1>6, <1>7, <2>1
  <2>3. SeenIn(record, i + 1) => SeenIn(longer, i + 1) /\ longer[i + 1] = record[i + 1]
    BY <1>6, <1>7
  <2>4. QED
    BY <2>1, <2>2, <2>3, Zenon DEF KnownIn
<1>11. n + 1 \in DOMAIN longer /\ SeenIn(longer, n + 1) /\ longer[n + 1] = seen
  BY <1>1, <1>6
<1>12. bucket = seen.bucket => KnownIn(longer, bucket)
  BY <1>11 DEF KnownIn
<1>13. ASSUME record # <<>>, last # Break, last.bucket < bucket, bucket < seen.bucket
       PROVE  KnownIn(longer, bucket)
  <2>1. SeenIn(record, n)
    BY <1>8, <1>13
  <2>2. n \in DOMAIN longer /\ SeenIn(longer, n) /\ longer[n].bucket < bucket
    BY <1>1, <1>4, <1>6, <1>7, <1>13, <2>1
  <2>3. longer[n + 1].bucket > bucket
    BY <1>2, <1>11, <1>13
  <2>4. QED
    BY <1>11, <2>2, <2>3, Zenon DEF KnownIn
<1>14. ASSUME NEW book, bucket < seen.bucket, LatestIn(record, bucket, book)
       PROVE  LatestIn(longer, bucket, book)
  <2>1. PICK i \in DOMAIN record :
          /\ SeenIn(record, i) /\ record[i].bucket <= bucket /\ record[i].book = book
          /\ \A j \in DOMAIN record : SeenIn(record, j) /\ record[j].bucket <= bucket => j <= i
    BY <1>14, Zenon DEF LatestIn
  <2>2. i \in DOMAIN longer /\ SeenIn(longer, i) /\ longer[i] = record[i]
    BY <1>1, <1>6, <1>7, <2>1
  <2>3. ASSUME NEW j \in DOMAIN longer, SeenIn(longer, j), longer[j].bucket <= bucket
        PROVE  j <= i
    <3>1. j # n + 1
      BY <1>2, <1>11, <1>14, <2>3
    <3>2. SeenIn(record, j) /\ longer[j] = record[j] /\ j \in DOMAIN record
      BY <1>1, <1>6, <1>7, <2>3, <3>1
    <3>3. QED
      BY <2>1, <2>3, <3>2
  <2>4. QED
    BY <2>1, <2>2, <2>3, Zenon DEF LatestIn
<1>15. ASSUME seen.bucket <= bucket
       PROVE  LatestIn(longer, bucket, seen.book)
  <2>1. \A j \in DOMAIN longer : j <= n + 1
    BY <1>1
  <2>2. longer[n + 1].bucket <= bucket /\ longer[n + 1].book = seen.book
    BY <1>11, <1>15
  <2>3. QED
    BY <1>11, <2>1, <2>2, Zenon DEF LatestIn
<1>16. QED
  BY <1>9, <1>10, <1>12, <1>13, <1>14, <1>15 DEF longer, last

\* The last book seen is the latest in its bucket and in every later one.
LEMMA LastIsLatest ==
  ASSUME NEW record \in TrustedRecord, record # <<>>, LastOf(record) # Break,
         NEW bucket \in Nat, LastOf(record).bucket <= bucket
  PROVE  LatestIn(record, bucket, LastOf(record).book)
<1> DEFINE n == Len(record)
<1>1. n \in Nat /\ DOMAIN record = 1 .. n /\ n # 0
  BY LenProperties, EmptySeq DEF TrustedRecord
<1>2. LastOf(record) = record[n]
  BY DEF LastOf
<1>3. n \in DOMAIN record /\ SeenIn(record, n) /\ \A j \in DOMAIN record : j <= n
  BY <1>1, <1>2 DEF SeenIn
<1>4. QED
  BY <1>2, <1>3, Zenon DEF LatestIn

\* Appending columns to a window: what it shows afterwards, and what is older than it.
LEMMA WindowCovers ==
  ASSUME NEW older \in Seq(Column), Len(older) <= MaxColumns, Chronological(older),
         NEW newer \in Seq(Column), Len(newer) \in 1 .. MaxColumns, Chronological(newer),
         older # <<>> => LastOf(older).bucket < newer[1].bucket,
         NEW window, Trailing(older, newer, window)
  PROVE  /\ window \in Seq(Column) /\ Len(window) \in 1 .. MaxColumns
         /\ Len(newer) = MaxColumns => Len(window) = MaxColumns /\ window[1] = newer[1]
         /\ \A i \in 1 .. Len(window) :
              \/ \E j \in 1 .. Len(older) : window[i] = older[j]
              \/ \E j \in 1 .. Len(newer) : window[i] = newer[j]
         /\ \A j \in 1 .. Len(newer) : \E i \in 1 .. Len(window) : window[i] = newer[j]
         /\ \A j \in 1 .. Len(older) :
              \/ \E i \in 1 .. Len(window) : window[i] = older[j]
              \/ Len(window) = MaxColumns /\ older[j].bucket < window[1].bucket
         /\ Len(older) = MaxColumns =>
              Len(window) = MaxColumns /\ older[1].bucket <= window[1].bucket
<1> DEFINE m    == Len(older)
           n    == Len(newer)
           w    == Len(window)
           kept == w - n
<1>1. /\ m \in Nat /\ m <= MaxColumns /\ n \in 1 .. MaxColumns /\ w \in 1 .. MaxColumns
      /\ window \in Seq(Column) /\ kept \in 0 .. m
      /\ m + n <= MaxColumns => kept = m
      /\ m + n > MaxColumns  => w = MaxColumns
      /\ \A i \in 1 .. kept : window[i] = older[m - kept + i]
      /\ \A i \in 1 .. n : window[kept + i] = newer[i]
  BY TrailingParts, LenProperties
<1>2. MaxColumns \in Nat \ {0}
  BY HeatmapConfigAssumption
<1>3. /\ \A i \in 1 .. m : older[i].bucket \in Nat
      /\ \A i \in 1 .. n : newer[i].bucket \in Nat
  <2>1. /\ \A i \in 1 .. m : older[i] \in Column
        /\ \A i \in 1 .. n : newer[i] \in Column
    BY ElementOfSeq
  <2>2. QED
    BY <2>1 DEF Column
<1>4. \A i, j \in 1 .. m : i < j => older[i].bucket < older[j].bucket
  BY DEF Chronological
<1>5. m # 0 => older[m].bucket < newer[1].bucket
  <2>1. m # 0 => older # <<>>
    BY EmptySeq
  <2>2. QED
    BY <2>1 DEF LastOf
<1> HIDE DEF m, n, w, kept
<1>6. \A i \in 1 .. w : \/ \E j \in 1 .. m : window[i] = older[j]
                        \/ \E j \in 1 .. n : window[i] = newer[j]
  <2> SUFFICES ASSUME NEW i \in 1 .. w
               PROVE  \/ \E j \in 1 .. m : window[i] = older[j]
                      \/ \E j \in 1 .. n : window[i] = newer[j]
    OBVIOUS
  <2>1. CASE i <= kept
    <3>1. i \in 1 .. kept /\ m - kept + i \in 1 .. m
      BY <1>1, <2>1
    <3>2. QED
      BY <1>1, <3>1
  <2>2. CASE i > kept
    <3>1. i - kept \in 1 .. n /\ kept + (i - kept) = i
      BY <1>1, <2>2 DEF kept
    <3>2. QED
      BY <1>1, <3>1
  <2>3. QED
    BY <1>1, <2>1, <2>2
<1>7. \A j \in 1 .. n : \E i \in 1 .. w : window[i] = newer[j]
  <2> SUFFICES ASSUME NEW j \in 1 .. n
               PROVE  \E i \in 1 .. w : window[i] = newer[j]
    OBVIOUS
  <2>1. kept + j \in 1 .. w /\ window[kept + j] = newer[j]
    BY <1>1 DEF kept
  <2>2. QED
    BY <2>1
<1>8. n = MaxColumns => w = MaxColumns /\ window[1] = newer[1]
  <2> SUFFICES ASSUME n = MaxColumns
               PROVE  w = MaxColumns /\ window[1] = newer[1]
    OBVIOUS
  <2>1. w = MaxColumns /\ kept = 0 /\ 1 \in 1 .. n
    BY <1>1, <1>2 DEF kept
  <2>2. window[kept + 1] = newer[1]
    BY <1>1, <2>1
  <2>3. QED
    BY <2>1, <2>2
<1>9. window[1].bucket \in Nat /\ \A j \in 1 .. m : j <= m - kept =>
        w = MaxColumns /\ older[j].bucket < window[1].bucket
  <2>1. CASE kept = 0
    <3>1. window[kept + 1] = newer[1] /\ 1 \in 1 .. n
      BY <1>1
    <3>2. window[1] = newer[1]
      BY <2>1, <3>1
    <3>3. ASSUME NEW j \in 1 .. m
          PROVE  w = MaxColumns /\ older[j].bucket < window[1].bucket
      <4>1. m # 0 /\ m \in 1 .. m
        BY <1>1
      <4>2. ~(m + n <= MaxColumns)
        BY <1>1, <2>1, <4>1
      <4>3. w = MaxColumns
        BY <1>1, <1>2, <4>2
      <4>4. older[j].bucket <= older[m].bucket
        <5>1. j = m \/ j < m
          BY <1>1
        <5>2. CASE j = m
          BY <1>3, <4>1, <5>2
        <5>3. CASE j < m
          <6>1. older[j].bucket < older[m].bucket
            BY <1>4, <4>1, <5>3
          <6>2. QED
            BY <1>3, <4>1, <6>1
        <5>4. QED
          BY <5>1, <5>2, <5>3
      <4>5. QED
        BY <1>3, <1>5, <3>1, <3>2, <4>1, <4>3, <4>4
    <3>4. QED
      BY <1>3, <3>1, <3>2, <3>3
  <2>2. CASE kept # 0
    <3>1. 1 \in 1 .. kept /\ m - kept + 1 \in 1 .. m
      BY <1>1, <2>2
    <3>2. window[1] = older[m - kept + 1]
      BY <1>1, <3>1
    <3>3. ASSUME NEW j \in 1 .. m, j <= m - kept
          PROVE  w = MaxColumns /\ older[j].bucket < window[1].bucket
      <4>1. kept # m /\ j < m - kept + 1
        BY <1>1, <3>3
      <4>2. ~(m + n <= MaxColumns)
        BY <1>1, <4>1
      <4>3. w = MaxColumns
        BY <1>1, <1>2, <4>2
      <4>4. QED
        BY <1>4, <3>1, <3>2, <4>1, <4>3
    <3>4. QED
      BY <1>3, <3>1, <3>2, <3>3
  <2>3. QED
    BY <2>1, <2>2
<1>10. \A j \in 1 .. m : \/ \E i \in 1 .. w : window[i] = older[j]
                         \/ w = MaxColumns /\ older[j].bucket < window[1].bucket
  <2> SUFFICES ASSUME NEW j \in 1 .. m, j > m - kept
               PROVE  \E i \in 1 .. w : window[i] = older[j]
    BY <1>1, <1>9
  <2>1. j - (m - kept) \in 1 .. kept /\ m - kept + (j - (m - kept)) = j
    BY <1>1
  <2>2. window[j - (m - kept)] = older[j] /\ j - (m - kept) \in 1 .. w
    BY <1>1, <2>1 DEF kept
  <2>3. QED
    BY <2>2
<1>11. m = MaxColumns => w = MaxColumns /\ older[1].bucket <= window[1].bucket
  <2> SUFFICES ASSUME m = MaxColumns
               PROVE  w = MaxColumns /\ older[1].bucket <= window[1].bucket
    OBVIOUS
  <2>1. w = MaxColumns /\ 1 \in 1 .. m /\ 1 <= m - kept
    BY <1>1, <1>2 DEF kept
  <2>2. older[1].bucket < window[1].bucket
    BY <1>9, <2>1
  <2>3. QED
    BY <1>3, <1>9, <2>1, <2>2
<1>12. QED
  BY <1>1, <1>6, <1>7, <1>8, <1>10, <1>11 DEF m, n, w

\* The columns of a later book, and the window with them.
LEMMA LaterColumns ==
  ASSUME NEW columns \in Seq(Column), NEW count \in Nat \ {0}, NEW bucket \in Nat,
         NEW book \in Book, bucket - count + 1 \in Nat, count = 1 \/ columns # <<>>,
         count <= MaxColumns, Len(columns) <= MaxColumns, Chronological(columns),
         columns # <<>> => LastOf(columns).bucket < bucket - count + 1,
         NEW window, Trailing(columns, NewColumns(columns, count, bucket, book), window)
  PROVE  LET newer == NewColumns(columns, count, bucket, book) IN
         /\ newer \in Seq(Column) /\ Len(newer) = count
         /\ \A i \in 1 .. count : newer[i].bucket = bucket - count + i
         /\ newer[count] = [bucket |-> bucket, book |-> book]
         /\ \A i \in 1 .. count - 1 : newer[i].book = LastOf(columns).book
         /\ Chronological(window)
         /\ LastOf(window) = [bucket |-> bucket, book |-> book]
         /\ window \in Seq(Column) /\ Len(window) \in 1 .. MaxColumns
         /\ count = MaxColumns => Len(window) = MaxColumns /\ window[1] = newer[1]
         /\ \A i \in 1 .. Len(window) :
              \/ \E j \in 1 .. Len(columns) : window[i] = columns[j]
              \/ \E j \in 1 .. count : window[i] = newer[j]
         /\ \A j \in 1 .. count : \E i \in 1 .. Len(window) : window[i] = newer[j]
         /\ \A j \in 1 .. Len(columns) :
              \/ \E i \in 1 .. Len(window) : window[i] = columns[j]
              \/ Len(window) = MaxColumns /\ columns[j].bucket < window[1].bucket
         /\ Len(columns) = MaxColumns =>
              Len(window) = MaxColumns /\ columns[1].bucket <= window[1].bucket
<1> DEFINE newer == NewColumns(columns, count, bucket, book)
<1>1. /\ newer \in Seq(Column) /\ Len(newer) = count
      /\ \A i \in 1 .. count : newer[i].bucket = bucket - count + i
      /\ newer[count] = [bucket |-> bucket, book |-> book]
      /\ \A i \in 1 .. count - 1 : newer[i].book = LastOf(columns).book
  <2>1. newer \in Seq(Column) /\ Len(newer) = count
    BY NewColumnsType
  <2>2. newer = [i \in 1 .. count |->
                   [bucket |-> bucket - count + i,
                    book   |-> IF i = count THEN book ELSE LastOf(columns).book]]
    BY DEF NewColumns
  <2> HIDE DEF newer
  <2>3. \A i \in 1 .. count - 1 : i \in 1 .. count /\ i # count
    OBVIOUS
  <2>4. count \in 1 .. count /\ bucket - count + count = bucket
    OBVIOUS
  <2>5. \A i \in 1 .. count : newer[i].bucket = bucket - count + i
    BY <2>2
  <2>6. newer[count] = [bucket |-> bucket, book |-> book]
    BY <2>2, <2>4
  <2>7. \A i \in 1 .. count - 1 : newer[i].book = LastOf(columns).book
    BY <2>2, <2>3
  <2>8. QED
    BY <2>1, <2>5, <2>6, <2>7
<1>2. Trailing(columns, newer, window)
  OBVIOUS
<1> HIDE DEF newer
<1>3. MaxColumns \in Nat \ {0} /\ count \in 1 .. MaxColumns
  BY HeatmapConfigAssumption
<1>4. Chronological(newer)
  <2>1. \A i, j \in 1 .. count : i < j => newer[i].bucket < newer[j].bucket
    BY <1>1
  <2>2. QED
    BY <1>1, <2>1 DEF Chronological
<1>5. Len(newer) \in 1 .. MaxColumns
  BY <1>1, <1>3
<1>6. columns # <<>> => LastOf(columns).bucket < newer[1].bucket
  <2>1. newer[1].bucket = bucket - count + 1
    BY <1>1, <1>3
  <2>2. QED
    BY <2>1
<1>7. newer \in Seq(Column)
  BY <1>1
<1>8. /\ window \in Seq(Column) /\ Len(window) \in 1 .. MaxColumns
      /\ Len(newer) = MaxColumns => Len(window) = MaxColumns /\ window[1] = newer[1]
      /\ \A i \in 1 .. Len(window) :
           \/ \E j \in 1 .. Len(columns) : window[i] = columns[j]
           \/ \E j \in 1 .. Len(newer) : window[i] = newer[j]
      /\ \A j \in 1 .. Len(newer) : \E i \in 1 .. Len(window) : window[i] = newer[j]
      /\ \A j \in 1 .. Len(columns) :
           \/ \E i \in 1 .. Len(window) : window[i] = columns[j]
           \/ Len(window) = MaxColumns /\ columns[j].bucket < window[1].bucket
      /\ Len(columns) = MaxColumns =>
           Len(window) = MaxColumns /\ columns[1].bucket <= window[1].bucket
  BY <1>4, <1>5, <1>6, <1>2, <1>7, WindowCovers, ZenonT(30)
<1>9. Chronological(window)
  BY <1>4, <1>5, <1>6, <1>2, <1>7, TrailingIsChronological
<1>10. LastOf(window) = [bucket |-> bucket, book |-> book]
  <2>1. LastOf(window) = LastOf(newer)
    BY <1>5, <1>2, <1>7, TrailingParts
  <2>2. QED
    BY <1>1, <2>1 DEF LastOf
<1>11. Len(newer) = count
  BY <1>1
<1>12. QED
  BY <1>1, <1>8, <1>9, <1>10, <1>11 DEF newer

\* A book of a later bucket: the window with its columns shows the record with it.
LEMMA LaterBookShows ==
  ASSUME NEW record \in TrustedRecord, NEW history, WellFormed(history),
         ShowsRecord(record, history), NEW seen \in TrustedObservation,
         history.columns # <<>> => LastOf(history.columns).bucket < seen.bucket,
         NEW window,
         Trailing(history.columns,
                  NewColumns(history.columns,
                             NewCount(history.columns, history.carryForward, seen.bucket),
                             seen.bucket, seen.book),
                  window)
  PROVE  /\ Chronological(window) /\ window # <<>>
         /\ LastOf(window) = [bucket |-> seen.bucket, book |-> seen.book]
         /\ ShowsLatest(Append(record, seen), window)
         /\ ShowsAll(Append(record, seen), window)
<1> DEFINE columns == history.columns
           carry   == history.carryForward
           bucket  == seen.bucket
           book    == seen.book
           count   == NewCount(columns, carry, bucket)
           newer   == NewColumns(columns, count, bucket, book)
           last    == LastOf(columns)
           m       == Len(columns)
           longer  == Append(record, seen)
<1>1. Trailing(columns, newer, window) /\ (columns # <<>> => last.bucket < bucket)
  OBVIOUS
<1>2. columns \in Seq(Column) /\ m <= MaxColumns /\ m \in Nat
  BY LenProperties DEF WellFormed, History
<1>3. bucket \in Nat /\ book \in Book /\ MaxColumns \in Nat \ {0}
  BY NoBreak, HeatmapConfigAssumption
<1>4. /\ Chronological(columns) /\ carry \in BOOLEAN
      /\ columns = <<>> => record = <<>>
      /\ columns # <<>> => EndsLike(record, history)
      /\ ShowsLatest(record, columns) /\ ShowsAll(record, columns)
  BY DEF ShowsRecord
<1>5. columns # <<>> => /\ last \in Column /\ last.bucket \in Nat /\ m # 0
                        /\ last.bucket < bucket /\ last = columns[m]
  BY <1>1, <1>2, LastOfColumns DEF Column, LastOf
<1>6. /\ count \in 1 .. MaxColumns /\ bucket - count + 1 \in Nat
      /\ columns # <<>> => last.bucket < bucket - count + 1
  BY <1>2, <1>3, <1>5, NewCountBounds
<1>7. count # 1 => columns # <<>> /\ carry
  BY DEF NewCount
<1>8. /\ newer \in Seq(Column) /\ Len(newer) = count
      /\ \A i \in 1 .. count : newer[i].bucket = bucket - count + i
      /\ newer[count] = [bucket |-> bucket, book |-> book]
      /\ \A i \in 1 .. count - 1 : newer[i].book = last.book
      /\ Chronological(window)
      /\ LastOf(window) = [bucket |-> bucket, book |-> book]
      /\ window \in Seq(Column) /\ Len(window) \in 1 .. MaxColumns
      /\ count = MaxColumns => Len(window) = MaxColumns /\ window[1] = newer[1]
      /\ \A i \in 1 .. Len(window) :
           \/ \E j \in 1 .. m : window[i] = columns[j]
           \/ \E j \in 1 .. count : window[i] = newer[j]
      /\ \A j \in 1 .. count : \E i \in 1 .. Len(window) : window[i] = newer[j]
      /\ \A j \in 1 .. m :
           \/ \E i \in 1 .. Len(window) : window[i] = columns[j]
           \/ Len(window) = MaxColumns /\ columns[j].bucket < window[1].bucket
      /\ m = MaxColumns =>
           Len(window) = MaxColumns /\ columns[1].bucket <= window[1].bucket
  <2>1. count \in Nat \ {0} /\ count <= MaxColumns /\ (count = 1 \/ columns # <<>>)
    BY <1>3, <1>6, <1>7
  <2>2. /\ columns \in Seq(Column) /\ bucket \in Nat /\ book \in Book
        /\ Len(columns) <= MaxColumns /\ bucket - count + 1 \in Nat
        /\ Chronological(columns)
        /\ columns # <<>> => LastOf(columns).bucket < bucket - count + 1
    BY <1>2, <1>3, <1>4, <1>6
  <2>3. Trailing(columns, NewColumns(columns, count, bucket, book), window)
    BY <1>1
  <2>4. QED
    BY ONLY <2>1, <2>2, <2>3, LaterColumns, ZenonT(30) DEF last, m, newer
<1>9. window # <<>>
  BY <1>8, EmptySeq
<1> HIDE DEF columns, carry, bucket, book, count, newer, last, m, longer
<1>10. ASSUME NEW x \in Nat
       PROVE  /\ KnownIn(longer, x) <=>
                   \/ KnownIn(record, x)
                   \/ x = bucket
                   \/ record # <<>> /\ LastOf(record) # Break
                        /\ LastOf(record).bucket < x /\ x < bucket
              /\ \A some : x < bucket /\ LatestIn(record, x, some) => LatestIn(longer, x, some)
              /\ bucket <= x => LatestIn(longer, x, book)
  BY ObservationAdds DEF bucket, book, longer
<1>11. columns # <<>> /\ carry =>
         /\ record # <<>> /\ LastOf(record) # Break
         /\ LastOf(record).bucket = last.bucket /\ LastOf(record).book = last.book
  BY <1>4 DEF EndsLike, carry, last, columns
<1>12. ASSUME NEW i \in 1 .. Len(window)
       PROVE  /\ KnownIn(longer, window[i].bucket)
              /\ LatestIn(longer, window[i].bucket, window[i].book)
  <2>1. window[i].bucket \in Nat
    <3>1. window[i] \in Column
      BY <1>8, ElementOfSeq
    <3>2. QED
      BY <3>1 DEF Column
  <2>2. CASE \E j \in 1 .. m : window[i] = columns[j]
    <3>1. PICK j \in 1 .. m : window[i] = columns[j]
      BY <2>2
    <3>2. /\ KnownIn(record, window[i].bucket)
          /\ LatestIn(record, window[i].bucket, window[i].book)
      BY <1>4, <3>1 DEF ShowsLatest, m, columns
    <3>3. columns # <<>> /\ m \in 1 .. m
      BY <1>2, <3>1 DEF m
    <3>4. window[i].bucket < bucket
      <4>1. CASE j = m
        BY <1>5, <3>1, <3>3, <4>1
      <4>2. CASE j # m
        <5>1. j < m
          BY <1>2, <3>1, <4>2
        <5>2. columns[j].bucket < columns[m].bucket
          BY <1>4, <3>3, <5>1 DEF Chronological, m
        <5>3. QED
          BY <1>3, <1>5, <2>1, <3>1, <3>3, <5>2
      <4>3. QED
        BY <4>1, <4>2
    <3>5. QED
      BY <1>10, <2>1, <3>2, <3>4
  <2>3. CASE \E j \in 1 .. count : window[i] = newer[j]
    <3>1. PICK j \in 1 .. count : window[i] = newer[j]
      BY <2>3
    <3>2. CASE j = count
      <4>1. window[i].bucket = bucket /\ window[i].book = book
        BY <1>8, <3>1, <3>2
      <4>2. QED
        BY <1>3, <1>10, <4>1
    <3>3. CASE j # count
      <4>1. j \in 1 .. count - 1 /\ count # 1
        BY <1>3, <1>6, <3>1, <3>3
      <4>2. window[i].bucket = bucket - count + j /\ window[i].book = last.book
        BY <1>8, <3>1, <4>1
      <4>3. columns # <<>> /\ carry
        BY <1>7, <4>1
      <4>4. last.bucket < window[i].bucket /\ window[i].bucket < bucket
        BY <1>3, <1>5, <1>6, <4>1, <4>2, <4>3
      <4>5. KnownIn(longer, window[i].bucket)
        BY <1>10, <1>11, <2>1, <4>3, <4>4
      <4>6. LatestIn(record, window[i].bucket, last.book)
        <5>1. LastOf(record).bucket <= window[i].bucket
          BY <1>5, <1>11, <2>1, <4>3, <4>4
        <5>2. LatestIn(record, window[i].bucket, LastOf(record).book)
          BY <1>11, <2>1, <4>3, <5>1, LastIsLatest
        <5>3. QED
          BY <1>11, <4>3, <5>2
      <4>7. QED
        BY <1>10, <2>1, <4>2, <4>4, <4>5, <4>6
    <3>4. QED
      BY <3>2, <3>3
  <2>4. QED
    BY <1>8, <2>2, <2>3
<1>13. ASSUME NEW x \in Nat, KnownIn(longer, x)
       PROVE  \/ \E i \in 1 .. Len(window) : window[i].bucket = x
              \/ Len(window) = MaxColumns /\ x < window[1].bucket
  <2>1. window[1].bucket \in Nat
    <3>1. window[1] \in Column
      BY <1>8, ElementOfSeq
    <3>2. QED
      BY <3>1 DEF Column
  <2>2. CASE KnownIn(record, x)
    <3>1. \/ \E j \in 1 .. m : columns[j].bucket = x
          \/ m = MaxColumns /\ x < columns[1].bucket
      BY <1>4, <2>2 DEF ShowsAll, m, columns
    <3>2. CASE \E j \in 1 .. m : columns[j].bucket = x
      BY <1>8, <3>2
    <3>3. CASE m = MaxColumns /\ x < columns[1].bucket
      <4>1. columns[1] \in Column
        BY <1>2, <1>3, <3>3, ElementOfSeq DEF m
      <4>2. columns[1].bucket \in Nat
        BY <4>1 DEF Column
      <4>3. QED
        BY <1>8, <2>1, <3>3, <4>2
    <3>4. QED
      BY <3>1, <3>2, <3>3
  <2>3. CASE x = bucket
    <3>1. newer[count].bucket = x /\ count \in 1 .. count
      BY <1>6, <1>8, <2>3
    <3>2. QED
      BY <1>8, <3>1
  <2>4. CASE record # <<>> /\ LastOf(record) # Break /\ LastOf(record).bucket < x /\ x < bucket
    <3>1. columns # <<>> /\ carry
      BY <1>4, <2>4 DEF EndsLike, carry, columns
    <3>2. last.bucket < x /\ x < bucket
      BY <1>11, <2>4, <3>1
    <3>3. CASE x >= bucket - count + 1
      <4>1. x - (bucket - count) \in 1 .. count
        BY <1>3, <1>6, <3>2, <3>3
      <4>2. newer[x - (bucket - count)].bucket = x
        <5>1. newer[x - (bucket - count)].bucket = bucket - count + (x - (bucket - count))
          BY <1>8, <4>1
        <5>2. QED
          BY <1>3, <1>6, <5>1
      <4>3. \A j \in 1 .. count : \E i \in 1 .. Len(window) : window[i] = newer[j]
        BY <1>8
      <4>4. PICK i \in 1 .. Len(window) : window[i] = newer[x - (bucket - count)]
        BY <4>1, <4>3, Zenon
      <4>5. QED
        BY <4>2, <4>4
    <3>4. CASE x < bucket - count + 1
      <4>1. count = IF bucket - last.bucket >= MaxColumns THEN MaxColumns ELSE bucket - last.bucket
        BY <3>1 DEF NewCount, count, carry, last
      <4>2. count = MaxColumns
        BY <1>3, <1>5, <1>6, <3>1, <3>2, <3>4, <4>1
      <4>3. newer[1].bucket = bucket - count + 1
        BY <1>6, <1>8
      <4>4. QED
        BY <1>8, <3>4, <4>2, <4>3
    <3>5. QED
      BY <1>3, <1>6, <3>3, <3>4
  <2>5. QED
    BY <1>10, <2>2, <2>3, <2>4, <1>13
<1>14. ShowsLatest(longer, window)
  BY <1>12 DEF ShowsLatest
<1>15. ShowsAll(longer, window)
  BY <1>13 DEF ShowsAll
<1>16. QED
  BY <1>8, <1>9, <1>14, <1>15 DEF bucket, book, longer

\* A record that became longer by a later book.
LEMMA LaterEntry ==
  ASSUME NEW record \in TrustedRecord, NEW seen \in TrustedObservation,
         \A i \in DOMAIN record : SeenIn(record, i) => record[i].bucket <= seen.bucket,
         NEW longer, longer = Append(record, seen)
  PROVE  /\ longer \in TrustedRecord /\ longer # <<>>
         /\ LastOf(longer) = seen /\ seen # Break
         /\ \A i \in DOMAIN longer : SeenIn(longer, i) => longer[i].bucket <= seen.bucket
<1> DEFINE n == Len(record)
<1>1. /\ longer \in TrustedRecord /\ longer # <<>> /\ LastOf(longer) = seen
      /\ n \in Nat /\ DOMAIN record = 1 .. n /\ DOMAIN longer = 1 .. n + 1
      /\ longer[n + 1] = seen /\ \A i \in 1 .. n : longer[i] = record[i]
  BY LongerRecord
<1>2. seen # Break /\ seen.bucket \in Nat
  BY NoBreak
<1> HIDE DEF n, Break
<1>3. ASSUME NEW i \in DOMAIN longer, SeenIn(longer, i)
      PROVE  longer[i].bucket <= seen.bucket
  <2>1. CASE i = n + 1
    BY <1>1, <1>2, <2>1
  <2>2. CASE i # n + 1
    <3>1. i \in DOMAIN record /\ longer[i] = record[i]
      BY <1>1, <2>2
    <3>2. SeenIn(record, i)
      BY <1>3, <3>1 DEF SeenIn
    <3>3. QED
      BY <3>1, <3>2
  <2>3. QED
    BY <2>1, <2>2
<1>4. QED
  BY <1>1, <1>2, <1>3

\* A book of the open bucket: the window with its last column replaced.
LEMMA SameBucketShows ==
  ASSUME NEW record \in TrustedRecord, NEW history, WellFormed(history),
         ShowsRecord(record, history), NEW seen \in TrustedObservation,
         NEW columns, columns = history.columns, columns # <<>>,
         LastOf(columns).bucket = seen.bucket,
         NEW window, NEW column, column = [bucket |-> seen.bucket, book |-> seen.book],
         window = [columns EXCEPT ![Len(columns)] = column]
  PROVE  LET longer == Append(record, seen)
         IN  ShowsLatest(longer, window) /\ ShowsAll(longer, window)
<1> DEFINE longer == Append(record, seen)
           m      == Len(columns)
           last   == LastOf(columns)
<1>1. columns \in Seq(Column) /\ m \in Nat /\ DOMAIN columns = 1 .. m /\ m # 0
  BY LenProperties, EmptySeq DEF WellFormed, History
<1>2. seen.bucket \in Nat /\ column.bucket = seen.bucket /\ column.book = seen.book
  BY NoBreak
<1>3. /\ Chronological(columns) /\ history.carryForward \in BOOLEAN /\ EndsLike(record, history)
      /\ ShowsLatest(record, columns) /\ ShowsAll(record, columns)
  BY DEF ShowsRecord
<1>4. /\ DOMAIN window = 1 .. m /\ window[m] = column
      /\ \A i \in 1 .. m : i # m => window[i] = columns[i]
  BY <1>1
<1>5. Len(window) = m
  BY <1>1, <1>4, LenProperties, ExceptSeq
<1>6. last = columns[m] /\ last.bucket = seen.bucket
  BY DEF LastOf
<1>7. \A i \in 1 .. m : columns[i].bucket \in Nat /\ window[i].bucket = columns[i].bucket
  <2>1. \A i \in 1 .. m : columns[i] \in Column
    BY <1>1, ElementOfSeq
  <2>2. \A i \in 1 .. m : columns[i].bucket \in Nat
    BY <2>1 DEF Column
  <2>3. QED
    BY <1>2, <1>4, <1>6, <2>2
<1>8. \A i \in 1 .. m : i # m => columns[i].bucket < seen.bucket
  <2>1. m \in 1 .. m /\ \A i \in 1 .. m : i # m => i < m
    BY <1>1
  <2>2. QED
    BY <1>3, <1>6, <2>1 DEF Chronological
<1>9. ~(record # <<>> /\ LastOf(record) # Break /\ LastOf(record).bucket < seen.bucket)
  <2>1. CASE history.carryForward
    <3>1. LastOf(record).bucket = seen.bucket
      BY <1>3, <1>6, <2>1 DEF EndsLike
    <3>2. QED
      BY <1>2, <3>1
  <2>2. CASE ~history.carryForward
    BY <1>3, <2>2 DEF EndsLike
  <2>3. QED
    BY <2>1, <2>2
<1> HIDE DEF m, last, longer
<1>10. ASSUME NEW x \in Nat
       PROVE  /\ KnownIn(longer, x) <=>
                   \/ KnownIn(record, x)
                   \/ x = seen.bucket
                   \/ record # <<>> /\ LastOf(record) # Break
                        /\ LastOf(record).bucket < x /\ x < seen.bucket
              /\ \A some : x < seen.bucket /\ LatestIn(record, x, some) => LatestIn(longer, x, some)
              /\ seen.bucket <= x => LatestIn(longer, x, seen.book)
  BY ObservationAdds DEF longer
<1>11. ASSUME NEW i \in 1 .. m
       PROVE  /\ KnownIn(longer, window[i].bucket)
              /\ LatestIn(longer, window[i].bucket, window[i].book)
  <2>1. CASE i = m
    <3>1. window[i].bucket = seen.bucket /\ window[i].book = seen.book
      BY <1>2, <1>4, <2>1
    <3>2. QED
      BY <1>2, <1>10, <3>1
  <2>2. CASE i # m
    <3>1. window[i] = columns[i] /\ window[i].bucket < seen.bucket /\ window[i].bucket \in Nat
      BY <1>4, <1>7, <1>8, <2>2
    <3>2. KnownIn(record, window[i].bucket) /\ LatestIn(record, window[i].bucket, window[i].book)
      BY <1>3, <3>1 DEF ShowsLatest, m
    <3>3. QED
      BY <1>10, <3>1, <3>2
  <2>3. QED
    BY <2>1, <2>2
<1>12. ASSUME NEW x \in Nat, KnownIn(longer, x)
       PROVE  \/ \E i \in 1 .. m : window[i].bucket = x
              \/ m = MaxColumns /\ x < window[1].bucket
  <2>1. CASE KnownIn(record, x)
    <3>1. \/ \E i \in 1 .. m : columns[i].bucket = x
          \/ m = MaxColumns /\ x < columns[1].bucket
      BY <1>3, <2>1 DEF ShowsAll, m
    <3>2. 1 \in 1 .. m
      BY <1>1
    <3>3. QED
      BY <1>7, <3>1, <3>2
  <2>2. CASE x = seen.bucket
    <3>1. m \in 1 .. m /\ window[m].bucket = x
      BY <1>1, <1>2, <1>4, <2>2
    <3>2. QED
      BY <3>1
  <2>3. CASE record # <<>> /\ LastOf(record) # Break
                 /\ LastOf(record).bucket < x /\ x < seen.bucket
    <3>1. LastOf(record).bucket \in Nat
      <4>1. SeenIn(record, Len(record)) /\ LastOf(record) = record[Len(record)]
        BY <2>3, LenProperties, EmptySeq DEF SeenIn, LastOf, TrustedRecord
      <4>2. QED
        BY <4>1, SeenEntry
    <3>2. LastOf(record).bucket < seen.bucket
      BY <1>2, <2>3, <3>1
    <3>3. QED
      BY <1>9, <2>3, <3>2
  <2>4. QED
    BY <1>10, <1>12, <2>1, <2>2, <2>3
<1>13. ShowsLatest(longer, window)
  BY <1>5, <1>11 DEF ShowsLatest
<1>14. ShowsAll(longer, window)
  BY <1>5, <1>12 DEF ShowsAll
<1>15. QED
  BY <1>13, <1>14 DEF longer

\* A book that is sampled, or is not for want of a side.
LEMMA SampleShows ==
  ASSUME NEW record \in TrustedRecord, NEW history, WellFormed(history),
         ShowsRecord(record, history), NEW time \in Nat, ~TooEarly(history, time),
         NEW book \in Book
  PROVE  LET seen  == [bucket |-> BucketStart(time), book |-> book, trusted |-> TRUE]
         IN  ShowsRecord(IF Samples(book) THEN Append(record, seen) ELSE record,
                         Sample(history, time, book))
<1> DEFINE seen    == [bucket |-> BucketStart(time), book |-> book, trusted |-> TRUE]
           columns == history.columns
           last    == LastOf(columns)
           bucket  == BucketStart(time)
           after   == Sample(history, time, book)
           longer  == Append(record, seen)
<1>1. bucket \in Nat /\ seen \in TrustedObservation /\ seen.bucket = bucket /\ seen.book = book
  BY BucketIsNatural DEF TrustedObservation
<1>2. /\ history.carryForward \in BOOLEAN /\ Chronological(columns)
      /\ columns = <<>> => record = <<>>
      /\ columns # <<>> => EndsLike(record, history)
      /\ ShowsLatest(record, columns) /\ ShowsAll(record, columns)
  BY DEF ShowsRecord
<1>3. columns \in Seq(Column) /\ (columns # <<>> => last.bucket \in Nat)
  <2>1. columns \in Seq(Column)
    BY DEF WellFormed, History
  <2>2. QED
    BY <2>1, LastOfColumns DEF Column
<1>4. columns # <<>> => last.bucket <= bucket
  <2> SUFFICES ASSUME columns # <<>>
               PROVE  last.bucket <= bucket
    OBVIOUS
  <2>1. history.lastObservation \in Nat /\ last.bucket <= BucketStart(history.lastObservation)
    BY <1>2 DEF EndsLike
  <2>2. history.lastObservation <= time
    BY <2>1 DEF TooEarly
  <2>3. BucketStart(history.lastObservation) <= bucket
    BY <2>1, <2>2, BucketsInOrder
  <2>4. BucketStart(history.lastObservation) \in Nat
    BY <2>1, BucketIsNatural
  <2>5. QED
    BY <1>1, <1>3, <2>1, <2>3, <2>4
<1>5. \A i \in DOMAIN record : SeenIn(record, i) => record[i].bucket <= bucket
  <2>1. CASE columns = <<>>
    BY <1>2, <2>1 DEF SeenIn
  <2>2. CASE columns # <<>>
    <3>1. \A i \in DOMAIN record : SeenIn(record, i) => record[i].bucket <= last.bucket
      BY <1>2, <2>2 DEF EndsLike
    <3>2. \A i \in DOMAIN record : SeenIn(record, i) => record[i].bucket \in Nat
      BY SeenEntry
    <3>3. QED
      BY <1>1, <1>3, <1>4, <2>2, <3>1, <3>2
  <2>3. QED
    BY <2>1, <2>2
<1>6. /\ after.lastObservation = time
      /\ after.carryForward = (history.carryForward \/ Samples(book))
      /\ ~Samples(book) => after.columns = columns
  BY DEF Sample
<1>7. CASE ~Samples(book)
  <2>1. after.carryForward = history.carryForward /\ after.columns = columns
    BY <1>2, <1>6, <1>7
  <2>2. columns # <<>> => EndsLike(record, after)
    <3> HIDE DEF after, columns, Break
    <3>1. SUFFICES ASSUME columns # <<>>
                   PROVE  EndsLike(record, after)
      OBVIOUS
    <3>2. EndsLike(record, history)
      BY <1>2, <3>1
    <3>3. last.bucket <= BucketStart(time) /\ after.lastObservation = time
      BY <1>4, <1>6, <3>1
    <3>4. QED
      BY <2>1, <3>2, <3>3 DEF EndsLike, columns
  <2> HIDE DEF after, columns
  <2>3. ShowsRecord(record, after)
    BY <1>2, <2>1, <2>2 DEF ShowsRecord
  <2>4. QED
    BY <1>7, <2>3 DEF after
<1>8. CASE Samples(book)
  <2>1. /\ longer \in TrustedRecord /\ longer # <<>> /\ LastOf(longer) = seen /\ seen # Break
        /\ \A i \in DOMAIN longer : SeenIn(longer, i) => longer[i].bucket <= seen.bucket
    <3> HIDE DEF seen, bucket, Break
    <3>1. \A i \in DOMAIN record : SeenIn(record, i) => record[i].bucket <= seen.bucket
      BY <1>1, <1>5
    <3>2. longer = Append(record, seen)
      OBVIOUS
    <3> HIDE DEF longer
    <3>3. QED
      BY <1>1, <3>1, <3>2, LaterEntry
  <2>2. /\ Chronological(after.columns) /\ after.columns # <<>>
        /\ LastOf(after.columns) = [bucket |-> bucket, book |-> book]
        /\ ShowsLatest(longer, after.columns) /\ ShowsAll(longer, after.columns)
    <3>1. CASE columns # <<>> /\ last.bucket = bucket
      <4>1. /\ after.columns = [columns EXCEPT ![Len(columns)] = [bucket |-> bucket, book |-> book]]
            /\ LastOf(after.columns) = [bucket |-> bucket, book |-> book]
            /\ after.columns # <<>> /\ Chronological(after.columns)
        BY <1>2, <1>8, <3>1, SampledAgain
      <4> HIDE DEF after, seen, longer, columns, bucket
      <4>2. ShowsLatest(longer, after.columns) /\ ShowsAll(longer, after.columns)
        BY <1>1, <3>1, <4>1, SameBucketShows DEF longer, last, columns
      <4>3. QED
        BY <4>1, <4>2
    <3>2. CASE ~(columns # <<>> /\ last.bucket = bucket)
      <4>1. columns # <<>> => last.bucket < bucket
        BY <1>1, <1>3, <1>4, <3>2
      <4> DEFINE count == NewCount(columns, history.carryForward, bucket)
      <4>2. Trailing(columns, NewColumns(columns, count, bucket, book), after.columns)
        BY <1>8, <4>1, SampledWindow
      <4> HIDE DEF after, seen, longer, columns, bucket
      <4>3. longer = Append(record, seen) /\ columns = history.columns
        BY DEF longer, columns
      <4>4. QED
        BY <1>1, <4>1, <4>2, <4>3, LaterBookShows DEF last
    <3>3. QED
      BY <3>1, <3>2
  <2> HIDE DEF after, longer, seen, Break
  <2>3. EndsLike(longer, after)
    <3>1. LastOf(after.columns).bucket = bucket /\ LastOf(after.columns).book = book
      BY <2>2
    <3>2. after.carryForward /\ after.lastObservation \in Nat
      BY <1>2, <1>6, <1>8
    <3>3. bucket <= BucketStart(after.lastObservation)
      BY <1>1, <1>6
    <3> HIDE DEF bucket
    <3>4. \A i \in DOMAIN longer : SeenIn(longer, i) => longer[i].bucket <= bucket
      BY <1>1, <2>1
    <3>5. QED
      BY <1>1, <2>1, <3>1, <3>2, <3>3, <3>4 DEF EndsLike
  <2>4. ShowsRecord(longer, after)
    <3>1. after.carryForward \in BOOLEAN
      BY <1>2, <1>6, <1>8
    <3>2. QED
      BY <2>2, <2>3, <3>1 DEF ShowsRecord
  <2>5. QED
    BY <1>8, <2>4 DEF after, longer, seen
<1>9. QED
  BY <1>7, <1>8

\* A break at the end of the record: nothing is carried into what follows.
LEMMA BreakShows ==
  ASSUME NEW record \in TrustedRecord, NEW history, history \in History,
         ShowsRecord(record, history)
  PROVE  ShowsRecord(Broken(record), MarkDiscontinuity(history))
<1> DEFINE after   == MarkDiscontinuity(history)
           columns == history.columns
           broken  == Broken(record)
<1>1. /\ after.columns = columns /\ after.lastObservation = history.lastObservation
      /\ after.carryForward = FALSE
  BY DEF MarkDiscontinuity, History
<1>2. /\ Chronological(columns)
      /\ columns = <<>> => record = <<>>
      /\ columns # <<>> => EndsLike(record, history)
      /\ ShowsLatest(record, columns) /\ ShowsAll(record, columns)
  BY DEF ShowsRecord
<1>3. broken = record \/ broken = Append(record, Break)
  BY DEF Broken
<1>4. /\ \A i : SeenIn(broken, i) <=> SeenIn(record, i)
      /\ \A i \in DOMAIN record : broken[i] = record[i]
      /\ \A x : KnownIn(broken, x) <=> KnownIn(record, x)
      /\ \A x, book : LatestIn(record, x, book) => LatestIn(broken, x, book)
  <2> HIDE DEF Break, broken
  <2>1. CASE broken = record
    BY <2>1
  <2>2. CASE broken = Append(record, Break)
    BY <2>2, BreakAddsNothing
  <2>3. QED
    BY <1>3, <2>1, <2>2
<1>5. record = <<>> => broken = <<>>
  BY DEF Broken
<1>6. record # <<>> => broken # <<>> /\ LastOf(broken) = Break
  <2> SUFFICES ASSUME record # <<>>
               PROVE  broken # <<>> /\ LastOf(broken) = Break
    OBVIOUS
  <2>1. CASE LastOf(record) = Break
    BY <2>1 DEF Broken
  <2>2. CASE LastOf(record) # Break
    <3>1. broken = Append(record, Break)
      BY <2>2 DEF Broken
    <3>2. Append(record, Break) # <<>> /\ LastOf(Append(record, Break)) = Break
      BY LongerRecord
    <3> HIDE DEF broken, Break
    <3>3. QED
      BY <3>1, <3>2
  <2>3. QED
    BY <2>1, <2>2
<1> HIDE DEF after, columns, broken, Break
<1>7. columns # <<>> => EndsLike(broken, after)
  <2> SUFFICES ASSUME columns # <<>>
               PROVE  EndsLike(broken, after)
    OBVIOUS
  <2>1. /\ record # <<>> /\ history.lastObservation \in Nat
        /\ LastOf(columns).bucket <= BucketStart(history.lastObservation)
        /\ \A i \in DOMAIN record : SeenIn(record, i) => record[i].bucket <= LastOf(columns).bucket
    BY <1>2 DEF EndsLike, columns
  <2>2. \A i \in DOMAIN broken : SeenIn(broken, i) => broken[i].bucket <= LastOf(columns).bucket
    <3>1. \A i : SeenIn(record, i) => i \in DOMAIN record
      BY DEF SeenIn
    <3>2. QED
      BY <1>4, <2>1, <3>1
  <2>3. QED
    BY <1>1, <1>6, <2>1, <2>2 DEF EndsLike
<1>8. ShowsLatest(broken, columns)
  BY <1>2, <1>4 DEF ShowsLatest
<1>9. ShowsAll(broken, columns)
  BY <1>2, <1>4 DEF ShowsAll
<1>10. ShowsRecord(broken, after)
  BY <1>1, <1>2, <1>5, <1>7, <1>8, <1>9 DEF ShowsRecord
<1>11. QED
  BY <1>10 DEF broken, after

\* The inductive invariant of the window and of the record of what was sampled.
ShownInv == ShowsRecord(observations, engine.history)

\* What is recorded of a book is what is sampled of it.
LEMMA ObservedShows ==
  ASSUME NEW record \in TrustedRecord, NEW history, WellFormed(history),
         history.lastObservation = engine.history.lastObservation,
         ShowsRecord(record, history), NEW time \in Nat, NEW book \in Book,
         NEW trust, trust = TRUE
  PROVE  ShowsRecord(Observed(record, time, book, trust),
                     IF TooEarly(history, time) THEN history ELSE Sample(history, time, book))
<1>1. TooEarly(history, time) <=> TooEarly(engine.history, time)
  BY DEF TooEarly
<1>2. CASE TooEarly(history, time)
  <2>1. Observed(record, time, book, trust) = record
    BY <1>1, <1>2 DEF Observed
  <2>2. QED
    BY <1>2, <2>1
<1>3. CASE ~TooEarly(history, time)
  <2> DEFINE seen == [bucket |-> BucketStart(time), book |-> book, trusted |-> TRUE]
  <2>1. Observed(record, time, book, trust) = IF Samples(book) THEN Append(record, seen) ELSE record
    BY <1>1, <1>3 DEF Observed, Samples
  <2>2. ShowsRecord(IF Samples(book) THEN Append(record, seen) ELSE record,
                    Sample(history, time, book))
    BY <1>3, SampleShows
  <2> HIDE DEF seen
  <2>3. QED
    BY <1>3, <2>1, <2>2
<1>4. QED
  BY <1>2, <1>3

\* What a message does to the history and to the record of it.
LEMMA MessageShows ==
  ASSUME TrustInv, kind # "trusted", ShownInv, WellFormed(engine.history),
         NEW gap \in BOOLEAN, NEW verdict, NEW message \in RawMessage,
         NEW before,
         before = IF gap THEN MarkDesynchronized(engine.reconstructor) ELSE engine.reconstructor,
         NEW applies,
         applies = (message.book # NotOurs /\ Applies(before, message.book, verdict)),
         NEW window,
         window = IF gap THEN MarkDiscontinuity(engine.history) ELSE engine.history,
         engine'.history =
           IF applies /\ ~TooEarly(window, message.time)
           THEN Sample(window, message.time, Process(before, message.book, verdict).book)
           ELSE window,
         NEW trust, trust = ((trusted /\ ~gap) \/ (applies /\ message.book.type = "snapshot")),
         NEW record, record = (IF gap THEN Broken(observations) ELSE observations),
         observations' = (IF applies
                          THEN Observed(record, message.time,
                                        Process(before, message.book, verdict).book, trust)
                          ELSE record)
  PROVE  ShownInv'
<1>1. before \in Reconstructor /\ (before.synchronized => trusted /\ ~gap)
  BY DesynchronizedReconstructor DEF TrustInv
<1>2. record \in TrustedRecord
  BY BrokenRecord DEF TrustInv
<1>3. /\ WellFormed(window) /\ window.lastObservation = engine.history.lastObservation
      /\ ShowsRecord(record, window)
  <2>1. CASE gap
    <3>1. engine.history \in History /\ observations \in TrustedRecord
      BY DEF WellFormed, TrustInv
    <3>2. ShowsRecord(record, window)
      <4>1. ShowsRecord(Broken(observations), MarkDiscontinuity(engine.history))
        BY <3>1, BreakShows DEF ShownInv
      <4>2. QED
        BY <2>1, <4>1
    <3>3. WellFormed(MarkDiscontinuity(engine.history))
      BY DiscontinuityKeepsColumns
    <3>4. MarkDiscontinuity(engine.history).lastObservation = engine.history.lastObservation
      BY <3>1 DEF MarkDiscontinuity, History
    <3>5. QED
      BY <2>1, <3>2, <3>3, <3>4
  <2>2. CASE ~gap
    BY <2>2 DEF ShownInv
  <2>3. QED
    BY <2>1, <2>2
<1>4. CASE ~applies
  <2>1. observations' = record /\ engine'.history = window
    BY <1>4
  <2>2. QED
    BY <1>3, <2>1 DEF ShownInv
<1>5. CASE applies
  <2> DEFINE after == Process(before, message.book, verdict)
  <2>1. message.book \in BookMessage /\ message.time \in Nat
    BY <1>5 DEF RawMessage
  <2>2. after \in Reconstructor /\ (message.book.type = "snapshot" \/ before.synchronized)
    BY <1>1, <1>5, <2>1, ProcessedReconstructor
  <2>3. after.book \in Book
    BY <2>2 DEF Reconstructor
  <2>4. trust = TRUE
    BY <1>1, <1>5, <2>2 DEF TrustInv
  <2>5. /\ observations' = Observed(record, message.time, after.book, trust)
        /\ engine'.history = IF TooEarly(window, message.time) THEN window
                             ELSE Sample(window, message.time, after.book)
    BY <1>5
  <2> HIDE DEF after
  <2>6. ShowsRecord(Observed(record, message.time, after.book, trust),
                    IF TooEarly(window, message.time) THEN window
                    ELSE Sample(window, message.time, after.book))
    BY <1>2, <1>3, <2>1, <2>3, <2>4, ObservedShows
  <2>7. QED
    BY <2>5, <2>6 DEF ShownInv
<1>6. QED
  BY <1>4, <1>5

LEMMA EmitSamples ==
  ASSUME NEW before, NEW sampling, DOMAIN sampling = Members, NEW time, NEW book
  PROVE  Emit(before, sampling, time, book).engine.history = Sample(sampling.history, time, book)
  BY DEF Emit, Outcome, Members

LEMMA ReceiveRawShows ==
  ASSUME TrustInv, ShownInv, WellFormed(engine.history),
         NEW message \in FeedMessage, ReceiveRaw(message)
  PROVE  ShownInv'
<1> DEFINE verdict == Verdict(engine.last, message.sequence)
           gap     == verdict = "Gap" /\ message.book # NotOurs
           before  == IF gap THEN MarkDesynchronized(engine.reconstructor)
                             ELSE engine.reconstructor
           applies == message.book # NotOurs /\ Applies(before, message.book, verdict)
           window  == IF gap THEN MarkDiscontinuity(engine.history) ELSE engine.history
           record  == IF gap THEN Broken(observations) ELSE observations
           trust   == (trusted /\ ~gap) \/ (applies /\ message.book.type = "snapshot")
           observed == [engine EXCEPT !.last = Observe(@, message.sequence)]
           warned   == IF verdict = "Gap" THEN AfterGap(observed, message) ELSE observed
           rebuilt  == [warned EXCEPT
                          !.reconstructor = Process(@, message.book, verdict),
                          !.last = IF verdict = "Gap"
                                        /\ Applies(warned.reconstructor, message.book, verdict)
                                   THEN message.sequence ELSE @]
<1>1. message \in RawMessage /\ kind # "trusted" /\ DOMAIN engine = Members
  BY FeedAssumption DEF ReceiveRaw, TrustInv
<1>2. /\ engine' = ProcessRaw(engine, message).engine
      /\ observations' = (IF applies
                          THEN Observed(record, message.time,
                                        Process(before, message.book, verdict).book, trust)
                          ELSE record)
  BY DEF ReceiveRaw, Take
<1>3. /\ DOMAIN observed = Members /\ observed.reconstructor = engine.reconstructor
      /\ observed.history = engine.history
  BY <1>1 DEF Members
<1>4. /\ DOMAIN warned = Members
      /\ message.book # NotOurs => warned.reconstructor = before /\ warned.history = window
  BY <1>3 DEF AfterGap, Members
<1>5. /\ DOMAIN rebuilt = Members /\ rebuilt.history = warned.history
      /\ message.book # NotOurs =>
           rebuilt.reconstructor = Process(before, message.book, verdict)
  BY <1>4 DEF Members
<1>6. \/ message.book = NotOurs /\ engine' = observed
      \/ message.book # NotOurs /\ ~applies /\ engine' = rebuilt
      \/ message.book # NotOurs /\ applies /\ TooEarly(rebuilt.history, message.time)
           /\ engine' = rebuilt
      \/ message.book # NotOurs /\ applies /\ ~TooEarly(rebuilt.history, message.time)
           /\ engine' = Emit(engine, rebuilt, message.time, rebuilt.reconstructor.book).engine
  BY <1>2, <1>4 DEF ProcessRaw, Outcome
<1> HIDE DEF observed, warned, rebuilt
<1>7. message.book = NotOurs => ~applies /\ window = engine.history
  OBVIOUS
<1>8. gap \in BOOLEAN
  OBVIOUS
<1> HIDE DEF gap, verdict, before, applies, window, record, trust
<1>9. engine'.history =
        IF applies /\ ~TooEarly(window, message.time)
        THEN Sample(window, message.time, Process(before, message.book, verdict).book)
        ELSE window
  <2>1. CASE message.book = NotOurs
    BY <1>3, <1>6, <1>7, <2>1
  <2>2. CASE message.book # NotOurs /\ engine' = rebuilt
                 /\ (~applies \/ TooEarly(rebuilt.history, message.time))
    BY <1>4, <1>5, <2>2
  <2>3. CASE /\ message.book # NotOurs /\ applies /\ ~TooEarly(rebuilt.history, message.time)
             /\ engine' = Emit(engine, rebuilt, message.time, rebuilt.reconstructor.book).engine
    <3>1. engine'.history = Sample(rebuilt.history, message.time, rebuilt.reconstructor.book)
      BY <1>5, <2>3, EmitSamples
    <3>2. rebuilt.history = window
          /\ rebuilt.reconstructor = Process(before, message.book, verdict)
      BY <1>4, <1>5, <2>3
    <3>3. QED
      BY <2>3, <3>1, <3>2
  <2>4. QED
    BY <1>6, <2>1, <2>2, <2>3
<1>10. QED
  BY <1>1, <1>2, <1>8, <1>9, MessageShows, ZenonT(40) DEF before, applies, window, record, trust

LEMMA ReplayCaptureShows ==
  ASSUME TrustInv, ShownInv, WellFormed(engine.history),
         NEW line \in FeedMessage, ReplayCapture(line)
  PROVE  ShownInv'
<1> DEFINE verdict == Verdict(engine.last, line.sequence)
           gap     == verdict = "Gap"
           checked == AfterCheck(engine, line, gap)
           before  == IF gap THEN MarkDesynchronized(engine.reconstructor)
                             ELSE engine.reconstructor
           applies == line.book # NotOurs /\ Applies(before, line.book, verdict)
           window  == IF gap THEN MarkDiscontinuity(engine.history) ELSE engine.history
           record  == IF gap THEN Broken(observations) ELSE observations
           trust   == (trusted /\ ~gap) \/ (applies /\ line.book.type = "snapshot")
           rebuilt == [checked EXCEPT
                         !.reconstructor = Process(@, line.book, verdict),
                         !.last = IF gap /\ Applies(checked.reconstructor, line.book, verdict)
                                  THEN line.sequence ELSE @]
           sampled == [rebuilt EXCEPT
                         !.history = Sample(@, line.time, rebuilt.reconstructor.book)]
<1>1. line \in RawMessage /\ kind # "trusted" /\ DOMAIN engine = Members
  BY FeedAssumption DEF ReplayCapture, TrustInv
<1>2. DOMAIN checked = Members /\ checked.reconstructor = before /\ checked.history = window
  BY <1>1 DEF AfterCheck, Members
<1>3. /\ engine' = ReplayLine(engine, line)
      /\ observations' = (IF applies
                          THEN Observed(record, line.time,
                                        Process(before, line.book, verdict).book, trust)
                          ELSE record)
  BY <1>2 DEF ReplayCapture
<1>4. /\ DOMAIN rebuilt = Members /\ rebuilt.history = window
      /\ rebuilt.reconstructor = Process(before, line.book, verdict)
  BY <1>2 DEF Members
<1>5. sampled.history = Sample(window, line.time, Process(before, line.book, verdict).book)
  BY <1>4 DEF Members
<1>6. engine' = IF line.book = NotOurs THEN checked
                ELSE IF ~applies \/ TooEarly(rebuilt.history, line.time) THEN rebuilt
                ELSE sampled
  BY <1>2, <1>3 DEF ReplayLine
<1> HIDE DEF checked, rebuilt, sampled
<1>7. line.book = NotOurs => ~applies
  OBVIOUS
<1>8. gap \in BOOLEAN
  OBVIOUS
<1> HIDE DEF gap, verdict, before, applies, window, record, trust
<1>9. engine'.history =
        IF applies /\ ~TooEarly(window, line.time)
        THEN Sample(window, line.time, Process(before, line.book, verdict).book)
        ELSE window
  <2>1. CASE line.book = NotOurs
    BY <1>2, <1>6, <1>7, <2>1
  <2>2. CASE line.book # NotOurs /\ (~applies \/ TooEarly(rebuilt.history, line.time))
    BY <1>4, <1>6, <2>2
  <2>3. CASE line.book # NotOurs /\ applies /\ ~TooEarly(rebuilt.history, line.time)
    BY <1>4, <1>5, <1>6, <2>3
  <2>4. QED
    BY <2>1, <2>2, <2>3
<1>10. QED
  BY <1>1, <1>3, <1>8, <1>9, MessageShows, ZenonT(40) DEF before, applies, window, record, trust

LEMMA RecoveryShows ==
  ASSUME TrustInv, ShownInv, WellFormed(engine.history),
         engine' = BeginRecovery(engine), observations' = Broken(observations)
  PROVE  ShownInv'
<1>1. engine'.history = MarkDiscontinuity(engine.history)
  BY DEF BeginRecovery, TrustInv, Members
<1>2. ShowsRecord(Broken(observations), MarkDiscontinuity(engine.history))
  BY BreakShows DEF ShownInv, TrustInv, WellFormed
<1>3. QED
  BY <1>1, <1>2 DEF ShownInv

LEMMA ReceiveTrustedShows ==
  ASSUME TrustInv, ShownInv, WellFormed(engine.history),
         NEW event \in FeedEvent, ReceiveTrusted(event)
  PROVE  ShownInv'
<1>1. /\ event \in TrustedEvent /\ kind = "trusted" /\ DOMAIN engine = Members
      /\ engine' = ProcessTrusted(engine, event).engine /\ ~Refuses(engine, event)
  BY FeedAssumption DEF ReceiveTrusted, Take, TrustInv
<1>2. CASE event.type = "Invalidated"
  <2>1. observations' = Broken(observations) /\ engine' = BeginRecovery(engine)
    BY <1>1, <1>2 DEF ReceiveTrusted, ProcessTrusted, Outcome
  <2>2. QED
    BY <2>1, RecoveryShows
<1>3. CASE event.type = "Update" /\ engine.status = "WaitingForSnapshot"
  <2>1. observations' = observations /\ engine' = engine
    BY <1>1, <1>3 DEF ReceiveTrusted, ProcessTrusted, Outcome, TrustInv
  <2>2. QED
    BY <2>1 DEF ShownInv
<1>4. CASE /\ event.type # "Invalidated"
           /\ ~(event.type = "Update" /\ engine.status = "WaitingForSnapshot")
  <2>1. event.type \in {"Snapshot", "Update"} /\ event.time \in Nat /\ event.book \in Book
    BY <1>1, <1>4 DEF TrustedEvent
  <2>2. /\ trusted' = (trusted \/ event.type = "Snapshot")
        /\ observations' = Observed(observations, event.time, event.book, trusted')
    BY <1>4 DEF ReceiveTrusted
  <2>3. trusted' = TRUE
    BY <1>1, <1>4, <2>1, <2>2 DEF TrustInv
  <2>4. ~TooEarly(engine.history, event.time)
    BY <1>1, <1>4, <2>1 DEF Refuses
  <2>5. engine' = Emit(engine, engine, event.time, event.book).engine
    BY <1>1, <1>4 DEF ProcessTrusted
  <2>6. engine'.history = Sample(engine.history, event.time, event.book)
    BY <1>1, <2>5, EmitSamples
  <2>7. ShowsRecord(Observed(observations, event.time, event.book, trusted'),
                    IF TooEarly(engine.history, event.time) THEN engine.history
                    ELSE Sample(engine.history, event.time, event.book))
    <3> DEFINE trust == trusted'
    <3>1. trust = TRUE
      BY <2>3
    <3> HIDE DEF trust
    <3>2. ShowsRecord(Observed(observations, event.time, event.book, trust),
                      IF TooEarly(engine.history, event.time) THEN engine.history
                      ELSE Sample(engine.history, event.time, event.book))
      BY <2>1, <3>1, ObservedShows DEF ShownInv, TrustInv
    <3>3. QED
      BY <3>2 DEF trust
  <2>8. QED
    BY <2>2, <2>4, <2>6, <2>7 DEF ShownInv
<1>5. QED
  BY <1>2, <1>3, <1>4

LEMMA NewEngineShows == ShowsRecord(<<>>, NewEngine.history)
<1> DEFINE history == NewEngine.history
<1>1. history.columns = <<>> /\ history.carryForward = TRUE
  BY DEF NewEngine, NewHistory
<1>2. \A bucket : ~KnownIn(<<>>, bucket)
  BY DEF KnownIn
<1>3. Chronological(<<>>) /\ ShowsLatest(<<>>, <<>>)
  BY DEF Chronological, ShowsLatest
<1>4. ShowsAll(<<>>, <<>>)
  BY <1>2 DEF ShowsAll
<1> HIDE DEF history
<1>5. ShowsRecord(<<>>, history)
  BY <1>1, <1>3, <1>4 DEF ShowsRecord
<1>6. QED
  BY <1>5 DEF history

LEMMA ShownStep ==
  ASSUME TrustInv, FeedInv, ShownInv, [Next]_vars
  PROVE  ShownInv'
<1>1. WellFormed(engine.history)
  BY EngineParts DEF FeedInv, Consistent, WellFormed
<1>2. CASE Recover
  <2>1. engine' = BeginRecovery(engine) /\ observations' = Broken(observations)
    BY <1>2 DEF Recover, Take
  <2>2. QED
    BY <1>1, <2>1, RecoveryShows
<1>3. CASE EndOfCapture
  BY <1>3, NewEngineShows DEF EndOfCapture, ShownInv
<1>4. CASE UNCHANGED vars
  BY <1>4 DEF vars, ShownInv
<1>5. QED
  BY <1>1, <1>2, <1>3, <1>4, ReceiveRawShows, ReplayCaptureShows, ReceiveTrustedShows DEF Next

LEMMA ShownInvIsEnough ==
  ASSUME TrustInv, FeedInv, ShownInv
  PROVE  HistoryShowsObservations
<1> DEFINE columns == engine.history.columns
           known(bucket) == KnownIn(observations, bucket)
           seen  == {observations[i].bucket : i \in {j \in DOMAIN observations : IsObservation(j)}}
           shown == {columns[i].bucket : i \in DOMAIN columns}
<1>1. observations \in TrustedRecord
  BY DEF TrustInv
<1>2. \A i : IsObservation(i) <=> SeenIn(observations, i)
  BY DEF IsObservation, SeenIn
<1>3. columns \in Seq(Column) /\ DOMAIN columns = 1 .. Len(columns)
  BY EngineParts, LenProperties DEF FeedInv, Consistent
<1>4. /\ Chronological(columns)
      /\ ShowsLatest(observations, columns) /\ ShowsAll(observations, columns)
  BY DEF ShownInv, ShowsRecord
<1>5. \A bucket : Known(bucket) <=> KnownIn(observations, bucket)
  BY <1>2 DEF Known, KnownIn
<1>6. ASSUME NEW bucket, NEW book, LatestIn(observations, bucket, book)
      PROVE  LatestBook(bucket) = book
  <2> DEFINE before == {i \in DOMAIN observations :
                          IsObservation(i) /\ observations[i].bucket <= bucket}
             latest == CHOOSE i \in before : \A j \in before : j <= i
  <2>1. PICK i \in DOMAIN observations :
          /\ SeenIn(observations, i) /\ observations[i].bucket <= bucket
          /\ observations[i].book = book
          /\ \A j \in DOMAIN observations :
               SeenIn(observations, j) /\ observations[j].bucket <= bucket => j <= i
    BY <1>6, Zenon DEF LatestIn
  <2>2. i \in before /\ \A j \in before : j <= i
    BY <1>2, <2>1
  <2>3. before \subseteq Nat
    BY <1>1, LenProperties DEF TrustedRecord
  <2>4. LatestBook(bucket) = observations[latest].book
    BY DEF LatestBook
  <2> HIDE DEF before
  <2>5. latest \in before /\ \A j \in before : j <= latest
    BY <2>2
  <2>6. latest = i
    BY <2>2, <2>3, <2>5
  <2>7. QED
    BY <2>1, <2>4, <2>6
<1>7. \A i, j \in DOMAIN columns : i < j => columns[i].bucket < columns[j].bucket
  BY <1>3, <1>4 DEF Chronological
<1>8. \A i \in DOMAIN columns :
        /\ Known(columns[i].bucket)
        /\ columns[i].book = LatestBook(columns[i].bucket)
  <2> SUFFICES ASSUME NEW i \in DOMAIN columns
               PROVE  /\ Known(columns[i].bucket)
                      /\ columns[i].book = LatestBook(columns[i].bucket)
    OBVIOUS
  <2>1. /\ KnownIn(observations, columns[i].bucket)
        /\ LatestIn(observations, columns[i].bucket, columns[i].book)
    BY <1>3, <1>4 DEF ShowsLatest
  <2>2. QED
    BY <1>5, <1>6, <2>1
<1>9. ASSUME NEW first \in seen, NEW last \in seen, NEW bucket \in first .. last,
             Known(bucket), bucket \notin shown
      PROVE  Len(columns) = MaxColumns /\ bucket < columns[1].bucket
  <2>1. first \in Nat
    BY <1>1, <1>2, SeenEntry
  <2>2. bucket \in Nat
    BY <2>1
  <2>3. \/ \E i \in 1 .. Len(columns) : columns[i].bucket = bucket
        \/ Len(columns) = MaxColumns /\ bucket < columns[1].bucket
    BY <1>4, <1>5, <1>9, <2>2 DEF ShowsAll
  <2>4. QED
    BY <1>3, <1>9, <2>3
<1>10. QED
  BY <1>7, <1>8, <1>9 DEF HistoryShowsObservations

LEMMA ShownInvHolds == Spec => []ShownInv
<1>1. Init => ShownInv
  BY NewEngineShows DEF Init, ShownInv
<1>2. QED
  BY <1>1, FeedInvHolds, ShownStep, PTL DEF Spec

\* The window shows, in the order of time, the last books seen in the latest
\* known buckets and nothing of the time behind a gap, after any messages, breaks
\* and times.
THEOREM WindowShowsRecord == Spec => []HistoryShowsObservations
  BY FeedInvHolds, ShownInvHolds, ShownInvIsEnough, PTL
===============================================================================
