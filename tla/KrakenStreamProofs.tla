-------------------------- MODULE KrakenStreamProofs --------------------------
(***************************************************************************)
(* What a Kraken heatmap shows live is attested, for every depth, price    *)
(* and message: the engine, which outlives its streams, agrees with the    *)
(* adapter of the present one.                                             *)
(***************************************************************************)
EXTENDS KrakenStream, LiveStreamHubProofs

------------------------------------------------------------------------------
(***************************************************************************)
(* The adapter: a trusted snapshot has both sides.                         *)
(***************************************************************************)

\* The prices of a side that are better than one of them.
Better(side, prices, price) ==
  {other \in prices : IF side = "bid" THEN other > price ELSE other < price}

\* One of finitely many prices has none better, whichever side they are of: the
\* fewer are better, the better a price is.
LEMMA BestPrice ==
  ASSUME NEW prices, IsFiniteSet(prices), prices \subseteq Nat, prices # {}, NEW side
  PROVE  \E best \in prices : Better(side, prices, best) = {}
<1> DEFINE rank(price) == Cardinality(Better(side, prices, price))
           ranks       == {rank(price) : price \in prices}
<1>1. \A price \in prices : Better(side, prices, price) \in SUBSET prices
  BY DEF Better
<1>2. \A price \in prices : IsFiniteSet(Better(side, prices, price)) /\ rank(price) \in Nat
  BY <1>1, FS_Subset, FS_CardinalityType
<1>3. ranks \subseteq Nat /\ ranks # {}
  BY <1>2
<1>4. PICK least \in ranks : \A other \in ranks : <<other, least>> \notin OpToRel(<, Nat)
  <2> HIDE DEF ranks
  <2>1. QED
    BY <1>3, NatLessThanWellFounded, WFMin
<1>5. \A other \in ranks : ~(other < least)
  BY <1>3, <1>4 DEF OpToRel
<1>6. PICK best \in prices : rank(best) = least
  OBVIOUS
<1>7. SUFFICES ASSUME NEW other \in Better(side, prices, best)
               PROVE  FALSE
  BY <1>6
<1>8. /\ other \in prices
      /\ Better(side, prices, other) \in SUBSET Better(side, prices, best)
      /\ other \notin Better(side, prices, other)
  <2>1. other \in prices /\ other \in Nat /\ best \in Nat
    BY DEF Better
  <2>2. IF side = "bid" THEN other > best ELSE other < best
    BY DEF Better
  <2>3. ASSUME NEW third \in prices,
               IF side = "bid" THEN third > other ELSE third < other
        PROVE  third # other /\ IF side = "bid" THEN third > best ELSE third < best
    <3>1. third \in Nat
      OBVIOUS
    <3>2. QED
      BY <2>1, <2>2, <2>3, <3>1
  <2>4. QED
    BY <2>1, <2>3 DEF Better
<1>9. rank(other) < rank(best)
  BY <1>2, <1>8, FS_Subset
<1>10. QED
  BY <1>5, <1>6, <1>8, <1>9

LEMMA BestLevelsIsBook ==
  ASSUME NEW book \in Book, NEW count
  PROVE  BestLevels(book, count) \in Book
  BY DEF BestLevels, Book

LEMMA BatchLevels ==
  ASSUME NEW batch \in Batch
  PROVE  /\ DOMAIN batch \subseteq Level
         /\ \A level \in DOMAIN batch : batch[level] \in Quantity \cup {0}
  BY DEF Batch

LEMMA NextLevelsIsBook ==
  ASSUME NEW from \in Adapter, NEW message \in KrakenMessage
  PROVE  NextLevels(from, message) \in Book
<1> DEFINE base == IF message.type = "snapshot" THEN EmptyBook ELSE from.book
<1>1. base \in Book
  BY DEF Adapter, EmptyBook, Book
<1>2. message.levels \in Batch
  BY DEF KrakenMessage
<1>3. ApplyUpdates(base, message.levels) \in Book
  BY <1>1, <1>2, BatchLevels DEF ApplyUpdates, Book
<1>4. QED
  BY <1>3, BestLevelsIsBook DEF NextLevels, Truncate

\* What is cut off leaves the best level of each side.
LEMMA TruncatedSide ==
  ASSUME NEW book \in Book, NEW side \in Side, Prices(book, side) # {}
  PROVE  Prices(Truncate(book), side) # {}
<1> DEFINE prices == Prices(book, side)
<1>1. prices \in SUBSET Price /\ prices \subseteq Nat /\ IsFiniteSet(prices)
  BY PriceAssumption, FS_Subset DEF Prices
<1>2. PICK best \in prices : Better(side, prices, best) = {}
  BY <1>1, BestPrice
<1> DEFINE level == <<side, best>>
<1>3. level \in Level /\ level[1] = side /\ level[2] = best
  BY <1>1 DEF Level
<1>4. {price \in Prices(book, level[1]) :
         IF level[1] = "bid" THEN price > level[2] ELSE price < level[2]} = {}
  BY <1>2, <1>3 DEF Better
<1>5. Truncate(book)[level] = book[level]
  BY <1>3, <1>4, FS_EmptySet, DepthAssumption DEF Truncate, BestLevels
<1>6. book[level] # 0 /\ best \in Price
  BY <1>1 DEF Prices
<1>7. QED
  BY <1>5, <1>6 DEF Prices

LEMMA SnapshotHasBothSides ==
  ASSUME NEW from \in Adapter, NEW message \in KrakenMessage,
         message.type = "snapshot", Trusts(from, message)
  PROVE  TwoSided(NextLevels(from, message))
<1> DEFINE book == ApplyUpdates(EmptyBook, message.levels)
<1>1. message.levels \in Batch
  BY DEF KrakenMessage
<1>2. book \in Book
  BY <1>1, BatchLevels DEF ApplyUpdates, Book, EmptyBook
<1>3. ASSUME NEW side \in Side
      PROVE  Prices(book, side) # {}
  <2>1. PICK level \in DOMAIN message.levels : level[1] = side /\ message.levels[level] # 0
    BY DEF Trusts
  <2>2. level \in Level
    BY <1>1, <2>1, BatchLevels
  <2>3. level[2] \in Price /\ <<side, level[2]>> = level
    BY <2>1, <2>2 DEF Level
  <2>4. book[level] # 0
    BY <2>1, <2>2 DEF ApplyUpdates
  <2> HIDE DEF book
  <2>5. QED
    BY <2>3, <2>4 DEF Prices
<1>4. NextLevels(from, message) = Truncate(book)
  BY DEF NextLevels
<1> HIDE DEF book
<1>5. QED
  BY <1>2, <1>3, <1>4, TruncatedSide DEF TwoSided
------------------------------------------------------------------------------
(***************************************************************************)
(* The engine.                                                             *)
(***************************************************************************)

\* What the chart's invariant has to know of an engine: its numbering of columns
\* is no part of it.
Charting(some) ==
  /\ DOMAIN some = {"status", "last", "reconstructor", "history", "nextIndex", "lastEmitted"}
  /\ some = [field \in DOMAIN some |-> some[field]]
  /\ some.status \in {"WaitingForSnapshot", "Live"}
  /\ WellFormed(some.history)

LEMMA NewEngineIsCharting == Charting(NewEngine) /\ NewEngine.status = "WaitingForSnapshot"
  BY NewHistoryIsWellFormed DEF Charting, NewEngine

LEMMA RecoveryWaits ==
  ASSUME NEW some, Charting(some)
  PROVE  Charting(BeginRecovery(some)) /\ BeginRecovery(some).status = "WaitingForSnapshot"
  BY DiscontinuityKeepsColumns DEF Charting, BeginRecovery

\* A book with both sides is drawn and makes the engine live; one without is not
\* drawn, and its status stays.
LEMMA EmittedBook ==
  ASSUME NEW some, Charting(some), NEW time \in Nat, NEW book \in Book
  PROVE  LET after == Emit(some, some, time, book).engine
         IN  /\ Charting(after)
             /\ TwoSided(book) =>
                  after.status = "Live" /\ LastOf(after.history.columns).book = book
             /\ ~TwoSided(book) => after.status = some.status
<1> DEFINE history == Sample(some.history, time, book)
           after   == Emit(some, some, time, book).engine
<1>1. /\ WellFormed(history)
      /\ Samples(book) => LastOf(history.columns).book = book
  BY SampledHistory DEF Charting
<1> HIDE DEF history
<1>2. CASE ~Samples(book)
  <2>1. after = [some EXCEPT !.history = history]
    BY <1>2 DEF Emit, Outcome, history
  <2>2. QED
    BY <1>1, <1>2, <2>1 DEF Charting, Samples
<1>3. CASE Samples(book)
  <2>1. PICK index, emitted :
          after = [[some EXCEPT !.history = history, !.status = "Live"]
                     EXCEPT !.nextIndex = index, !.lastEmitted = emitted]
    BY <1>3 DEF Emit, Outcome, history
  <2>2. QED
    BY <1>1, <1>3, <2>1 DEF Charting, Samples
<1>4. QED
  BY <1>2, <1>3
------------------------------------------------------------------------------
(***************************************************************************)
(* The stream and its engine.                                              *)
(***************************************************************************)

\* ChartIsAttested says nothing of the moment between an exception and its catch:
\* it is inductive once no stream survives its exception.
ChartInv ==
  /\ at \in Place
  /\ adapter \in Adapter \cup {NoStream}
  /\ adapter # NoStream <=> at \in {"looping", "reading"}
  /\ wanted \in BOOLEAN
  /\ Charting(engine)
  /\ ChartIsAttested

\* A step that ends the stream, or changes neither it nor the engine.
LEMMA EndedStream ==
  ASSUME ChartInv, adapter' = NoStream, engine' = engine, wanted' \in BOOLEAN,
         at' \in {"failed", "finished"}
  PROVE  ChartInv'
  BY DEF ChartInv, ChartIsAttested, Place

LEMMA SameStream ==
  ASSUME ChartInv, UNCHANGED <<adapter, engine, attested>>, wanted' \in BOOLEAN,
         at \notin {"failed", "finished"}, at' \in Place,
         adapter # NoStream <=> at' \in {"looping", "reading"}
  PROVE  ChartInv'
<1>1. Followed' <=> Followed
  BY DEF Followed
<1>2. QED
  BY <1>1 DEF ChartInv, ChartIsAttested

LEMMA InitialChart == Init => ChartInv
  BY NewEngineIsCharting DEF Init, ChartInv, ChartIsAttested, Followed, Place

\* A trusted book is the adapter's and is drawn, if it has both sides; only an
\* update may have one, of a book that was followed, which the engine knows to be
\* live.
LEMMA TrustedBookIsCharted ==
  ASSUME ChartInv, at = "reading", wanted,
         NEW message \in BookMessageSent, NEW time \in Timestamp,
         ~Ignores(adapter, message), Trusts(adapter, message),
         ReadBook(message, time)
  PROVE  ChartInv'
<1> DEFINE book  == NextLevels(adapter, message)
           event == EventFor(message, time)
<1>1. adapter \in Adapter \cup {NoStream} /\ Charting(engine)
  BY DEF ChartInv
<1>2. message \in KrakenMessage /\ time \in Nat
  BY KrakenStreamAssumption
<1>3. event = [type |-> IF message.type = "snapshot" THEN "Snapshot" ELSE "Update",
               time |-> time, book |-> book]
  BY DEF EventFor, EventOf, BookEvent
<1>4. ProcessBook(adapter, message, time)
        = [status |-> "Live", book |-> book, timestamp |-> time]
  BY DEF ProcessBook
<1>5. book \in Book /\ adapter \in Adapter
  BY <1>1, <1>2, NextLevelsIsBook DEF ChartInv
<1>6. message.type = "snapshot" => TwoSided(book)
  BY <1>2, <1>5, SnapshotHasBothSides
<1>7. message.type # "snapshot" => engine.status = "Live"
  <2>1. message.type \in {"snapshot", "update"}
    BY <1>2 DEF KrakenMessage
  <2>2. message.type # "snapshot" => Followed
    BY <1>5, <2>1, KrakenStreamAssumption DEF Ignores, Followed
  <2>3. QED
    BY <2>2 DEF ChartInv, ChartIsAttested
<1>8. Checksum(book) = message.checksum
  BY DEF Trusts
<1> HIDE DEF book, event
<1>9. CASE Refuses(engine, event)
  BY <1>9, EndedStream DEF ReadBook, Handle, event
<1>10. CASE ~Refuses(engine, event)
  <2> DEFINE after == Emit(engine, engine, time, book).engine
  <2>1. ProcessTrusted(engine, event) = Emit(engine, engine, time, book)
    BY <1>3, <1>7 DEF ProcessTrusted
  <2>2. /\ at' = "looping" /\ wanted' = wanted /\ attested' = message.checksum
        /\ engine' = after
        /\ adapter' = [status |-> "Live", book |-> book, timestamp |-> time]
    BY <1>3, <1>4, <1>10, <2>1 DEF ReadBook, Handle, event
  <2>3. /\ Charting(after)
        /\ TwoSided(book) => after.status = "Live" /\ LastOf(after.history.columns).book = book
        /\ ~TwoSided(book) => after.status = engine.status
    BY <1>1, <1>2, <1>5, EmittedBook
  <2> HIDE DEF after
  <2>4. after.status = "Live"
    BY <1>6, <1>7, <2>3
  <2>5. adapter' \in Adapter /\ Followed'
    BY <1>5, <2>2, KrakenStreamAssumption DEF Adapter, Followed
  <2>6. ChartIsAttested'
    BY <1>8, <2>2, <2>3, <2>4, <2>5 DEF ChartIsAttested
  <2>7. QED
    BY <2>2, <2>3, <2>5, <2>6, KrakenStreamAssumption DEF ChartInv, Place
<1>11. QED
  BY <1>9, <1>10

\* A book message that is ignored finds no book; one that is not trusted ends the
\* stream, as does any once the selection has changed.
LEMMA ReadBookKeepsChart ==
  ASSUME ChartInv, NEW message \in BookMessageSent, NEW time \in Timestamp,
         ReadBook(message, time)
  PROVE  ChartInv'
<1> DEFINE event == EventFor(message, time)
<1>1. at = "reading" /\ wanted' = wanted /\ wanted \in BOOLEAN
  BY DEF ReadBook, ChartInv
<1>2. CASE Ignores(adapter, message)
  <2>1. UNCHANGED <<at, adapter, engine>> /\ ~Followed /\ ~Followed'
    BY <1>2 DEF ReadBook, Ignores, Followed
  <2>2. QED
    BY <1>1, <2>1 DEF ChartInv, ChartIsAttested
<1>3. CASE ~Ignores(adapter, message) /\ ~wanted
  BY <1>1, <1>3, EndedStream DEF ReadBook, Handle
<1>4. CASE ~Ignores(adapter, message) /\ wanted /\ Trusts(adapter, message)
  BY <1>1, <1>4, TrustedBookIsCharted
<1>5. CASE ~Ignores(adapter, message) /\ wanted /\ ~Trusts(adapter, message)
  <2>1. event = [type |-> "Invalidated"]
    BY <1>5 DEF EventFor, EventOf, BookEvent
  <2>2. /\ engine' = BeginRecovery(engine) /\ at' = "failed" /\ adapter' = NoStream
    <3>1. Handle(event, ProcessBook(adapter, message, time))
      BY <1>5 DEF ReadBook
    <3>2. ~Refuses(engine, event) /\ ProcessTrusted(engine, event).engine = BeginRecovery(engine)
      BY <2>1 DEF Refuses, ProcessTrusted, Outcome
    <3> HIDE DEF event
    <3>3. QED
      BY <1>5, <2>1, <3>1, <3>2 DEF Handle
  <2>3. QED
    BY <1>1, <2>2, RecoveryWaits DEF ChartInv, ChartIsAttested, Place
<1>6. QED
  BY <1>2, <1>3, <1>4, <1>5

LEMMA ControlKeepsChart ==
  ASSUME ChartInv, NEW frame \in ControlFrame, ReadControl(frame)
  PROVE  ChartInv'
<1>1. at = "reading" /\ wanted \in BOOLEAN
  BY DEF ReadControl, ChartInv
<1>2. CASE frame = Unparsable
  <2> DEFINE event == [type |-> "Invalidated"]
  <2>1. Handle(event, Invalidation(adapter)) /\ wanted' = wanted
    BY <1>2 DEF ReadControl
  <2>2. ~Refuses(engine, event) /\ ProcessTrusted(engine, event).engine = BeginRecovery(engine)
    BY DEF Refuses, ProcessTrusted, Outcome
  <2>3. CASE ~wanted
    BY <1>1, <2>1, <2>3, EndedStream DEF Handle
  <2>4. CASE wanted
    <3>1. engine' = BeginRecovery(engine) /\ at' = "failed" /\ adapter' = NoStream
      BY <2>1, <2>2, <2>4 DEF Handle
    <3>2. QED
      BY <1>1, <2>1, <3>1, RecoveryWaits DEF ChartInv, ChartIsAttested, Place
  <2>5. QED
    BY <2>3, <2>4
<1>3. CASE frame # Unparsable /\ Following(frame) = "on"
  <2>1. UNCHANGED vars
    BY <1>3 DEF ReadControl
  <2>2. QED
    BY <1>1, <2>1, SameStream DEF vars, ChartInv
<1>4. CASE frame # Unparsable /\ Following(frame) # "on"
  BY <1>1, <1>4, EndedStream DEF ReadControl, Throws
<1>5. QED
  BY <1>2, <1>3, <1>4

\* The book is first subscribed to, of a new adapter.
LEMMA DiscoverKeepsChart ==
  ASSUME ChartInv, NEW frame \in ControlFrame, Discover(frame)
  PROVE  ChartInv'
<1>1. at = "discovering" /\ adapter = NoStream /\ wanted \in BOOLEAN
  BY DEF Discover, ChartInv
<1>2. CASE /\ at' = "looping" /\ adapter' = NewAdapter
           /\ UNCHANGED <<engine, wanted, attested>>
  <2>1. NewAdapter \in Adapter
    BY TimestampAssumption DEF NewAdapter, Adapter, EmptyBook, Book
  <2>2. ~Followed /\ ~Followed'
    BY <1>1, <1>2 DEF Followed, NewAdapter
  <2>3. QED
    BY <1>1, <1>2, <2>1, <2>2, KrakenStreamAssumption DEF ChartInv, ChartIsAttested, Place
<1>3. CASE UNCHANGED vars
  BY <1>1, <1>3, SameStream DEF vars, ChartInv
<1>4. CASE Throws(Discovery(frame))
  BY <1>1, <1>4, EndedStream DEF Throws
<1>5. QED
  BY <1>2, <1>3, <1>4 DEF Discover

LEMMA ChartStep ==
  ASSUME ChartInv, [Next]_vars
  PROVE  ChartInv'
<1>1. at \in Place /\ wanted \in BOOLEAN /\ (adapter # NoStream <=> at \in {"looping", "reading"})
  BY DEF ChartInv
<1>2. ASSUME NEW from, NEW to, CheckAt(from, to),
             <<from, to>> \in {<<"checking", "connecting">>, <<"looping", "reading">>,
                               <<"sleeping", "checking">>}
      PROVE  ChartInv'
  <2>1. CASE wanted
    BY <1>1, <1>2, <2>1, SameStream DEF CheckAt, Place
  <2>2. CASE ~wanted
    BY <1>1, <1>2, <2>2, EndedStream DEF CheckAt
  <2>3. QED
    BY <2>1, <2>2
<1>3. CASE Check
  BY <1>2, <1>3 DEF Check
<1>4. CASE Connect
  BY <1>1, <1>4, SameStream DEF Connect, Place
<1>5. CASE ConnectionFails
  BY <1>1, <1>5, EndedStream DEF ConnectionFails, Throws
<1>6. CASE Recover
  <2>1. CASE wanted
    BY <1>1, <1>6, <2>1, RecoveryWaits DEF Recover, ChartInv, ChartIsAttested, Place, Followed
  <2>2. CASE ~wanted
    BY <1>1, <1>6, <2>2, EndedStream DEF Recover
  <2>3. QED
    BY <2>1, <2>2
<1>7. CASE NextRunner
  BY <1>1, <1>7, NewEngineIsCharting
     DEF NextRunner, ChartInv, ChartIsAttested, Place, Followed
<1>8. CASE SwitchProduct
  <2>1. CASE at \in {"failed", "finished"}
    BY <1>1, <1>8, <2>1, EndedStream DEF SwitchProduct
  <2>2. CASE at \notin {"failed", "finished"}
    BY <1>1, <1>8, <2>2, SameStream DEF SwitchProduct
  <2>3. QED
    BY <2>1, <2>2
<1>9. CASE \E frame \in ControlFrame : Discover(frame) \/ ReadControl(frame)
  BY <1>9, DiscoverKeepsChart, ControlKeepsChart
<1>10. CASE \E message \in BookMessageSent, time \in Timestamp : ReadBook(message, time)
  BY <1>10, ReadBookKeepsChart
<1>11. CASE UNCHANGED vars
  BY <1>11 DEF vars, ChartInv, ChartIsAttested, Followed
<1>12. QED
  BY <1>3, <1>4, <1>5, <1>6, <1>7, <1>8, <1>9, <1>10, <1>11 DEF Next

\* Through every failure and reconnection the engine is live exactly while the
\* stream of the present connection has a book, and what the chart ends with is
\* that book, attested by the venue's last message.
THEOREM ChartAttested == Spec => []ChartIsAttested
<1>1. ChartInv => ChartIsAttested
  BY DEF ChartInv
<1>2. ChartInv /\ [Next]_vars => ChartInv'
  BY ChartStep
<1>3. QED
  BY InitialChart, <1>1, <1>2, PTL DEF Spec
------------------------------------------------------------------------------
(***************************************************************************)
(* The types: the book is never deeper than subscribed to.                 *)
(***************************************************************************)

\* As many levels of a side are kept as there are ranks below the depth.
LEMMA TruncatedDepth ==
  ASSUME NEW book \in Book, NEW side \in Side
  PROVE  Cardinality(Prices(Truncate(book), side)) <= Depth
<1> DEFINE prices  == Prices(book, side)
           kept    == Prices(Truncate(book), side)
           rank(p) == Cardinality(Better(side, prices, p))
           ranks   == 0 .. Depth - 1
           ranked  == [p \in kept |-> rank(p)]
<1>1. prices \in SUBSET Price /\ prices \subseteq Nat /\ IsFiniteSet(prices)
  BY PriceAssumption, FS_Subset DEF Prices
<1>2. \A p \in Nat : IsFiniteSet(Better(side, prices, p)) /\ rank(p) \in Nat
  <2>1. \A p \in Nat : Better(side, prices, p) \in SUBSET prices
    BY DEF Better
  <2>2. QED
    BY <1>1, <2>1, FS_Subset, FS_CardinalityType
<1>3. ASSUME NEW p \in kept
      PROVE  p \in prices /\ p \in Nat /\ rank(p) \in ranks
  <2> DEFINE level == <<side, p>>
  <2>1. p \in Price /\ Truncate(book)[level] # 0
    BY DEF Prices
  <2>2. level \in Level /\ level[1] = side /\ level[2] = p
    BY <2>1 DEF Level
  <2>3. Better(side, prices, p) = {price \in Prices(book, level[1]) :
            IF level[1] = "bid" THEN price > level[2] ELSE price < level[2]}
    BY <2>2 DEF Better
  <2> DEFINE better == {price \in Prices(book, level[1]) :
            IF level[1] = "bid" THEN price > level[2] ELSE price < level[2]}
  <2>4. Truncate(book)[level] = IF Cardinality(better) < Depth THEN book[level] ELSE 0
    BY <2>2 DEF Truncate, BestLevels
  <2> HIDE DEF better, level
  <2>5. rank(p) < Depth /\ book[level] # 0
    BY <2>1, <2>3, <2>4 DEF better
  <2>6. p \in Nat /\ p \in prices
    BY <2>1, <2>5, PriceAssumption DEF Prices, level
  <2>7. rank(p) \in Nat
    BY <1>2, <2>6
  <2> HIDE DEF rank, prices
  <2>8. QED
    BY <2>5, <2>6, <2>7, DepthAssumption
<1>4. ASSUME NEW p \in kept, NEW q \in kept,
             IF side = "bid" THEN p > q ELSE p < q
      PROVE  rank(p) < rank(q)
  <2>1. p \in prices /\ p \in Nat /\ q \in Nat
    BY <1>3
  <2>2. ASSUME NEW third \in prices, IF side = "bid" THEN third > p ELSE third < p
        PROVE  third # p /\ IF side = "bid" THEN third > q ELSE third < q
    <3>1. third \in Nat
      BY <1>1
    <3>2. QED
      BY <1>4, <2>1, <2>2, <3>1
  <2>3. Better(side, prices, p) \in SUBSET Better(side, prices, q)
    BY <2>2 DEF Better
  <2>4. p \in Better(side, prices, q) /\ p \notin Better(side, prices, p)
    BY <1>4, <2>1 DEF Better
  <2> HIDE DEF prices
  <2>5. QED
    BY <1>2, <2>1, <2>3, <2>4, FS_Subset
<1>5. \A p, q \in kept : rank(p) = rank(q) => p = q
  <2> SUFFICES ASSUME NEW p \in kept, NEW q \in kept, rank(p) = rank(q), p # q
               PROVE  FALSE
    OBVIOUS
  <2>1. p \in Nat /\ q \in Nat /\ rank(p) \in Nat /\ rank(q) \in Nat
    BY <1>2, <1>3
  <2> HIDE DEF rank, kept
  <2>2. (IF side = "bid" THEN p > q ELSE p < q) \/ (IF side = "bid" THEN q > p ELSE q < p)
    BY <2>1
  <2>3. rank(p) < rank(q) \/ rank(q) < rank(p)
    BY <1>4, <2>2
  <2>4. QED
    BY <2>1, <2>3
<1> HIDE DEF rank, kept
<1>6. ranked \in Injection(kept, ranks)
  <2>1. ranked \in [kept -> ranks]
    BY <1>3
  <2>2. \A p, q \in kept : ranked[p] = ranked[q] => p = q
    BY <1>5
  <2> HIDE DEF ranked, ranks
  <2>3. IsInjective(ranked)
    BY <2>1, <2>2 DEF IsInjective
  <2>4. QED
    BY <2>1, <2>3 DEF Injection
<1>7. IsFiniteSet(ranks) /\ Cardinality(ranks) = Depth
  <2>1. 0 \in Int /\ Depth - 1 \in Int
        /\ (IF 0 > Depth - 1 THEN 0 ELSE (Depth - 1) - 0 + 1) = Depth
    BY DepthAssumption
  <2> DEFINE last == Depth - 1
  <2> HIDE DEF last
  <2>2. IsFiniteSet(0 .. last) /\ Cardinality(0 .. last) = IF 0 > last THEN 0 ELSE last - 0 + 1
    BY <2>1, FS_Interval DEF last
  <2>3. QED
    BY <2>1, <2>2 DEF last
<1> HIDE DEF ranked, ranks
<1>8. QED
  BY <1>6, <1>7, FS_Injection DEF kept

\* The inductive invariant of the types; of the engine, that it published all it has.
StreamInv ==
  /\ ChartInv
  /\ Consistent(engine)
  /\ adapter # NoStream => \A side \in Side : Cardinality(Prices(adapter.book, side)) <= Depth
  /\ attested \in Book

LEMMA StreamInvIsEnough == StreamInv => TypeOK
  BY DEF StreamInv, ChartInv, Consistent, TypeOK

\* What a step does to what ChartInv does not speak of: the engine is as it was,
\* is new or took an event or its recovery, and an adapter's book was cut off.
LEMMA NewAdapterIsShallow ==
  ASSUME NEW side \in Side
  PROVE  Cardinality(Prices(NewAdapter.book, side)) <= Depth
<1>1. Prices(NewAdapter.book, side) = {}
  BY DEF Prices, NewAdapter, EmptyBook, Level
<1>2. QED
  BY <1>1, FS_EmptySet, DepthAssumption

LEMMA HandledEvent ==
  ASSUME Consistent(engine), NEW event \in TrustedEvent, NEW next, Handle(event, next)
  PROVE  Consistent(engine)' /\ adapter' \in {NoStream, next}
<1>1. CASE ~wanted \/ Refuses(engine, event)
  BY <1>1 DEF Handle, Consistent
<1>2. CASE wanted /\ ~Refuses(engine, event)
  <2>1. Consistent(ProcessTrusted(engine, event).engine)
    BY <1>2, TrustedTells
  <2>2. engine' = ProcessTrusted(engine, event).engine /\ adapter' \in {NoStream, next}
    BY <1>2 DEF Handle
  <2>3. QED
    BY <2>1, <2>2 DEF Consistent
<1>3. QED
  BY <1>1, <1>2

LEMMA ReadBookKeepsTypes ==
  ASSUME StreamInv, NEW message \in BookMessageSent, NEW time \in Timestamp,
         ReadBook(message, time)
  PROVE  StreamInv'
<1> DEFINE book  == NextLevels(adapter, message)
           event == EventFor(message, time)
<1>1. /\ adapter \in Adapter /\ message \in KrakenMessage /\ time \in Nat
      /\ Consistent(engine) /\ ChartInv
  BY KrakenStreamAssumption DEF StreamInv, ChartInv, ReadBook
<1>2. attested' \in Book
  BY <1>1 DEF ReadBook, KrakenMessage
<1>3. CASE Ignores(adapter, message)
  BY <1>1, <1>2, <1>3, ReadBookKeepsChart DEF ReadBook, StreamInv, Consistent
<1>4. CASE ~Ignores(adapter, message)
  <2>1. Handle(event, ProcessBook(adapter, message, time))
    BY <1>4 DEF ReadBook
  <2>2. book \in Book
    BY <1>1, NextLevelsIsBook
  <2>3. event \in TrustedEvent
    <3> HIDE DEF book
    <3>1. event = [type |-> "Invalidated"]
          \/ event \in [type : {"Snapshot", "Update"}, book : Book, time : Nat]
      <4>1. CASE Trusts(adapter, message)
        <5>1. event = [type |-> IF message.type = "snapshot" THEN "Snapshot" ELSE "Update",
                       time |-> time, book |-> book]
          BY <4>1 DEF EventFor, EventOf, BookEvent, book
        <5>2. QED
          BY <1>1, <2>2, <5>1
      <4>2. CASE ~Trusts(adapter, message)
        BY <4>2 DEF EventFor, EventOf, BookEvent
      <4>3. QED
        BY <4>1, <4>2
    <3>2. QED
      BY <3>1 DEF TrustedEvent
  <2> HIDE DEF event
  <2>4. Consistent(engine)' /\ adapter' \in {NoStream, ProcessBook(adapter, message, time)}
    BY <1>1, <2>1, <2>3, HandledEvent
  <2>5. Trusts(adapter, message) => ProcessBook(adapter, message, time).book = book
    BY <1>4 DEF ProcessBook
  <2>6. ~Trusts(adapter, message) => adapter' = NoStream
    <3>1. ~Trusts(adapter, message) => event.type = "Invalidated"
      BY DEF event, EventFor, EventOf, BookEvent
    <3>2. QED
      BY <2>1, <3>1 DEF Handle
  <2>7. \A side \in Side : Cardinality(Prices(book, side)) <= Depth
    <3> DEFINE whole == ApplyUpdates(IF message.type = "snapshot" THEN EmptyBook ELSE adapter.book,
                                     message.levels)
    <3>1. message.levels \in Batch /\ adapter.book \in Book /\ EmptyBook \in Book
      BY <1>1 DEF KrakenMessage, Adapter, EmptyBook, Book
    <3>2. whole \in Book
      BY <3>1, BatchLevels DEF ApplyUpdates, Book
    <3>3. book = Truncate(whole)
      BY DEF NextLevels
    <3> HIDE DEF whole, book
    <3>4. QED
      BY <3>2, <3>3, TruncatedDepth
  <2>8. adapter' # NoStream =>
          \A side \in Side : Cardinality(Prices(adapter'.book, side)) <= Depth
    BY <2>4, <2>5, <2>6, <2>7
  <2>9. QED
    BY <1>1, <1>2, <2>4, <2>8, ReadBookKeepsChart DEF StreamInv
<1>5. QED
  BY <1>3, <1>4

LEMMA StreamStep ==
  ASSUME StreamInv, [Next]_vars
  PROVE  StreamInv'
<1>1. ChartInv' /\ ChartInv /\ Consistent(engine)
  BY ChartStep DEF StreamInv
<1>2. CASE \E message \in BookMessageSent, time \in Timestamp : ReadBook(message, time)
  BY <1>2, ReadBookKeepsTypes
<1>3. CASE \E frame \in ControlFrame : ReadControl(frame)
  <2>1. PICK frame \in ControlFrame : ReadControl(frame)
    BY <1>3
  <2>2. CASE frame = Unparsable
    <3> DEFINE event == [type |-> "Invalidated"]
    <3>1. event \in TrustedEvent /\ event.type = "Invalidated"
      BY DEF TrustedEvent
    <3>2. Handle(event, Invalidation(adapter)) /\ attested' = attested
      BY <2>1, <2>2 DEF ReadControl
    <3> HIDE DEF event
    <3>3. Consistent(engine)' /\ adapter' = NoStream
      BY <1>1, <3>1, <3>2, HandledEvent DEF Handle
    <3>4. QED
      BY <1>1, <3>2, <3>3 DEF StreamInv
  <2>3. CASE frame # Unparsable
    <3>1. UNCHANGED <<engine, attested>> /\ (adapter' = adapter \/ adapter' = NoStream)
      BY <2>1, <2>3 DEF ReadControl, Throws, vars
    <3>2. QED
      BY <1>1, <3>1 DEF StreamInv, Consistent
  <2>4. QED
    BY <2>2, <2>3
<1>4. CASE Recover
  <2>1. Consistent(BeginRecovery(engine))
    BY <1>1, RecoveryTells
  <2>2. engine' \in {engine, BeginRecovery(engine)} /\ UNCHANGED <<adapter, attested>>
    BY <1>4 DEF Recover
  <2>3. QED
    BY <1>1, <2>1, <2>2 DEF StreamInv, Consistent
<1>5. CASE NextRunner
  BY <1>1, <1>5, NewEngineIsConsistent DEF NextRunner, StreamInv, Consistent
<1>6. CASE \E frame \in ControlFrame : Discover(frame)
  <2>1. UNCHANGED <<engine, attested>> /\ adapter' \in {adapter, NewAdapter, NoStream}
    BY <1>6 DEF Discover, Throws, vars
  <2>2. QED
    BY <1>1, <2>1, NewAdapterIsShallow DEF StreamInv, Consistent
<1>7. CASE Check \/ Connect \/ ConnectionFails \/ SwitchProduct \/ UNCHANGED vars
  <2>1. UNCHANGED <<engine, attested>> /\ adapter' \in {adapter, NoStream}
    BY <1>7 DEF Check, CheckAt, Connect, ConnectionFails, Throws, SwitchProduct, vars
  <2>2. QED
    BY <1>1, <2>1 DEF StreamInv, Consistent
<1>8. QED
  BY <1>2, <1>3, <1>4, <1>5, <1>6, <1>7 DEF Next

\* The stream's state keeps its types, and its book is never deeper than the
\* subscription.
THEOREM TypeCorrect == Spec => []TypeOK
<1>1. Init => StreamInv
  BY InitialChart, NewEngineIsConsistent DEF Init, StreamInv, Consistent, EmptyBook, Book
<1>2. QED
  BY <1>1, StreamStep, StreamInvIsEnough, PTL DEF Spec
==============================================================================
