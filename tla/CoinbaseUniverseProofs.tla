------------------------ MODULE CoinbaseUniverseProofs -----------------------
(***************************************************************************)
(* Machine-checked proofs about CoinbaseUniverse for every value of its    *)
(* constants.                                                              *)
(***************************************************************************)
EXTENDS CoinbaseUniverse, TLAPS, SequenceTheorems, WellFoundedInduction

(***************************************************************************)
(* Books, batches and reconstructors.                                      *)
(***************************************************************************)

\* Applying a batch to a book gives a book (OrderBook::apply_update).
LEMMA ApplyUpdatesType ==
  ASSUME NEW book \in Book, NEW batch \in Batch
  PROVE  ApplyUpdates(book, batch) \in Book
<1>1. PICK levels \in SUBSET Level : batch \in [levels -> Quantity \cup {0}]
  BY DEF Batch
<1>2. QED
  BY <1>1 DEF ApplyUpdates, Book

LEMMA EmptyBookType == EmptyBook \in Book
  BY DEF EmptyBook, Book

\* A snapshot's batch rebuilds, on an empty book, the very book it lists.
LEMMA SnapshotRoundTrip ==
  ASSUME NEW book \in Book
  PROVE  /\ LevelsOf(book) \in Batch
         /\ ApplyUpdates(EmptyBook, LevelsOf(book)) = book
<1> DEFINE resting == {level \in Level : book[level] # 0}
<1>1. LevelsOf(book) \in [resting -> Quantity \cup {0}]
  BY DEF LevelsOf, Book
<1>2. resting \in SUBSET Level
  OBVIOUS
<1>3. LevelsOf(book) \in Batch
  BY <1>1, <1>2 DEF Batch
<1>4. DOMAIN LevelsOf(book) = resting /\ \A level \in resting : LevelsOf(book)[level] = book[level]
  BY DEF LevelsOf
<1>5. ApplyUpdates(EmptyBook, LevelsOf(book)) = [level \in Level |-> book[level]]
  BY <1>4 DEF ApplyUpdates, EmptyBook
<1>6. QED
  BY <1>3, <1>5 DEF Book

LEMMA MarkDesynchronizedType ==
  ASSUME NEW reconstructor \in Reconstructor
  PROVE  /\ MarkDesynchronized(reconstructor) \in Reconstructor
         /\ ~MarkDesynchronized(reconstructor).synchronized
  BY DEF MarkDesynchronized, Reconstructor

LEMMA NewReconstructorType ==
  NewReconstructor \in Reconstructor /\ ~NewReconstructor.synchronized
  BY EmptyBookType DEF NewReconstructor, Reconstructor

\* Doubling with the cap stays between the initial and the maximum delay.
LEMMA LengthenedType ==
  ASSUME NEW n \in NominalDelay
  PROVE  Lengthened(n) \in NominalDelay
  BY DelayAssumption DEF NominalDelay, Lengthened

LEMMA ObserveType ==
  ASSUME NEW tracker \in TrackerState, NEW received \in 0 .. MaxSequence
  PROVE  Observe(tracker, received) \in TrackerState
  BY DEF Observe, TrackerState

(***************************************************************************)
(* Market events and store entries.                                        *)
(***************************************************************************)

LEMMA EventTypes ==
  /\ \A status \in NonLiveStatus : StatusEvent(status) \in MarketEvent
  /\ \A type \in {"Snapshot", "Update"}, book \in Book, timestamp \in Timestamp :
       BookEvent(type, book, timestamp) \in MarketEvent
  /\ InvalidatedEvent \in MarketEvent
  BY DEF StatusEvent, BookEvent, InvalidatedEvent, MarketEvent

\* What MarketStateStore may be told leaves its entries entries.
LEMMA ApplyEventType ==
  ASSUME NEW entry \in Entry, NEW event \in MarketEvent
  PROVE  ApplyEvent(entry, event) \in Entry
<1>1. CASE event \in [kind : {"status"}, status : NonLiveStatus]
  BY <1>1 DEF ApplyEvent, SetStatus, Entry, VenueMarketStatus
<1>2. CASE event \in [kind : {"book"}, type : {"Snapshot", "Update"}, book : Book,
                      timestamp : Timestamp]
  BY <1>2 DEF ApplyEvent, ApplyTrusted, Entry, VenueMarketStatus
<1>3. CASE event = InvalidatedEvent
  <2>1. ApplyEvent(entry, event) =
          [status |-> "Stale", book |-> NoBook, timestamp |-> NoTimestamp]
    BY <1>3 DEF ApplyEvent, ApplyTrusted, InvalidatedEvent, BookEvent
  <2>2. QED
    BY <2>1, TimestampAssumption DEF Entry, VenueMarketStatus, NonLiveStatus
<1>4. QED
  BY <1>1, <1>2, <1>3 DEF MarketEvent

LEMMA SetStatusType ==
  ASSUME NEW entry \in Entry, NEW status \in NonLiveStatus
  PROVE  SetStatus(entry, status) \in Entry
  BY DEF SetStatus, Entry, VenueMarketStatus

\* A batch of one status for a set of products.
LEMMA StatusForAllType ==
  ASSUME NEW products \in SUBSET Product, NEW status \in NonLiveStatus
  PROVE  StatusForAll(products, status) \in Events
<1>1. StatusForAll(products, status) \in [products -> MarketEvent]
  BY EventTypes DEF StatusForAll
<1>2. QED
  BY <1>1 DEF Events

\* Events still pending once one product's event was taken from the first batch.
LEMMA RemainingType ==
  ASSUME pending \in Seq(Events), pending # <<>>, NEW product \in Product
  PROVE  /\ Head(pending) \in Events
         /\ Remaining(product) \in Seq(Events)
<1>1. Head(pending) \in Events /\ Tail(pending) \in Seq(Events)
  OBVIOUS
<1>2. PICK named \in SUBSET Product : Head(pending) \in [named -> MarketEvent]
  BY <1>1 DEF Events
<1> DEFINE batch == [other \in DOMAIN Head(pending) \ {product} |-> Head(pending)[other]]
<1>3. batch \in [named \ {product} -> MarketEvent]
  BY <1>2
<1>4. batch \in Events
  BY <1>3 DEF Events
<1>5. <<batch>> \o Tail(pending) \in Seq(Events)
  BY <1>1, <1>4
<1>6. QED
  BY <1>1, <1>5 DEF Remaining

(***************************************************************************)
(* Loops: counting up to a bound, and what a recursive function computes.  *)
(***************************************************************************)

\* What holds of 0, and of each number up to a bound that follows one it holds of,
\* holds of all of them.
LEMMA CountingUp ==
  ASSUME NEW n \in Nat, NEW S, 0 \in S,
         \A i \in 1 .. n : i - 1 \in S => i \in S
  PROVE  \A i \in 0 .. n : i \in S
<1> DEFINE missing == {i \in 0 .. n : i \notin S}
<1>1. SUFFICES ASSUME missing # {} PROVE FALSE
  OBVIOUS
<1>2. missing \in SUBSET Nat
  OBVIOUS
<1>3. PICK x \in missing : \A y \in missing : <<y, x>> \notin OpToRel(<, Nat)
  BY <1>1, <1>2, WFMin, NatLessThanWellFounded
<1>4. x \in Nat /\ x \in 0 .. n /\ x \notin S /\ x # 0
  OBVIOUS
<1>5. x \in 1 .. n /\ x - 1 \in Nat /\ x - 1 \in 0 .. n /\ x - 1 < x
  BY <1>4
<1>6. x - 1 \notin S
  BY <1>4, <1>5
<1>7. <<x - 1, x>> \in OpToRel(<, Nat)
  BY <1>4, <1>5 DEF OpToRel
<1>8. QED
  BY <1>3, <1>5, <1>6, <1>7

\* A loop of n rounds, each from the state the last one left, has its states.
IsLoop(f, n, S, start, step) ==
  /\ f \in [0 .. n -> S]
  /\ f[0] = start
  /\ \A i \in 1 .. n : f[i] = step[i][f[i - 1]]

LEMMA LoopStates ==
  ASSUME NEW n \in Nat, NEW S, NEW start \in S, NEW step \in [1 .. n -> [S -> S]]
  PROVE  \E f : IsLoop(f, n, S, start, step)
<1> DEFINE Reaches(k, f) == /\ f[0] = start
                            /\ \A i \in 1 .. k : f[i] = step[i][f[i - 1]]
           good == {k \in 0 .. n : \E f \in [0 .. k -> S] : Reaches(k, f)}
<1>1. 0 \in good
  <2> DEFINE f == [i \in 0 .. 0 |-> start]
  <2>1. f \in [0 .. 0 -> S] /\ f[0] = start /\ 1 .. 0 = {} /\ 0 \in 0 .. n
    OBVIOUS
  <2> HIDE DEF f
  <2>2. Reaches(0, f)
    BY <2>1
  <2>3. QED
    BY <2>1, <2>2
<1>2. ASSUME NEW k \in 1 .. n, k - 1 \in good
      PROVE  k \in good
  <2>1. PICK f \in [0 .. k - 1 -> S] : Reaches(k - 1, f)
    BY <1>2
  <2> DEFINE g == [i \in 0 .. k |-> IF i = k THEN step[k][f[k - 1]] ELSE f[i]]
  <2>2. k - 1 \in 0 .. k - 1 /\ f[k - 1] \in S
    OBVIOUS
  <2>3. step[k][f[k - 1]] \in S
    BY <2>2
  <2>4. g \in [0 .. k -> S]
    BY <2>3
  <2>5. \A i \in 0 .. k - 1 : g[i] = f[i]
    OBVIOUS
  <2>6. g[k] = step[k][g[k - 1]]
    <3>1. k \in 0 .. k /\ g[k - 1] = f[k - 1]
      BY <2>2, <2>5
    <3>2. g[k] = step[k][f[k - 1]]
      BY <3>1
    <3>3. QED
      BY <3>1, <3>2
  <2>7. ASSUME NEW i \in 1 .. k
        PROVE  g[i] = step[i][g[i - 1]]
    <3>1. CASE i = k
      BY <2>6, <3>1
    <3>2. CASE i # k
      <4>1. i \in 1 .. k - 1 /\ i \in 0 .. k - 1 /\ i - 1 \in 0 .. k - 1
        BY <3>2
      <4>2. QED
        BY <2>1, <2>5, <4>1
    <3>3. QED
      BY <3>1, <3>2
  <2>8. g[0] = start
    BY <2>1, <2>5
  <2> HIDE DEF g
  <2>9. Reaches(k, g)
    BY <2>7, <2>8
  <2>10. QED
    BY <2>4, <2>9
<1> HIDE DEF good
<1>3. \A i \in 0 .. n : i \in good
  BY ONLY <1>1, <1>2, n \in Nat, CountingUp
<1>4. n \in good
  BY <1>3
<1>5. PICK f \in [0 .. n -> S] : Reaches(n, f)
  BY <1>4 DEF good
<1>6. QED
  BY <1>5 DEF IsLoop

(***************************************************************************)
(* The venue's frames.                                                     *)
(***************************************************************************)

LEMMA SayingTypes ==
  ASSUME NEW saying \in Saying
  PROVE  /\ saying.product \in Product /\ saying.type \in {"snapshot", "update"}
         /\ saying.levels \in Batch
         /\ saying = [product |-> saying.product, type |-> saying.type,
                      levels |-> saying.levels]
<1>1. NoChange \in [{} -> Quantity \cup {0}]
  BY DEF NoChange
<1>2. NoChange \in Batch
  BY <1>1 DEF Batch
<1>3. CASE saying \in [product : Product, type : {"snapshot"}, levels : {NoChange}]
  BY <1>2, <1>3
<1>4. CASE saying \in [product : Product, type : {"update"}, levels : UpdateBatch]
  BY <1>4, UpdateBatchAssumption
<1>5. QED
  BY <1>3, <1>4 DEF Saying

\* The venue's books behind each thing it says follow from those before it.
LEMMA BooksBehindStates ==
  ASSUME venueBooks \in [Product -> Book], NEW length \in Nat,
         NEW sayings \in [1 .. length -> Saying]
  PROVE  /\ BooksBehind(sayings) \in [0 .. length -> [Product -> Book]]
         /\ BooksBehind(sayings)[0] = venueBooks
         /\ \A i \in 1 .. length :
              BooksBehind(sayings)[i] =
                [BooksBehind(sayings)[i - 1] EXCEPT
                   ![sayings[i].product] = ApplyUpdates(@, sayings[i].levels)]
<1> DEFINE S == [Product -> Book]
           After(i, books) ==
             [books EXCEPT ![sayings[i].product] = ApplyUpdates(@, sayings[i].levels)]
           step == [i \in 1 .. length |-> [books \in S |-> After(i, books)]]
<1>1. Len(sayings) = length
  OBVIOUS
<1>2. ASSUME NEW i \in 1 .. length, NEW books \in S
      PROVE  After(i, books) \in S
  <2>1. sayings[i].product \in Product /\ sayings[i].levels \in Batch
    BY SayingTypes
  <2>2. ApplyUpdates(books[sayings[i].product], sayings[i].levels) \in Book
    BY <2>1, ApplyUpdatesType
  <2>3. QED
    BY <2>1, <2>2
<1>3. venueBooks \in S
  OBVIOUS
<1> HIDE DEF After, S
<1>4. step \in [1 .. length -> [S -> S]]
  BY <1>2
<1>5. \A i \in 1 .. length : \A books \in S : step[i][books] = After(i, books)
  OBVIOUS
<1> HIDE DEF step
<1>6. PICK f : IsLoop(f, length, S, venueBooks, step)
  BY <1>3, <1>4, LoopStates
<1>7. f = [i \in 0 .. length |-> IF i = 0 THEN venueBooks ELSE After(i, f[i - 1])]
  <2>1. f \in [0 .. length -> S] /\ f[0] = venueBooks
    BY <1>6 DEF IsLoop
  <2>2. ASSUME NEW i \in 1 .. length PROVE f[i] = After(i, f[i - 1])
    <3>1. i - 1 \in 0 .. length
      OBVIOUS
    <3>2. f[i - 1] \in S
      BY <2>1, <3>1
    <3>3. QED
      BY <1>5, <1>6, <3>2 DEF IsLoop
  <2>3. \A i \in 0 .. length : f[i] = IF i = 0 THEN venueBooks ELSE After(i, f[i - 1])
    BY <2>1, <2>2
  <2>4. QED
    BY <2>1, <2>3
<1> DEFINE Recursive(g) ==
             g = [i \in 0 .. length |-> IF i = 0 THEN venueBooks ELSE After(i, g[i - 1])]
<1>8. BooksBehind(sayings) = CHOOSE g : Recursive(g)
  BY <1>1 DEF BooksBehind, After
<1> DEFINE books == BooksBehind(sayings)
<1>9. Recursive(books)
  BY <1>7, <1>8
<1> HIDE DEF books
<1>10. DOMAIN books = 0 .. length /\ books[0] = venueBooks
  BY <1>9
<1>11. \A i \in 1 .. length : books[i] = After(i, books[i - 1])
  BY <1>9
<1> DEFINE typed == {i \in 0 .. length : books[i] \in S}
<1>12. 0 \in typed
  BY <1>3, <1>10
<1>13. ASSUME NEW i \in 1 .. length, i - 1 \in typed PROVE i \in typed
  BY <1>2, <1>11, <1>13
<1> HIDE DEF typed
<1>14. \A i \in 0 .. length : i \in typed
  BY ONLY <1>12, <1>13, length \in Nat, CountingUp
<1>15. \A i \in 0 .. length : books[i] \in S
  BY <1>14 DEF typed
<1>16. books = [i \in 0 .. length |-> books[i]]
  BY <1>9
<1>17. books \in [0 .. length -> [Product -> Book]]
  BY <1>15, <1>16 DEF S
<1>18. QED
  BY <1>10, <1>11, <1>17 DEF After, books

\* What a frame's messages say agrees with the books it records: a snapshot lists
\* the book behind it, an update leads there from the book before it.
RecordsBooks(frame) ==
  \A i \in DOMAIN frame.messages :
    LET message == frame.messages[i]
    IN  /\ message.type = "snapshot" =>
             message.levels = LevelsOf(frame.books[i][message.product])
        /\ message.type # "snapshot" =>
             frame.books[i][message.product] =
               ApplyUpdates(frame.books[i - 1][message.product], message.levels)
        /\ \A other \in Product \ {message.product} :
             frame.books[i][other] = frame.books[i - 1][other]

LastBooks(frame) == frame.books[Len(frame.messages)]

\* What the venue sends is a frame, and records its books.
LEMMA FrameOfRecords ==
  ASSUME venueBooks \in [Product -> Book], NEW length \in 0 .. FrameLength,
         NEW sayings \in [1 .. length -> Saying]
  PROVE  LET frame == FrameOf(sayings, BooksBehind(sayings))
         IN  /\ frame \in Frame /\ RecordsBooks(frame)
             /\ frame.messages \in Seq(Message)
             /\ DOMAIN frame.books = 0 .. Len(frame.messages)
             /\ frame.books[0] = venueBooks
             /\ LastBooks(frame) = BooksBehind(sayings)[length]
             /\ LastBooks(frame) \in [Product -> Book]
<1> DEFINE books == BooksBehind(sayings)
           frame == FrameOf(sayings, books)
           Listed(i) == IF sayings[i].type = "update" THEN sayings[i]
                        ELSE [sayings[i] EXCEPT !.levels = LevelsOf(books[i][sayings[i].product])]
<1>1. length \in Nat /\ length \in 0 .. length
  BY FrameLengthAssumption
<1>2. /\ books \in [0 .. length -> [Product -> Book]]
      /\ books[0] = venueBooks
      /\ \A i \in 1 .. length :
           books[i] = [books[i - 1] EXCEPT
                         ![sayings[i].product] = ApplyUpdates(@, sayings[i].levels)]
  BY <1>1, BooksBehindStates
<1> HIDE DEF books
<1>3. ASSUME NEW i \in 1 .. length
      PROVE  /\ i \in 0 .. length /\ i - 1 \in 0 .. length
             /\ books[i] \in [Product -> Book] /\ books[i - 1] \in [Product -> Book]
             /\ sayings[i].product \in Product
             /\ sayings[i].type \in {"snapshot", "update"}
             /\ sayings[i].levels \in Batch
             /\ sayings[i] = [product |-> sayings[i].product, type |-> sayings[i].type,
                              levels |-> sayings[i].levels]
             /\ LevelsOf(books[i][sayings[i].product]) \in Batch
  <2>1. i \in 0 .. length /\ i - 1 \in 0 .. length
    BY <1>1
  <2>2. books[i] \in [Product -> Book] /\ books[i - 1] \in [Product -> Book]
    BY <1>2, <2>1
  <2>3. sayings[i] \in Saying
    OBVIOUS
  <2>4. LevelsOf(books[i][sayings[i].product]) \in Batch
    BY <2>2, <2>3, SayingTypes, SnapshotRoundTrip
  <2>5. QED
    BY <2>1, <2>2, <2>3, <2>4, SayingTypes
<1>4. ASSUME NEW i \in 1 .. length
      PROVE  /\ Listed(i) \in Message
             /\ Listed(i).product = sayings[i].product
             /\ Listed(i).type = sayings[i].type
             /\ sayings[i].type = "snapshot" =>
                  Listed(i).levels = LevelsOf(books[i][sayings[i].product])
             /\ sayings[i].type # "snapshot" => Listed(i).levels = sayings[i].levels
  <2>1. CASE sayings[i].type = "update"
    BY <1>3, <2>1 DEF Message
  <2>2. CASE sayings[i].type # "update"
    <3> DEFINE p == sayings[i].product
               t == sayings[i].type
               l == LevelsOf(books[i][p])
    <3>1. Listed(i) = [product |-> p, type |-> t, levels |-> l]
      <4>1. sayings[i] = [product |-> p, type |-> t, levels |-> sayings[i].levels]
        BY <1>3
      <4> HIDE DEF p, t, l
      <4>2. [sayings[i] EXCEPT !.levels = l] = [product |-> p, type |-> t, levels |-> l]
        BY <4>1
      <4>3. QED
        BY <2>2, <4>2 DEF p, l
    <3>2. p \in Product /\ t \in {"snapshot", "update"} /\ l \in Batch
      BY <1>3
    <3> HIDE DEF Listed, p, t, l
    <3>3. Listed(i) \in Message /\ Listed(i).product = p /\ Listed(i).type = t
            /\ Listed(i).levels = l
      BY <3>1, <3>2 DEF Message
    <3>4. QED
      BY <2>2, <3>2, <3>3 DEF p, t, l
  <2>3. QED
    BY <2>1, <2>2
<1>5. DOMAIN sayings = 1 .. length
  OBVIOUS
<1>6. frame.messages = [i \in 1 .. length |-> Listed(i)] /\ frame.books = books
  BY <1>5 DEF FrameOf
<1> HIDE DEF Listed
<1>7. frame.messages \in [1 .. length -> Message]
  BY <1>4, <1>6
<1>8. frame.messages \in Seq(Message) /\ Len(frame.messages) = length
  BY <1>1, <1>7
<1>9. frame \in Frame
  <2>1. books \in UNION {[0 .. n -> [Product -> Book]] : n \in 0 .. FrameLength}
    BY <1>2
  <2>2. frame = [messages |-> frame.messages, books |-> frame.books]
    BY DEF FrameOf
  <2>3. QED
    BY <1>6, <1>8, <2>1, <2>2 DEF Frame
<1>10. RecordsBooks(frame)
  <2> SUFFICES ASSUME NEW i \in 1 .. length
               PROVE  LET message == Listed(i)
                      IN  /\ message.type = "snapshot" =>
                               message.levels = LevelsOf(books[i][message.product])
                          /\ message.type # "snapshot" =>
                               books[i][message.product] =
                                 ApplyUpdates(books[i - 1][message.product], message.levels)
                          /\ \A other \in Product \ {message.product} :
                               books[i][other] = books[i - 1][other]
    BY <1>6, <1>8 DEF RecordsBooks
  <2>1. books[i] = [books[i - 1] EXCEPT
                      ![sayings[i].product] = ApplyUpdates(@, sayings[i].levels)]
    BY <1>2
  <2>2. books[i][sayings[i].product] =
          ApplyUpdates(books[i - 1][sayings[i].product], sayings[i].levels)
    BY <1>3, <2>1
  <2>3. \A other \in Product \ {sayings[i].product} : books[i][other] = books[i - 1][other]
    BY <1>3, <2>1
  <2>4. QED
    BY <1>4, <2>2, <2>3
<1> HIDE DEF frame
<1>11. LastBooks(frame) = books[length] /\ frame.books[0] = venueBooks
  BY <1>2, <1>6, <1>8 DEF LastBooks
<1>12. books[length] \in [Product -> Book] /\ DOMAIN frame.books = 0 .. length
  BY <1>1, <1>2, <1>6
<1>13. QED
  BY <1>8, <1>9, <1>10, <1>11, <1>12 DEF frame, books

(***************************************************************************)
(* The loop of process_frame.                                              *)
(***************************************************************************)

\* What the loop has made of the books and of the events so far.
Progress == [books : [Product -> Reconstructor], events : Seq(Events)]

\* The event of one message.
EventOf(message, reconstructor, sequence) ==
  BookEvent(IF message.type = "snapshot" THEN "Snapshot" ELSE "Update",
            reconstructor.book, sequence)

\* One round changes the reconstructor of its message's product alone, and adds an
\* event when it applies the message.
IsRound(done, after, message, sequence, verdict) ==
  LET product == message.product
      applied == Applies(done.books[product], message, verdict)
      event   == EventOf(message, after.books[product], sequence)
  IN  /\ after \in Progress
      /\ product \in Product
      /\ after.books[product] = Process(done.books[product], message, verdict)
      /\ \A other \in Product \ {product} : after.books[other] = done.books[other]
      /\ applied => after.events = Append(done.events, [named \in {product} |-> event])
      /\ ~applied => after.events = done.events

LEMMA OneRound ==
  ASSUME NEW done \in Progress, NEW message \in Message, NEW sequence \in Timestamp,
         NEW verdict
  PROVE  IsRound(done, AfterMessage(done, message, sequence, verdict), message, sequence,
                 verdict)
<1> DEFINE product == message.product
           rebuilt == Process(done.books[product], message, verdict)
           after   == AfterMessage(done, message, sequence, verdict)
           event   == EventOf(message, rebuilt, sequence)
           added   == [named \in {product} |-> event]
<1>1. /\ message.product \in Product /\ message.type \in {"snapshot", "update"}
      /\ message.levels \in Batch
      /\ message = [product |-> message.product, type |-> message.type,
                    levels |-> message.levels]
  BY DEF Message
<1>2. /\ done.books \in [Product -> Reconstructor] /\ done.events \in Seq(Events)
      /\ done.books[product] \in Reconstructor
  BY <1>1 DEF Progress
<1>3. rebuilt \in Reconstructor
  <2>1. /\ ApplyUpdates(EmptyBook, message.levels) \in Book
        /\ ApplyUpdates(done.books[product].book, message.levels) \in Book
    BY <1>1, <1>2, ApplyUpdatesType, EmptyBookType DEF Reconstructor
  <2>2. /\ done.books[product].synchronized \in BOOLEAN /\ done.books[product].book \in Book
    BY <1>2 DEF Reconstructor
  <2>3. QED
    BY <2>1, <2>2 DEF Process, Reconstructor
<1>4. event \in MarketEvent
  <2>1. rebuilt.book \in Book
    BY <1>3 DEF Reconstructor
  <2> HIDE DEF rebuilt
  <2>2. QED
    BY <2>1, EventTypes DEF EventOf
<1> HIDE DEF event
<1>5. added \in [{product} -> MarketEvent] /\ {product} \in SUBSET Product
  BY <1>1, <1>4
<1>6. added \in Events
  BY <1>5 DEF Events
<1>7. after = [books  |-> [done.books EXCEPT ![product] = rebuilt],
               events |-> IF Applies(done.books[product], message, verdict)
                          THEN Append(done.events, added) ELSE done.events]
  BY DEF AfterMessage, EventOf, event
<1> HIDE DEF rebuilt, after, added
<1>8. [done.books EXCEPT ![product] = rebuilt] \in [Product -> Reconstructor]
  BY <1>2, <1>3
<1>9. Append(done.events, added) \in Seq(Events)
  BY <1>2, <1>6
<1>10. after \in Progress
  BY <1>2, <1>7, <1>8, <1>9 DEF Progress
<1>11. after.books = [done.books EXCEPT ![product] = rebuilt]
  BY <1>7
<1>12. after.books[product] = rebuilt
  BY <1>1, <1>2, <1>11
<1>13. \A other \in Product \ {product} : after.books[other] = done.books[other]
  BY <1>1, <1>2, <1>11
<1>14. after.events = IF Applies(done.books[product], message, verdict)
                      THEN Append(done.events, added) ELSE done.events
  BY <1>7
<1>15. EventOf(message, after.books[product], sequence) = event
  BY <1>12 DEF event
<1>16. QED
  BY <1>1, <1>10, <1>12, <1>13, <1>14, <1>15 DEF IsRound, rebuilt, after, added

\* The states of the loop over a frame's messages: `done[i]' behind the first i.
IsRunOf(done, messages, sequence, verdict) ==
  /\ done \in [0 .. Len(messages) -> Progress]
  /\ done[0] = [books |-> reconstructors, events |-> pending]
  /\ \A i \in 1 .. Len(messages) :
       done[i] = AfterMessage(done[i - 1], messages[i], sequence, verdict)
  /\ AfterMessages(messages, sequence, verdict) = done[Len(messages)]

LEMMA LoopRuns ==
  ASSUME reconstructors \in [Product -> Reconstructor], pending \in Seq(Events),
         NEW messages \in Seq(Message), NEW sequence \in Timestamp, NEW verdict
  PROVE  \E done : IsRunOf(done, messages, sequence, verdict)
<1> DEFINE length == Len(messages)
           before == [books |-> reconstructors, events |-> pending]
           After(i, done) == AfterMessage(done, messages[i], sequence, verdict)
           step == [i \in 1 .. length |-> [done \in Progress |-> After(i, done)]]
<1>1. length \in Nat
  OBVIOUS
<1>2. before \in Progress
  BY DEF Progress
<1>3. ASSUME NEW i \in 1 .. length, NEW done \in Progress
      PROVE  After(i, done) \in Progress
  <2>1. messages[i] \in Message
    OBVIOUS
  <2>2. QED
    BY <2>1, OneRound DEF IsRound
<1> HIDE DEF After, length, before
<1>4. step \in [1 .. length -> [Progress -> Progress]]
  BY <1>3
<1>5. \A i \in 1 .. length : \A done \in Progress : step[i][done] = After(i, done)
  OBVIOUS
<1> HIDE DEF step
<1>6. PICK f : IsLoop(f, length, Progress, before, step)
  BY <1>1, <1>2, <1>4, LoopStates
<1>7. f = [i \in 0 .. length |-> IF i = 0 THEN before ELSE After(i, f[i - 1])]
  <2>1. f \in [0 .. length -> Progress] /\ f[0] = before
    BY <1>6 DEF IsLoop
  <2>2. ASSUME NEW i \in 1 .. length PROVE f[i] = After(i, f[i - 1])
    <3>1. i - 1 \in 0 .. length
      BY <1>1
    <3>2. f[i - 1] \in Progress
      BY <2>1, <3>1
    <3>3. QED
      BY <1>5, <1>6, <3>2 DEF IsLoop
  <2>3. \A i \in 0 .. length : f[i] = IF i = 0 THEN before ELSE After(i, f[i - 1])
    BY <1>1, <2>1, <2>2
  <2>4. QED
    BY <2>1, <2>3
<1> DEFINE Recursive(g) ==
             g = [i \in 0 .. length |-> IF i = 0 THEN before ELSE After(i, g[i - 1])]
           done == CHOOSE g : Recursive(g)
<1>8. AfterMessages(messages, sequence, verdict) = done[length]
  BY DEF AfterMessages, After, length, before
<1>9. Recursive(done)
  BY <1>7
<1> HIDE DEF done
<1>10. DOMAIN done = 0 .. length /\ done[0] = before
  BY <1>1, <1>9
<1>11. \A i \in 1 .. length : done[i] = After(i, done[i - 1])
  BY <1>1, <1>9
<1> DEFINE typed == {i \in 0 .. length : done[i] \in Progress}
<1>12. 0 \in typed
  BY <1>1, <1>2, <1>10
<1>13. ASSUME NEW i \in 1 .. length, i - 1 \in typed PROVE i \in typed
  BY <1>1, <1>3, <1>11, <1>13
<1> HIDE DEF typed
<1>14. \A i \in 0 .. length : i \in typed
  BY ONLY <1>1, <1>12, <1>13, CountingUp
<1>15. \A i \in 0 .. length : done[i] \in Progress
  BY <1>14 DEF typed
<1>16. done = [i \in 0 .. length |-> done[i]]
  BY <1>9
<1>17. done \in [0 .. length -> Progress]
  BY <1>15, <1>16
<1>18. IsRunOf(done, messages, sequence, verdict)
  BY <1>8, <1>10, <1>11, <1>17 DEF IsRunOf, After, length, before
<1>19. QED
  BY <1>18

\* A frame repeated or late leaves everything as it was.
LEMMA LoopIgnores ==
  ASSUME reconstructors \in [Product -> Reconstructor], pending \in Seq(Events),
         NEW messages \in Seq(Message), NEW sequence \in Timestamp,
         NEW verdict \in {"Duplicate", "Stale"}
  PROVE  AfterMessages(messages, sequence, verdict) =
           [books |-> reconstructors, events |-> pending]
<1> DEFINE before == [books |-> reconstructors, events |-> pending]
           length == Len(messages)
<1>1. PICK done : IsRunOf(done, messages, sequence, verdict)
  BY LoopRuns
<1>2. /\ done \in [0 .. length -> Progress] /\ done[0] = before
      /\ \A i \in 1 .. length : done[i] = AfterMessage(done[i - 1], messages[i], sequence, verdict)
      /\ AfterMessages(messages, sequence, verdict) = done[length]
  BY <1>1 DEF IsRunOf
<1>3. length \in Nat /\ before \in Progress
  BY DEF Progress
<1> HIDE DEF before
<1> DEFINE ignored == {i \in 0 .. length : done[i] = before}
<1>4. 0 \in ignored
  BY <1>2, <1>3
<1>5. ASSUME NEW i \in 1 .. length, i - 1 \in ignored PROVE i \in ignored
  <2> DEFINE message == messages[i]
             product == message.product
             after   == AfterMessage(before, message, sequence, verdict)
  <2>1. message \in Message
    BY <1>3
  <2>2. done[i] = after
    BY <1>2, <1>5
  <2>3. ~Applies(before.books[product], message, verdict)
    BY DEF Applies
  <2>4. /\ after \in Progress /\ product \in Product
        /\ after.books[product] = Process(before.books[product], message, verdict)
        /\ \A other \in Product \ {product} : after.books[other] = before.books[other]
        /\ after.events = before.events
    <3>1. IsRound(before, after, message, sequence, verdict)
      <4> HIDE DEF message
      <4>1. QED
        BY <1>3, <2>1, OneRound
    <3> HIDE DEF after, message
    <3>2. QED
      BY <2>3, <3>1 DEF IsRound
  <2>5. before.books[product] \in Reconstructor
    BY <1>3, <2>4 DEF Progress
  <2>6. Process(before.books[product], message, verdict) = before.books[product]
    <3> DEFINE r == before.books[product]
    <3>1. Process(r, message, verdict) = [book |-> r.book, synchronized |-> r.synchronized]
      BY <2>3, <2>5 DEF Process, Reconstructor
    <3> HIDE DEF r
    <3>2. QED
      BY <2>5, <3>1 DEF Reconstructor, r
  <2> HIDE DEF after, message
  <2>7. \A other \in Product : after.books[other] = before.books[other]
    BY <2>4, <2>6
  <2>8. after.books = before.books
    <3>1. after.books \in [Product -> Reconstructor] /\ before.books \in [Product -> Reconstructor]
      BY <1>3, <2>4 DEF Progress
    <3>2. QED
      BY <2>7, <3>1
  <2>9. after = [books |-> after.books, events |-> after.events]
    BY <2>4 DEF Progress
  <2>10. after = before
    BY <1>3, <2>4, <2>8, <2>9 DEF Progress
  <2>11. QED
    BY <1>3, <2>2, <2>10
<1> HIDE DEF ignored
<1>6. \A i \in 0 .. length : i \in ignored
  BY ONLY <1>3, <1>4, <1>5, CountingUp
<1>7. length \in ignored
  BY <1>3, <1>6
<1>8. QED
  BY <1>2, <1>7 DEF ignored, before

\* One message at a time, what is missed at most shrinks behind a frame after the
\* first one ...
LEMMA MissedLater ==
  ASSUME NEW product, NEW start, NEW at, at # start,
         NEW count \in Nat, NEW i \in 1 .. count, NEW level \in Level,
         level \notin Missed(product, start, at, i)
  PROVE  \/ level \notin Missed(product, start, at, i - 1)
         \/ Tells(sent[at].messages[i], product, level)
<1> SUFFICES ASSUME level \in Missed(product, start, at, i - 1),
                    ~Tells(sent[at].messages[i], product, level)
             PROVE  FALSE
  OBVIOUS
<1>1. ~ToldIn(at, product, level, i - 1)
  BY DEF Missed
<1>2. ~ToldIn(at, product, level, i)
  <2>1. \A j \in 1 .. i : j = i \/ j \in 1 .. i - 1
    OBVIOUS
  <2>2. QED
    BY <1>1, <2>1 DEF ToldIn
<1>3. QED
  BY <1>2 DEF Missed

\* ... and grows within the first one, by what comes behind a snapshot.
LEMMA MissedFirst ==
  ASSUME NEW product, NEW at, NEW count \in Nat, NEW i \in 1 .. count, NEW level \in Level,
         ~SnapshotOf(sent[at].messages[i], product),
         level \notin Missed(product, at, at, i)
  PROVE  /\ level \notin Missed(product, at, at, i - 1)
         /\ (\E before \in 1 .. i - 1 : SnapshotOf(sent[at].messages[before], product)) =>
              ~Tells(sent[at].messages[i], product, level)
<1> DEFINE messages == sent[at].messages
<1>1. level \notin Dropped(messages, product, i)
  BY DEF Missed
<1>2. \A after \in i .. i : ~SnapshotOf(messages[after], product)
  OBVIOUS
<1>3. ASSUME \E before \in 1 .. i - 1 : SnapshotOf(messages[before], product),
             Tells(messages[i], product, level)
      PROVE  FALSE
  <2>1. i \in 1 .. i
    OBVIOUS
  <2>2. level \in Dropped(messages, product, i)
    BY <1>2, <1>3, <2>1 DEF Dropped
  <2>3. QED
    BY <1>1, <2>2
<1>4. ASSUME level \in Dropped(messages, product, i - 1) PROVE FALSE
  <2>1. PICK k \in 1 .. i - 1 :
          /\ Tells(messages[k], product, level)
          /\ \E before \in 1 .. k - 1 : SnapshotOf(messages[before], product)
          /\ \A after \in k .. i - 1 : ~SnapshotOf(messages[after], product)
    BY <1>4 DEF Dropped
  <2>2. k \in 1 .. i
    OBVIOUS
  <2>3. \A after \in k .. i : ~SnapshotOf(messages[after], product)
    <3>1. \A after \in k .. i : after = i \/ after \in k .. i - 1
      OBVIOUS
    <3>2. QED
      BY <2>1, <3>1
  <2>4. level \in Dropped(messages, product, i)
    BY <2>1, <2>2, <2>3 DEF Dropped
  <2>5. QED
    BY <1>1, <2>4
<1>5. QED
  BY <1>3, <1>4 DEF Missed

LEMMA LoopRounds ==
  ASSUME NEW messages \in Seq(Message), NEW sequence \in Timestamp, NEW verdict,
         NEW done, IsRunOf(done, messages, sequence, verdict)
  PROVE  \A i \in 1 .. Len(messages) :
           /\ done[i - 1] \in Progress /\ messages[i] \in Message
           /\ IsRound(done[i - 1], done[i], messages[i], sequence, verdict)
<1> SUFFICES ASSUME NEW i \in 1 .. Len(messages)
             PROVE  /\ done[i - 1] \in Progress /\ messages[i] \in Message
                    /\ IsRound(done[i - 1], done[i], messages[i], sequence, verdict)
  OBVIOUS
<1>1. i - 1 \in 0 .. Len(messages) /\ messages[i] \in Message
  OBVIOUS
<1>2. done[i - 1] \in Progress
  BY <1>1 DEF IsRunOf
<1>3. done[i] = AfterMessage(done[i - 1], messages[i], sequence, verdict)
  BY DEF IsRunOf
<1>4. QED
  BY <1>1, <1>2, <1>3, OneRound

\* What BookReconstructor::process makes of a message that is not behind a gap.
LEMMA Processed ==
  ASSUME NEW reconstructor \in Reconstructor, NEW message \in Message, NEW verdict,
         verdict # "Gap"
  PROVE  LET after == Process(reconstructor, message, verdict)
         IN  /\ ~Applies(reconstructor, message, verdict) => after = reconstructor
             /\ Applies(reconstructor, message, verdict) =>
                  /\ after.synchronized
                  /\ message.type = "snapshot" =>
                       after.book = ApplyUpdates(EmptyBook, message.levels)
                  /\ message.type # "snapshot" =>
                       /\ verdict = "InOrder" /\ reconstructor.synchronized
                       /\ after.book = ApplyUpdates(reconstructor.book, message.levels)
<1>1. reconstructor = [book |-> reconstructor.book, synchronized |-> reconstructor.synchronized]
        /\ reconstructor.synchronized \in BOOLEAN
  BY DEF Reconstructor
<1>2. ASSUME ~Applies(reconstructor, message, verdict)
      PROVE  Process(reconstructor, message, verdict) = reconstructor
  <2>1. Process(reconstructor, message, verdict) =
          [book |-> reconstructor.book, synchronized |-> reconstructor.synchronized]
    BY <1>1, <1>2 DEF Process
  <2>2. QED
    BY <1>1, <2>1
<1>3. QED
  BY <1>2 DEF Process, Applies

\* The same of a round, for the product of its message.
LEMMA RoundUnapplied ==
  ASSUME NEW was \in Progress, NEW is, NEW message \in Message, NEW sequence, NEW verdict,
         NEW product, product = message.product, verdict # "Gap",
         IsRound(was, is, message, sequence, verdict),
         ~Applies(was.books[product], message, verdict)
  PROVE  is.books[product] = was.books[product]
<1>1. was.books[product] \in Reconstructor
  BY DEF Message, Progress
<1>2. is.books[product] = Process(was.books[product], message, verdict)
  BY DEF IsRound
<1>3. QED
  BY <1>1, <1>2, Processed

\* What an applied message makes of a reconstructor.
Rebuilt(was, is, message, verdict) ==
  /\ message.type = "snapshot" => is.book = ApplyUpdates(EmptyBook, message.levels)
  /\ message.type # "snapshot" =>
       /\ verdict = "InOrder" /\ was.synchronized
       /\ is.book = ApplyUpdates(was.book, message.levels)

LEMMA RoundApplied ==
  ASSUME NEW was \in Progress, NEW is, NEW message \in Message, NEW sequence, NEW verdict,
         NEW product, product = message.product, verdict # "Gap",
         IsRound(was, is, message, sequence, verdict),
         Applies(was.books[product], message, verdict)
  PROVE  Rebuilt(was.books[product], is.books[product], message, verdict)
<1>1. was.books[product] \in Reconstructor
  BY DEF Message, Progress
<1>2. is.books[product] = Process(was.books[product], message, verdict)
  BY DEF IsRound
<1>3. QED
  BY <1>1, <1>2, Processed DEF Rebuilt

\* A level that a batch names gets its quantity, each other one keeps its own.
LEMMA AppliedLevel ==
  ASSUME NEW book, NEW levels, NEW level \in Level
  PROVE  /\ level \in DOMAIN levels => ApplyUpdates(book, levels)[level] = levels[level]
         /\ level \notin DOMAIN levels => ApplyUpdates(book, levels)[level] = book[level]
  BY DEF ApplyUpdates

\* A frame as the venue sends them.
IsRecorded(frame) ==
  /\ frame.messages \in Seq(Message)
  /\ frame.books \in [0 .. Len(frame.messages) -> [Product -> Book]]
  /\ RecordsBooks(frame)

\* One message of a recorded frame at a time: the reconstructor of a product stays
\* with the venue's book wherever it was, but for what it misses.
LEMMA RoundKeepsBook ==
  ASSUME NEW sequence \in Nat, IsRecorded(sent[sequence]),
         NEW product \in Product, NEW start \in Nat, NEW verdict \in {"First", "InOrder"},
         verdict = "First" <=> sequence = start,
         NEW i \in 1 .. Len(sent[sequence].messages),
         NEW before \in Progress, NEW after,
         IsRound(before, after, sent[sequence].messages[i], sequence, verdict),
         before.books[product].synchronized =>
           /\ IsBookAt(before.books[product].book, product, start, sequence, i - 1)
           /\ verdict = "First" =>
                \E j \in 1 .. i - 1 : SnapshotOf(sent[sequence].messages[j], product),
         after.books[product].synchronized
  PROVE  /\ IsBookAt(after.books[product].book, product, start, sequence, i)
         /\ verdict = "First" =>
              \E j \in 1 .. i : SnapshotOf(sent[sequence].messages[j], product)
<1> DEFINE messages == sent[sequence].messages
           books    == sent[sequence].books
           message  == messages[i]
           was      == before.books[product]
           is       == after.books[product]
<1>1. /\ Len(messages) \in Nat /\ message \in Message
      /\ i \in 0 .. Len(messages) /\ i - 1 \in 0 .. Len(messages)
      /\ \A j \in 1 .. i - 1 : j \in 1 .. i
      /\ i \in 1 .. i
  BY DEF IsRecorded
<1>2. /\ message.levels \in Batch /\ message.product \in Product
      /\ message.type \in {"snapshot", "update"}
  BY <1>1 DEF Message
<1>3. books[i] \in [Product -> Book] /\ books[i - 1] \in [Product -> Book]
  BY <1>1 DEF IsRecorded
<1>4. was \in Reconstructor
  BY DEF Progress
<1>5. /\ message.type = "snapshot" => message.levels = LevelsOf(books[i][message.product])
      /\ message.type # "snapshot" =>
           books[i][message.product] =
             ApplyUpdates(books[i - 1][message.product], message.levels)
      /\ \A other \in Product \ {message.product} : books[i][other] = books[i - 1][other]
  <2>1. DOMAIN messages = 1 .. Len(messages)
    BY DEF IsRecorded
  <2>2. QED
    BY <2>1 DEF IsRecorded, RecordsBooks
<1>6. verdict # "Gap"
  OBVIOUS
<1>7. CASE product # message.product
  <2>1. is = was
    BY <1>7 DEF IsRound
  <2>2. IsBookAt(was.book, product, start, sequence, i - 1)
    BY <2>1
  <2>3. books[i][product] = books[i - 1][product]
    BY <1>5, <1>7
  <2>4. ASSUME NEW level \in Level \ Missed(product, start, sequence, i)
        PROVE  is.book[level] = books[i][product][level]
    <3>1. level \notin Missed(product, start, sequence, i - 1)
      <4>1. CASE verdict = "First"
        <5>1. ~SnapshotOf(message, product)
          BY <1>7 DEF SnapshotOf
        <5>2. QED
          BY <1>1, <2>4, <4>1, <5>1, MissedFirst
      <4>2. CASE verdict # "First"
        <5>1. ~Tells(message, product, level)
          BY <1>7 DEF Tells
        <5>2. QED
          BY <1>1, <2>4, <4>2, <5>1, MissedLater
      <4>3. QED
        BY <4>1, <4>2
    <3>2. QED
      BY <2>1, <2>2, <2>3, <2>4, <3>1 DEF IsBookAt
  <2>5. QED
    BY <1>1, <2>1, <2>4 DEF IsBookAt
<1>8. CASE product = message.product /\ ~Applies(was, message, verdict)
  <2>1. is = was
    <3>1. message \in Message /\ product = message.product
      BY <1>1, <1>8
    <3>2. IsRound(before, after, message, sequence, verdict)
      OBVIOUS
    <3>3. ~Applies(before.books[product], message, verdict)
      BY <1>8
    <3> HIDE DEF message
    <3>4. QED
      BY <1>6, <3>1, <3>2, <3>3, RoundUnapplied
  <2>2. /\ was.synchronized
        /\ IsBookAt(was.book, product, start, sequence, i - 1)
    BY <2>1
  <2>3. verdict = "First" /\ message.type = "update"
    BY <1>2, <1>8, <2>2 DEF Applies
  <2>4. PICK j \in 1 .. i - 1 : SnapshotOf(messages[j], product)
    BY <2>2, <2>3
  <2>5. ASSUME NEW level \in Level \ Missed(product, start, sequence, i)
        PROVE  is.book[level] = books[i][product][level]
    <3>1. ~SnapshotOf(message, product)
      BY <2>3 DEF SnapshotOf
    <3>2. level \notin Missed(product, start, sequence, i - 1) /\ ~Tells(message, product, level)
      BY <1>1, <2>3, <2>4, <2>5, <3>1, MissedFirst
    <3>3. level \notin DOMAIN message.levels
      BY <1>8, <3>2 DEF Tells
    <3>4. books[i][product] = ApplyUpdates(books[i - 1][product], message.levels)
      BY <1>5, <1>8, <2>3
    <3>5. books[i][product][level] = books[i - 1][product][level]
      BY <2>5, <3>3, <3>4, AppliedLevel
    <3>6. QED
      BY <2>1, <2>2, <2>5, <3>2, <3>5 DEF IsBookAt
  <2>6. QED
    BY <1>1, <2>4, <2>5 DEF IsBookAt
<1>9. CASE product = message.product /\ Applies(was, message, verdict)
  <2>1. /\ message.type = "snapshot" => is.book = ApplyUpdates(EmptyBook, message.levels)
        /\ message.type # "snapshot" =>
             /\ verdict = "InOrder" /\ was.synchronized
             /\ is.book = ApplyUpdates(was.book, message.levels)
    <3>1. message \in Message /\ product = message.product
      BY <1>1, <1>9
    <3>2. IsRound(before, after, message, sequence, verdict)
      OBVIOUS
    <3>3. Applies(before.books[product], message, verdict)
      BY <1>9
    <3> HIDE DEF message
    <3>4. Rebuilt(before.books[product], after.books[product], message, verdict)
      BY <1>6, <3>1, <3>2, <3>3, RoundApplied
    <3>5. QED
      BY <3>4 DEF Rebuilt
  <2>2. CASE message.type = "snapshot"
    <3>1. is.book = ApplyUpdates(EmptyBook, message.levels)
      BY <2>1, <2>2
    <3>2. is.book = books[i][product]
      BY <1>3, <1>5, <1>9, <2>2, <3>1, SnapshotRoundTrip
    <3>3. SnapshotOf(messages[i], product)
      BY <1>9, <2>2 DEF SnapshotOf
    <3>4. QED
      BY <1>1, <3>2, <3>3 DEF IsBookAt
  <2>3. CASE message.type # "snapshot"
    <3>1. /\ verdict = "InOrder" /\ was.synchronized
          /\ is.book = ApplyUpdates(was.book, message.levels)
      BY <2>1, <2>3
    <3>2. IsBookAt(was.book, product, start, sequence, i - 1) /\ sequence # start
      BY <3>1
    <3>3. books[i][product] = ApplyUpdates(books[i - 1][product], message.levels)
      BY <1>5, <1>9, <2>3
    <3>4. ASSUME NEW level \in Level \ Missed(product, start, sequence, i)
          PROVE  is.book[level] = books[i][product][level]
      <4>1. \/ level \notin Missed(product, start, sequence, i - 1)
            \/ Tells(message, product, level)
        BY <1>1, <3>2, <3>4, MissedLater
      <4>2. CASE level \in DOMAIN message.levels
        BY <3>1, <3>3, <3>4, <4>2, AppliedLevel
      <4>3. CASE level \notin DOMAIN message.levels
        <5>1. level \notin Missed(product, start, sequence, i - 1)
          BY <2>3, <4>1, <4>3 DEF Tells
        <5>2. was.book[level] = books[i - 1][product][level]
          BY <3>2, <3>4, <5>1 DEF IsBookAt
        <5>3. QED
          BY <3>1, <3>3, <3>4, <4>3, <5>2, AppliedLevel
      <4>4. QED
        BY <4>2, <4>3
    <3>5. QED
      BY <3>1, <3>4 DEF IsBookAt
  <2>4. QED
    BY <2>2, <2>3
<1>10. QED
  BY <1>7, <1>8, <1>9

\* After any number of its messages, a frame that is first or in order leaves each
\* synchronized book the venue's of that place, but for what is missed.
LEMMA LoopBooks ==
  ASSUME NEW sequence \in Nat, sequence \in Timestamp, IsRecorded(sent[sequence]),
         NEW product \in Product, NEW start \in Nat, NEW verdict \in {"First", "InOrder"},
         verdict = "First" <=> sequence = start,
         NEW done, IsRunOf(done, sent[sequence].messages, sequence, verdict),
         reconstructors[product].synchronized =>
           /\ IsBookAt(reconstructors[product].book, product, start, sequence, 0)
           /\ verdict = "InOrder"
  PROVE  \A i \in 0 .. Len(sent[sequence].messages) :
           done[i].books[product].synchronized =>
             IsBookAt(done[i].books[product].book, product, start, sequence, i)
<1> DEFINE messages == sent[sequence].messages
           length == Len(messages)
           Keeps(i) ==
             done[i].books[product].synchronized =>
               /\ IsBookAt(done[i].books[product].book, product, start, sequence, i)
               /\ verdict = "First" =>
                    \E j \in 1 .. i : SnapshotOf(messages[j], product)
           kept == {i \in 0 .. length : Keeps(i)}
<1>1. messages \in Seq(Message) /\ length \in Nat
  BY DEF IsRecorded
<1>2. done[0].books = reconstructors
  BY DEF IsRunOf
<1>3. 0 \in kept
  BY <1>1, <1>2
<1>4. ASSUME NEW i \in 1 .. length, i - 1 \in kept PROVE i \in kept
  <2>1. /\ done[i - 1] \in Progress
        /\ IsRound(done[i - 1], done[i], messages[i], sequence, verdict)
    BY <1>1, LoopRounds
  <2>2. Keeps(i - 1)
    BY <1>4
  <2>3. ASSUME done[i].books[product].synchronized
        PROVE  /\ IsBookAt(done[i].books[product].book, product, start, sequence, i)
               /\ verdict = "First" => \E j \in 1 .. i : SnapshotOf(messages[j], product)
    BY <2>1, <2>2, <2>3, RoundKeepsBook
  <2>4. i \in 0 .. length
    BY <1>1
  <2>5. QED
    BY <2>3, <2>4
<1> HIDE DEF kept, length
<1>5. \A i \in 0 .. length : i \in kept
  BY ONLY <1>1, <1>3, <1>4, CountingUp
<1>6. QED
  BY <1>5 DEF kept, length

\* No event of the product is among these.
Unnamed(events, product) == \A k \in DOMAIN events : product \notin DOMAIN events[k]

\* No event of the product comes behind the k-th batch.
IsLast(events, k, product) ==
  \A after \in DOMAIN events : after > k => product \notin DOMAIN events[after]

\* The events of a frame tell, of products it names, books of that frame, an update
\* only where the book was told before, and the last one what was made of the book;
\* where nothing is told nothing was done.
EventsFollow(events, books, products, start, sequence) ==
  /\ \A k \in DOMAIN events : \A product \in DOMAIN events[k] :
       LET event == events[k][product]
       IN  /\ product \in products /\ books[product].synchronized
           /\ event.kind = "book" /\ event.type \in {"Snapshot", "Update"}
           /\ event.timestamp = sequence /\ event.book \in BooksOf(product, start, sequence)
           /\ event.type = "Update" =>
                \/ reconstructors[product].synchronized
                \/ \E before \in 1 .. k - 1 : product \in DOMAIN events[before]
           /\ IsLast(events, k, product) => event.book = books[product].book
  /\ \A product \in Product :
       Unnamed(events, product) => books[product] = reconstructors[product]

LEMMA RoundAddsEvent ==
  ASSUME NEW sequence \in Nat, IsRecorded(sent[sequence]),
         NEW start, NEW verdict, verdict # "Gap", NEW products \in SUBSET Product,
         NEW i \in 1 .. Len(sent[sequence].messages),
         sent[sequence].messages[i].product \in products,
         NEW before \in Progress, NEW after,
         IsRound(before, after, sent[sequence].messages[i], sequence, verdict),
         \A product \in Product : after.books[product].synchronized =>
           IsBookAt(after.books[product].book, product, start, sequence, i),
         EventsFollow(before.events, before.books, products, start, sequence)
  PROVE  EventsFollow(after.events, after.books, products, start, sequence)
<1> DEFINE message == sent[sequence].messages[i]
           named   == message.product
           applied == Applies(before.books[named], message, verdict)
<1>1. message \in Message /\ i \in DOMAIN sent[sequence].messages
  BY DEF IsRecorded
<1>2. before.books[named] \in Reconstructor /\ named \in Product
  BY <1>1 DEF Message, Progress
<1>3. /\ after \in Progress
      /\ after.books[named] = Process(before.books[named], message, verdict)
      /\ \A other \in Product \ {named} : after.books[other] = before.books[other]
  BY DEF IsRound
<1>4. CASE ~applied
  <2>1. after.events = before.events
    BY <1>4 DEF IsRound
  <2>2. after.books[named] = before.books[named]
    <3> HIDE DEF message
    <3>1. QED
      BY <1>1, <1>2, <1>3, <1>4, Processed
  <2>3. \A product \in Product : after.books[product] = before.books[product]
    BY <1>3, <2>2
  <2>4. QED
    BY <2>1, <2>3 DEF EventsFollow
<1>5. CASE applied
  <2> DEFINE event  == EventOf(message, after.books[named], sequence)
             added  == [product \in {named} |-> event]
             events == before.events
             end    == Len(events) + 1
  <2>1. after.events = Append(events, added)
    BY <1>5 DEF IsRound
  <2>2. /\ events \in Seq(Events) /\ Len(events) \in Nat /\ DOMAIN events = 1 .. Len(events)
    BY DEF Progress
  <2>3. /\ event.kind = "book" /\ event.type \in {"Snapshot", "Update"}
        /\ event.timestamp = sequence /\ event.book = after.books[named].book
        /\ event.type = "Update" => message.type # "snapshot"
    BY DEF EventOf, BookEvent
  <2>4. DOMAIN added = {named} /\ added[named] = event
    OBVIOUS
  <2> HIDE DEF event, added
  <2>5. /\ DOMAIN after.events = 1 .. end /\ end \in DOMAIN after.events
        /\ after.events[end] = added
        /\ \A k \in DOMAIN events : /\ k \in DOMAIN after.events /\ k < end
                                    /\ after.events[k] = events[k]
    BY <2>1, <2>2
  <2>6. \A k \in DOMAIN after.events : k = end \/ k \in DOMAIN events
    BY <2>2, <2>5
  <2> HIDE DEF end
  <2>7. /\ after.books[named].synchronized
        /\ message.type # "snapshot" => before.books[named].synchronized
    <3> HIDE DEF message
    <3>1. QED
      BY <1>5, <1>3 DEF Process, Applies
  <2>8. event.book \in BooksOf(named, start, sequence)
    <3>1. after.books[named].book \in Book
      BY <1>2, <1>3 DEF Progress, Reconstructor
    <3>2. IsBookAt(after.books[named].book, named, start, sequence, i)
      BY <1>2, <2>7
    <3>3. QED
      BY <1>1, <2>3, <3>1, <3>2 DEF BooksOf
  <2>9. ASSUME NEW k \in DOMAIN after.events, NEW product \in DOMAIN after.events[k]
        PROVE  LET e == after.events[k][product]
               IN  /\ product \in products /\ after.books[product].synchronized
                   /\ e.kind = "book" /\ e.type \in {"Snapshot", "Update"}
                   /\ e.timestamp = sequence /\ e.book \in BooksOf(product, start, sequence)
                   /\ e.type = "Update" =>
                        \/ reconstructors[product].synchronized
                        \/ \E earlier \in 1 .. k - 1 : product \in DOMAIN after.events[earlier]
                   /\ IsLast(after.events, k, product) => e.book = after.books[product].book
    <3>1. CASE k = end
      <4>1. product = named /\ after.events[k][product] = event
        BY <2>4, <2>5, <2>9, <3>1
      <4>2. ASSUME event.type = "Update"
            PROVE  \/ reconstructors[named].synchronized
                   \/ \E earlier \in 1 .. k - 1 : named \in DOMAIN after.events[earlier]
        <5>1. before.books[named].synchronized
          BY <2>3, <2>7, <4>2
        <5>2. CASE Unnamed(events, named)
          BY <1>2, <5>1, <5>2 DEF EventsFollow
        <5>3. CASE ~Unnamed(events, named)
          <6>1. PICK earlier \in DOMAIN events : named \in DOMAIN events[earlier]
            BY <5>3 DEF Unnamed
          <6>2. earlier \in 1 .. k - 1
            BY <2>2, <3>1 DEF end
          <6>3. QED
            BY <2>5, <6>1, <6>2
        <5>4. QED
          BY <5>2, <5>3
      <4>3. QED
        BY <2>3, <2>7, <2>8, <4>1, <4>2
    <3>2. CASE k \in DOMAIN events
      <4>1. after.events[k] = events[k] /\ product \in DOMAIN events[k]
        BY <2>5, <2>9, <3>2
      <4> DEFINE e == events[k][product]
      <4>2. /\ product \in products /\ before.books[product].synchronized
            /\ e.kind = "book" /\ e.type \in {"Snapshot", "Update"}
            /\ e.timestamp = sequence /\ e.book \in BooksOf(product, start, sequence)
            /\ e.type = "Update" =>
                 \/ reconstructors[product].synchronized
                 \/ \E earlier \in 1 .. k - 1 : product \in DOMAIN events[earlier]
            /\ IsLast(events, k, product) => e.book = before.books[product].book
        BY <3>2, <4>1 DEF EventsFollow
      <4> HIDE DEF e
      <4>3. after.books[product].synchronized
        BY <1>3, <2>7, <4>2
      <4>4. ASSUME NEW earlier \in 1 .. k - 1, product \in DOMAIN events[earlier]
            PROVE  product \in DOMAIN after.events[earlier]
        <5>1. earlier \in DOMAIN events
          BY <2>2, <3>2
        <5>2. QED
          BY <2>5, <4>4, <5>1
      <4>5. ASSUME IsLast(after.events, k, product) PROVE e.book = after.books[product].book
        <5>1. product # named
          BY <2>4, <2>5, <3>2, <4>5 DEF IsLast
        <5>2. IsLast(events, k, product)
          BY <2>5, <4>5 DEF IsLast
        <5>3. QED
          BY <1>3, <4>2, <5>1, <5>2
      <4>6. QED
        BY <4>1, <4>2, <4>3, <4>4, <4>5 DEF e
    <3>3. QED
      BY <2>6, <3>1, <3>2
  <2>10. ASSUME NEW product \in Product, Unnamed(after.events, product)
         PROVE  after.books[product] = reconstructors[product]
    <3>1. product # named
      BY <2>4, <2>5, <2>10 DEF Unnamed
    <3>2. Unnamed(events, product)
      BY <2>5, <2>10 DEF Unnamed
    <3>3. QED
      BY <1>3, <3>1, <3>2 DEF EventsFollow
  <2>11. QED
    BY <2>9, <2>10 DEF EventsFollow
<1>6. QED
  BY <1>4, <1>5

LEMMA LoopEvents ==
  ASSUME NEW sequence \in Nat, sequence \in Timestamp, IsRecorded(sent[sequence]),
         NEW start \in Nat, NEW verdict \in {"First", "InOrder"},
         verdict = "First" <=> sequence = start,
         NEW done, IsRunOf(done, sent[sequence].messages, sequence, verdict),
         \A product \in Product : reconstructors[product].synchronized =>
           /\ IsBookAt(reconstructors[product].book, product, start, sequence, 0)
           /\ verdict = "InOrder",
         pending = <<>>, NEW products \in SUBSET Product,
         \A i \in DOMAIN sent[sequence].messages :
           sent[sequence].messages[i].product \in products
  PROVE  \A i \in 0 .. Len(sent[sequence].messages) :
           EventsFollow(done[i].events, done[i].books, products, start, sequence)
<1> DEFINE messages == sent[sequence].messages
           length == Len(messages)
           Follows(i) == EventsFollow(done[i].events, done[i].books, products, start, sequence)
           good == {i \in 0 .. length : Follows(i)}
<1>1. messages \in Seq(Message) /\ length \in Nat /\ DOMAIN messages = 1 .. length
  BY DEF IsRecorded
<1>2. done[0].books = reconstructors /\ done[0].events = <<>>
  BY DEF IsRunOf
<1>3. 0 \in good
  BY <1>1, <1>2 DEF EventsFollow
<1>4. ASSUME NEW i \in 1 .. length, i - 1 \in good PROVE i \in good
  <2>1. /\ done[i - 1] \in Progress
        /\ IsRound(done[i - 1], done[i], messages[i], sequence, verdict)
    BY <1>1, LoopRounds
  <2>2. Follows(i - 1)
    BY <1>4
  <2>3. i \in 0 .. length /\ messages[i].product \in products
    BY <1>1
  <2>4. \A product \in Product : done[i].books[product].synchronized =>
          IsBookAt(done[i].books[product].book, product, start, sequence, i)
    BY <2>3, LoopBooks
  <2>5. verdict # "Gap"
    OBVIOUS
  <2>6. Follows(i)
    BY <2>1, <2>2, <2>3, <2>4, <2>5, RoundAddsEvent
  <2>7. QED
    BY <2>3, <2>6
<1> HIDE DEF good, length
<1>5. \A i \in 0 .. length : i \in good
  BY ONLY <1>1, <1>3, <1>4, CountingUp
<1>6. QED
  BY <1>5 DEF good, length

(***************************************************************************)
(* Type correctness.                                                       *)
(***************************************************************************)

LEMMA FrameTypes ==
  ASSUME TypeOK, NEW n \in DOMAIN sent
  PROVE  /\ sent[n].messages \in Seq(Message)
         /\ sent[n].books \in [0 .. Len(sent[n].messages) -> [Product -> Book]]
         /\ n \in 1 .. Len(sent) /\ n \in 0 .. MaxSequence
<1>1. /\ sent[n] \in Frame /\ n \in 1 .. Len(sent) /\ Len(sent) \in Nat
      /\ Len(sent) <= MaxSequence
      /\ DOMAIN sent[n].books = 0 .. Len(sent[n].messages)
  BY DEF TypeOK
<1>2. sent[n].messages \in Seq(Message)
  BY <1>1 DEF Frame
<1>3. PICK length \in 0 .. FrameLength : sent[n].books \in [0 .. length -> [Product -> Book]]
  BY <1>1 DEF Frame
<1>4. DOMAIN sent[n].books = 0 .. length
  BY <1>3
<1>5. sent[n].books \in [0 .. Len(sent[n].messages) -> [Product -> Book]]
  BY <1>1, <1>3, <1>4
<1>6. n \in 0 .. MaxSequence
  BY <1>1, MaxSequenceAssumption
<1>7. QED
  BY <1>1, <1>2, <1>5, <1>6

\* What sending a frame does: it is recorded behind the books there were.
LEMMA VenueSends ==
  ASSUME TypeOK, VenueSend
  PROVE  \E frame \in Frame :
           /\ IsRecorded(frame) /\ frame.books[0] = venueBooks
           /\ venueBooks' = LastBooks(frame) /\ venueBooks' \in [Product -> Book]
           /\ sent' = Append(sent, frame) /\ Len(sent) < MaxSequence
           /\ UNCHANGED <<first, phase, sessionVars, runnerVars, store>>
<1>1. PICK length \in 0 .. FrameLength : \E sayings \in [1 .. length -> Saying] :
        /\ venueBooks' = BooksBehind(sayings)[length]
        /\ sent' = Append(sent, FrameOf(sayings, BooksBehind(sayings)))
  BY DEF VenueSend
<1>2. PICK sayings \in [1 .. length -> Saying] :
        /\ venueBooks' = BooksBehind(sayings)[length]
        /\ sent' = Append(sent, FrameOf(sayings, BooksBehind(sayings)))
  BY <1>1
<1> DEFINE frame == FrameOf(sayings, BooksBehind(sayings))
<1>3. /\ frame \in Frame /\ RecordsBooks(frame)
      /\ frame.messages \in Seq(Message)
      /\ DOMAIN frame.books = 0 .. Len(frame.messages)
      /\ frame.books[0] = venueBooks
      /\ LastBooks(frame) = BooksBehind(sayings)[length]
      /\ LastBooks(frame) \in [Product -> Book]
  BY FrameOfRecords DEF TypeOK
<1> HIDE DEF frame
<1>4. PICK size \in 0 .. FrameLength : frame.books \in [0 .. size -> [Product -> Book]]
  BY <1>3 DEF Frame
<1>5. DOMAIN frame.books = 0 .. size
  BY <1>4
<1>6. frame.books \in [0 .. Len(frame.messages) -> [Product -> Book]]
  BY <1>3, <1>4, <1>5
<1>7. IsRecorded(frame)
  BY <1>3, <1>6 DEF IsRecorded
<1>8. sent' = Append(sent, frame) /\ venueBooks' = LastBooks(frame)
  BY <1>2, <1>3 DEF frame
<1>9. Len(sent) < MaxSequence /\ UNCHANGED <<first, phase, sessionVars, runnerVars, store>>
  BY DEF VenueSend
<1>10. QED
  BY <1>3, <1>7, <1>8, <1>9

\* The venue's frames are frames.
LEMMA VenueSendType ==
  ASSUME TypeOK, VenueSend
  PROVE  TypeOK'
<1>1. PICK frame \in Frame :
        /\ IsRecorded(frame) /\ venueBooks' \in [Product -> Book]
        /\ sent' = Append(sent, frame) /\ Len(sent) < MaxSequence
        /\ UNCHANGED <<first, phase, sessionVars, runnerVars, store>>
  BY VenueSends
<1>2. /\ sent' \in Seq(Frame) /\ Len(sent') = Len(sent) + 1 /\ Len(sent) \in Nat
      /\ \A n \in DOMAIN sent' : (n \in DOMAIN sent /\ sent'[n] = sent[n]) \/ sent'[n] = frame
  BY <1>1 DEF TypeOK
<1>3. Len(sent') <= MaxSequence
  BY <1>1, <1>2, MaxSequenceAssumption
<1>4. DOMAIN frame.books = 0 .. Len(frame.messages)
  BY <1>1 DEF IsRecorded
<1>5. \A n \in DOMAIN sent' : DOMAIN sent'[n].books = 0 .. Len(sent'[n].messages)
  BY <1>2, <1>4 DEF TypeOK
<1>6. QED
  BY <1>1, <1>2, <1>3, <1>5 DEF TypeOK, sessionVars, runnerVars

LEMMA OpenSessionType ==
  ASSUME TypeOK, OpenSession
  PROVE  TypeOK'
<1>1. /\ StatusForAll(SupportedProducts, "Connecting") \in Events
      /\ StatusForAll(SupportedProducts, "WaitingForSnapshot") \in Events
  BY StatusForAllType DEF SupportedProducts, NonLiveStatus
<1>2. pending' \in Seq(Events)
  BY <1>1 DEF OpenSession
<1>3. reconstructors' \in [Product -> Reconstructor]
  BY NewReconstructorType DEF OpenSession
<1>4. /\ phase' \in Phase /\ universe' \subseteq Product /\ last' \in TrackerState
      /\ rejected' \subseteq universe' /\ reconnectRequired' \in BOOLEAN
  BY DEF OpenSession, Phase, SupportedProducts, TrackerState
<1>5. QED
  BY <1>2, <1>3, <1>4 DEF OpenSession, TypeOK, runnerVars, venueVars

LEMMA SessionFailsType ==
  ASSUME TypeOK, SessionFails
  PROVE  TypeOK'
<1>1. reconstructors' \in [Product -> Reconstructor]
  BY NewReconstructorType DEF SessionFails
<1>2. pending' \in Seq(Events)
  BY DEF SessionFails
<1>3. /\ phase' \in Phase /\ universe' \subseteq Product /\ last' \in TrackerState
      /\ rejected' \subseteq universe' /\ reconnectRequired' \in BOOLEAN
      /\ untold' \subseteq Product
  BY DEF SessionFails, Phase, SupportedProducts, TrackerState
<1>4. QED
  BY <1>1, <1>2, <1>3 DEF SessionFails, TypeOK, venueVars

LEMMA PublishPendingType ==
  ASSUME TypeOK, NEW product \in Product, PublishPending(product)
  PROVE  TypeOK'
<1> DEFINE event == Head(pending)[product]
<1>1. CASE SessionFails
  BY <1>1, SessionFailsType
<1>2. CASE ~SessionFails
  <2>1. /\ pending # <<>> /\ product \in DOMAIN Head(pending)
        /\ pending' = Remaining(product)
        /\ unsupported' \in {unsupported, unsupported \cup {product}}
        /\ nominal' = BackoffAfter(event)
        /\ store' = Published(product, event)
        /\ UNCHANGED <<venueVars, phase, universe, last, reconstructors, rejected,
                       reconnectRequired, untold>>
    BY <1>2 DEF PublishPending
  <2>2. Head(pending) \in Events /\ Remaining(product) \in Seq(Events)
    BY <2>1, RemainingType DEF TypeOK
  <2>3. event \in MarketEvent
    BY <2>1, <2>2 DEF Events
  <2>4. ApplyEvent(store[product], event) \in Entry
    BY <2>3, ApplyEventType DEF TypeOK
  <2>5. store' \in [Product -> Entry]
    BY <2>1, <2>4 DEF Published, TypeOK
  <2>6. nominal' \in NominalDelay
    BY <2>1, DelayAssumption DEF BackoffAfter, NominalDelay, TypeOK
  <2>7. QED
    BY <2>1, <2>2, <2>5, <2>6 DEF TypeOK, venueVars
<1>3. QED
  BY <1>1, <1>2

LEMMA ReadRejectionType ==
  ASSUME TypeOK, NEW product \in Product, ReadRejection(product)
  PROVE  TypeOK'
<1>1. reconstructors' \in [Product -> Reconstructor]
  BY MarkDesynchronizedType DEF ReadRejection, TypeOK
<1>2. StatusForAll({product}, "Unsupported") \in Events
  BY StatusForAllType DEF NonLiveStatus
<1>3. pending' \in Seq(Events)
  BY <1>2 DEF ReadRejection
<1>4. QED
  BY <1>1, <1>3 DEF ReadRejection, TypeOK, venueVars, runnerVars

LEMMA InvalidateAllType ==
  ASSUME TypeOK, InvalidateAll
  PROVE  TypeOK'
<1>1. reconstructors' \in [Product -> Reconstructor]
  BY MarkDesynchronizedType DEF InvalidateAll, TypeOK
<1>2. [product \in universe \ rejected |-> InvalidatedEvent]
        \in [universe \ rejected -> MarketEvent]
  BY EventTypes
<1>3. [product \in universe \ rejected |-> InvalidatedEvent] \in Events
  BY <1>2 DEF Events, TypeOK
<1>4. pending' \in Seq(Events)
  BY <1>3 DEF InvalidateAll
<1>5. QED
  BY <1>1, <1>4 DEF InvalidateAll, TypeOK, venueVars, runnerVars

LEMMA ReconstructBooksType ==
  ASSUME TypeOK, NEW sequence \in DOMAIN sent, NEW verdict,
         ReconstructBooks(sent[sequence], sequence, verdict)
  PROVE  TypeOK'
<1> DEFINE messages == sent[sequence].messages
           after    == AfterMessages(messages, sequence, verdict)
<1>1. messages \in Seq(Message) /\ sequence \in 0 .. MaxSequence
  BY FrameTypes
<1>2. sequence \in Timestamp
  BY <1>1, FramesAreTimestamped
<1>3. reconstructors \in [Product -> Reconstructor] /\ pending \in Seq(Events)
  BY DEF TypeOK
<1>4. after \in Progress
  <2>1. PICK done : IsRunOf(done, messages, sequence, verdict)
    BY <1>1, <1>2, <1>3, LoopRuns
  <2>2. Len(messages) \in 0 .. Len(messages)
    BY <1>1
  <2>3. QED
    BY <2>1, <2>2 DEF IsRunOf
<1>5. /\ reconstructors' = after.books
      /\ pending' = after.events
      /\ last' = Observe(last, sequence)
      /\ first' \in {sequence, first}
      /\ UNCHANGED <<venueBooks, sent, phase, universe, rejected, reconnectRequired,
                     runnerVars, store>>
  BY DEF ReconstructBooks
<1> HIDE DEF after
<1>6. reconstructors' \in [Product -> Reconstructor] /\ pending' \in Seq(Events)
  BY <1>4, <1>5 DEF Progress
<1>7. last' \in TrackerState /\ first' \in TrackerState
  BY <1>1, <1>5, ObserveType DEF TypeOK, TrackerState
<1>8. QED
  BY <1>5, <1>6, <1>7 DEF TypeOK, runnerVars

LEMMA InitTypeOK == Init => TypeOK
<1> SUFFICES ASSUME Init PROVE TypeOK
  OBVIOUS
<1>1. reconstructors \in [Product -> Reconstructor]
  BY NewReconstructorType DEF Init
<1>2. InitialEntry \in Entry
  BY TimestampAssumption
     DEF InitialEntry, Entry, VenueMarketStatus, NonLiveStatus
<1>3. store \in [Product -> Entry]
  BY <1>2 DEF Init
<1>4. venueBooks \in [Product -> Book]
  BY OpeningBookAssumption DEF Init
<1>5. nominal \in NominalDelay
  BY DelayAssumption DEF Init, NominalDelay
<1>6. sent \in Seq(Frame) /\ Len(sent) <= MaxSequence /\ pending \in Seq(Events)
  BY MaxSequenceAssumption DEF Init
<1>7. DOMAIN sent = {}
  BY DEF Init
<1>8. QED
  BY <1>1, <1>3, <1>4, <1>5, <1>6, <1>7 DEF Init, TypeOK, Phase, TrackerState

LEMMA NextTypeOK == TypeOK /\ [Next]_vars => TypeOK'
<1> SUFFICES ASSUME TypeOK, [Next]_vars PROVE TypeOK'
  OBVIOUS
<1>1. CASE VenueSend
  BY <1>1, VenueSendType
<1>2. CASE OpenSession
  BY <1>2, OpenSessionType
<1>3. CASE ConnectFails
  BY <1>3, SessionFailsType DEF ConnectFails
<1>4. ASSUME NEW product \in Product, PublishPending(product) PROVE TypeOK'
  BY <1>4, PublishPendingType
<1>5. CASE ReconnectAfterGap
  BY <1>5, SessionFailsType DEF ReconnectAfterGap
<1>6. ASSUME NEW product \in Product, TellDisconnected(product) PROVE TypeOK'
  <2>1. SetStatus(store[product], "Disconnected") \in Entry
    BY SetStatusType DEF TypeOK, NonLiveStatus
  <2>2. store' \in [Product -> Entry]
    BY <1>6, <2>1 DEF TellDisconnected, TypeOK
  <2>3. QED
    BY <1>6, <2>2 DEF TellDisconnected, TypeOK, venueVars, sessionVars
<1>7. CASE AllToldDisconnected
  <2>1. nominal' \in NominalDelay
    BY <1>7, LengthenedType DEF AllToldDisconnected, TypeOK
  <2>2. venueBooks' \in [Product -> Book]
    BY <1>7, OpeningBookAssumption DEF AllToldDisconnected, TypeOK
  <2>3. sent' \in Seq(Frame) /\ Len(sent') <= MaxSequence
    BY <1>7, MaxSequenceAssumption DEF AllToldDisconnected
  <2>4. DOMAIN sent' = {} /\ first' \in TrackerState
    BY <1>7 DEF AllToldDisconnected, TrackerState
  <2>5. phase' \in Phase /\ untold' \subseteq Product
    BY <1>7 DEF AllToldDisconnected, TypeOK, Phase, SupportedProducts
  <2>6. QED
    BY <1>7, <2>1, <2>2, <2>3, <2>4, <2>5 DEF AllToldDisconnected, TypeOK, sessionVars
<1>8. ASSUME NEW product \in Product, TellReconnecting(product) PROVE TypeOK'
  <2>1. SetStatus(store[product], "Reconnecting") \in Entry
    BY SetStatusType DEF TypeOK, NonLiveStatus
  <2>2. store' \in [Product -> Entry]
    BY <1>8, <2>1 DEF TellReconnecting, TypeOK
  <2>3. QED
    BY <1>8, <2>2 DEF TellReconnecting, TypeOK, venueVars, sessionVars
<1>9. CASE WakeUp
  BY <1>9 DEF WakeUp, TypeOK, Phase, venueVars, sessionVars, runnerVars
<1>10. ASSUME NEW sequence \in DOMAIN sent, ReadFrame(sequence) PROVE TypeOK'
  BY <1>10, InvalidateAllType, ReconstructBooksType, SessionFailsType DEF ReadFrame
<1>11. ASSUME NEW product \in Product, ReadRejection(product) PROVE TypeOK'
  BY <1>11, ReadRejectionType
<1>12. CASE WireFails
  BY <1>12, SessionFailsType DEF WireFails
<1>13. CASE UNCHANGED vars
  BY <1>13 DEF vars, TypeOK, venueVars, sessionVars, runnerVars
<1>14. QED
  BY <1>1, <1>2, <1>3, <1>4, <1>5, <1>6, <1>7, <1>8, <1>9, <1>10, <1>11, <1>12, <1>13
     DEF Next, RunnerStep, ReadStep

\* Every state of the session, its runner and the store is well formed: books are
\* books, no more than MaxSequence frames are numbered, the backoff stays within
\* its configured delays, rejected products belong to the session.
THEOREM TypeCorrect == Spec => []TypeOK
<1>1. QED
  BY InitTypeOK, NextTypeOK, PTL DEF Spec

(***************************************************************************)
(* The inductive invariant.                                                *)
(***************************************************************************)

Synchronized(product) == reconstructors[product].synchronized
Live(product) == store[product].status = "Live"

Settled(product) == Unnamed(pending, product)

\* Each frame's books go on from those of the frame before, as its messages say,
\* and the last one's are the venue's.
FramesRecordBooks ==
  /\ \A n \in DOMAIN sent :
       /\ RecordsBooks(sent[n])
       /\ n > 1 => sent[n].books[0] = LastBooks(sent[n - 1])
  /\ Len(sent) > 0 => venueBooks = LastBooks(sent[Len(sent)])

\* The session's reading began with a frame of this connection and got to another.
ReadingBegan ==
  phase = "reading" /\ last # NoSequence => last \in DOMAIN sent /\ first \in 1 .. last

\* Without a session nothing is pending, nothing synchronized.
NoSessionNoState ==
  phase # "reading" =>
    /\ last = NoSequence
    /\ pending = <<>> /\ rejected = {} /\ ~reconnectRequired
    /\ \A product \in Product : ~Synchronized(product)

\* Where the runner has still to tell somebody, and that those are supported.
UntoldAreSupported ==
  /\ untold \cap unsupported = {}
  /\ phase \in {"reading", "connecting"} => untold = {}

\* What an event still pending says agrees with the session: a book is one that the
\* last frame told.
PendingAgrees ==
  \A i \in DOMAIN pending : \A product \in DOMAIN pending[i] :
    LET event == pending[i][product]
    IN  /\ product \in universe
        /\ event.kind = "status" => ~Synchronized(product)
        /\ event.kind = "book" =>
             \/ event.type = "Invalidated" /\ ~Synchronized(product)
             \/ /\ event.type \in {"Snapshot", "Update"}
                /\ Synchronized(product) /\ ~reconnectRequired
                /\ event.timestamp = last
                /\ event.book \in BooksOf(product, first, last)

\* A pending update finds its market live, or another book event before it.
UpdatesFindLive ==
  \A i \in DOMAIN pending : \A product \in DOMAIN pending[i] :
    pending[i][product].kind = "book" /\ pending[i][product].type = "Update" =>
      \/ Live(product)
      \/ \E before \in 1 .. i - 1 : product \in DOMAIN pending[before]

\* The last book pending of a product is the session's.
LastPendingIsCurrent ==
  \A i \in DOMAIN pending : \A product \in DOMAIN pending[i] :
    /\ pending[i][product].kind = "book" /\ pending[i][product].type # "Invalidated"
    /\ IsLast(pending, i, product)
    => pending[i][product].book = reconstructors[product].book

\* A market with no event pending is shown as the session knows it.
SettledAgrees ==
  phase = "reading" =>
    \A product \in Product : Settled(product) =>
      /\ Live(product) <=> Synchronized(product)
      /\ Live(product) => store[product].book = reconstructors[product].book

\* What a session shows live is one of its products, no newer than its tracker.
LiveIsFollowed ==
  phase = "reading" =>
    \A product \in Product : Live(product) =>
      /\ product \in universe
      /\ last \in DOMAIN sent
      /\ store[product].timestamp <= last

\* After a gap the markets still live have their invalidation pending.
GapIsPending ==
  phase = "reading" /\ reconnectRequired =>
    \A product \in Product : Live(product) => ~Settled(product)

\* The runner learns of a rejection before anything else happens.
RejectionIsPending ==
  \A product \in rejected \ unsupported :
    pending = <<StatusForAll({product}, "Unsupported")>>

\* The runner's own rejections are the ones on display.
UnsupportedIsShown ==
  \A product \in Product :
    store[product].status = "Unsupported" <=> product \in unsupported

IInv ==
  /\ TypeOK
  /\ FramesRecordBooks
  /\ ReadingBegan
  /\ NoSessionNoState
  /\ UntoldAreSupported
  /\ SynchronizedBookIsVenueBook
  /\ PendingAgrees
  /\ UpdatesFindLive
  /\ LastPendingIsCurrent
  /\ SettledAgrees
  /\ LiveIsFollowed
  /\ LiveBookIsVenueBook
  /\ GapIsPending
  /\ RejectionIsPending
  /\ UnsupportedIsShown
  /\ NothingLiveWithoutSession
  /\ LiveSessionHasNoBackoff

LEMMA InitIInv == Init => IInv
<1> SUFFICES ASSUME Init PROVE IInv
  OBVIOUS
<1>1. TypeOK
  BY InitTypeOK
<1>2. \A product \in Product : ~Synchronized(product) /\ store[product] = InitialEntry
  BY NewReconstructorType DEF Init, Synchronized
<1>3. InitialEntry.status = "Connecting"
  BY DEF InitialEntry
<1>4. FramesRecordBooks /\ ReadingBegan
  BY DEF Init, FramesRecordBooks, ReadingBegan
<1>5. PendingAgrees /\ UpdatesFindLive /\ LastPendingIsCurrent /\ RejectionIsPending
  BY DEF Init, PendingAgrees, UpdatesFindLive, LastPendingIsCurrent, RejectionIsPending
<1>6. NoSessionNoState /\ UntoldAreSupported
  BY <1>2 DEF Init, NoSessionNoState, UntoldAreSupported
<1>7. SynchronizedBookIsVenueBook
  BY <1>2 DEF SynchronizedBookIsVenueBook, Synchronized
<1>8. SettledAgrees /\ LiveIsFollowed /\ GapIsPending
  BY DEF Init, SettledAgrees, LiveIsFollowed, GapIsPending
<1>9. LiveBookIsVenueBook /\ NothingLiveWithoutSession /\ LiveSessionHasNoBackoff
  BY <1>2, <1>3 DEF LiveBookIsVenueBook, NothingLiveWithoutSession, LiveSessionHasNoBackoff
<1>10. UnsupportedIsShown
  BY <1>2, <1>3 DEF Init, UnsupportedIsShown
<1>11. QED
  BY <1>1, <1>4, <1>5, <1>6, <1>7, <1>8, <1>9, <1>10 DEF IInv

\* What was sent stays as it was: so do the books of a frame and what of them a
\* session misses.
LEMMA SentStays ==
  ASSUME \A n \in DOMAIN sent : n \in DOMAIN sent' /\ sent'[n] = sent[n],
         DOMAIN sent = 1 .. Len(sent), Len(sent) \in Nat,
         NEW product, NEW start \in DOMAIN sent, NEW at \in DOMAIN sent
  PROVE  /\ \A book, count : IsBookAt(book, product, start, at, count)'
                               <=> IsBookAt(book, product, start, at, count)
         /\ BooksOf(product, start, at)' = BooksOf(product, start, at)
<1>1. sent'[start] = sent[start] /\ sent'[at] = sent[at]
  OBVIOUS
<1>2. \A between \in start + 1 .. at - 1 : sent'[between] = sent[between]
  OBVIOUS
<1>3. Dropped(sent'[start].messages, product, Len(sent'[start].messages)) =
        Dropped(sent[start].messages, product, Len(sent[start].messages))
  BY <1>1
<1>4. ASSUME NEW count
      PROVE  Missed(product, start, at, count)' = Missed(product, start, at, count)
  <2>1. CASE at = start
    BY <1>1, <2>1 DEF Missed
  <2>2. CASE at # start
    <3>1. ASSUME NEW level
          PROVE  level \in Missed(product, start, at, count)'
                   <=> level \in Missed(product, start, at, count)
      BY <1>1, <1>2, <1>3, <2>2 DEF Missed, ToldIn
    <3>2. QED
      BY <2>2, <3>1
  <2>3. QED
    BY <2>1, <2>2
<1>5. ASSUME NEW book, NEW count
      PROVE  IsBookAt(book, product, start, at, count)'
               <=> IsBookAt(book, product, start, at, count)
  BY <1>1, <1>4 DEF IsBookAt
<1>6. BooksOf(product, start, at)' = BooksOf(product, start, at)
  BY <1>1, <1>5 DEF BooksOf
<1>7. QED
  BY <1>5, <1>6

\* A frame sent is behind no one's back: it only extends what was sent.
LEMMA VenueSendIInv ==
  ASSUME IInv, VenueSend
  PROVE  IInv'
<1>1. TypeOK /\ TypeOK'
  BY VenueSendType DEF IInv
<1>2. PICK frame \in Frame :
        /\ IsRecorded(frame) /\ frame.books[0] = venueBooks
        /\ venueBooks' = LastBooks(frame)
        /\ sent' = Append(sent, frame)
        /\ UNCHANGED <<first, phase, sessionVars, runnerVars, store>>
  BY <1>1, VenueSends
<1>3. /\ DOMAIN sent = 1 .. Len(sent) /\ Len(sent) \in Nat
      /\ DOMAIN sent' = 1 .. Len(sent) + 1 /\ Len(sent') = Len(sent) + 1
      /\ \A n \in DOMAIN sent : n \in DOMAIN sent' /\ sent'[n] = sent[n]
      /\ sent'[Len(sent) + 1] = frame
  BY <1>1, <1>2 DEF TypeOK
<1>4. FramesRecordBooks'
  <2>1. ASSUME NEW n \in DOMAIN sent'
        PROVE  /\ RecordsBooks(sent'[n])
               /\ n > 1 => sent'[n].books[0] = LastBooks(sent'[n - 1])
    <3>1. CASE n \in DOMAIN sent
      <4>1. sent'[n] = sent[n] /\ (n > 1 => sent'[n - 1] = sent[n - 1])
        BY <1>3, <3>1
      <4>2. /\ RecordsBooks(sent[n])
            /\ n > 1 => sent[n].books[0] = LastBooks(sent[n - 1])
        BY <3>1 DEF IInv, FramesRecordBooks
      <4>3. QED
        BY <4>1, <4>2
    <3>2. CASE n = Len(sent) + 1
      <4>1. sent'[n] = frame /\ (n > 1 => sent'[n - 1] = sent[Len(sent)])
        BY <1>3, <3>2
      <4>2. n > 1 => venueBooks = LastBooks(sent[Len(sent)])
        BY <1>3, <3>2 DEF IInv, FramesRecordBooks
      <4>3. QED
        BY <1>2, <4>1, <4>2 DEF IsRecorded
    <3>3. QED
      BY <1>3, <2>1, <3>1, <3>2
  <2>2. Len(sent') > 0 => venueBooks' = LastBooks(sent'[Len(sent')])
    BY <1>2, <1>3
  <2>3. QED
    BY <2>1, <2>2 DEF FramesRecordBooks
<1>5. /\ first' = first /\ last' = last /\ store' = store /\ pending' = pending
      /\ reconstructors' = reconstructors /\ phase' = phase
      /\ universe' = universe /\ rejected' = rejected /\ reconnectRequired' = reconnectRequired
      /\ unsupported' = unsupported /\ untold' = untold /\ nominal' = nominal
  BY <1>2 DEF sessionVars, runnerVars
<1>6. SynchronizedBookIsVenueBook'
  <2> SUFFICES ASSUME NEW product \in Product, reconstructors[product].synchronized
               PROVE  IsVenueBook(reconstructors[product].book, product)'
    BY <1>5 DEF SynchronizedBookIsVenueBook
  <2>1. PICK start, at, book, count :
          /\ start = first /\ at = last /\ book = reconstructors[product].book
          /\ count = Len(sent[last].messages)
    OBVIOUS
  <2>2. /\ start \in DOMAIN sent /\ at \in DOMAIN sent
        /\ IsBookAt(book, product, start, at, count)
    BY <2>1 DEF IInv, SynchronizedBookIsVenueBook, IsVenueBook
  <2>3. IsBookAt(book, product, start, at, count)'
    BY <1>3, <2>2, SentStays
  <2>4. /\ start = first' /\ at = last' /\ book = reconstructors'[product].book
        /\ count = Len(sent'[last'].messages) /\ start \in DOMAIN sent' /\ at \in DOMAIN sent'
    BY <1>3, <1>5, <2>1, <2>2
  <2>5. QED
    BY <2>3, <2>4 DEF IsVenueBook
<1>7. LiveBookIsVenueBook'
  <2> SUFFICES ASSUME NEW product \in Product, store[product].status = "Live"
               PROVE  /\ store'[product].timestamp \in DOMAIN sent'
                      /\ first' \in 1 .. store'[product].timestamp
                      /\ store'[product].book
                           \in BooksOf(product, first, store[product].timestamp)'
    BY <1>5 DEF LiveBookIsVenueBook
  <2>1. PICK start, at : start = first /\ at = store[product].timestamp
    OBVIOUS
  <2>2. /\ at \in DOMAIN sent /\ start \in 1 .. at
        /\ store[product].book \in BooksOf(product, start, at)
    BY <2>1 DEF IInv, LiveBookIsVenueBook
  <2>3. start \in DOMAIN sent
    BY <1>3, <2>2
  <2>4. BooksOf(product, start, at)' = BooksOf(product, start, at)
    BY <1>3, <2>2, <2>3, SentStays
  <2>5. start = first' /\ at = store'[product].timestamp
    BY <1>5, <2>1
  <2>6. QED
    BY <1>3, <1>5, <2>2, <2>4, <2>5
<1>8. ReadingBegan'
  BY <1>3, <1>5 DEF IInv, ReadingBegan
<1>9. PendingAgrees'
  <2>1. pending = <<>>
    BY DEF VenueSend, MayRead
  <2>2. QED
    BY <1>5, <2>1 DEF PendingAgrees
<1>10. LiveIsFollowed'
  BY <1>3, <1>5 DEF IInv, LiveIsFollowed, Live
<1>11. /\ NoSessionNoState' /\ UntoldAreSupported' /\ UpdatesFindLive'
       /\ LastPendingIsCurrent' /\ GapIsPending' /\ RejectionIsPending'
  BY <1>5 DEF IInv, NoSessionNoState, UntoldAreSupported, UpdatesFindLive,
       LastPendingIsCurrent, GapIsPending, RejectionIsPending, Synchronized, Live, Settled,
       Unnamed, IsLast
<1>12. SettledAgrees'
  BY <1>5 DEF IInv, SettledAgrees, Synchronized, Live, Settled, Unnamed
<1>13. UnsupportedIsShown' /\ NothingLiveWithoutSession' /\ LiveSessionHasNoBackoff'
  BY <1>5 DEF IInv, UnsupportedIsShown, NothingLiveWithoutSession, LiveSessionHasNoBackoff
<1>14. QED
  BY <1>1, <1>4, <1>6, <1>7, <1>8, <1>9, <1>10, <1>11, <1>12, <1>13 DEF IInv

\* A new session starts from nothing but the store the last one left, in which
\* no market is live.
LEMMA OpenSessionIInv ==
  ASSUME IInv, OpenSession
  PROVE  IInv'
<1>1. TypeOK'
  BY OpenSessionType DEF IInv
<1>2. \A product \in Product : ~Live(product) /\ Live(product)' = Live(product)
  BY DEF OpenSession, IInv, NothingLiveWithoutSession, Live
<1>3. \A product \in Product : ~Synchronized(product)'
  BY NewReconstructorType DEF OpenSession, Synchronized
<1> DEFINE connecting == StatusForAll(SupportedProducts, "Connecting")
           waiting == StatusForAll(SupportedProducts, "WaitingForSnapshot")
<1>4. /\ pending' = <<connecting, waiting>>
      /\ universe' = SupportedProducts
      /\ DOMAIN connecting = SupportedProducts /\ DOMAIN waiting = SupportedProducts
      /\ \A product \in SupportedProducts :
           connecting[product].kind = "status" /\ waiting[product].kind = "status"
  BY DEF OpenSession, StatusForAll, StatusEvent
<1> HIDE DEF connecting, waiting
<1>5. ASSUME NEW n \in DOMAIN pending', NEW product \in DOMAIN pending'[n]
      PROVE  product \in universe' /\ pending'[n][product].kind = "status"
  <2>1. n \in {1, 2}
    BY <1>4
  <2>2. pending'[n] = connecting \/ pending'[n] = waiting
    BY <1>4, <2>1
  <2>3. QED
    BY <1>4, <1>5, <2>2
<1>6. PendingAgrees' /\ UpdatesFindLive' /\ LastPendingIsCurrent'
  <2>1. \A product \in universe' : ~Synchronized(product)'
    BY <1>3, <1>4 DEF SupportedProducts
  <2>2. QED
    BY <1>5, <2>1 DEF PendingAgrees, UpdatesFindLive, LastPendingIsCurrent
<1>7. FramesRecordBooks' /\ UnsupportedIsShown' /\ UntoldAreSupported'
  BY DEF OpenSession, IInv, FramesRecordBooks, UnsupportedIsShown, UntoldAreSupported,
         venueVars, runnerVars, NothingLiveWithoutSession
<1>8. NoSessionNoState' /\ RejectionIsPending' /\ ReadingBegan'
  BY DEF OpenSession, NoSessionNoState, RejectionIsPending, ReadingBegan
<1>9. SynchronizedBookIsVenueBook' /\ LiveBookIsVenueBook'
  BY <1>2, <1>3 DEF SynchronizedBookIsVenueBook, LiveBookIsVenueBook, Live, Synchronized
<1>10. SettledAgrees' /\ LiveIsFollowed' /\ GapIsPending'
  BY <1>2, <1>3 DEF SettledAgrees, LiveIsFollowed, GapIsPending
<1>11. NothingLiveWithoutSession' /\ LiveSessionHasNoBackoff'
  BY <1>2 DEF NothingLiveWithoutSession, LiveSessionHasNoBackoff, Live
<1>12. QED
  BY <1>1, <1>6, <1>7, <1>8, <1>9, <1>10, <1>11 DEF IInv

\* What a frame told stays told where nothing is sent.
LEMMA SameFrames ==
  ASSUME sent' = sent, NEW product, NEW start, NEW at
  PROVE  BooksOf(product, start, at)' = BooksOf(product, start, at)
<1>1. \A count : Missed(product, start, at, count)' = Missed(product, start, at, count)
  BY DEF Missed, ToldIn
<1>2. \A book, count : IsBookAt(book, product, start, at, count)'
                        = IsBookAt(book, product, start, at, count)
  BY <1>1 DEF IsBookAt
<1>3. QED
  BY <1>2 DEF BooksOf

\* A market live behind a step shows a book that its frame told.
ShowsBookOf(product) ==
  /\ store[product].timestamp \in DOMAIN sent
  /\ first \in 1 .. store[product].timestamp
  /\ store[product].book \in BooksOf(product, first, store[product].timestamp)

LEMMA ShowsBookStays ==
  ASSUME sent' = sent, first' = first, NEW product,
         store'[product].timestamp \in DOMAIN sent,
         first \in 1 .. store'[product].timestamp,
         store'[product].book \in BooksOf(product, first, store'[product].timestamp)
  PROVE  ShowsBookOf(product)'
<1>1. PICK at : at = store'[product].timestamp
  OBVIOUS
<1>2. PICK start : start = first
  OBVIOUS
<1>3. store'[product].book \in BooksOf(product, start, at)
  BY <1>1, <1>2
<1>4. BooksOf(product, start, at)' = BooksOf(product, start, at)
  BY SameFrames
<1>5. start = first'
  BY <1>2
<1>6. BooksOf(product, first, store[product].timestamp)' = BooksOf(product, start, at)'
  BY <1>1, <1>5
<1>7. QED
  BY <1>3, <1>4, <1>6 DEF ShowsBookOf

\* What is still live of what was live is right where nothing was sent.
LEMMA LiveBooksStay ==
  ASSUME LiveBookIsVenueBook, sent' = sent, first' = first,
         \A product \in Product :
           store'[product].status = "Live" => store'[product] = store[product]
  PROVE  LiveBookIsVenueBook'
<1>1. ASSUME NEW product \in Product, store'[product].status = "Live"
      PROVE  ShowsBookOf(product)'
  <2>1. store'[product] = store[product]
    BY <1>1
  <2>2. ShowsBookOf(product)
    BY <1>1, <2>1 DEF LiveBookIsVenueBook, ShowsBookOf
  <2>3. /\ store'[product].timestamp \in DOMAIN sent
        /\ first \in 1 .. store'[product].timestamp
        /\ store'[product].book \in BooksOf(product, first, store'[product].timestamp)
    BY <2>1, <2>2 DEF ShowsBookOf
  <2>4. QED
    BY <2>3, ShowsBookStays
<1>2. QED
  BY <1>1 DEF LiveBookIsVenueBook, ShowsBookOf

\* A session that fails takes its books and events with it; what it showed live is
\* among the products to be told, for a live market is not a rejected one.
LEMMA SessionFailsIInv ==
  ASSUME IInv, SessionFails, untold = {}
  PROVE  IInv'
<1>1. TypeOK'
  BY SessionFailsType DEF IInv
<1>2. \A product \in Product : ~Synchronized(product)'
  BY NewReconstructorType DEF SessionFails, Synchronized
<1> USE DEF SessionFails, IInv, venueVars
<1>3. FramesRecordBooks'
  BY DEF FramesRecordBooks
<1>4. UnsupportedIsShown' /\ UntoldAreSupported'
  BY DEF UnsupportedIsShown, UntoldAreSupported, SupportedProducts
<1>5. NoSessionNoState' /\ RejectionIsPending' /\ ReadingBegan'
  BY <1>2 DEF NoSessionNoState, RejectionIsPending, ReadingBegan
<1>6. PendingAgrees' /\ UpdatesFindLive' /\ LastPendingIsCurrent'
  BY DEF PendingAgrees, UpdatesFindLive, LastPendingIsCurrent
<1>7. SynchronizedBookIsVenueBook'
  BY <1>2 DEF SynchronizedBookIsVenueBook, Synchronized
<1>8. LiveBookIsVenueBook'
  BY LiveBooksStay
<1>9. SettledAgrees' /\ LiveIsFollowed' /\ GapIsPending' /\ LiveSessionHasNoBackoff'
  BY DEF SettledAgrees, LiveIsFollowed, GapIsPending, LiveSessionHasNoBackoff
<1>10. NothingLiveWithoutSession'
  BY DEF NothingLiveWithoutSession, UnsupportedIsShown, SupportedProducts
<1>11. QED
  BY <1>1, <1>3, <1>4, <1>5, <1>6, <1>7, <1>8, <1>9, <1>10

\* What is left once one event of the product was popped: the same events in the
\* same order, one place further on or not.
IsRemaining(remaining, product, shift) ==
  /\ \A i \in DOMAIN remaining :
       /\ i + shift \in DOMAIN pending
       /\ \A other \in DOMAIN remaining[i] :
            /\ other \in DOMAIN pending[i + shift]
            /\ remaining[i][other] = pending[i + shift][other]
            /\ i + shift = 1 => other # product
  /\ \A n \in DOMAIN pending : \A other \in DOMAIN pending[n] :
       (n = 1 => other # product) =>
         /\ n - shift \in DOMAIN remaining
         /\ other \in DOMAIN remaining[n - shift]

LEMMA RemainingShifts ==
  ASSUME pending \in Seq(Events), pending # <<>>, NEW product \in Product
  PROVE  \E shift \in {0, 1} : IsRemaining(Remaining(product), product, shift)
<1> DEFINE batch == [other \in DOMAIN Head(pending) \ {product} |-> Head(pending)[other]]
           remaining == Remaining(product)
<1>1. /\ Head(pending) = pending[1] /\ Head(pending) \in Events
      /\ Tail(pending) \in Seq(Events)
      /\ DOMAIN Tail(pending) = 1 .. Len(pending) - 1
      /\ DOMAIN pending = 1 .. Len(pending) /\ Len(pending) \in Nat \ {0}
      /\ \A n \in 1 .. Len(pending) - 1 : Tail(pending)[n] = pending[n + 1]
  OBVIOUS
<1>2. /\ DOMAIN batch = DOMAIN pending[1] \ {product}
      /\ \A other \in DOMAIN batch : batch[other] = pending[1][other]
  BY <1>1
<1>3. CASE DOMAIN batch = {}
  <2>1. remaining = Tail(pending)
    BY <1>3 DEF Remaining
  <2> HIDE DEF batch, remaining
  <2>2. IsRemaining(remaining, product, 1)
    BY <1>1, <1>2, <1>3, <2>1 DEF IsRemaining
  <2>3. QED
    BY <2>2 DEF remaining
<1>4. CASE DOMAIN batch # {}
  <2>1. remaining = <<batch>> \o Tail(pending)
    BY <1>4 DEF Remaining
  <2>2. batch \in Events
    <3>1. PICK named \in SUBSET Product : Head(pending) \in [named -> MarketEvent]
      BY <1>1 DEF Events
    <3>2. batch \in [named \ {product} -> MarketEvent]
      BY <3>1
    <3>3. QED
      BY <3>2 DEF Events
  <2> HIDE DEF batch, remaining
  <2>3. /\ DOMAIN remaining = 1 .. Len(pending)
        /\ remaining[1] = batch
        /\ \A n \in 2 .. Len(pending) : remaining[n] = pending[n]
    BY <1>1, <2>1, <2>2
  <2>4. IsRemaining(remaining, product, 0)
    <3>1. \A n \in DOMAIN pending : n + 0 = n /\ n - 0 = n
      BY <1>1
    <3>2. ASSUME NEW i \in DOMAIN remaining
          PROVE  /\ i \in DOMAIN pending
                 /\ \A other \in DOMAIN remaining[i] :
                      /\ other \in DOMAIN pending[i]
                      /\ remaining[i][other] = pending[i][other]
                      /\ i = 1 => other # product
      <4>1. CASE i = 1
        BY <1>1, <1>2, <2>3, <4>1
      <4>2. CASE i # 1
        BY <1>1, <2>3, <4>2
      <4>3. QED
        BY <4>1, <4>2
    <3>3. ASSUME NEW n \in DOMAIN pending, NEW other \in DOMAIN pending[n],
                 n = 1 => other # product
          PROVE  n \in DOMAIN remaining /\ other \in DOMAIN remaining[n]
      <4>1. CASE n = 1
        BY <1>1, <1>2, <2>3, <3>3, <4>1
      <4>2. CASE n # 1
        BY <1>1, <2>3, <3>3, <4>2
      <4>3. QED
        BY <4>1, <4>2
    <3>4. DOMAIN remaining = DOMAIN pending
      BY <1>1, <2>3
    <3> HIDE DEF IsRemaining
    <3>5. QED
      BY <3>1, <3>2, <3>3, <3>4 DEF IsRemaining
  <2>5. QED
    BY <2>4 DEF remaining
<1>5. QED
  BY <1>3, <1>4

\* So a product with nothing pending behind the pop had nothing pending before it,
\* or just what was popped, and the last event stays the last.
LEMMA RemainingOrder ==
  ASSUME pending \in Seq(Events), pending # <<>>, NEW product \in Product,
         pending' \in Seq(Events),
         NEW shift \in {0, 1}, IsRemaining(pending', product, shift)
  PROVE  /\ \A other \in Product \ {product} : Settled(other)' => Settled(other)
         /\ Settled(product)' => IsLast(pending, 1, product)
         /\ \A i \in DOMAIN pending', other \in Product :
              IsLast(pending', i, other) => IsLast(pending, i + shift, other)
<1>1. /\ DOMAIN pending = 1 .. Len(pending) /\ Len(pending) \in Nat \ {0}
      /\ DOMAIN pending' = 1 .. Len(pending') /\ Len(pending') \in Nat
  OBVIOUS
<1>2. ASSUME NEW other \in Product \ {product}, Settled(other)'
      PROVE  Settled(other)
  BY <1>2 DEF IsRemaining, Settled, Unnamed
<1>3. ASSUME Settled(product)'
      PROVE  IsLast(pending, 1, product)
  BY <1>1, <1>3 DEF IsRemaining, Settled, Unnamed, IsLast
<1>4. ASSUME NEW i \in DOMAIN pending', NEW other \in Product, IsLast(pending', i, other),
             NEW after \in DOMAIN pending, after > i + shift, other \in DOMAIN pending[after]
      PROVE  FALSE
  <2>1. after # 1 /\ after - shift > i
    BY <1>1, <1>4
  <2>2. after - shift \in DOMAIN pending' /\ other \in DOMAIN pending'[after - shift]
    BY <1>4, <2>1 DEF IsRemaining
  <2>3. QED
    BY <1>4, <2>1, <2>2 DEF IsLast
<1>5. QED
  BY <1>2, <1>3, <1>4 DEF IsLast

\* Publishing one pending event: once none of its product is left behind it, the
\* product is shown as the session knows it, and every other product as before.
LEMMA PublishPendingIInv ==
  ASSUME IInv, NEW product \in Product, PublishPending(product)
  PROVE  IInv'
<1> DEFINE event == Head(pending)[product]
<1>1. CASE SessionFails
  BY <1>1, SessionFailsIInv DEF PublishPending, IInv, UntoldAreSupported
<1>2. CASE ~SessionFails
  <2>1. /\ phase = "reading" /\ pending # <<>> /\ product \in DOMAIN Head(pending)
        /\ ~(event.kind = "book" /\ product \in unsupported)
        /\ pending' = Remaining(product)
        /\ unsupported' = IF event.kind = "status" /\ event.status = "Unsupported"
                          THEN unsupported \cup {product} ELSE unsupported
        /\ nominal' = BackoffAfter(event)
        /\ store' = Published(product, event)
        /\ UNCHANGED <<venueVars, phase, universe, last, reconstructors, rejected,
                       reconnectRequired, untold>>
    BY <1>2 DEF PublishPending
  <2>2. TypeOK /\ TypeOK'
    BY PublishPendingType DEF IInv
  <2>3. /\ pending \in Seq(Events) /\ pending' \in Seq(Events)
        /\ Head(pending) \in Events /\ event \in MarketEvent
    <3>1. pending \in Seq(Events) /\ pending' \in Seq(Events)
      BY <2>2 DEF TypeOK
    <3>2. Head(pending) \in Events
      BY <2>1, <3>1
    <3>3. event \in MarketEvent
      BY <2>1, <3>2 DEF Events
    <3>4. QED
      BY <3>1, <3>2, <3>3
  <2>4. Head(pending) = pending[1] /\ 1 \in DOMAIN pending
    BY <2>1, <2>3
  <2>5. /\ product \in universe
        /\ event.kind = "status" => ~Synchronized(product)
        /\ event.kind = "book" =>
             \/ event.type = "Invalidated" /\ ~Synchronized(product)
             \/ /\ event.type \in {"Snapshot", "Update"}
                /\ Synchronized(product) /\ ~reconnectRequired
                /\ event.timestamp = last
                /\ event.book \in BooksOf(product, first, last)
    BY <2>1, <2>4 DEF IInv, PendingAgrees
  <2>6. event.kind = "book" /\ event.type = "Update" => Live(product)
    BY <2>1, <2>4 DEF IInv, UpdatesFindLive
  <2>7. \A other \in Product \ {product} : store'[other] = store[other]
    BY <2>1, <2>2 DEF Published, TypeOK
  <2>8. store'[product] =
          IF event.kind = "status" /\ event.status # "Unsupported" /\ product \in unsupported
          THEN store[product] ELSE ApplyEvent(store[product], event)
    BY <2>1, <2>2 DEF Published, TypeOK
  <2>9. /\ event.kind = "status" => event.status \in NonLiveStatus
        /\ event.kind \in {"status", "book"}
    BY <2>3 DEF MarketEvent, InvalidatedEvent, BookEvent
  <2>10. /\ event.kind = "status" /\ ~(event.status # "Unsupported" /\ product \in unsupported)
              => store'[product].status = event.status
         /\ event.kind = "status" /\ event.status # "Unsupported" /\ product \in unsupported
              => store'[product] = store[product]
         /\ event.kind = "book" /\ event.type = "Invalidated" => store'[product].status = "Stale"
         /\ event.kind = "book" /\ event.type # "Invalidated" =>
              /\ store'[product].status = "Live"
              /\ store'[product].timestamp = last
              /\ store'[product].book = event.book
    BY <2>5, <2>6, <2>8, <2>9 DEF ApplyEvent, ApplyTrusted, SetStatus, Live
  <2>11. Live(product)' <=> event.kind = "book" /\ event.type # "Invalidated"
    BY <2>1, <2>9, <2>10 DEF Live, NonLiveStatus, IInv, UnsupportedIsShown
  <2>12. Live(product)' <=> Synchronized(product)
    BY <2>5, <2>9, <2>11
  <2>13. \A other \in Product \ {product} : Live(other)' = Live(other)
    BY <2>7 DEF Live
  <2>14. PICK shift \in {0, 1} : IsRemaining(pending', product, shift)
    BY <2>1, <2>3, RemainingShifts
  <2>15. /\ \A other \in Product \ {product} : Settled(other)' => Settled(other)
         /\ Settled(product)' => IsLast(pending, 1, product)
         /\ \A i \in DOMAIN pending', other \in Product :
              IsLast(pending', i, other) => IsLast(pending, i + shift, other)
    BY <2>1, <2>3, <2>14, RemainingOrder
  <2>16. ASSUME NEW i \in DOMAIN pending', NEW other \in DOMAIN pending'[i]
         PROVE  /\ i + shift \in DOMAIN pending /\ other \in DOMAIN pending[i + shift]
                /\ pending'[i][other] = pending[i + shift][other]
                /\ other \in Product
    <3>1. /\ i + shift \in DOMAIN pending /\ other \in DOMAIN pending[i + shift]
          /\ pending'[i][other] = pending[i + shift][other]
      BY <2>14 DEF IsRemaining
    <3>2. other \in universe
      BY <3>1 DEF IInv, PendingAgrees
    <3>3. QED
      BY <2>2, <3>1, <3>2 DEF TypeOK
  <2>17. /\ sent' = sent /\ first' = first /\ last' = last /\ universe' = universe
         /\ reconnectRequired' = reconnectRequired /\ reconstructors' = reconstructors
         /\ \A other : Synchronized(other)' = Synchronized(other)
    BY <2>1 DEF venueVars, Synchronized
  <2>18. \A other, start, at : BooksOf(other, start, at)' = BooksOf(other, start, at)
    BY <2>17, SameFrames
  <2>19. FramesRecordBooks' /\ NoSessionNoState' /\ UntoldAreSupported' /\ ReadingBegan'
    <3>1. FramesRecordBooks'
      BY <2>1 DEF IInv, FramesRecordBooks, venueVars
    <3>2. NoSessionNoState' /\ UntoldAreSupported' /\ ReadingBegan'
      BY <2>1, <2>17 DEF IInv, NoSessionNoState, UntoldAreSupported, ReadingBegan
    <3>3. QED
      BY <3>1, <3>2
  <2>20. SynchronizedBookIsVenueBook'
    BY <2>17 DEF IInv, SynchronizedBookIsVenueBook, IsVenueBook, IsBookAt, Missed, ToldIn
  <2>21. PendingAgrees'
    <3> SUFFICES ASSUME NEW i \in DOMAIN pending', NEW other \in DOMAIN pending'[i]
                 PROVE  LET e == pending'[i][other]
                        IN  /\ other \in universe'
                            /\ e.kind = "status" => ~Synchronized(other)'
                            /\ e.kind = "book" =>
                                 \/ e.type = "Invalidated" /\ ~Synchronized(other)'
                                 \/ /\ e.type \in {"Snapshot", "Update"}
                                    /\ Synchronized(other)' /\ ~reconnectRequired'
                                    /\ e.timestamp = last'
                                    /\ e.book \in BooksOf(other, first, last)'
      BY DEF PendingAgrees
    <3> DEFINE e == pending[i + shift][other]
    <3>1. /\ other \in universe
          /\ e.kind = "status" => ~Synchronized(other)
          /\ e.kind = "book" =>
               \/ e.type = "Invalidated" /\ ~Synchronized(other)
               \/ /\ e.type \in {"Snapshot", "Update"}
                  /\ Synchronized(other) /\ ~reconnectRequired
                  /\ e.timestamp = last
                  /\ e.book \in BooksOf(other, first, last)
      BY <2>16 DEF IInv, PendingAgrees
    <3>2. BooksOf(other, first, last)' = BooksOf(other, first, last)
      BY <2>17, <2>18
    <3>3. pending'[i][other] = e
      BY <2>16
    <3> HIDE DEF e
    <3>4. QED
      BY <2>17, <3>1, <3>2, <3>3
  <2>22. UpdatesFindLive'
    <3> SUFFICES ASSUME NEW i \in DOMAIN pending', NEW other \in DOMAIN pending'[i],
                        pending'[i][other].kind = "book", pending'[i][other].type = "Update",
                        ~Live(other)'
                 PROVE  \E before \in 1 .. i - 1 : other \in DOMAIN pending'[before]
      BY DEF UpdatesFindLive
    <3>1. PICK n : n = i + shift
      OBVIOUS
    <3>2. /\ n \in DOMAIN pending /\ other \in DOMAIN pending[n]
          /\ pending[n][other].kind = "book" /\ pending[n][other].type = "Update"
          /\ other \in Product
      BY <2>16, <3>1
    <3>3. Synchronized(other)
      BY <3>2 DEF IInv, PendingAgrees
    <3>4. other # product /\ ~Live(other)
      BY <2>12, <2>13, <3>2, <3>3
    <3>5. PICK before \in 1 .. n - 1 : other \in DOMAIN pending[before]
      BY <3>2, <3>4 DEF IInv, UpdatesFindLive
    <3>6. /\ DOMAIN pending = 1 .. Len(pending) /\ Len(pending) \in Nat
          /\ DOMAIN pending' = 1 .. Len(pending') /\ Len(pending') \in Nat
      BY <2>3
    <3>7. before \in DOMAIN pending
      BY <3>2, <3>5, <3>6
    <3>8. before - shift \in DOMAIN pending' /\ other \in DOMAIN pending'[before - shift]
      BY <2>14, <3>4, <3>5, <3>7 DEF IsRemaining
    <3>9. before - shift \in 1 .. i - 1
      BY <3>1, <3>5, <3>6, <3>8
    <3>10. QED
      BY <3>8, <3>9
  <2>23. LastPendingIsCurrent'
    <3> SUFFICES ASSUME NEW i \in DOMAIN pending', NEW other \in DOMAIN pending'[i],
                        pending'[i][other].kind = "book",
                        pending'[i][other].type # "Invalidated",
                        IsLast(pending', i, other)
                 PROVE  pending'[i][other].book = reconstructors'[other].book
      BY DEF LastPendingIsCurrent, IsLast
    <3>1. IsLast(pending, i + shift, other)
      BY <2>15, <2>16
    <3>2. QED
      BY <2>16, <2>17, <3>1 DEF IInv, LastPendingIsCurrent
  <2>24. SettledAgrees'
    <3>1. ASSUME Settled(product)'
          PROVE  /\ Live(product)' <=> Synchronized(product)'
                 /\ Live(product)' => store'[product].book = reconstructors'[product].book
      <4>1. IsLast(pending, 1, product)
        BY <2>15, <3>1
      <4>2. event.kind = "book" /\ event.type # "Invalidated" =>
              event.book = reconstructors[product].book
        BY <2>1, <2>4, <4>1 DEF IInv, LastPendingIsCurrent
      <4>3. QED
        BY <2>10, <2>11, <2>12, <2>17, <4>2
    <3>2. ASSUME NEW other \in Product \ {product}, Settled(other)'
          PROVE  /\ Live(other)' <=> Synchronized(other)'
                 /\ Live(other)' => store'[other].book = reconstructors'[other].book
      <4>1. Settled(other)
        BY <2>15, <3>2
      <4>2. QED
        BY <2>1, <2>7, <2>13, <2>17, <4>1 DEF IInv, SettledAgrees
    <3>3. QED
      BY <3>1, <3>2 DEF SettledAgrees
  <2>25. Synchronized(product) =>
           first \in DOMAIN sent /\ last \in DOMAIN sent /\ first \in 1 .. last
    <3>1. DOMAIN sent = 1 .. Len(sent) /\ Len(sent) \in Nat
      BY <2>2 DEF TypeOK
    <3>2. QED
      BY <2>1, <3>1 DEF IInv, SynchronizedBookIsVenueBook, IsVenueBook, Synchronized,
           ReadingBegan, NoSequence
  <2>26. LiveIsFollowed'
    <3>1. Live(product)' => /\ product \in universe'
                            /\ last' \in DOMAIN sent'
                            /\ store'[product].timestamp <= last'
      BY <2>2, <2>5, <2>10, <2>11, <2>12, <2>17, <2>25 DEF TypeOK
    <3>2. ASSUME NEW other \in Product \ {product}, Live(other)'
          PROVE  /\ other \in universe'
                 /\ last' \in DOMAIN sent'
                 /\ store'[other].timestamp <= last'
      BY <2>1, <2>7, <2>13, <2>17, <3>2 DEF IInv, LiveIsFollowed
    <3>3. QED
      BY <3>1, <3>2 DEF LiveIsFollowed
  <2>27. LiveBookIsVenueBook'
    <3>1. ASSUME NEW other \in Product, Live(other)'
          PROVE  /\ store'[other].timestamp \in DOMAIN sent
                 /\ first \in 1 .. store'[other].timestamp
                 /\ store'[other].book \in BooksOf(other, first, store'[other].timestamp)
      <4>1. CASE other = product
        BY <2>5, <2>10, <2>11, <2>12, <2>25, <3>1, <4>1
      <4>2. CASE other # product
        BY <2>7, <2>13, <3>1, <4>2 DEF IInv, LiveBookIsVenueBook, Live
      <4>3. QED
        BY <4>1, <4>2
    <3>2. ASSUME NEW other \in Product, Live(other)' PROVE ShowsBookOf(other)'
      BY <2>17, <3>1, <3>2, ShowsBookStays
    <3>3. QED
      BY <3>2 DEF LiveBookIsVenueBook, Live, ShowsBookOf
  <2>28. GapIsPending'
    <3>1. reconnectRequired => ~Live(product)'
      BY <2>5, <2>11
    <3>2. QED
      BY <2>1, <2>13, <2>15, <3>1 DEF IInv, GapIsPending
  <2>29. RejectionIsPending'
    <3> SUFFICES ASSUME NEW other \in rejected' \ unsupported'
                 PROVE  FALSE
      BY DEF RejectionIsPending
    <3>1. other \in rejected \ unsupported
      BY <2>1
    <3>2. pending = <<StatusForAll({other}, "Unsupported")>>
      BY <3>1 DEF IInv, RejectionIsPending
    <3>3. Head(pending) = StatusForAll({other}, "Unsupported")
      BY <3>2
    <3>4. product = other /\ event = StatusEvent("Unsupported")
      BY <2>1, <3>3 DEF StatusForAll
    <3>5. QED
      BY <2>1, <3>4 DEF StatusEvent
  <2>30. UnsupportedIsShown'
    <3>1. store'[product].status = "Unsupported" <=> product \in unsupported'
      <4>1. event.kind = "status" /\ event.status = "Unsupported" =>
              store'[product].status = "Unsupported" /\ product \in unsupported'
        BY <2>1, <2>10
      <4>2. event.kind = "status" /\ event.status # "Unsupported" =>
              (store'[product].status = "Unsupported" <=> product \in unsupported')
        BY <2>1, <2>10 DEF IInv, UnsupportedIsShown
      <4>3. event.kind = "book" =>
              store'[product].status # "Unsupported" /\ product \notin unsupported'
        BY <2>1, <2>10
      <4>4. QED
        BY <2>9, <4>1, <4>2, <4>3
    <3>2. ASSUME NEW other \in Product \ {product}
          PROVE  store'[other].status = "Unsupported" <=> other \in unsupported'
      BY <2>1, <2>7 DEF IInv, UnsupportedIsShown
    <3>3. QED
      BY <3>1, <3>2 DEF UnsupportedIsShown
  <2>31. NothingLiveWithoutSession'
    BY <2>1, <2>28 DEF NothingLiveWithoutSession, GapIsPending, Live, Settled, Unnamed
  <2>32. LiveSessionHasNoBackoff'
    <3>1. event.kind = "book" /\ event.type # "Invalidated" => nominal' = InitialDelay
      BY <2>1, <2>5, <2>6 DEF BackoffAfter, IInv, LiveSessionHasNoBackoff, Live
    <3>2. (\E other \in Product \ {product} : Live(other)') => nominal' = InitialDelay
      BY <2>1, <2>13 DEF BackoffAfter, IInv, LiveSessionHasNoBackoff, Live
    <3>3. QED
      BY <2>11, <3>1, <3>2 DEF LiveSessionHasNoBackoff, Live
  <2>33. QED
    BY <2>2, <2>19, <2>20, <2>21, <2>22, <2>23, <2>24, <2>26, <2>27, <2>28, <2>29, <2>30,
       <2>31, <2>32 DEF IInv
<1>3. QED
  BY <1>1, <1>2

\* A rejection takes its product's book out of the session and tells the runner so
\* before anything else is read.
LEMMA ReadRejectionIInv ==
  ASSUME IInv, NEW product \in Product, ReadRejection(product)
  PROVE  IInv'
<1> DEFINE event == StatusForAll({product}, "Unsupported")
<1>1. TypeOK /\ TypeOK'
  BY ReadRejectionType DEF IInv
<1>2. /\ MayRead /\ product \in universe
      /\ rejected' = rejected \cup {product}
      /\ reconstructors' = [reconstructors EXCEPT ![product] = MarkDesynchronized(@)]
      /\ pending' = <<event>>
      /\ UNCHANGED <<venueVars, phase, universe, last, reconnectRequired, runnerVars, store>>
  BY DEF ReadRejection
<1>3. phase = "reading" /\ pending = <<>> /\ ~reconnectRequired
  BY <1>2 DEF MayRead
<1>4. /\ ~Synchronized(product)'
      /\ \A other \in Product \ {product} : reconstructors'[other] = reconstructors[other]
      /\ \A other \in Product : Synchronized(other)' => Synchronized(other) /\ other # product
  BY <1>1, <1>2, MarkDesynchronizedType DEF TypeOK, Synchronized
<1>5. \A other \in Product : Settled(other)
  BY <1>3 DEF Settled, Unnamed
<1>6. /\ DOMAIN pending' = {1} /\ pending'[1] = event /\ DOMAIN event = {product}
      /\ event[product].kind = "status"
  BY <1>2 DEF StatusForAll, StatusEvent
<1>7. \A other \in Product : Live(other)' = Live(other)
  BY <1>2 DEF Live
<1> HIDE DEF event
<1> USE DEF IInv, venueVars, runnerVars
<1>8. FramesRecordBooks' /\ ReadingBegan'
  BY <1>2 DEF FramesRecordBooks, ReadingBegan
<1>9. SynchronizedBookIsVenueBook'
  <2>1. ASSUME NEW other \in Product, Synchronized(other)'
        PROVE  IsVenueBook(reconstructors'[other].book, other)
    BY <1>4, <2>1 DEF SynchronizedBookIsVenueBook, Synchronized
  <2>2. QED
    BY <1>2, <2>1
       DEF SynchronizedBookIsVenueBook, Synchronized, IsVenueBook, IsBookAt, Missed, ToldIn
<1>10. LiveBookIsVenueBook'
  BY <1>2, LiveBooksStay
<1>11. NoSessionNoState' /\ UntoldAreSupported' /\ UnsupportedIsShown'
  BY <1>2, <1>3 DEF NoSessionNoState, UntoldAreSupported, UnsupportedIsShown
<1>12. PendingAgrees' /\ UpdatesFindLive' /\ LastPendingIsCurrent'
  BY <1>2, <1>4, <1>6 DEF PendingAgrees, UpdatesFindLive, LastPendingIsCurrent
<1>13. SettledAgrees'
  <2>1. ~Settled(product)'
    BY <1>6 DEF Settled, Unnamed
  <2>2. ASSUME NEW other \in Product \ {product}
        PROVE  /\ Live(other)' <=> Synchronized(other)'
               /\ Live(other)' => store'[other].book = reconstructors'[other].book
    BY <1>2, <1>3, <1>4, <1>5, <1>7 DEF SettledAgrees, Synchronized
  <2>3. QED
    BY <2>1, <2>2 DEF SettledAgrees
<1>14. LiveIsFollowed' /\ GapIsPending'
  BY <1>2, <1>3, <1>7 DEF LiveIsFollowed, GapIsPending
<1>15. RejectionIsPending'
  <2>1. rejected \subseteq unsupported
    BY <1>3 DEF RejectionIsPending
  <2>2. QED
    BY <1>2, <2>1 DEF RejectionIsPending, event, StatusForAll
<1>16. NothingLiveWithoutSession' /\ LiveSessionHasNoBackoff'
  BY <1>2, <1>3 DEF NothingLiveWithoutSession, LiveSessionHasNoBackoff
<1>17. QED
  BY <1>1, <1>8, <1>9, <1>10, <1>11, <1>12, <1>13, <1>14, <1>15, <1>16

\* A gap leaves every book of the session desynchronized and an invalidation
\* pending for each market that was live.
LEMMA InvalidateAllIInv ==
  ASSUME IInv, MayRead, InvalidateAll
  PROVE  IInv'
<1> DEFINE events == [product \in universe \ rejected |-> InvalidatedEvent]
<1>1. TypeOK /\ TypeOK'
  BY InvalidateAllType DEF IInv
<1>2. /\ pending' = IF universe \ rejected = {} THEN <<>> ELSE <<events>>
      /\ reconnectRequired' = TRUE
      /\ UNCHANGED <<venueVars, phase, universe, last, rejected, runnerVars, store>>
  BY DEF InvalidateAll
<1>3. phase = "reading" /\ pending = <<>> /\ ~reconnectRequired
  BY DEF MayRead
<1>4. rejected \subseteq unsupported
  BY <1>3 DEF IInv, RejectionIsPending
<1>5. \A product \in Product : Live(product) => product \in universe \ rejected
  BY <1>3, <1>4 DEF IInv, LiveIsFollowed, UnsupportedIsShown, Live
<1>6. \A product \in Product : Live(product) <=> Synchronized(product)
  BY <1>3 DEF IInv, SettledAgrees, Settled, Unnamed
<1>7. \A product \in Product : ~Synchronized(product)'
  <2>1. ASSUME NEW product \in universe \ rejected PROVE ~Synchronized(product)'
    BY <1>1, <2>1, MarkDesynchronizedType DEF InvalidateAll, TypeOK, Synchronized
  <2>2. ASSUME NEW product \in Product \ (universe \ rejected) PROVE ~Synchronized(product)'
    BY <1>5, <1>6, <2>2 DEF InvalidateAll, Synchronized
  <2>3. QED
    BY <2>1, <2>2
<1>8. DOMAIN events = universe \ rejected
  OBVIOUS
<1>9. \A product \in universe \ rejected :
        events[product].kind = "book" /\ events[product].type = "Invalidated"
  BY DEF InvalidatedEvent, BookEvent
<1> HIDE DEF events
<1>10. /\ DOMAIN pending' \subseteq {1}
       /\ \A n \in DOMAIN pending' : pending'[n] = events
       /\ universe \ rejected # {} => 1 \in DOMAIN pending'
  BY <1>2
<1>11. \A product \in Product : Live(product)' = Live(product)
  BY <1>2 DEF Live
<1>12. \A product \in Product : Live(product)' => ~Settled(product)'
  BY <1>5, <1>8, <1>10, <1>11 DEF Settled, Unnamed
<1> USE DEF IInv, venueVars, runnerVars
<1>13. FramesRecordBooks' /\ ReadingBegan'
  BY <1>2 DEF FramesRecordBooks, ReadingBegan
<1>14. SynchronizedBookIsVenueBook'
  BY <1>2, <1>7 DEF SynchronizedBookIsVenueBook, Synchronized
<1>15. LiveBookIsVenueBook'
  BY <1>2, LiveBooksStay
<1>16. NoSessionNoState' /\ UntoldAreSupported' /\ UnsupportedIsShown'
  BY <1>2, <1>3 DEF NoSessionNoState, UntoldAreSupported, UnsupportedIsShown
<1>17. PendingAgrees' /\ UpdatesFindLive' /\ LastPendingIsCurrent'
  <2>1. universe \subseteq Product
    BY <1>1 DEF TypeOK
  <2>2. PendingAgrees'
    BY <1>2, <1>7, <1>8, <1>9, <1>10, <2>1 DEF PendingAgrees
  <2>3. UpdatesFindLive' /\ LastPendingIsCurrent'
    BY <1>8, <1>9, <1>10 DEF UpdatesFindLive, LastPendingIsCurrent
  <2>4. QED
    BY <2>2, <2>3
<1>18. SettledAgrees' /\ GapIsPending'
  BY <1>2, <1>7, <1>12 DEF SettledAgrees, GapIsPending
<1>19. LiveIsFollowed' /\ RejectionIsPending'
  BY <1>2, <1>3, <1>4, <1>11 DEF LiveIsFollowed, RejectionIsPending
<1>20. NothingLiveWithoutSession' /\ LiveSessionHasNoBackoff'
  <2>1. pending' = <<>> => \A product \in Product : ~Live(product)'
    BY <1>12 DEF Settled, Unnamed
  <2>2. QED
    BY <1>2, <1>3, <2>1 DEF NothingLiveWithoutSession, LiveSessionHasNoBackoff, Live
<1>21. QED
  BY <1>1, <1>13, <1>14, <1>15, <1>16, <1>17, <1>18, <1>19, <1>20

\* What the tracker says of a frame whose number is not a gap.
LEMMA Verdicts ==
  ASSUME TypeOK, NEW sequence \in DOMAIN sent, Verdict(last, sequence) # "Gap"
  PROVE  LET verdict == Verdict(last, sequence)
         IN  \/ verdict = "First" /\ last = NoSequence /\ Observe(last, sequence) = sequence
             \/ /\ verdict = "InOrder" /\ last >= 0 /\ sequence = last + 1
                /\ Observe(last, sequence) = sequence
             \/ verdict \in {"Duplicate", "Stale"} /\ Observe(last, sequence) = last
<1>1. sequence \in 1 .. MaxSequence /\ last \in {NoSequence} \cup 0 .. MaxSequence
  BY MaxSequenceAssumption DEF TypeOK, TrackerState
<1>2. QED
  BY <1>1, MaxSequenceAssumption DEF Verdict, Observe, NextExpected, NoSequence

LEMMA StutterIInv ==
  ASSUME IInv, UNCHANGED vars
  PROVE  IInv'
<1> USE DEF vars, IInv, venueVars, sessionVars, runnerVars
<1>1. TypeOK'
  BY DEF TypeOK
<1>2. FramesRecordBooks' /\ ReadingBegan'
  BY DEF FramesRecordBooks, ReadingBegan
<1>3. SynchronizedBookIsVenueBook' /\ LiveBookIsVenueBook'
  <2>1. SynchronizedBookIsVenueBook'
    BY DEF SynchronizedBookIsVenueBook, IsVenueBook, IsBookAt, Missed, ToldIn
  <2>2. LiveBookIsVenueBook'
    BY LiveBooksStay
  <2>3. QED
    BY <2>1, <2>2
<1>4. NoSessionNoState' /\ RejectionIsPending'
  <2>1. NoSessionNoState'
    BY DEF NoSessionNoState, Synchronized
  <2>2. RejectionIsPending'
    BY DEF RejectionIsPending, StatusForAll
  <2>3. QED
    BY <2>1, <2>2
<1>5. PendingAgrees'
  <2>1. \A product : BooksOf(product, first, last)' = BooksOf(product, first, last)
    BY DEF BooksOf, IsBookAt, Missed, ToldIn
  <2>2. QED
    BY <2>1 DEF PendingAgrees, Synchronized
<1>6. UpdatesFindLive' /\ LastPendingIsCurrent'
  BY DEF UpdatesFindLive, LastPendingIsCurrent, IsLast, Live
<1>7. UntoldAreSupported' /\ UnsupportedIsShown' /\ GapIsPending'
  BY DEF UntoldAreSupported, UnsupportedIsShown, GapIsPending, Settled, Unnamed, Live
<1>8. SettledAgrees' /\ LiveIsFollowed' /\ LiveSessionHasNoBackoff'
  BY DEF SettledAgrees, LiveIsFollowed, LiveSessionHasNoBackoff, Settled, Unnamed, Live,
         Synchronized
<1>9. NothingLiveWithoutSession'
  BY DEF NothingLiveWithoutSession
<1>10. QED
  BY <1>1, <1>2, <1>3, <1>4, <1>5, <1>6, <1>7, <1>8, <1>9

\* What is missed behind a frame is missed before the next one.
LEMMA MissedBetween ==
  ASSUME NEW product, NEW at \in Nat, NEW start \in 1 .. at
  PROVE  Missed(product, start, at, Len(sent[at].messages))
           \subseteq Missed(product, start, at + 1, 0)
<1> SUFFICES ASSUME NEW level \in Missed(product, start, at, Len(sent[at].messages))
             PROVE  level \in Missed(product, start, at + 1, 0)
  OBVIOUS
<1> DEFINE dropped == Dropped(sent[start].messages, product, Len(sent[start].messages))
<1>1. at + 1 # start /\ ~ToldIn(at + 1, product, level, 0)
  BY DEF ToldIn
<1>2. level \in Level /\ level \in dropped
  BY DEF Missed, Dropped
<1>3. ASSUME NEW between \in start + 1 .. at + 1 - 1
      PROVE  ~ToldIn(between, product, level, Len(sent[between].messages))
  <2>1. at # start /\ (between = at \/ between \in start + 1 .. at - 1)
    BY <1>3
  <2>2. QED
    BY <2>1 DEF Missed
<1> HIDE DEF dropped
<1>4. QED
  BY <1>1, <1>2, <1>3 DEF Missed, dropped

\* The books rebuilt from a frame that is not behind a gap are the venue's at that
\* frame, but for what is missed, and each product whose book changed has the
\* changes pending.
LEMMA ReconstructBooksIInv ==
  ASSUME IInv, MayRead, NEW sequence \in DOMAIN sent,
         Verdict(last, sequence) # "Gap",
         \A i \in DOMAIN sent[sequence].messages :
           sent[sequence].messages[i].product \in universe \ rejected,
         ReconstructBooks(sent[sequence], sequence, Verdict(last, sequence))
  PROVE  IInv'
<1> DEFINE messages == sent[sequence].messages
<1>1. TypeOK /\ TypeOK'
  BY ReconstructBooksType DEF IInv
<1>2. PICK verdict, after :
        /\ verdict = Verdict(last, sequence)
        /\ after = AfterMessages(messages, sequence, verdict)
  OBVIOUS
<1>3. /\ reconstructors' = after.books
      /\ pending' = after.events
      /\ last' = Observe(last, sequence)
      /\ first' = IF verdict = "First" THEN sequence ELSE first
      /\ UNCHANGED <<venueBooks, sent, phase, universe, rejected, reconnectRequired,
                     runnerVars, store>>
  BY <1>2 DEF ReconstructBooks
<1>4. phase = "reading" /\ pending = <<>> /\ ~reconnectRequired
  BY DEF MayRead
<1>5. /\ DOMAIN sent = 1 .. Len(sent) /\ Len(sent) \in Nat
      /\ sequence \in Nat /\ sequence >= 1 /\ sequence \in Timestamp
      /\ IsRecorded(sent[sequence]) /\ messages \in Seq(Message)
      /\ reconstructors \in [Product -> Reconstructor] /\ pending \in Seq(Events)
  <2>1. messages \in Seq(Message) /\ sequence \in 1 .. Len(sent) /\ sequence \in 0 .. MaxSequence
    BY <1>1, FrameTypes
  <2>2. IsRecorded(sent[sequence])
    BY <1>1, FrameTypes DEF IInv, FramesRecordBooks, IsRecorded
  <2>3. sequence \in Timestamp
    BY <2>1, FramesAreTimestamped
  <2>4. DOMAIN sent = 1 .. Len(sent) /\ Len(sent) \in Nat
    BY <1>1 DEF TypeOK
  <2>5. QED
    BY <1>1, <2>1, <2>2, <2>3, <2>4 DEF TypeOK
<1>6. \/ verdict = "First" /\ last = NoSequence /\ last' = sequence
      \/ verdict = "InOrder" /\ last >= 0 /\ sequence = last + 1 /\ last' = sequence
      \/ verdict \in {"Duplicate", "Stale"} /\ last' = last
  BY <1>1, <1>2, <1>3, Verdicts
<1>7. \A product \in Product :
        /\ Live(product)' = Live(product)
        /\ Live(product) <=> Synchronized(product)
        /\ Live(product) => store[product].book = reconstructors[product].book
  BY <1>3, <1>4 DEF IInv, SettledAgrees, Settled, Unnamed, Live
<1>8. \A product \in Product : Synchronized(product) =>
        IsVenueBook(reconstructors[product].book, product)
  BY DEF IInv, SynchronizedBookIsVenueBook, Synchronized
<1>9. CASE verdict \in {"Duplicate", "Stale"}
  <2>1. after = [books |-> reconstructors, events |-> pending]
    BY <1>2, <1>5, <1>9, LoopIgnores
  <2>2. UNCHANGED vars
    BY <1>3, <1>6, <1>9, <2>1 DEF vars, venueVars, sessionVars
  <2>3. QED
    BY <2>2, StutterIInv
<1>10. CASE verdict \in {"First", "InOrder"}
  <2>1. PICK start : start = IF verdict = "First" THEN sequence ELSE first
    OBVIOUS
  <2>2. /\ first' = start /\ last' = sequence /\ sent' = sent
        /\ start \in 1 .. sequence
        /\ verdict = "First" <=> sequence = start
    <3>1. CASE verdict = "First"
      BY <1>3, <1>5, <1>6, <2>1, <3>1
    <3>2. CASE verdict = "InOrder"
      <4>1. last >= 0 /\ sequence = last + 1 /\ last' = sequence /\ start = first
        BY <1>3, <1>6, <2>1, <3>2
      <4>2. last \in DOMAIN sent /\ first \in 1 .. last
        BY <1>4, <4>1 DEF IInv, ReadingBegan, NoSequence
      <4>3. QED
        BY <1>3, <1>5, <3>2, <4>1, <4>2
    <3>3. QED
      BY <1>10, <3>1, <3>2
  <2>3. ASSUME NEW product \in Product, Synchronized(product)
        PROVE  /\ verdict = "InOrder"
               /\ IsBookAt(reconstructors[product].book, product, start, sequence, 0)
    <3>1. /\ first \in DOMAIN sent /\ last \in DOMAIN sent
          /\ IsBookAt(reconstructors[product].book, product, first, last,
                      Len(sent[last].messages))
      BY <1>8, <2>3 DEF IsVenueBook
    <3>2. /\ verdict = "InOrder" /\ sequence = last + 1 /\ last >= 1 /\ start = first
          /\ first \in 1 .. last
      BY <1>4, <1>5, <1>6, <1>10, <2>1, <3>1 DEF NoSequence, IInv, ReadingBegan
    <3>3. sent[sequence].books[0] = LastBooks(sent[last])
      <4>1. sequence > 1 /\ sequence - 1 = last
        BY <1>5, <3>1, <3>2
      <4>2. sent[sequence].books[0] = LastBooks(sent[sequence - 1])
        BY <4>1 DEF IInv, FramesRecordBooks
      <4>3. QED
        BY <4>1, <4>2
    <3>4. Missed(product, first, last, Len(sent[last].messages)) \subseteq
            Missed(product, first, sequence, 0)
      BY <1>5, <3>1, <3>2, MissedBetween
    <3>5. QED
      BY <3>1, <3>2, <3>3, <3>4 DEF IsBookAt, LastBooks
  <2>4. PICK done : IsRunOf(done, messages, sequence, verdict)
    BY <1>5, LoopRuns
  <2>5. /\ after = done[Len(messages)] /\ Len(messages) \in 0 .. Len(messages)
        /\ after \in Progress
    BY <1>2, <1>5, <2>4 DEF IsRunOf
  <2>6. start \in Nat
    BY <1>5, <2>2
  <2>7. ASSUME NEW product \in Product, Synchronized(product)'
        PROVE  IsBookAt(reconstructors'[product].book, product, start, sequence, Len(messages))
    <3>1. \A i \in 0 .. Len(messages) :
            done[i].books[product].synchronized =>
              IsBookAt(done[i].books[product].book, product, start, sequence, i)
      BY <1>5, <1>10, <2>2, <2>3, <2>4, <2>6, LoopBooks DEF Synchronized
    <3>2. QED
      BY <1>3, <2>5, <2>7, <3>1 DEF Synchronized
  <2>8. PICK products : products = universe \ rejected
    OBVIOUS
  <2>9. EventsFollow(pending', reconstructors', products, start, sequence)
    <3>1. products \in SUBSET Product
      BY <1>1, <2>8 DEF TypeOK
    <3>2. \A i \in DOMAIN messages : messages[i].product \in products
      BY <2>8
    <3>3. \A i \in 0 .. Len(messages) :
            EventsFollow(done[i].events, done[i].books, products, start, sequence)
      BY <1>4, <1>5, <1>10, <2>2, <2>3, <2>4, <2>6, <3>1, <3>2, LoopEvents DEF Synchronized
    <3>4. EventsFollow(after.events, after.books, products, start, sequence)
      BY <2>5, <3>3
    <3>5. QED
      BY <1>3, <3>4
  <2>10. ASSUME NEW product \in Product, Live(product)
         PROVE  /\ product \in universe /\ first' = first /\ last \in DOMAIN sent
                /\ store[product].timestamp \in DOMAIN sent
                /\ store[product].timestamp <= last
                /\ sequence = last + 1
    <3>1. /\ product \in universe /\ last \in DOMAIN sent
          /\ store[product].timestamp \in DOMAIN sent
          /\ store[product].timestamp <= last
      BY <1>4, <2>10 DEF IInv, LiveIsFollowed, LiveBookIsVenueBook, Live
    <3>2. verdict = "InOrder"
      BY <1>7, <2>3, <2>10
    <3>3. QED
      BY <1>3, <1>6, <3>1, <3>2
  <2>11. \A product, book : /\ BooksOf(product, start, sequence)' = BooksOf(product, first, last)'
                            /\ BooksOf(product, start, sequence)' = BooksOf(product, start, sequence)
    BY <2>2, SameFrames DEF BooksOf, IsBookAt, Missed, ToldIn
  <2>12. FramesRecordBooks'
    BY <1>3 DEF IInv, FramesRecordBooks
  <2>13. ReadingBegan'
    BY <2>2 DEF ReadingBegan
  <2>14. SynchronizedBookIsVenueBook'
    <3>1. ASSUME NEW product \in Product, Synchronized(product)'
          PROVE  IsVenueBook(reconstructors[product].book, product)'
      <4>1. IsBookAt(reconstructors'[product].book, product, start, sequence, Len(messages))
        BY <2>7, <3>1
      <4>2. start \in DOMAIN sent'
        BY <1>5, <2>2
      <4>3. QED
        BY <2>2, <4>1, <4>2 DEF IsVenueBook, IsBookAt, Missed, ToldIn
    <3>2. QED
      BY <3>1 DEF SynchronizedBookIsVenueBook, Synchronized
  <2>15. LiveBookIsVenueBook'
    <3>1. ASSUME NEW product \in Product, Live(product)
          PROVE  /\ store'[product].timestamp \in DOMAIN sent'
                 /\ first' \in 1 .. store'[product].timestamp
                 /\ store'[product].book
                      \in BooksOf(product, first, store[product].timestamp)'
      <4>1. first' = first /\ store' = store /\ sent' = sent
        BY <1>3, <2>10, <3>1
      <4>2. /\ store'[product].timestamp \in DOMAIN sent
            /\ first \in 1 .. store'[product].timestamp
            /\ store'[product].book \in BooksOf(product, first, store'[product].timestamp)
        BY <3>1, <4>1 DEF IInv, LiveBookIsVenueBook, Live
      <4>3. ShowsBookOf(product)'
        BY <4>1, <4>2, ShowsBookStays
      <4>4. QED
        BY <4>3 DEF ShowsBookOf
    <3>2. QED
      BY <1>7, <3>1 DEF LiveBookIsVenueBook, Live
  <2>16. NoSessionNoState' /\ UntoldAreSupported' /\ UnsupportedIsShown'
    BY <1>3, <1>4
       DEF IInv, NoSessionNoState, UntoldAreSupported, UnsupportedIsShown, runnerVars
  <2>17. PendingAgrees'
    <3> SUFFICES ASSUME NEW i \in DOMAIN pending', NEW product \in DOMAIN pending'[i]
                 PROVE  LET event == pending'[i][product]
                        IN  /\ product \in universe'
                            /\ event.kind = "status" => ~Synchronized(product)'
                            /\ event.kind = "book" =>
                                 /\ event.type \in {"Snapshot", "Update"}
                                 /\ Synchronized(product)' /\ ~reconnectRequired'
                                 /\ event.timestamp = last'
                                 /\ event.book \in BooksOf(product, first, last)'
      BY DEF PendingAgrees
    <3> DEFINE event == pending'[i][product]
    <3>1. /\ product \in products /\ reconstructors'[product].synchronized
          /\ event.kind = "book" /\ event.type \in {"Snapshot", "Update"}
          /\ event.timestamp = sequence /\ event.book \in BooksOf(product, start, sequence)
      BY <2>9 DEF EventsFollow
    <3> HIDE DEF event
    <3>2. event.book \in BooksOf(product, first, last)'
      BY <2>11, <3>1
    <3>3. QED
      BY <1>3, <1>4, <2>2, <2>8, <3>1, <3>2 DEF Synchronized, event
  <2>18. UpdatesFindLive'
    <3> SUFFICES ASSUME NEW i \in DOMAIN pending', NEW product \in DOMAIN pending'[i],
                        pending'[i][product].type = "Update"
                 PROVE  \/ Live(product)'
                        \/ \E before \in 1 .. i - 1 : product \in DOMAIN pending'[before]
      BY DEF UpdatesFindLive
    <3>1. /\ product \in products
          /\ \/ reconstructors[product].synchronized
             \/ \E before \in 1 .. i - 1 : product \in DOMAIN pending'[before]
      BY <2>9 DEF EventsFollow
    <3>2. product \in Product
      BY <1>1, <2>8, <3>1 DEF TypeOK
    <3>3. QED
      BY <1>7, <3>1, <3>2 DEF Synchronized
  <2>19. LastPendingIsCurrent'
    <3>1. ASSUME NEW i \in DOMAIN pending', NEW product \in DOMAIN pending'[i],
                 IsLast(pending', i, product)
          PROVE  pending'[i][product].book = reconstructors'[product].book
      BY <2>9, <3>1 DEF EventsFollow
    <3>2. QED
      BY <3>1 DEF LastPendingIsCurrent, IsLast
  <2>20. SettledAgrees'
    <3>1. ASSUME NEW product \in Product, Settled(product)'
          PROVE  reconstructors'[product] = reconstructors[product]
      BY <2>9, <3>1 DEF EventsFollow, Settled, Unnamed
    <3>2. QED
      BY <1>3, <1>7, <3>1 DEF SettledAgrees, Synchronized
  <2>21. LiveIsFollowed'
    <3>1. ASSUME NEW product \in Product, Live(product)
          PROVE  /\ product \in universe' /\ last' \in DOMAIN sent'
                 /\ store'[product].timestamp <= last'
      BY <1>3, <1>5, <2>2, <2>10, <3>1
    <3>2. QED
      BY <1>7, <3>1 DEF LiveIsFollowed
  <2>22. GapIsPending' /\ RejectionIsPending'
    BY <1>3, <1>4 DEF IInv, GapIsPending, RejectionIsPending, runnerVars
  <2>23. NothingLiveWithoutSession' /\ LiveSessionHasNoBackoff'
    BY <1>3, <1>4 DEF IInv, NothingLiveWithoutSession, LiveSessionHasNoBackoff, runnerVars
  <2>24. QED
    BY <1>1, <2>12, <2>13, <2>14, <2>15, <2>16, <2>17, <2>18, <2>19, <2>20, <2>21, <2>22,
       <2>23 DEF IInv
<1>11. QED
  BY <1>6, <1>9, <1>10

\* Telling one product that the session is gone takes its live status away.
LEMMA TellDisconnectedIInv ==
  ASSUME IInv, TypeOK', NEW product \in Product, TellDisconnected(product)
  PROVE  IInv'
<1>1. /\ phase = "disconnected" /\ product \in untold
      /\ untold' = untold \ {product}
      /\ store' = [store EXCEPT ![product] = SetStatus(@, "Disconnected")]
      /\ UNCHANGED <<venueVars, phase, sessionVars, unsupported, nominal>>
  BY DEF TellDisconnected
<1>2. /\ store'[product].status = "Disconnected"
      /\ \A other \in Product \ {product} : store'[other] = store[other]
  BY <1>1 DEF IInv, TypeOK, SetStatus
<1>3. product \notin unsupported
  BY <1>1 DEF IInv, UntoldAreSupported
<1>4. LiveBookIsVenueBook'
  BY <1>1, <1>2, LiveBooksStay DEF IInv, venueVars
<1> USE <1>1 DEF IInv, venueVars, sessionVars
<1>5. FramesRecordBooks' /\ SynchronizedBookIsVenueBook'
  BY DEF FramesRecordBooks, SynchronizedBookIsVenueBook, NoSessionNoState, Synchronized
<1>6. /\ NoSessionNoState' /\ RejectionIsPending' /\ ReadingBegan'
      /\ PendingAgrees' /\ UpdatesFindLive' /\ LastPendingIsCurrent'
  BY DEF NoSessionNoState, RejectionIsPending, ReadingBegan, PendingAgrees, UpdatesFindLive,
         LastPendingIsCurrent, Synchronized
<1>7. UntoldAreSupported' /\ UnsupportedIsShown'
  BY <1>2, <1>3 DEF UntoldAreSupported, UnsupportedIsShown
<1>8. SettledAgrees' /\ LiveIsFollowed' /\ GapIsPending' /\ LiveSessionHasNoBackoff'
  BY DEF SettledAgrees, LiveIsFollowed, GapIsPending, LiveSessionHasNoBackoff
<1>9. NothingLiveWithoutSession'
  BY <1>2 DEF NothingLiveWithoutSession
<1>10. QED
  BY <1>4, <1>5, <1>6, <1>7, <1>8, <1>9

\* Once every product is told, no market is live, whether the runner goes on or
\* returns.
LEMMA AllToldDisconnectedIInv ==
  ASSUME IInv, TypeOK', AllToldDisconnected
  PROVE  IInv'
<1>1. /\ phase = "disconnected" /\ untold = {}
      /\ phase' \in {"stopped", "reconnecting"}
      /\ untold' \in {{}, SupportedProducts}
      /\ sent' = <<>> /\ first' = NoSequence
      /\ UNCHANGED <<sessionVars, unsupported, store>>
  BY DEF AllToldDisconnected
<1>2. \A product \in Product : store'[product].status # "Live"
  BY <1>1 DEF IInv, NothingLiveWithoutSession
<1>3. \A product \in Product : ~Synchronized(product)'
  BY <1>1 DEF IInv, NoSessionNoState, Synchronized, sessionVars
<1> USE <1>1 DEF IInv, sessionVars
<1>4. FramesRecordBooks'
  BY DEF FramesRecordBooks
<1>5. SynchronizedBookIsVenueBook' /\ LiveBookIsVenueBook'
  BY <1>2, <1>3 DEF SynchronizedBookIsVenueBook, LiveBookIsVenueBook, Synchronized
<1>6. /\ NoSessionNoState' /\ RejectionIsPending' /\ ReadingBegan'
      /\ PendingAgrees' /\ UpdatesFindLive' /\ LastPendingIsCurrent'
  BY <1>3 DEF NoSessionNoState, RejectionIsPending, ReadingBegan, PendingAgrees,
              UpdatesFindLive, LastPendingIsCurrent
<1>7. UntoldAreSupported' /\ UnsupportedIsShown'
  BY DEF UntoldAreSupported, UnsupportedIsShown, SupportedProducts
<1>8. SettledAgrees' /\ LiveIsFollowed' /\ GapIsPending' /\ LiveSessionHasNoBackoff'
  BY DEF SettledAgrees, LiveIsFollowed, GapIsPending, LiveSessionHasNoBackoff
<1>9. NothingLiveWithoutSession'
  BY <1>2 DEF NothingLiveWithoutSession
<1>10. QED
  BY <1>4, <1>5, <1>6, <1>7, <1>8, <1>9

\* Announcing the next attempt only moves statuses that are not live already.
LEMMA TellReconnectingIInv ==
  ASSUME IInv, TypeOK', NEW product \in Product, TellReconnecting(product)
  PROVE  IInv'
<1>1. /\ phase = "reconnecting" /\ product \in untold
      /\ untold' = untold \ {product}
      /\ store' = [store EXCEPT ![product] = SetStatus(@, "Reconnecting")]
      /\ UNCHANGED <<venueVars, phase, sessionVars, unsupported, nominal>>
  BY DEF TellReconnecting
<1>2. /\ store'[product].status = "Reconnecting"
      /\ \A other \in Product \ {product} : store'[other] = store[other]
  BY <1>1 DEF IInv, TypeOK, SetStatus
<1>3. product \notin unsupported
  BY <1>1 DEF IInv, UntoldAreSupported
<1>4. LiveBookIsVenueBook'
  BY <1>1, <1>2, LiveBooksStay DEF IInv, venueVars
<1> USE <1>1 DEF IInv, venueVars, sessionVars
<1>5. FramesRecordBooks' /\ SynchronizedBookIsVenueBook'
  BY DEF FramesRecordBooks, SynchronizedBookIsVenueBook, NoSessionNoState, Synchronized
<1>6. /\ NoSessionNoState' /\ RejectionIsPending' /\ ReadingBegan'
      /\ PendingAgrees' /\ UpdatesFindLive' /\ LastPendingIsCurrent'
  BY DEF NoSessionNoState, RejectionIsPending, ReadingBegan, PendingAgrees, UpdatesFindLive,
         LastPendingIsCurrent, Synchronized
<1>7. UntoldAreSupported' /\ UnsupportedIsShown'
  BY <1>2, <1>3 DEF UntoldAreSupported, UnsupportedIsShown
<1>8. SettledAgrees' /\ LiveIsFollowed' /\ GapIsPending' /\ LiveSessionHasNoBackoff'
  BY DEF SettledAgrees, LiveIsFollowed, GapIsPending, LiveSessionHasNoBackoff
<1>9. NothingLiveWithoutSession'
  BY <1>2 DEF NothingLiveWithoutSession
<1>10. QED
  BY <1>4, <1>5, <1>6, <1>7, <1>8, <1>9

\* Waking up changes nothing but where the runner is.
LEMMA WakeUpIInv ==
  ASSUME IInv, TypeOK', WakeUp
  PROVE  IInv'
<1> USE DEF WakeUp, IInv, venueVars, sessionVars, runnerVars
<1>1. FramesRecordBooks' /\ SynchronizedBookIsVenueBook' /\ LiveBookIsVenueBook'
  <2>1. FramesRecordBooks' /\ SynchronizedBookIsVenueBook'
    BY DEF FramesRecordBooks, SynchronizedBookIsVenueBook, NoSessionNoState, Synchronized
  <2>2. \A product \in Product : store'[product].status # "Live"
    BY DEF NothingLiveWithoutSession
  <2>3. QED
    BY <2>1, <2>2 DEF LiveBookIsVenueBook
<1>2. /\ NoSessionNoState' /\ RejectionIsPending' /\ ReadingBegan'
      /\ PendingAgrees' /\ UpdatesFindLive' /\ LastPendingIsCurrent'
  BY DEF NoSessionNoState, RejectionIsPending, ReadingBegan, PendingAgrees, UpdatesFindLive,
         LastPendingIsCurrent, Synchronized
<1>3. UntoldAreSupported' /\ UnsupportedIsShown'
  BY DEF UntoldAreSupported, UnsupportedIsShown
<1>4. SettledAgrees' /\ LiveIsFollowed' /\ GapIsPending' /\ LiveSessionHasNoBackoff'
  BY DEF SettledAgrees, LiveIsFollowed, GapIsPending, LiveSessionHasNoBackoff
<1>5. NothingLiveWithoutSession'
  BY DEF NothingLiveWithoutSession
<1>6. QED
  BY <1>1, <1>2, <1>3, <1>4, <1>5

\* A frame read is a gap, a rebuilding of the books it names, or a failure.
LEMMA ReadFrameIInv ==
  ASSUME IInv, NEW sequence \in DOMAIN sent, ReadFrame(sequence)
  PROVE  IInv'
<1>1. MayRead /\ untold = {}
  BY DEF ReadFrame, MayRead, IInv, UntoldAreSupported
<1>2. CASE Verdict(last, sequence) = "Gap"
  BY <1>1, <1>2, InvalidateAllIInv DEF ReadFrame
<1>3. CASE /\ Verdict(last, sequence) # "Gap"
           /\ \A i \in DOMAIN sent[sequence].messages :
                sent[sequence].messages[i].product \in universe \ rejected
  BY <1>1, <1>3, ReconstructBooksIInv DEF ReadFrame
<1>4. CASE /\ Verdict(last, sequence) # "Gap"
           /\ ~\A i \in DOMAIN sent[sequence].messages :
                sent[sequence].messages[i].product \in universe \ rejected
  BY <1>1, <1>4, SessionFailsIInv DEF ReadFrame
<1>5. QED
  BY <1>2, <1>3, <1>4

LEMMA NextIInv == IInv /\ [Next]_vars => IInv'
<1> SUFFICES ASSUME IInv, [Next]_vars PROVE IInv'
  OBVIOUS
<1>1. TypeOK'
  BY NextTypeOK DEF IInv
<1>2. CASE VenueSend
  BY <1>2, VenueSendIInv
<1>3. CASE OpenSession
  BY <1>3, OpenSessionIInv
<1>4. CASE ConnectFails
  BY <1>4, SessionFailsIInv DEF ConnectFails, IInv, UntoldAreSupported
<1>5. ASSUME NEW product \in Product, PublishPending(product) PROVE IInv'
  BY <1>5, PublishPendingIInv
<1>6. CASE ReconnectAfterGap
  BY <1>6, SessionFailsIInv DEF ReconnectAfterGap, IInv, UntoldAreSupported
<1>7. ASSUME NEW product \in Product, TellDisconnected(product) PROVE IInv'
  BY <1>1, <1>7, TellDisconnectedIInv
<1>8. CASE AllToldDisconnected
  BY <1>1, <1>8, AllToldDisconnectedIInv
<1>9. ASSUME NEW product \in Product, TellReconnecting(product) PROVE IInv'
  BY <1>1, <1>9, TellReconnectingIInv
<1>10. CASE WakeUp
  BY <1>1, <1>10, WakeUpIInv
<1>11. ASSUME NEW sequence \in DOMAIN sent, ReadFrame(sequence) PROVE IInv'
  BY <1>11, ReadFrameIInv
<1>12. ASSUME NEW product \in Product, ReadRejection(product) PROVE IInv'
  BY <1>12, ReadRejectionIInv
<1>13. CASE WireFails
  BY <1>13, SessionFailsIInv DEF WireFails, MayRead, IInv, UntoldAreSupported
<1>14. CASE UNCHANGED vars
  BY <1>14, StutterIInv
<1>15. QED
  BY <1>2, <1>3, <1>4, <1>5, <1>6, <1>7, <1>8, <1>9, <1>10, <1>11, <1>12, <1>13, <1>14
     DEF Next, RunnerStep, ReadStep

\* The session, the runner and the store agree as IInv says in every state.
THEOREM IInvHolds == Spec => []IInv
<1>1. QED
  BY InitIInv, NextIInv, PTL DEF Spec

(***************************************************************************)
(* What a reader of the markets may rely on.                               *)
(***************************************************************************)

\* Whatever frames are lost, repeated or reordered on the wire, and however many
\* messages of a product a frame carries, a reconstructor that calls itself
\* synchronized holds the venue's book as of the last frame the session accepted,
\* wrong at most where the session's first frame changed it behind a snapshot.
THEOREM SynchronizedCorrect == Spec => []SynchronizedBookIsVenueBook
<1>1. IInv => SynchronizedBookIsVenueBook
  BY DEF IInv
<1>2. QED
  BY <1>1, IInvHolds, PTL

\* A market the store calls live holds the venue's book behind a message about it in
\* the frame that stamps it, but for what that first frame lost.
THEOREM LiveCorrect == Spec => []LiveBookIsVenueBook
<1>1. IInv => LiveBookIsVenueBook
  BY DEF IInv
<1>2. QED
  BY <1>1, IInvHolds, PTL

\* When the runner next reads the wire, the live markets of the store are exactly
\* the synchronized ones, with the books behind the last accepted frame and no
\* longer those from within it.
THEOREM StoreCurrent == Spec => []StoreIsCurrentAtRead
<1>1. IInv => StoreIsCurrentAtRead
  <2> SUFFICES ASSUME IInv, MayRead, NEW product \in Product
               PROVE  /\ Live(product) <=> Synchronized(product)
                      /\ Live(product) => IsVenueBook(store[product].book, product)
    BY DEF StoreIsCurrentAtRead, Live, Synchronized
  <2>1. phase = "reading" /\ Settled(product)
    BY DEF MayRead, Settled, Unnamed
  <2>2. /\ Live(product) <=> Synchronized(product)
        /\ Live(product) => store[product].book = reconstructors[product].book
    BY <2>1 DEF IInv, SettledAgrees
  <2>3. Synchronized(product) => IsVenueBook(reconstructors[product].book, product)
    BY DEF IInv, SynchronizedBookIsVenueBook, Synchronized
  <2>4. QED
    BY <2>2, <2>3
<1>2. QED
  BY <1>1, IInvHolds, PTL

\* No market is live once a gap has been reported, nor by the time the runner
\* reconnects, waits or has returned.
THEOREM NothingLiveOutside == Spec => []NothingLiveWithoutSession
<1>1. IInv => NothingLiveWithoutSession
  BY DEF IInv
<1>2. QED
  BY <1>1, IInvHolds, PTL

\* A session with a live market is retried at once when it fails.
THEOREM NoBackoffWhileLive == Spec => []LiveSessionHasNoBackoff
<1>1. IInv => LiveSessionHasNoBackoff
  BY DEF IInv
<1>2. QED
  BY <1>1, IInvHolds, PTL

\* Only publishing an event and telling a status write to the store.
LEMMA StoreWriters ==
  ASSUME [Next]_vars
  PROVE  \/ store' = store
         \/ \E product \in Product : /\ phase = "reading"
                                     /\ pending # <<>> /\ product \in DOMAIN Head(pending)
                                     /\ store' = Published(product, Head(pending)[product])
         \/ \E product \in Product, status \in {"Disconnected", "Reconnecting"} :
              store' = [store EXCEPT ![product] = SetStatus(@, status)]
<1> USE DEF venueVars, sessionVars, runnerVars, SessionFails
<1>1. CASE VenueSend
  BY <1>1 DEF VenueSend
<1>2. ASSUME NEW product \in Product, PublishPending(product)
      PROVE  \/ store' = store
             \/ /\ phase = "reading"
                /\ pending # <<>> /\ product \in DOMAIN Head(pending)
                /\ store' = Published(product, Head(pending)[product])
  BY <1>2 DEF PublishPending
<1>3. ASSUME NEW sequence \in DOMAIN sent, ReadFrame(sequence)
      PROVE  store' = store
  BY <1>3 DEF ReadFrame, InvalidateAll, ReconstructBooks
<1>4. CASE OpenSession \/ ConnectFails \/ ReconnectAfterGap \/ AllToldDisconnected \/ WakeUp
            \/ WireFails \/ UNCHANGED vars
  BY <1>4 DEF OpenSession, ConnectFails, ReconnectAfterGap, AllToldDisconnected, WakeUp,
              WireFails, vars
<1>5. ASSUME NEW product \in Product, ReadRejection(product)
      PROVE  store' = store
  BY <1>5 DEF ReadRejection
<1>6. ASSUME NEW product \in Product, TellDisconnected(product) \/ TellReconnecting(product)
      PROVE  \E status \in {"Disconnected", "Reconnecting"} :
               store' = [store EXCEPT ![product] = SetStatus(@, status)]
  BY <1>6 DEF TellDisconnected, TellReconnecting
<1>7. QED
  BY <1>1, <1>2, <1>3, <1>4, <1>5, <1>6 DEF Next, RunnerStep, ReadStep

\* A market that stays live is never shown an older book of its venue again.
THEOREM LiveMovesForward == Spec => LiveBookNeverRollsBack
<1>1. IInv /\ [Next]_vars =>
        [\A product \in Product :
           store[product].status = "Live" /\ store'[product].status = "Live"
             => store'[product].timestamp >= store[product].timestamp]_vars
  <2> SUFFICES ASSUME IInv, [Next]_vars, NEW product \in Product,
                      Live(product), store'[product].status = "Live"
               PROVE  store'[product].timestamp >= store[product].timestamp
    BY DEF Live
  <2>1. TypeOK
    BY DEF IInv
  <2>2. store[product].timestamp \in Nat
    BY <2>1 DEF IInv, LiveBookIsVenueBook, Live, TypeOK
  <2>3. CASE store' = store
    BY <2>2, <2>3
  <2>4. ASSUME NEW told \in Product, phase = "reading", pending # <<>>,
               told \in DOMAIN Head(pending), store' = Published(told, Head(pending)[told])
        PROVE  store'[product].timestamp >= store[product].timestamp
    <3> DEFINE event == Head(pending)[told]
    <3>1. CASE store'[product] = store[product]
      BY <2>2, <3>1
    <3>2. CASE store'[product] # store[product]
      <4>1. product = told /\ store'[product] = ApplyEvent(store[product], event)
        BY <2>1, <2>4, <3>2 DEF Published, TypeOK
      <4>2. Head(pending) = pending[1] /\ 1 \in DOMAIN pending /\ Head(pending) \in Events
        BY <2>1, <2>4 DEF TypeOK
      <4>3. event \in MarketEvent
        BY <2>4, <4>2 DEF Events
      <4>4. event.kind = "book" /\ event.type # "Invalidated"
        BY <4>1, <4>3 DEF MarketEvent, ApplyEvent, SetStatus, ApplyTrusted, NonLiveStatus,
                          InvalidatedEvent, BookEvent
      <4>5. event.timestamp = last
        BY <2>4, <4>1, <4>2, <4>4 DEF IInv, PendingAgrees
      <4>6. store'[product].timestamp = last
        BY <3>2, <4>1, <4>4, <4>5 DEF ApplyEvent, ApplyTrusted
      <4>7. store[product].timestamp <= last
        BY <2>4 DEF IInv, LiveIsFollowed
      <4>8. QED
        BY <2>1, <2>2, <4>6, <4>7 DEF TypeOK, TrackerState, NoSequence
    <3>3. QED
      BY <3>1, <3>2
  <2>5. ASSUME NEW told \in Product, NEW status \in {"Disconnected", "Reconnecting"},
               store' = [store EXCEPT ![told] = SetStatus(@, status)]
        PROVE  store'[product].timestamp >= store[product].timestamp
    BY <2>1, <2>2, <2>5 DEF TypeOK, SetStatus
  <2>6. QED
    BY <2>3, <2>4, <2>5, StoreWriters
<1>2. QED
  BY <1>1, IInvHolds, PTL DEF Spec, LiveBookNeverRollsBack

\* A product shown as rejected for good is shown so through every later failure,
\* recovery announcement and session, and no session that begins behind the
\* rejection subscribes to it.
THEOREM RejectionStays == Spec => RejectionIsPermanent
<1>1. [Next]_vars =>
        /\ unsupported \subseteq unsupported'
        /\ universe' \subseteq universe \/ universe' = Product \ unsupported
  <2> SUFFICES ASSUME [Next]_vars
               PROVE  /\ unsupported \subseteq unsupported'
                      /\ universe' \subseteq universe \/ universe' = Product \ unsupported
    OBVIOUS
  <2> USE DEF venueVars, sessionVars, runnerVars, SessionFails
  <2>1. CASE VenueSend
    BY <2>1 DEF VenueSend
  <2>2. ASSUME NEW product \in Product, PublishPending(product)
        PROVE  unsupported \subseteq unsupported' /\ universe' \subseteq universe
    BY <2>2 DEF PublishPending
  <2>3. ASSUME NEW sequence \in DOMAIN sent, ReadFrame(sequence)
        PROVE  unsupported' = unsupported /\ universe' \subseteq universe
    BY <2>3 DEF ReadFrame, InvalidateAll, ReconstructBooks
  <2>4. CASE OpenSession
    BY <2>4 DEF OpenSession, SupportedProducts
  <2>5. CASE ConnectFails \/ ReconnectAfterGap \/ AllToldDisconnected \/ WakeUp
              \/ WireFails \/ UNCHANGED vars
    BY <2>5 DEF ConnectFails, ReconnectAfterGap, AllToldDisconnected, WakeUp, WireFails, vars
  <2>6. ASSUME NEW product \in Product,
               ReadRejection(product) \/ TellDisconnected(product) \/ TellReconnecting(product)
        PROVE  unsupported' = unsupported /\ universe' = universe
    BY <2>6 DEF ReadRejection, TellDisconnected, TellReconnecting
  <2>7. QED
    BY <2>1, <2>2, <2>3, <2>4, <2>5, <2>6 DEF Next, RunnerStep, ReadStep
<1>2. IInv /\ IInv' /\ [Next]_vars =>
        [\A product \in Product :
           store[product].status = "Unsupported" =>
             /\ store'[product].status = "Unsupported"
             /\ product \in universe' => product \in universe]_vars
  BY <1>1 DEF IInv, UnsupportedIsShown
<1>3. QED
  BY <1>2, IInvHolds, PTL DEF Spec, RejectionIsPermanent
------------------------------------------------------------------------------
(***************************************************************************)
(* CoinbaseUniverse implements TrustedMarkets, for every value of its      *)
(* constants: every step of the session and its runner is a step of the    *)
(* abstract specification, or changes nothing it speaks of.                *)
(***************************************************************************)

\* A session that accepted a frame was told those from its first one on.
LEMMA BooksToldAt ==
  ASSUME IInv, last # NoSequence
  PROVE  /\ phase = "reading" /\ first \in DOMAIN sent /\ last \in DOMAIN sent
         /\ first \in Nat /\ last \in Nat /\ first <= last
         /\ DOMAIN BooksTold = 1 .. last - first + 1
         /\ \A n \in DOMAIN BooksTold :
              /\ first + n - 1 \in DOMAIN sent
              /\ \A product \in Product :
                   BooksTold[n][product] = BooksOf(product, first, first + n - 1)
<1>1. phase = "reading" /\ last \in DOMAIN sent /\ first \in 1 .. last
  BY DEF IInv, NoSessionNoState, ReadingBegan
<1>2. DOMAIN sent = 1 .. Len(sent) /\ Len(sent) \in Nat
  BY DEF IInv, TypeOK
<1>3. /\ DOMAIN BooksTold = 1 .. last - first + 1
      /\ \A n \in DOMAIN BooksTold : \A product \in Product :
           BooksTold[n][product] = BooksOf(product, first, first + n - 1)
  BY DEF BooksTold
<1>4. ASSUME NEW n \in 1 .. last - first + 1
      PROVE  first + n - 1 \in DOMAIN sent
  BY <1>1, <1>2
<1>5. QED
  BY <1>1, <1>2, <1>3, <1>4

\* What a reader cannot tell from a step of the abstract specification that
\* changes nothing.
LEMMA UnseenStep ==
  ASSUME sent' = sent, first' = first, last' = last, store' = store, Trusted' = Trusted
  PROVE  UNCHANGED Markets!vars
<1>1. BooksTold' = BooksTold
  BY DEF BooksTold, BooksOf, IsBookAt, Missed, ToldIn
<1>2. QED
  BY <1>1 DEF Markets!vars, LiveMarkets

\* The two ends of a market: made live, it shows the book; otherwise nothing.
LEMMA LiveMarketsAt ==
  ASSUME NEW product \in Product
  PROVE  /\ Live(product) =>
              LiveMarkets[product] =
                {[at |-> store[product].timestamp - first + 1, top |-> store[product].book]}
         /\ ~Live(product) => LiveMarkets[product] = {}
  BY DEF LiveMarkets, Live

\* A session that fails breaks the connection, or takes what was told with it when
\* the connection was broken already.
LEMMA FailureBreaks ==
  ASSUME SessionFails
  PROVE  Markets!Break \/ Markets!Forget
<1>1. /\ LiveMarkets' = LiveMarkets /\ ~Trusted' /\ Trusted' \in BOOLEAN
      /\ Trusted \in BOOLEAN /\ BooksTold' = <<>>
  BY DEF SessionFails, LiveMarkets, Trusted, BooksTold, venueVars
<1>2. QED
  BY <1>1 DEF Markets!Break, Markets!Forget

\* A gap breaks it.
LEMMA GapBreaks ==
  ASSUME MayRead, InvalidateAll
  PROVE  Markets!Break
<1>1. Trusted = TRUE /\ Trusted' = FALSE
  BY DEF MayRead, InvalidateAll, Trusted
<1>2. LiveMarkets' = LiveMarkets
  BY DEF InvalidateAll, LiveMarkets, venueVars
<1>3. BooksTold' = BooksTold
  BY DEF InvalidateAll, BooksTold, BooksOf, IsBookAt, Missed, ToldIn, venueVars
<1>4. QED
  BY <1>1, <1>2, <1>3 DEF Markets!Break

\* Telling one market something that is not live takes it down, or is not seen.
LEMMA TakingDown ==
  ASSUME TypeOK, NEW product \in Product, NEW entry, entry.status # "Live",
         store' = [store EXCEPT ![product] = entry],
         sent' = sent, first' = first, last' = last, Trusted' = Trusted
  PROVE  Markets!TakeDown \/ UNCHANGED Markets!vars
<1>1. LiveMarkets' = [LiveMarkets EXCEPT ![product] = {}]
  <2>1. LiveMarkets'[product] = {}
    BY DEF LiveMarkets, TypeOK
  <2>2. \A other \in Product \ {product} : LiveMarkets'[other] = LiveMarkets[other]
    BY DEF LiveMarkets, TypeOK
  <2>3. /\ LiveMarkets' = [other \in Product |-> LiveMarkets'[other]]
        /\ LiveMarkets = [other \in Product |-> LiveMarkets[other]]
    BY DEF LiveMarkets
  <2>4. QED
    BY <2>1, <2>2, <2>3
<1>2. BooksTold' = BooksTold
  BY DEF BooksTold, BooksOf, IsBookAt, Missed, ToldIn
<1>3. CASE LiveMarkets[product] = {}
  <2>1. LiveMarkets = [other \in Product |-> LiveMarkets[other]]
    BY DEF LiveMarkets
  <2>2. LiveMarkets' = LiveMarkets
    BY <1>1, <1>3, <2>1
  <2>3. QED
    BY <1>2, <2>2 DEF Markets!vars
<1>4. CASE LiveMarkets[product] # {}
  BY <1>1, <1>2, <1>4 DEF Markets!TakeDown, Markets!TakenDown
<1>5. QED
  BY <1>3, <1>4

\* Nothing is live while connecting.
LEMMA NothingLive ==
  ASSUME IInv, phase = "connecting"
  PROVE  Markets!NothingIsLive
<1>1. \A product \in Product : ~Live(product)
  BY DEF IInv, NothingLiveWithoutSession, Live
<1>2. QED
  BY <1>1 DEF Markets!NothingIsLive, LiveMarkets, Live

\* A frame sent tells nothing before it is read.
LEMMA SendingUnseen ==
  ASSUME IInv, VenueSend
  PROVE  UNCHANGED Markets!vars
<1>1. PICK frame \in Frame : sent' = Append(sent, frame)
  BY VenueSends DEF IInv
<1>2. /\ first' = first /\ last' = last /\ store' = store /\ Trusted' = Trusted
  BY DEF VenueSend, sessionVars, Trusted
<1>3. sent \in Seq(Frame)
  BY DEF IInv, TypeOK
<1>4. /\ DOMAIN sent = 1 .. Len(sent) /\ Len(sent) \in Nat
      /\ \A n \in DOMAIN sent : n \in DOMAIN sent' /\ sent'[n] = sent[n]
  BY <1>1, <1>3
<1>5. LiveMarkets' = LiveMarkets
  BY <1>2 DEF LiveMarkets
<1>6. BooksTold' = BooksTold
  <2>1. CASE last = NoSequence
    BY <1>2, <2>1 DEF BooksTold
  <2>2. CASE last # NoSequence
    <3>1. PICK start, end : start = first /\ end = last
      OBVIOUS
    <3>2. /\ start \in DOMAIN sent /\ start = first' /\ end = last'
          /\ \A n \in 1 .. end - start + 1 : start + n - 1 \in DOMAIN sent
      BY <1>2, <2>2, <3>1, BooksToldAt
    <3>3. ASSUME NEW n \in 1 .. end - start + 1, NEW product \in Product
          PROVE  BooksOf(product, start, start + n - 1)' = BooksOf(product, start, start + n - 1)
      <4>1. PICK at : at = start + n - 1
        OBVIOUS
      <4>2. at \in DOMAIN sent
        BY <3>2, <4>1
      <4>3. BooksOf(product, start, at)' = BooksOf(product, start, at)
        BY <1>4, <3>2, <4>2, SentStays
      <4>4. QED
        BY <4>1, <4>3
    <3>4. /\ BooksTold = [n \in 1 .. end - start + 1 |->
                            [product \in Product |-> BooksOf(product, start, start + n - 1)]]
          /\ BooksTold' = [n \in 1 .. end - start + 1 |->
                            [product \in Product |-> BooksOf(product, start, start + n - 1)']]
      BY <1>2, <2>2, <3>1 DEF BooksTold
    <3>5. QED
      BY <3>3, <3>4
  <2>3. QED
    BY <2>1, <2>2
<1>7. QED
  BY <1>2, <1>5, <1>6 DEF Markets!vars

\* A frame accepted is told, and one repeated or late is not seen.
LEMMA AcceptingTells ==
  ASSUME IInv, MayRead, NEW sequence \in DOMAIN sent, Verdict(last, sequence) # "Gap",
         ReconstructBooks(sent[sequence], sequence, Verdict(last, sequence))
  PROVE  Markets!Tell \/ UNCHANGED Markets!vars
<1>1. /\ sent' = sent /\ store' = store /\ Trusted /\ Trusted' = Trusted
      /\ last' = Observe(last, sequence)
      /\ first' = IF Verdict(last, sequence) = "First" THEN sequence ELSE first
  BY DEF MayRead, ReconstructBooks, Trusted
<1>2. /\ TypeOK /\ DOMAIN sent = 1 .. Len(sent) /\ Len(sent) \in Nat
      /\ sequence \in Nat /\ sequence >= 1
  BY DEF IInv, TypeOK
<1>3. CASE Verdict(last, sequence) = "First"
  <2>1. last = NoSequence /\ last' = sequence /\ first' = sequence
    BY <1>1, <1>2, <1>3, Verdicts
  <2>2. sequence # NoSequence /\ sequence - sequence + 1 = 1
    BY <1>2 DEF NoSequence
  <2>3. BooksTold = <<>> /\ DOMAIN BooksTold' = 1 .. 1
    BY <2>1, <2>2 DEF BooksTold
  <2>4. LiveMarkets' = LiveMarkets
    <3>1. \A product \in Product : ~Live(product)
      <4>1. last \notin DOMAIN sent
        BY <1>2, <2>1 DEF NoSequence
      <4>2. QED
        BY <4>1 DEF IInv, MayRead, LiveIsFollowed
    <3>2. QED
      BY <1>1, <3>1 DEF LiveMarkets, Live
  <2>5. DOMAIN BooksTold = 1 .. 1 - 1
    BY <2>3
  <2>6. QED
    BY <1>1, <2>3, <2>4, <2>5 DEF Markets!Tell
<1>4. CASE Verdict(last, sequence) = "InOrder"
  <2>1. last # NoSequence /\ sequence = last + 1 /\ last' = sequence /\ first' = first
    BY <1>1, <1>2, <1>4, Verdicts DEF NoSequence
  <2>2. /\ first \in Nat /\ last \in Nat /\ first <= last
        /\ DOMAIN BooksTold = 1 .. last - first + 1
    BY <2>1, BooksToldAt
  <2>3. PICK count : count = last - first + 2
    OBVIOUS
  <2>4. count \in Nat /\ count >= 1 /\ count - 1 = last - first + 1
    BY <2>2, <2>3
  <2>5. sequence # NoSequence /\ sequence - first + 1 = count
    BY <1>2, <2>1, <2>2, <2>3 DEF NoSequence
  <2>6. DOMAIN BooksTold' = 1 .. count
    BY <2>1, <2>5 DEF BooksTold
  <2>7. count \in DOMAIN BooksTold' /\ DOMAIN BooksTold = 1 .. count - 1
    BY <2>2, <2>4, <2>6
  <2>8. ASSUME NEW n \in DOMAIN BooksTold
        PROVE  BooksTold'[n] = BooksTold[n]
    <3>1. n \in 1 .. count - 1 /\ n \in 1 .. count
      BY <2>4, <2>7
    <3>2. BooksTold[n] = [product \in Product |-> BooksOf(product, first, first + n - 1)]
      BY <2>1, <2>4, <3>1 DEF BooksTold
    <3>3. BooksTold'[n] = [product \in Product |-> BooksOf(product, first, first + n - 1)']
      BY <2>1, <2>5, <3>1 DEF BooksTold
    <3>4. \A product : BooksOf(product, first, first + n - 1)' = BooksOf(product, first, first + n - 1)
      BY <1>1, <2>1, SameFrames
    <3>5. QED
      BY <3>2, <3>3, <3>4
  <2>9. LiveMarkets' = LiveMarkets
    BY <1>1, <2>1 DEF LiveMarkets
  <2>10. QED
    BY <1>1, <2>6, <2>7, <2>8, <2>9 DEF Markets!Tell
<1>5. CASE Verdict(last, sequence) \in {"Duplicate", "Stale"}
  <2>1. last' = last /\ first' = first
    BY <1>1, <1>2, <1>5, Verdicts
  <2>2. QED
    BY <1>1, <2>1, UnseenStep
<1>6. QED
  BY <1>2, <1>3, <1>4, <1>5, Verdicts

\* Publishing a pending event shows a market, takes one down, loses the session or
\* is not seen.
LEMMA PublishShows ==
  ASSUME IInv, NEW product \in Product, PublishPending(product)
  PROVE  Markets!Next \/ UNCHANGED Markets!vars
<1> DEFINE event == Head(pending)[product]
<1>1. TypeOK /\ phase = "reading" /\ pending # <<>> /\ product \in DOMAIN Head(pending)
  BY DEF IInv, PublishPending
<1>2. Head(pending) = pending[1] /\ 1 \in DOMAIN pending /\ Head(pending) \in Events
  BY <1>1 DEF TypeOK
<1>3. event \in MarketEvent
  BY <1>1, <1>2 DEF Events
<1>4. CASE event.kind = "book" /\ product \in unsupported
  <2>1. SessionFails
    BY <1>4 DEF PublishPending
  <2>2. QED
    BY <2>1, FailureBreaks DEF Markets!Next
<1>5. CASE ~(event.kind = "book" /\ product \in unsupported)
  <2>1. /\ store' = Published(product, event)
        /\ sent' = sent /\ first' = first /\ last' = last /\ Trusted' = Trusted
    BY <1>5 DEF PublishPending, Trusted, venueVars
  <2>2. CASE store' = store
    BY <2>1, <2>2, UnseenStep
  <2>3. CASE store' # store /\ ApplyEvent(store[product], event).status # "Live"
    <3>1. store' = [store EXCEPT ![product] = ApplyEvent(store[product], event)]
      BY <2>1, <2>3 DEF Published
    <3>2. QED
      BY <1>1, <2>1, <2>3, <3>1, TakingDown DEF Markets!Next
  <2>4. CASE store' # store /\ ApplyEvent(store[product], event).status = "Live"
    <3>1. store' = [store EXCEPT ![product] = ApplyEvent(store[product], event)]
      BY <2>1, <2>4 DEF Published
    <3>2. event.kind = "book" /\ event.type # "Invalidated"
      BY <1>3, <2>4 DEF MarketEvent, ApplyEvent, SetStatus, ApplyTrusted, NonLiveStatus,
                        InvalidatedEvent, BookEvent
    <3>3. /\ ~reconnectRequired /\ Synchronized(product)
          /\ event.timestamp = last
          /\ event.book \in BooksOf(product, first, last)
      BY <1>1, <1>2, <3>2 DEF IInv, PendingAgrees
    <3>4. event.type = "Update" => Live(product)
      BY <1>1, <1>2, <3>2 DEF IInv, UpdatesFindLive
    <3>5. last # NoSequence
      <4>1. last \in DOMAIN sent
        BY <3>3 DEF IInv, SynchronizedBookIsVenueBook, IsVenueBook, Synchronized
      <4>2. QED
        BY <1>1, <4>1 DEF TypeOK, NoSequence
    <3>6. ApplyEvent(store[product], event) =
            [status |-> "Live", book |-> event.book, timestamp |-> last]
      BY <3>2, <3>3, <3>4 DEF ApplyEvent, ApplyTrusted, Live
    <3>7. PICK at : at = last - first + 1
      OBVIOUS
    <3>8. /\ at \in DOMAIN BooksTold /\ BooksTold' = BooksTold
          /\ event.book \in BooksTold[at][product]
      <4>1. /\ first \in Nat /\ last \in Nat /\ first <= last
            /\ DOMAIN BooksTold = 1 .. last - first + 1
            /\ \A n \in DOMAIN BooksTold :
                 BooksTold[n][product] = BooksOf(product, first, first + n - 1)
        BY <3>5, BooksToldAt
      <4>2. at \in DOMAIN BooksTold /\ first + at - 1 = last
        BY <3>7, <4>1
      <4>3. BooksTold' = BooksTold
        BY <2>1 DEF BooksTold, BooksOf, IsBookAt, Missed, ToldIn
      <4> HIDE DEF event
      <4>4. QED
        BY <3>3, <4>1, <4>2, <4>3
    <3> DEFINE shown == [at |-> at, top |-> event.book]
    <3>9. LiveMarkets' = [LiveMarkets EXCEPT ![product] = {shown}]
      <4>1. LiveMarkets'[product] = {shown}
        BY <1>1, <2>1, <3>1, <3>6, <3>7 DEF LiveMarkets, TypeOK
      <4>2. \A other \in Product \ {product} : LiveMarkets'[other] = LiveMarkets[other]
        BY <1>1, <2>1, <3>1 DEF LiveMarkets, TypeOK
      <4>3. /\ LiveMarkets' = [other \in Product |-> LiveMarkets'[other]]
            /\ LiveMarkets = [other \in Product |-> LiveMarkets[other]]
        BY DEF LiveMarkets
      <4> HIDE DEF shown
      <4>4. QED
        BY <4>1, <4>2, <4>3
    <3>10. shown.at = at /\ shown.top = event.book
      OBVIOUS
    <3>11. \A was \in LiveMarkets[product] : at >= was.at
      <4>1. SUFFICES ASSUME Live(product), NEW was \in LiveMarkets[product]
                     PROVE  at >= was.at
        BY LiveMarketsAt
      <4>2. was = [at |-> store[product].timestamp - first + 1, top |-> store[product].book]
        BY <4>1, LiveMarketsAt
      <4>3. was.at = store[product].timestamp - first + 1
        BY <4>2
      <4>4. store[product].timestamp <= last
        BY <1>1, <4>1 DEF IInv, LiveIsFollowed
      <4>5. store[product].timestamp \in DOMAIN sent
        BY <4>1 DEF IInv, LiveBookIsVenueBook, Live
      <4>6. store[product].timestamp \in Nat /\ last \in Nat /\ first \in Nat
        <5>1. last \in Nat /\ first \in Nat
          BY <3>5, BooksToldAt
        <5>2. DOMAIN sent \subseteq Nat
          BY <1>1 DEF TypeOK
        <5>3. QED
          BY <4>5, <5>1, <5>2
      <4>7. QED
        BY <3>7, <4>3, <4>4, <4>6
    <3>12. Trusted
      BY <1>1, <3>3 DEF Trusted
    <3> HIDE DEF shown, event
    <3>13. shown \in LiveMarkets'[product]
      BY <3>9 DEF LiveMarkets
    <3>14. Markets!Show(product)
      BY <2>1, <3>8, <3>9, <3>10, <3>11, <3>12, <3>13 DEF Markets!Show
    <3>15. QED
      BY <3>14 DEF Markets!Next
  <2>5. QED
    BY <2>2, <2>3, <2>4
<1>6. QED
  BY <1>4, <1>5

\* Every step is one of the abstract specification, or unseen in it.
LEMMA StepRefines ==
  ASSUME IInv, [Next]_vars
  PROVE  [Markets!Next]_(Markets!vars)
<1>1. TypeOK
  BY DEF IInv
<1>2. CASE VenueSend
  BY <1>2, SendingUnseen
<1>3. CASE OpenSession
  <2>1. Markets!NothingIsLive /\ last = NoSequence
    BY <1>3, NothingLive DEF OpenSession, IInv, NoSessionNoState
  <2>2. Trusted = FALSE /\ Trusted' = TRUE
    BY <1>3 DEF OpenSession, Trusted
  <2>3. BooksTold = <<>> /\ BooksTold' = BooksTold /\ LiveMarkets' = LiveMarkets
    BY <1>3, <2>1 DEF OpenSession, BooksTold, LiveMarkets, venueVars
  <2>4. QED
    BY <2>1, <2>2, <2>3 DEF Markets!Connect, Markets!Next
<1>4. CASE ConnectFails \/ ReconnectAfterGap \/ WireFails
  BY <1>4, FailureBreaks DEF ConnectFails, ReconnectAfterGap, WireFails, Markets!Next
<1>5. ASSUME NEW product \in Product, PublishPending(product)
      PROVE  Markets!Next \/ UNCHANGED Markets!vars
  BY <1>5, PublishShows
<1>6. ASSUME NEW sequence \in DOMAIN sent, ReadFrame(sequence)
      PROVE  Markets!Next \/ UNCHANGED Markets!vars
  <2>1. CASE SessionFails
    BY <2>1, FailureBreaks DEF Markets!Next
  <2>2. CASE InvalidateAll
    BY <1>6, <2>2, GapBreaks DEF ReadFrame, Markets!Next
  <2>3. CASE /\ Verdict(last, sequence) # "Gap"
             /\ ReconstructBooks(sent[sequence], sequence, Verdict(last, sequence))
    BY <1>6, <2>3, AcceptingTells DEF ReadFrame, Markets!Next
  <2>4. QED
    BY <1>6, <2>1, <2>2, <2>3 DEF ReadFrame
<1>7. CASE WakeUp \/ UNCHANGED vars \/ \E product \in Product : ReadRejection(product)
  <2>1. CASE WakeUp
    BY <2>1, UnseenStep DEF WakeUp, Trusted, venueVars, sessionVars
  <2>2. CASE UNCHANGED vars
    BY <2>2, UnseenStep DEF vars, Trusted, venueVars, sessionVars
  <2>3. ASSUME NEW product \in Product, ReadRejection(product)
        PROVE  UNCHANGED Markets!vars
    BY <2>3, UnseenStep DEF ReadRejection, Trusted, venueVars
  <2>4. QED
    BY <1>7, <2>1, <2>2, <2>3
<1>8. ASSUME NEW product \in Product, TellDisconnected(product) \/ TellReconnecting(product)
      PROVE  Markets!Next \/ UNCHANGED Markets!vars
  <2>1. PICK status \in {"Disconnected", "Reconnecting"} :
          store' = [store EXCEPT ![product] = SetStatus(store[product], status)]
    BY <1>8 DEF TellDisconnected, TellReconnecting
  <2>2. sent' = sent /\ first' = first /\ last' = last /\ Trusted' = Trusted
    BY <1>8 DEF TellDisconnected, TellReconnecting, Trusted, venueVars, sessionVars
  <2>3. SetStatus(store[product], status).status # "Live"
    BY DEF SetStatus
  <2>4. QED
    BY <1>1, <2>1, <2>2, <2>3, TakingDown DEF Markets!Next
<1>9. CASE AllToldDisconnected
  <2>1. last = NoSequence /\ last' = NoSequence
    BY <1>9 DEF AllToldDisconnected, IInv, NoSessionNoState, sessionVars
  <2>2. Trusted' = Trusted
    BY <1>9 DEF AllToldDisconnected, Trusted, sessionVars
  <2>3. LiveMarkets' = LiveMarkets
    <3>1. \A product \in Product : ~Live(product)
      BY <1>9 DEF AllToldDisconnected, IInv, NothingLiveWithoutSession, Live
    <3>2. store' = store
      BY <1>9 DEF AllToldDisconnected
    <3>3. QED
      BY <3>1, <3>2 DEF LiveMarkets, Live
  <2>4. BooksTold' = BooksTold
    BY <2>1 DEF BooksTold
  <2>5. QED
    BY <2>2, <2>3, <2>4 DEF Markets!vars
<1>10. QED
  BY <1>2, <1>3, <1>4, <1>5, <1>6, <1>7, <1>8, <1>9 DEF Next, RunnerStep, ReadStep

\* Coinbase's session and runner implement what a venue promises the store: what
\* is live is a book that an accepted frame of the connection told, message by
\* message, it moves forward, and is taken down before the next connection.
THEOREM Refinement == Spec => ImplementsTrustedMarkets
<1>1. Init => Markets!Init
  <2> SUFFICES ASSUME Init PROVE Markets!Init
    OBVIOUS
  <2>1. LiveMarkets = [product \in Product |-> {}]
    BY DEF Init, LiveMarkets, InitialEntry
  <2>2. Trusted = FALSE /\ BooksTold = <<>>
    BY DEF Init, Trusted, BooksTold
  <2>3. QED
    BY <2>1, <2>2 DEF Markets!Init, Markets!NothingIsLive
<1>2. IInv /\ [Next]_vars => [Markets!Next]_(Markets!vars)
  BY StepRefines
<1>3. QED
  BY <1>1, <1>2, IInvHolds, PTL
     DEF Spec, ImplementsTrustedMarkets, Markets!Spec
==============================================================================
