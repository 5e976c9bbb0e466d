------------------------- MODULE KrakenUniverseProofs ------------------------
(***************************************************************************)
(* Machine-checked proofs about KrakenUniverse for every value of its      *)
(* constants: its types, the agreement of the store with the session, that *)
(* the two implement TrustedMarkets, and that over a faithful wire a       *)
(* followed book is the venue's.                                           *)
(***************************************************************************)
EXTENDS KrakenUniverse, TLAPS, FiniteSetTheorems, SequenceTheorems, WellFoundedInduction

(***************************************************************************)
(* Books, messages and events.                                             *)
(***************************************************************************)

LEMMA BooksAreBooks ==
  /\ EmptyBook \in Book
  /\ \A book \in Book, batch \in Batch : ApplyUpdates(book, batch) \in Book
  /\ \A book \in Book : \A count : BestLevels(book, count) \in Book
<1>1. ASSUME NEW book \in Book, NEW batch \in Batch
      PROVE  ApplyUpdates(book, batch) \in Book
  <2>1. PICK levels \in SUBSET Level : batch \in [levels -> Quantity \cup {0}]
    BY DEF Batch
  <2>2. QED
    BY <2>1 DEF ApplyUpdates, Book
<1>2. QED
  BY <1>1 DEF EmptyBook, BestLevels, Book

LEMMA LevelsAreABatch ==
  ASSUME NEW book \in Book
  PROVE  LevelsOf(book) \in Batch
<1> DEFINE resting == {level \in Level : book[level] # 0}
<1>1. LevelsOf(book) \in [resting -> Quantity \cup {0}] /\ resting \in SUBSET Level
  BY DEF LevelsOf, Book
<1> HIDE DEF resting
<1>2. QED
  BY <1>1 DEF Batch

\* What an adapter keeps of a message it can take is a book.
LEMMA NextLevelsType ==
  ASSUME NEW adapter \in Adapter, NEW message \in KrakenMessage
  PROVE  NextLevels(adapter, message) \in Book
<1>1. adapter.book \in Book /\ message.levels \in Batch
  BY DEF Adapter, KrakenMessage
<1>2. QED
  BY <1>1, BooksAreBooks DEF NextLevels, Truncate

LEMMA NewAdapterType == NewAdapter \in Adapter /\ NewAdapter.status # "Live"
  BY BooksAreBooks, TimestampAssumption DEF NewAdapter, Adapter

LEMMA LengthenedType ==
  ASSUME NEW delay \in NominalDelay
  PROVE  Lengthened(delay) \in NominalDelay
  BY DelayAssumption DEF NominalDelay, Lengthened

LEMMA SetStatusType ==
  ASSUME NEW entry \in Entry, NEW status \in NonLiveStatus
  PROVE  SetStatus(entry, status) \in Entry /\ SetStatus(entry, status).status = status
  BY DEF SetStatus, Entry, VenueMarketStatus

LEMMA StatusForAllType ==
  ASSUME NEW products \in SUBSET Product, NEW status \in NonLiveStatus
  PROVE  /\ StatusForAll(products, status) \in Seq(Events)
         /\ products = {} => StatusForAll(products, status) = <<>>
         /\ products # {} =>
              /\ Len(StatusForAll(products, status)) = 1
              /\ StatusForAll(products, status)[1]
                   = [product \in products |-> StatusEvent(status)]
<1>1. [product \in products |-> StatusEvent(status)] \in Events
  BY DEF Events
<1>2. QED
  BY <1>1 DEF StatusForAll

\* A pending batch is about products, and has statuses only.
LEMMA EventsAre ==
  ASSUME NEW batch \in Events
  PROVE  /\ DOMAIN batch \subseteq Product
         /\ \A product \in DOMAIN batch :
              /\ batch[product].kind = "status"
              /\ batch[product].status \in NonLiveStatus
              /\ batch[product] = StatusEvent(batch[product].status)
<1>1. PICK named \in SUBSET Product :
        batch \in [named -> {StatusEvent(status) : status \in NonLiveStatus}]
  BY DEF Events
<1>2. QED
  BY <1>1 DEF StatusEvent

\* One event is taken from the first batch, and the batch with its last event.
LEMMA RemainingBatches ==
  ASSUME pending \in Seq(Events), pending # <<>>,
         NEW product, product \in DOMAIN pending[1]
  PROVE  LET rest == Remaining(product)
         IN  /\ rest \in Seq(Events)
             /\ \/ /\ DOMAIN pending[1] = {product}
                   /\ Len(rest) = Len(pending) - 1
                   /\ \A i \in DOMAIN rest : rest[i] = pending[i + 1]
                \/ /\ Len(rest) = Len(pending)
                   /\ DOMAIN rest[1] = DOMAIN pending[1] \ {product}
                   /\ \A other \in DOMAIN rest[1] : rest[1][other] = pending[1][other]
                   /\ \A i \in 2 .. Len(rest) : rest[i] = pending[i]
<1> DEFINE batch == [other \in DOMAIN pending[1] \ {product} |-> pending[1][other]]
<1>1. /\ Head(pending) = pending[1] /\ pending[1] \in Events
      /\ Tail(pending) \in Seq(Events) /\ Len(Tail(pending)) = Len(pending) - 1
      /\ Len(pending) \in Nat \ {0}
      /\ \A i \in 1 .. Len(pending) - 1 : Tail(pending)[i] = pending[i + 1]
  OBVIOUS
<1>2. batch \in Events
  <2>1. PICK named \in SUBSET Product :
          pending[1] \in [named -> {StatusEvent(status) : status \in NonLiveStatus}]
    BY <1>1 DEF Events
  <2>2. batch \in [named \ {product} -> {StatusEvent(status) : status \in NonLiveStatus}]
    BY <2>1
  <2>3. QED
    BY <2>2 DEF Events
<1>3. CASE DOMAIN batch = {}
  <2>1. Remaining(product) = Tail(pending) /\ DOMAIN pending[1] = {product}
    BY <1>1, <1>3 DEF Remaining
  <2> DEFINE rest == Remaining(product)
  <2>2. rest \in Seq(Events) /\ Len(rest) = Len(pending) - 1
    BY <1>1, <2>1
  <2>3. \A i \in DOMAIN rest : rest[i] = pending[i + 1]
    BY <1>1, <2>1
  <2> HIDE DEF batch, rest
  <2>4. QED
    BY <2>1, <2>2, <2>3, Zenon DEF rest
<1>4. CASE DOMAIN batch # {}
  <2>1. Remaining(product) = <<batch>> \o Tail(pending)
    BY <1>1, <1>4 DEF Remaining
  <2>2. DOMAIN batch = DOMAIN pending[1] \ {product}
    OBVIOUS
  <2>3. \A other \in DOMAIN batch : batch[other] = pending[1][other]
    OBVIOUS
  <2> HIDE DEF batch
  <2>4. /\ Remaining(product) \in Seq(Events) /\ Len(Remaining(product)) = Len(pending)
        /\ Remaining(product)[1] = batch
        /\ \A i \in 2 .. Len(pending) : Remaining(product)[i] = Tail(pending)[i - 1]
    BY <1>1, <1>2, <2>1
  <2>5. \A i \in 2 .. Len(pending) : Remaining(product)[i] = pending[i]
    BY <1>1, <2>4
  <2>6. QED
    BY <2>2, <2>3, <2>4, <2>5
<1>5. QED
  BY <1>3, <1>4

(***************************************************************************)
(* Type correctness.                                                       *)
(***************************************************************************)

LEMMA SendBookType ==
  ASSUME TypeOK, NEW product \in Product, NEW type \in {"snapshot", "update"},
         NEW levels \in Batch, NEW book \in Book, SendBook(product, type, levels, book),
         venueBooks' \in [Product -> Book]
  PROVE  TypeOK'
<1> DEFINE entry == [product |-> product, book |-> Followed(book),
                     message |-> [type |-> type, levels |-> levels, sound |-> TRUE,
                                  checksum |-> Attested(book)]]
<1>1. Followed(book) \in Book /\ Attested(book) \in Book
  BY BooksAreBooks DEF Followed, Attested
<1>2. entry \in Message
  BY <1>1 DEF Message, KrakenMessage
<1>3. sent' = Append(sent, entry) /\ Len(sent) < MaxMessages
  BY DEF SendBook
<1> HIDE DEF entry
<1>4. sent' \in Seq(Message) /\ Len(sent') <= MaxMessages /\ Len(sent') = Len(sent) + 1
  BY <1>2, <1>3, MessagesAreTimestamped DEF TypeOK
<1>5. inOrder' \in 0 .. Len(sent') \cup {Lost}
  BY <1>4 DEF SendBook, TypeOK
<1>6. told' \in [Product -> Book]
  BY <1>1 DEF SendBook, TypeOK
<1>7. QED
  BY <1>4, <1>5, <1>6 DEF SendBook, TypeOK, sessionVars, runnerVars

LEMMA VenueSnapshotType ==
  ASSUME TypeOK, NEW product \in Product, VenueSnapshot(product)
  PROVE  TypeOK'
<1>1. venueBooks[product] \in Book /\ Followed(venueBooks[product]) \in Book
  BY BooksAreBooks DEF TypeOK, Followed
<1>2. LevelsOf(Followed(venueBooks[product])) \in Batch
  BY <1>1, LevelsAreABatch
<1>3. QED
  BY <1>1, <1>2, SendBookType DEF VenueSnapshot, TypeOK

LEMMA VenueTradeType ==
  ASSUME TypeOK, NEW product \in Product, NEW batch \in UpdateBatch, VenueTrade(product, batch)
  PROVE  TypeOK'
<1> DEFINE book    == ApplyUpdates(venueBooks[product], batch)
           levels  == Followed(book)
           changed == {level \in Level : \/ levels[level] \notin {0, told[product][level]}
                                         \/ told[product][level] # 0 /\ book[level] = 0}
           update  == [level \in changed |-> book[level]]
<1>1. book \in Book
  BY BooksAreBooks, UpdateBatchAssumption DEF TypeOK
<1>2. venueBooks' \in [Product -> Book]
  BY <1>1 DEF VenueTrade, TypeOK
<1>3. update \in Batch
  <2>1. changed \in SUBSET Level
    OBVIOUS
  <2>2. update \in [changed -> Quantity \cup {0}]
    BY <1>1 DEF Book
  <2> HIDE DEF changed, update
  <2>3. QED
    BY <2>1, <2>2 DEF Batch
<1>4. \/ UNCHANGED <<told, sent, inOrder, phase, sessionVars, runnerVars, store>>
      \/ SendBook(product, "update", update, book)
  BY DEF VenueTrade
<1> HIDE DEF book, update
<1>5. CASE UNCHANGED <<told, sent, inOrder, phase, sessionVars, runnerVars, store>>
  BY <1>2, <1>5 DEF TypeOK, sessionVars, runnerVars
<1>6. CASE SendBook(product, "update", update, book)
  BY <1>1, <1>2, <1>3, <1>6, SendBookType
<1>7. QED
  BY <1>4, <1>5, <1>6

LEMMA OpenSessionType ==
  ASSUME TypeOK, OpenSession
  PROVE  TypeOK'
<1>1. PICK online \in SUBSET Product :
        /\ subscribed' = online
        /\ rejected' = Product \ online
        /\ pending' = StatusForAll(Product, "Connecting")
                        \o StatusForAll(Product \ online, "Unsupported")
        /\ reconnectRequired' = (online = {})
  BY DEF OpenSession
<1>2. /\ StatusForAll(Product, "Connecting") \in Seq(Events)
      /\ StatusForAll(Product \ online, "Unsupported") \in Seq(Events)
  BY StatusForAllType DEF NonLiveStatus
<1>3. pending' \in Seq(Events)
  BY <1>1, <1>2, ConcatProperties, Zenon
<1>4. adapters' \in [Product -> Adapter]
  BY NewAdapterType DEF OpenSession
<1>5. QED
  BY <1>1, <1>3, <1>4 DEF OpenSession, TypeOK, venueVars, runnerVars

LEMMA SessionFailsType ==
  ASSUME TypeOK, SessionFails
  PROVE  TypeOK'
<1>1. adapters' \in [Product -> Adapter]
  BY NewAdapterType DEF SessionFails, NoSession
<1>2. pending' \in Seq(Events)
  BY DEF SessionFails, NoSession
<1>3. QED
  BY <1>1, <1>2 DEF SessionFails, NoSession, TypeOK, venueVars

\* What the runner does with an event of a right type.
LEMMA PublishedType ==
  ASSUME TypeOK, NEW product \in Product, NEW event, Published(product, event),
         ApplyEvent(store[product], event) \in Entry
  PROVE  /\ unsupported' \subseteq Product /\ nominal' \in NominalDelay
         /\ store' \in [Product -> Entry]
         /\ UNCHANGED <<venueBooks, told, sent, phase, untold>>
<1>1. unsupported' \subseteq Product
  BY DEF Published, UnsupportedAfter, TypeOK
<1>2. nominal' \in NominalDelay
  BY DelayAssumption DEF Published, TypeOK, NominalDelay
<1>3. QED
  BY <1>1, <1>2 DEF Published, TypeOK

LEMMA PublishPendingType ==
  ASSUME TypeOK, NEW product \in Product, PublishPending(product)
  PROVE  TypeOK'
<1>1. pending \in Seq(Events) /\ pending # <<>> /\ product \in DOMAIN pending[1]
  BY DEF PublishPending, TypeOK
<1>2. Head(pending)[product] = StatusEvent(Head(pending)[product].status)
      /\ Head(pending)[product].status \in NonLiveStatus
  BY <1>1, EventsAre
<1>3. ApplyEvent(store[product], Head(pending)[product]) \in Entry
  BY <1>2, SetStatusType DEF ApplyEvent, StatusEvent, TypeOK
<1>4. Remaining(product) \in Seq(Events)
  BY <1>1, RemainingBatches
<1>5. QED
  BY <1>3, <1>4, PublishedType DEF PublishPending, TypeOK

LEMMA AcknowledgementType ==
  ASSUME TypeOK, NEW product \in Product, ReadAcknowledgement(product)
  PROVE  TypeOK'
<1>1. CASE AcceptsSubscription(product)
  <2>1. StatusForAll({product}, "WaitingForSnapshot") \in Seq(Events)
    BY StatusForAllType DEF NonLiveStatus
  <2>2. pending' \in Seq(Events)
    BY <1>1, <2>1 DEF AcceptsSubscription
  <2>3. QED
    BY <1>1, <2>2 DEF ReadAcknowledgement, AcceptsSubscription, TypeOK, venueVars, runnerVars
<1>2. CASE RejectsSubscription(product)
  <2>1. pending' \in Seq(Events)
    BY <1>2, StatusForAllType DEF RejectsSubscription, NonLiveStatus
  <2>2. adapters' \in [Product -> Adapter]
    BY <1>2, NewAdapterType DEF RejectsSubscription, TypeOK
  <2>3. QED
    BY <1>2, <2>1, <2>2 DEF RejectsSubscription, TypeOK, venueVars, runnerVars
<1>3. QED
  BY <1>1, <1>2 DEF ReadAcknowledgement

\* A book that is read: the adapter and the store after it.
LEMMA ReadBookType ==
  ASSUME TypeOK, NEW product \in Product, NEW message, NEW timestamp \in Timestamp,
         Trusts(adapters[product], message) => message \in KrakenMessage,
         ReadBook(product, message, timestamp)
  PROVE  /\ adapters' \in [Product -> Adapter] /\ reconnectRequired' \in BOOLEAN
         /\ unsupported' \subseteq Product /\ nominal' \in NominalDelay
         /\ store' \in [Product -> Entry]
         /\ UNCHANGED <<venueBooks, told, sent, phase, untold>>
<1> DEFINE adapter == adapters[product]
           event   == EventOf(adapter, message, timestamp)
<1>1. adapter \in Adapter
  BY DEF TypeOK
<1>2. CASE Ignores(adapter, message)
  BY <1>2 DEF ReadBook, TypeOK, runnerVars
<1>3. CASE ~Ignores(adapter, message)
  <2>1. /\ adapters' = [adapters EXCEPT ![product] = ProcessBook(adapter, message, timestamp)]
        /\ reconnectRequired' \in BOOLEAN
        /\ Published(product, event)
    BY <1>3 DEF ReadBook
  <2>2. ProcessBook(adapter, message, timestamp) \in Adapter
    <3>1. CASE Trusts(adapter, message)
      BY <1>1, <1>3, <3>1, NextLevelsType DEF ProcessBook, Adapter
    <3>2. CASE ~Trusts(adapter, message)
      BY <1>1, <1>3, <3>2, BooksAreBooks DEF ProcessBook, Invalidation, Adapter
    <3>3. QED
      BY <3>1, <3>2
  <2>3. ApplyEvent(store[product], event) \in Entry
    <3>1. CASE Trusts(adapter, message)
      <4>1. NextLevels(adapter, message) \in Book
        BY <1>1, <3>1, NextLevelsType
      <4>2. QED
        BY <3>1, <4>1 DEF EventOf, BookEvent, ApplyEvent, ApplyTrusted, TypeOK, Entry,
                          VenueMarketStatus
    <3>2. CASE ~Trusts(adapter, message)
      <4>1. event = [kind |-> "book", type |-> "Invalidated", book |-> NoBook,
                     timestamp |-> adapter.timestamp]
        BY <3>2 DEF EventOf, BookEvent
      <4> HIDE DEF event
      <4>2. ApplyEvent(store[product], event) =
              [status |-> "Stale", book |-> NoBook, timestamp |-> adapter.timestamp]
        BY <4>1 DEF ApplyEvent, ApplyTrusted
      <4>3. QED
        BY <1>1, <4>2 DEF Adapter, Entry, VenueMarketStatus, NonLiveStatus
    <3>3. QED
      BY <3>1, <3>2
  <2> HIDE DEF adapter, event
  <2>4. adapters' \in [Product -> Adapter]
    BY <2>1, <2>2 DEF TypeOK
  <2>5. QED
    BY <2>1, <2>3, <2>4, PublishedType
<1>4. QED
  BY <1>2, <1>3

LEMMA ReadSentType ==
  ASSUME TypeOK, NEW sequence \in DOMAIN sent, ReadSent(sequence)
  PROVE  TypeOK'
<1> DEFINE product == sent[sequence].product
<1>1. sent[sequence] \in Message /\ sequence \in 1 .. Len(sent) /\ sequence \in Timestamp
  BY MessagesAreTimestamped DEF TypeOK
<1>2. product \in Product /\ sent[sequence].message \in KrakenMessage
  BY <1>1 DEF Message
<1>3. CASE product \in rejected
  BY <1>3, SessionFailsType DEF ReadSent
<1>4. CASE product \notin rejected
  <2>1. /\ ReadBook(product, sent[sequence].message, sequence)
        /\ inOrder' = IF inOrder # Lost /\ sequence = inOrder + 1 THEN sequence ELSE Lost
        /\ UNCHANGED <<subscribed, rejected, acknowledged, pending>>
    BY <1>4 DEF ReadSent
  <2> HIDE DEF product
  <2>2. /\ adapters' \in [Product -> Adapter] /\ reconnectRequired' \in BOOLEAN
        /\ unsupported' \subseteq Product /\ nominal' \in NominalDelay
        /\ store' \in [Product -> Entry]
        /\ UNCHANGED <<venueBooks, told, sent, phase, untold>>
    BY <1>1, <1>2, <2>1, ReadBookType
  <2>3. inOrder' \in 0 .. Len(sent') \cup {Lost}
    BY <1>1, <2>1, <2>2
  <2>4. QED
    BY <2>1, <2>2, <2>3 DEF TypeOK
<1>5. QED
  BY <1>3, <1>4

LEMMA ReadUnsoundType ==
  ASSUME TypeOK, NEW product \in Product, ReadUnsound(product)
  PROVE  TypeOK'
<1>1. PICK type \in {"snapshot", "update"} :
        ReadBook(product, [type |-> type, levels |-> <<>>, checksum |-> EmptyBook,
                           sound |-> FALSE], NoTimestamp)
  BY DEF ReadUnsound
<1> DEFINE message == [type |-> type, levels |-> <<>>, checksum |-> EmptyBook, sound |-> FALSE]
<1>2. ~Trusts(adapters[product], message)
  BY DEF Trusts
<1> HIDE DEF message
<1>3. /\ adapters' \in [Product -> Adapter] /\ reconnectRequired' \in BOOLEAN
      /\ unsupported' \subseteq Product /\ nominal' \in NominalDelay
      /\ store' \in [Product -> Entry]
      /\ UNCHANGED <<venueBooks, told, sent, phase, untold>>
  BY <1>1, <1>2, TimestampAssumption, ReadBookType DEF message
<1>4. QED
  BY <1>3 DEF ReadUnsound, TypeOK

LEMMA RecoveryType ==
  ASSUME TypeOK,
         \/ \E product \in Product : TellDisconnected(product) \/ TellReconnecting(product)
         \/ AllToldDisconnected \/ WakeUp
  PROVE  TypeOK'
<1> USE DEF venueVars, sessionVars, runnerVars
<1>1. ASSUME NEW product \in Product, TellDisconnected(product)
      PROVE  TypeOK'
  <2>1. SetStatus(store[product], "Disconnected") \in Entry
    BY SetStatusType DEF TypeOK, NonLiveStatus
  <2>2. QED
    BY <1>1, <2>1 DEF TellDisconnected, TypeOK
<1>2. ASSUME NEW product \in Product, TellReconnecting(product)
      PROVE  TypeOK'
  <2>1. SetStatus(store[product], "Reconnecting") \in Entry
    BY SetStatusType DEF TypeOK, NonLiveStatus
  <2>2. QED
    BY <1>2, <2>1 DEF TellReconnecting, TypeOK
<1>3. CASE AllToldDisconnected
  <2>1. venueBooks' \in [Product -> Book] /\ told' \in [Product -> Book]
    BY <1>3, OpeningBookAssumption, BooksAreBooks DEF AllToldDisconnected
  <2>2. nominal' \in NominalDelay
    BY <1>3, LengthenedType DEF AllToldDisconnected, TypeOK
  <2>3. sent' = <<>> /\ sent' \in Seq(Message) /\ Len(sent') <= MaxMessages
    BY <1>3, MessagesAreTimestamped DEF AllToldDisconnected
  <2>4. inOrder' \in 0 .. Len(sent') \cup {Lost}
    BY <1>3, <2>3 DEF AllToldDisconnected
  <2>5. QED
    BY <1>3, <2>1, <2>2, <2>3, <2>4 DEF AllToldDisconnected, TypeOK
<1>4. CASE WakeUp
  BY <1>4 DEF WakeUp, TypeOK
<1>5. QED
  BY <1>1, <1>2, <1>3, <1>4

LEMMA InitType == Init => TypeOK
<1> SUFFICES ASSUME Init PROVE TypeOK
  OBVIOUS
<1>1. /\ venueBooks \in [Product -> Book] /\ told \in [Product -> Book]
      /\ adapters \in [Product -> Adapter]
  BY OpeningBookAssumption, BooksAreBooks, NewAdapterType DEF Init
<1>2. nominal \in NominalDelay
  BY DelayAssumption DEF Init, NominalDelay
<1>3. store \in [Product -> Entry]
  BY TimestampAssumption DEF Init, InitialEntry, Entry, VenueMarketStatus, NonLiveStatus
<1>4. sent \in Seq(Message) /\ Len(sent) <= MaxMessages /\ inOrder \in 0 .. Len(sent)
  BY MessagesAreTimestamped DEF Init
<1>5. pending \in Seq(Events)
  BY DEF Init
<1>6. QED
  BY <1>1, <1>2, <1>3, <1>4, <1>5 DEF Init, TypeOK

LEMMA TypeStep ==
  ASSUME TypeOK, [Next]_vars
  PROVE  TypeOK'
<1>1. CASE VenueStep
  BY <1>1, VenueSnapshotType, VenueTradeType, TradedAssumption DEF VenueStep
<1>2. CASE OpenSession
  BY <1>2, OpenSessionType
<1>3. CASE ConnectFails \/ ReconnectWhenRequired \/ WireFails
  BY <1>3, SessionFailsType DEF ConnectFails, ReconnectWhenRequired, WireFails
<1>4. CASE \E product \in Product : PublishPending(product)
  BY <1>4, PublishPendingType
<1>5. CASE \/ \E product \in Product : TellDisconnected(product) \/ TellReconnecting(product)
           \/ AllToldDisconnected \/ WakeUp
  BY <1>5, RecoveryType
<1>6. CASE \E product \in Product : ReadAcknowledgement(product) \/ ReadUnsound(product)
  BY <1>6, AcknowledgementType, ReadUnsoundType
<1>7. CASE \E sequence \in DOMAIN sent : ReadSent(sequence)
  BY <1>7, ReadSentType
<1>8. CASE UNCHANGED vars
  BY <1>8 DEF vars, venueVars, sessionVars, runnerVars, TypeOK
<1>9. QED
  BY <1>1, <1>2, <1>3, <1>4, <1>5, <1>6, <1>7, <1>8 DEF Next, RunnerStep, ReadStep

\* Every variable keeps its type, for any universe, depth and book.
THEOREM TypeCorrect == Spec => []TypeOK
  BY InitType, TypeStep, PTL DEF Spec

(***************************************************************************)
(* The inductive invariant: what the store shows of each product is what   *)
(* the session has, or what its pending events are about to make of it.    *)
(***************************************************************************)

Live(product) == store[product].status = "Live"
HasPending(product) == \E i \in DOMAIN pending : product \in DOMAIN pending[i]

Agrees(product) ==
  /\ Live(product) <=> adapters[product].status = "Live"
  /\ Live(product) => store[product].book = adapters[product].book
  /\ store[product].status = "Unsupported" <=> product \in rejected

\* An event pending for a product is the last word, unless the second batch has
\* one, which is always that it is unsupported.
PendingAgrees(product) ==
  /\ adapters[product].status # "Live"
  /\ product \in DOMAIN pending[1] =>
       /\ pending[1][product].status \in {"Connecting", "WaitingForSnapshot", "Unsupported"}
       /\ pending[1][product].status = "WaitingForSnapshot" =>
            store[product].status # "Unsupported"
       /\ Len(pending) = 1 \/ product \notin DOMAIN pending[2] =>
            (pending[1][product].status = "Unsupported" <=> product \in rejected)
  /\ Len(pending) = 2 /\ product \in DOMAIN pending[2] =>
       pending[2][product].status = "Unsupported" /\ product \in rejected

SessionAgrees ==
  phase = "reading" =>
    /\ Len(pending) <= 2
    /\ \A product \in Product :
         IF HasPending(product) THEN PendingAgrees(product) ELSE Agrees(product)

\* The runner knows which products it told that they are unsupported.
UnsupportedAgrees ==
  \A product \in Product : product \in unsupported <=> store[product].status = "Unsupported"

\* Nothing stays live, and nothing of the venue is kept, behind a session's end.
RecoveryAgrees ==
  /\ untold \cap unsupported = {}
  /\ phase \notin {"disconnected", "reconnecting"} => untold = {}
  /\ phase = "disconnected" => \A product \in Product \ untold : ~Live(product)
  /\ phase \notin {"disconnected", "reading"} =>
       sent = <<>> /\ \A product \in Product : ~Live(product)

IInv == TypeOK /\ SessionAgrees /\ UnsupportedAgrees /\ RecoveryAgrees

LEMMA InitInv == Init => IInv
<1> SUFFICES ASSUME Init PROVE IInv
  OBVIOUS
<1>1. TypeOK
  BY InitType
<1>2. SessionAgrees
  BY DEF Init, SessionAgrees
<1>3. UnsupportedAgrees /\ RecoveryAgrees
  BY DEF Init, UnsupportedAgrees, RecoveryAgrees, InitialEntry, Live
<1>4. QED
  BY <1>1, <1>2, <1>3 DEF IInv

\* A step that the session, the runner and the store take no part in.
LEMMA UnseenInv ==
  ASSUME IInv, TypeOK', UNCHANGED <<phase, sessionVars, runnerVars, store>>,
         sent' = sent \/ phase = "reading"
  PROVE  IInv'
<1> USE DEF sessionVars, runnerVars
<1>1. \A product \in Product : /\ HasPending(product)' <=> HasPending(product)
                               /\ PendingAgrees(product)' <=> PendingAgrees(product)
                               /\ Agrees(product)' <=> Agrees(product)
                               /\ Live(product)' <=> Live(product)
  BY DEF HasPending, PendingAgrees, Agrees, Live
<1>2. SessionAgrees'
  BY <1>1 DEF IInv, SessionAgrees
<1>3. UnsupportedAgrees' /\ RecoveryAgrees'
  BY <1>1 DEF IInv, UnsupportedAgrees, RecoveryAgrees
<1>4. QED
  BY <1>2, <1>3 DEF IInv

LEMMA OpenSessionInv ==
  ASSUME IInv, OpenSession
  PROVE  IInv'
<1>1. TypeOK'
  BY OpenSessionType DEF IInv
<1>2. PICK online \in SUBSET Product :
        /\ rejected' = Product \ online
        /\ pending' = StatusForAll(Product, "Connecting")
                        \o StatusForAll(Product \ online, "Unsupported")
  BY DEF OpenSession
<1> DEFINE first  == StatusForAll(Product, "Connecting")
           second == StatusForAll(Product \ online, "Unsupported")
<1>3. /\ first \in Seq(Events) /\ second \in Seq(Events)
      /\ Product = {} => first = <<>> /\ second = <<>>
      /\ Product # {} => Len(first) = 1
                          /\ first[1] = [product \in Product |-> StatusEvent("Connecting")]
      /\ Product \ online = {} => second = <<>>
      /\ Product \ online # {} =>
           Len(second) = 1
             /\ second[1] = [product \in Product \ online |-> StatusEvent("Unsupported")]
  BY StatusForAllType DEF NonLiveStatus
<1>4. pending' = first \o second
  BY <1>2
<1> HIDE DEF first, second
<1>5. /\ Len(pending') <= 2 /\ Len(pending') = Len(first) + Len(second)
      /\ DOMAIN pending' = 1 .. Len(pending')
      /\ Product # {} => /\ Len(pending') >= 1
                         /\ pending'[1] = [product \in Product |-> StatusEvent("Connecting")]
      /\ Product \ online # {} =>
           /\ Len(pending') = 2
           /\ pending'[2] = [product \in Product \ online |-> StatusEvent("Unsupported")]
      /\ Product \ online = {} => Len(pending') <= 1
  BY <1>3, <1>4
<1>6. SessionAgrees'
  <2>1. ASSUME NEW product \in Product
        PROVE  HasPending(product)' /\ PendingAgrees(product)'
    <3>1. 1 \in DOMAIN pending' /\ pending'[1][product] = StatusEvent("Connecting")
            /\ product \in DOMAIN pending'[1]
      BY <1>5
    <3>2. adapters'[product].status # "Live"
      BY NewAdapterType DEF OpenSession
    <3>3. Len(pending') = 2 => Product \ online # {}
      BY <1>5
    <3>4. Len(pending') = 2 =>
            /\ product \in DOMAIN pending'[2] <=> product \in rejected'
            /\ product \in DOMAIN pending'[2] => pending'[2][product] = StatusEvent("Unsupported")
      BY <1>2, <1>5, <3>3
    <3>5. Len(pending') = 1 => product \notin rejected'
      BY <1>2, <1>5
    <3>6. Len(pending') \in {1, 2}
      BY <1>5, <3>1
    <3>7. QED
      BY <3>1, <3>2, <3>4, <3>5, <3>6 DEF HasPending, PendingAgrees, StatusEvent
  <2>2. QED
    BY <1>5, <2>1 DEF SessionAgrees
<1>7. UnsupportedAgrees' /\ RecoveryAgrees'
  BY DEF OpenSession, IInv, UnsupportedAgrees, RecoveryAgrees, Live, runnerVars, venueVars
<1>8. QED
  BY <1>1, <1>6, <1>7 DEF IInv

LEMMA SessionFailsInv ==
  ASSUME IInv, phase \in {"connecting", "reading"}, SessionFails
  PROVE  IInv'
<1>1. TypeOK'
  BY SessionFailsType DEF IInv
<1>2. phase' = "disconnected" /\ untold' = Product \ unsupported
      /\ UNCHANGED <<venueVars, unsupported, nominal, store>>
  BY DEF SessionFails
<1>3. SessionAgrees' /\ UnsupportedAgrees'
  BY <1>2 DEF SessionAgrees, IInv, UnsupportedAgrees
<1>4. RecoveryAgrees'
  BY <1>2 DEF IInv, RecoveryAgrees, UnsupportedAgrees, Live
<1>5. QED
  BY <1>1, <1>3, <1>4 DEF IInv

\* Of the events pending, one is published: those of other products stay, and of
\* its own the one in the second batch.
LEMMA PublishPendingInv ==
  ASSUME IInv, NEW product \in Product, PublishPending(product)
  PROVE  IInv'
<1> DEFINE event == pending[1][product]
<1>1. TypeOK' /\ TypeOK
  BY PublishPendingType DEF IInv
<1>2. /\ phase = "reading" /\ phase' = "reading" /\ pending # <<>>
      /\ pending \in Seq(Events) /\ product \in DOMAIN pending[1]
      /\ Head(pending) = pending[1]
      /\ pending' = Remaining(product)
      /\ UNCHANGED <<sent, untold, adapters, rejected>>
      /\ Len(pending) \in {1, 2} /\ 1 \in DOMAIN pending
  <2>1. /\ phase = "reading" /\ phase' = phase /\ pending # <<>>
        /\ product \in DOMAIN Head(pending) /\ pending' = Remaining(product)
        /\ UNCHANGED <<sent, untold, adapters, rejected>>
    BY DEF PublishPending, Published
  <2>2. pending \in Seq(Events) /\ Len(pending) <= 2
    BY <1>1, <2>1 DEF TypeOK, IInv, SessionAgrees
  <2>3. /\ Head(pending) = pending[1] /\ Len(pending) \in Nat /\ Len(pending) # 0
        /\ DOMAIN pending = 1 .. Len(pending)
    BY <2>1, <2>2, EmptySeq
  <2>4. Len(pending) \in {1, 2}
    BY <2>2, <2>3
  <2>5. 1 \in DOMAIN pending
    BY <2>3, <2>4
  <2>6. QED
    BY <2>1, <2>2, <2>3, <2>4, <2>5
<1>3. event.kind = "status" /\ event.status \in NonLiveStatus
  BY <1>2, EventsAre
<1>4. /\ store' = [store EXCEPT ![product] = SetStatus(store[product], event.status)]
      /\ unsupported' = UnsupportedAfter(product, event)
  BY <1>2, <1>3 DEF PublishPending, Published, ApplyEvent
<1>5. HasPending(product) /\ PendingAgrees(product)
  BY <1>2 DEF HasPending, IInv, SessionAgrees
<1> HIDE DEF event
<1>6. event.status \in {"Connecting", "WaitingForSnapshot", "Unsupported"}
      /\ (event.status = "WaitingForSnapshot" => store[product].status # "Unsupported")
      /\ (Len(pending) = 1 \/ product \notin DOMAIN pending[2] =>
            (event.status = "Unsupported" <=> product \in rejected))
  BY <1>2, <1>5 DEF PendingAgrees, event
<1>7. /\ store'[product].status = event.status
      /\ \A other \in Product \ {product} : store'[other] = store[other]
  BY <1>1, <1>3, <1>4, SetStatusType DEF TypeOK
<1>8. UnsupportedAgrees'
  <2>1. product \in unsupported' <=> event.status = "Unsupported"
    <3>1. product \in unsupported <=> store[product].status = "Unsupported"
      BY DEF IInv, UnsupportedAgrees
    <3>2. QED
      BY <1>3, <1>4, <1>6, <3>1 DEF UnsupportedAfter
  <2>2. \A other \in Product \ {product} : other \in unsupported' <=> other \in unsupported
    BY <1>4 DEF UnsupportedAfter
  <2>3. QED
    BY <1>7, <2>1, <2>2 DEF IInv, UnsupportedAgrees
<1>9. RecoveryAgrees'
  BY <1>2 DEF IInv, RecoveryAgrees
<1>10. /\ pending' \in Seq(Events) /\ DOMAIN pending' = 1 .. Len(pending')
       /\ \/ /\ DOMAIN pending[1] = {product}
             /\ Len(pending') = Len(pending) - 1
             /\ \A i \in DOMAIN pending' : pending'[i] = pending[i + 1]
          \/ /\ Len(pending') = Len(pending)
             /\ DOMAIN pending'[1] = DOMAIN pending[1] \ {product}
             /\ \A other \in DOMAIN pending'[1] : pending'[1][other] = pending[1][other]
             /\ \A i \in 2 .. Len(pending') : pending'[i] = pending[i]
  <2> DEFINE rest == Remaining(product)
  <2>1. /\ rest \in Seq(Events)
        /\ \/ /\ DOMAIN pending[1] = {product}
              /\ Len(rest) = Len(pending) - 1
              /\ \A i \in DOMAIN rest : rest[i] = pending[i + 1]
           \/ /\ Len(rest) = Len(pending)
              /\ DOMAIN rest[1] = DOMAIN pending[1] \ {product}
              /\ \A other \in DOMAIN rest[1] : rest[1][other] = pending[1][other]
              /\ \A i \in 2 .. Len(rest) : rest[i] = pending[i]
    BY <1>2, RemainingBatches
  <2> HIDE DEF rest
  <2>2. DOMAIN rest = 1 .. Len(rest)
    BY <2>1
  <2>3. pending' = rest
    BY <1>2 DEF rest
  <2>4. QED
    BY <2>1, <2>2, <2>3
<1>11. SessionAgrees'
  <2>1. Len(pending') <= 2
    BY <1>2, <1>10
  <2>2. ASSUME NEW other \in Product
        PROVE  IF HasPending(other)' THEN PendingAgrees(other)' ELSE Agrees(other)'
    <3>1. /\ HasPending(other) => PendingAgrees(other)
          /\ ~HasPending(other) => Agrees(other)
      BY <1>2 DEF IInv, SessionAgrees
    <3>2. adapters'[other] = adapters[other] /\ rejected' = rejected
      BY <1>2
    <3>3. CASE other # product
      <4>1. store'[other] = store[other]
        BY <1>7, <3>3
      <4>2. CASE Len(pending') = Len(pending) - 1 /\ DOMAIN pending[1] = {product}
        <5>1. \A i \in DOMAIN pending' : i = 1 /\ pending'[1] = pending[2] /\ Len(pending) = 2
          BY <1>2, <1>10, <4>2
        <5>2. other \notin DOMAIN pending[1]
          BY <3>3, <4>2
        <5>3. CASE pending' = <<>>
          <6>1. ~HasPending(other)' /\ Len(pending) = 1
            BY <1>2, <1>10, <4>2, <5>3 DEF HasPending
          <6>2. ~HasPending(other)
            BY <1>2, <5>2, <6>1 DEF HasPending
          <6>3. QED
            BY <3>1, <3>2, <4>1, <6>1, <6>2 DEF Agrees, Live
        <5>4. CASE pending' # <<>>
          <6>1. 1 \in DOMAIN pending' /\ pending'[1] = pending[2] /\ Len(pending) = 2
                /\ Len(pending') = 1 /\ DOMAIN pending = {1, 2}
            BY <1>2, <1>10, <4>2, <5>1, <5>4
          <6>2. HasPending(other)' <=> other \in DOMAIN pending[2]
            BY <1>10, <6>1 DEF HasPending
          <6>3. HasPending(other) <=> other \in DOMAIN pending[2]
            BY <5>2, <6>1 DEF HasPending
          <6>4. HasPending(other) => PendingAgrees(other)'
            BY <3>1, <3>2, <6>1, <6>3 DEF PendingAgrees
          <6>5. ~HasPending(other) => Agrees(other)'
            BY <3>1, <3>2, <4>1 DEF Agrees, Live
          <6>6. QED
            BY <6>2, <6>3, <6>4, <6>5
        <5>5. QED
          BY <5>3, <5>4
      <4>3. CASE /\ Len(pending') = Len(pending)
                 /\ DOMAIN pending'[1] = DOMAIN pending[1] \ {product}
                 /\ \A another \in DOMAIN pending'[1] :
                      pending'[1][another] = pending[1][another]
                 /\ \A i \in 2 .. Len(pending') : pending'[i] = pending[i]
        <5>1. Len(pending') = 2 => pending'[2] = pending[2]
          BY <4>3
        <5>2. /\ other \in DOMAIN pending'[1] <=> other \in DOMAIN pending[1]
              /\ other \in DOMAIN pending'[1] => pending'[1][other] = pending[1][other]
          BY <3>3, <4>3
        <5>3. DOMAIN pending' = DOMAIN pending /\ DOMAIN pending \in {{1}, {1, 2}}
              /\ (2 \in DOMAIN pending => Len(pending') = 2)
          <6>1. DOMAIN pending = 1 .. Len(pending) /\ DOMAIN pending' = 1 .. Len(pending)
            <7>1. DOMAIN pending = 1 .. Len(pending)
              BY <1>2, LenProperties
            <7>2. QED
              BY <1>10, <4>3, <7>1
          <6>2. CASE Len(pending) = 1
            BY <4>3, <6>1, <6>2
          <6>3. CASE Len(pending) = 2
            <7>1. DOMAIN pending = {1, 2}
              BY <6>1, <6>3
            <7>2. QED
              BY <4>3, <6>1, <6>3, <7>1
          <6>4. QED
            BY <1>2, <6>2, <6>3
        <5>4. HasPending(other)' <=> HasPending(other)
          BY <5>1, <5>2, <5>3 DEF HasPending
        <5>5. PendingAgrees(other) => PendingAgrees(other)'
          <6>1. Len(pending') = Len(pending)
            BY <4>3
          <6>2. QED
            BY <1>2, <3>2, <4>1, <5>1, <5>2, <6>1 DEF PendingAgrees
        <5>6. Agrees(other) => Agrees(other)'
          BY <3>2, <4>1 DEF Agrees, Live
        <5>7. QED
          BY <3>1, <5>4, <5>5, <5>6
      <4>4. QED
        BY <1>10, <4>2, <4>3
    <3>4. CASE other = product
      <4>1. HasPending(product)' <=> Len(pending) = 2 /\ product \in DOMAIN pending[2]
        <5>1. CASE DOMAIN pending[1] = {product} /\ Len(pending') = Len(pending) - 1
                   /\ \A i \in DOMAIN pending' : pending'[i] = pending[i + 1]
          <6>1. Len(pending) = 1 => DOMAIN pending' = {}
            BY <1>10, <5>1
          <6>2. Len(pending) = 2 => DOMAIN pending' = {1} /\ pending'[1] = pending[2]
            BY <1>10, <5>1
          <6>3. QED
            BY <1>2, <6>1, <6>2 DEF HasPending
        <5>2. CASE /\ Len(pending') = Len(pending)
                   /\ DOMAIN pending'[1] = DOMAIN pending[1] \ {product}
                   /\ \A i \in 2 .. Len(pending') : pending'[i] = pending[i]
          <6>1. Len(pending) = 1 => DOMAIN pending' = {1}
            BY <1>10, <5>2
          <6>2. Len(pending) = 2 => DOMAIN pending' = {1, 2} /\ pending'[2] = pending[2]
            BY <1>10, <5>2
          <6>3. product \notin DOMAIN pending'[1]
            BY <5>2
          <6>4. QED
            BY <1>2, <6>1, <6>2, <6>3 DEF HasPending
        <5>3. QED
          BY <1>10, <5>1, <5>2
      <4>2. CASE ~HasPending(product)'
        <5>1. event.status = "Unsupported" <=> product \in rejected
          BY <1>2, <1>6, <4>1, <4>2
        <5>2. adapters'[product].status # "Live" /\ event.status # "Live"
          BY <1>3, <1>5, <3>2, <3>4 DEF PendingAgrees, NonLiveStatus
        <5>3. QED
          BY <1>7, <3>2, <3>4, <4>2, <5>1, <5>2 DEF Agrees, Live
      <4>3. CASE HasPending(product)'
        <5>1. /\ Len(pending) = 2 /\ product \in DOMAIN pending[2]
              /\ pending[2][product].status = "Unsupported" /\ product \in rejected
              /\ adapters[product].status # "Live"
          BY <1>5, <4>1, <4>3 DEF PendingAgrees
        <5>2. \/ Len(pending') = 1 /\ pending'[1] = pending[2]
              \/ Len(pending') = 2 /\ pending'[2] = pending[2] /\ product \notin DOMAIN pending'[1]
          BY <1>10, <5>1
        <5>3. PendingAgrees(product)'
          BY <3>2, <3>4, <5>1, <5>2 DEF PendingAgrees
        <5>4. QED
          BY <3>4, <4>3, <5>3
      <4>4. QED
        BY <4>2, <4>3
    <3>5. QED
      BY <3>3, <3>4
  <2>3. QED
    BY <2>1, <2>2 DEF SessionAgrees
<1>12. QED
  BY <1>1, <1>8, <1>9, <1>11 DEF IInv

\* While the runner may block in the wire's read, nothing is pending.
LEMMA ReadAgrees ==
  ASSUME IInv, MayRead
  PROVE  /\ phase = "reading" /\ pending = <<>>
         /\ \A product \in Product : Agrees(product)
         /\ untold = {}
<1>1. phase = "reading" /\ pending = <<>>
  BY DEF MayRead
<1>2. \A product \in Product : ~HasPending(product)
  BY <1>1 DEF HasPending
<1>3. QED
  BY <1>1, <1>2 DEF IInv, SessionAgrees, RecoveryAgrees

\* A product that is answered has one event pending, or is left as it was.
LEMMA AnsweredAgrees ==
  ASSUME IInv, MayRead, NEW product \in Product,
         NEW status \in {"WaitingForSnapshot", "Unsupported"},
         adapters'[product].status # "Live",
         status = "Unsupported" <=> product \in rejected',
         status = "WaitingForSnapshot" => store[product].status # "Unsupported",
         pending' = StatusForAll({product}, status),
         \A other \in Product \ {product} :
           /\ adapters'[other] = adapters[other]
           /\ other \in rejected' <=> other \in rejected,
         UNCHANGED <<phase, store>>
  PROVE  SessionAgrees'
<1>1. \A other \in Product : Agrees(other)
  BY ReadAgrees
<1>2. /\ Len(pending') = 1 /\ DOMAIN pending' = {1}
      /\ pending'[1] = [other \in {product} |-> StatusEvent(status)]
  <2>1. /\ pending' \in Seq(Events) /\ Len(pending') = 1
        /\ pending'[1] = [other \in {product} |-> StatusEvent(status)]
    <3>1. {product} \in SUBSET Product /\ {product} # {} /\ status \in NonLiveStatus
      BY DEF NonLiveStatus
    <3>2. QED
      BY <3>1, StatusForAllType, Zenon
  <2>2. DOMAIN pending' = 1 .. 1
    BY <2>1, LenProperties
  <2>3. QED
    BY <2>1, <2>2
<1>3. \A other \in Product : HasPending(other)' <=> other = product
  BY <1>2 DEF HasPending
<1>4. PendingAgrees(product)'
  BY <1>2 DEF PendingAgrees, StatusEvent
<1>5. ASSUME NEW other \in Product \ {product}
      PROVE  Agrees(other)'
  BY <1>1 DEF Agrees, Live
<1>6. Len(pending') <= 2
  <2>1. Len(pending') = 1
    BY <1>2
  <2>2. 1 <= 2
    OBVIOUS
  <2>3. QED
    BY <2>1, <2>2, Zenon
<1>7. ASSUME NEW other \in Product
      PROVE  IF HasPending(other)' THEN PendingAgrees(other)' ELSE Agrees(other)'
  BY <1>3, <1>4, <1>5
<1>8. QED
  BY <1>6, <1>7 DEF SessionAgrees

LEMMA AcknowledgementInv ==
  ASSUME IInv, NEW product \in Product, ReadAcknowledgement(product)
  PROVE  IInv'
<1>1. MayRead /\ TypeOK' /\ product \notin rejected
  BY AcknowledgementType DEF ReadAcknowledgement, IInv
<1>2. Agrees(product) /\ phase = "reading" /\ TypeOK
  BY <1>1, ReadAgrees DEF IInv
<1>3. SessionAgrees' /\ UNCHANGED <<sent, phase, unsupported, untold, store>>
  <2>1. CASE AcceptsSubscription(product) /\ pending' = <<>>
    <3>1. UNCHANGED <<adapters, rejected, store, phase, pending, sent, unsupported, untold>>
      BY <1>1, <2>1 DEF AcceptsSubscription, MayRead, venueVars, runnerVars
    <3>2. \A other \in Product : /\ HasPending(other)' <=> HasPending(other)
                                 /\ PendingAgrees(other)' <=> PendingAgrees(other)
                                 /\ Agrees(other)' <=> Agrees(other)
      BY <3>1 DEF HasPending, PendingAgrees, Agrees, Live
    <3>3. QED
      BY <3>1, <3>2 DEF IInv, SessionAgrees
  <2>2. CASE AcceptsSubscription(product) /\ pending' # <<>>
    <3>1. /\ UNCHANGED <<adapters, rejected, store, phase, sent, unsupported, untold>>
          /\ pending' = StatusForAll({product}, "WaitingForSnapshot")
          /\ adapters[product].status # "Live"
      BY <2>2 DEF AcceptsSubscription, venueVars, runnerVars
    <3>2. store[product].status # "Unsupported"
      BY <1>1, <1>2 DEF Agrees
    <3>3. QED
      BY <1>1, <3>1, <3>2, AnsweredAgrees
  <2>3. CASE RejectsSubscription(product)
    <3>1. /\ UNCHANGED <<store, phase, sent, unsupported, untold>>
          /\ rejected' = rejected \cup {product}
          /\ adapters' = [adapters EXCEPT ![product] = NewAdapter]
          /\ pending' = StatusForAll({product}, "Unsupported")
      BY <2>3 DEF RejectsSubscription, venueVars, runnerVars
    <3>2. adapters'[product].status # "Live"
      BY <1>2, <3>1, NewAdapterType DEF TypeOK
    <3>3. \A other \in Product \ {product} : adapters'[other] = adapters[other]
      BY <1>2, <3>1 DEF TypeOK
    <3>4. QED
      BY <1>1, <3>1, <3>2, <3>3, AnsweredAgrees
  <2>4. QED
    BY <2>1, <2>2, <2>3 DEF ReadAcknowledgement
<1>4. UnsupportedAgrees' /\ RecoveryAgrees'
  BY <1>2, <1>3 DEF IInv, UnsupportedAgrees, RecoveryAgrees, Live
<1>5. QED
  BY <1>1, <1>3, <1>4 DEF IInv

\* What a book does to its market: nothing, if the adapter ignores it; both live
\* with the levels the checksum was compared with; or both not.
LEMMA ReadBookShows ==
  ASSUME IInv, MayRead, NEW product \in Product, product \notin rejected,
         NEW message, message.type \in {"snapshot", "update"},
         NEW timestamp, ReadBook(product, message, timestamp)
  PROVE  \/ UNCHANGED <<adapters, reconnectRequired, runnerVars, store>>
         \/ /\ Trusts(adapters[product], message) /\ ~reconnectRequired'
            /\ LET levels == NextLevels(adapters[product], message)
               IN  /\ adapters' = [adapters EXCEPT ![product] =
                         [status |-> "Live", book |-> levels, timestamp |-> timestamp]]
                   /\ store' = [store EXCEPT ![product] =
                         [status |-> "Live", book |-> levels, timestamp |-> timestamp]]
            /\ UNCHANGED <<unsupported, untold>>
         \/ /\ reconnectRequired'
            /\ adapters' = [adapters EXCEPT ![product] = Invalidation(adapters[product])]
            /\ store' = [store EXCEPT ![product] =
                  [status |-> "Stale", book |-> NoBook, timestamp |-> adapters[product].timestamp]]
            /\ UNCHANGED <<unsupported, untold>>
<1> DEFINE adapter == adapters[product]
           event   == EventOf(adapter, message, timestamp)
<1>1. CASE Ignores(adapter, message)
  BY <1>1 DEF ReadBook
<1>2. CASE ~Ignores(adapter, message)
  <2>1. /\ adapters' = [adapters EXCEPT ![product] = ProcessBook(adapter, message, timestamp)]
        /\ reconnectRequired' = (event.type = "Invalidated")
        /\ Published(product, event)
    BY <1>2 DEF ReadBook
  <2>2. event.kind = "book"
    BY DEF EventOf, BookEvent
  <2>3. /\ store' = [store EXCEPT ![product] = ApplyTrusted(store[product], event)]
        /\ UNCHANGED <<unsupported, untold>>
    BY <2>1, <2>2 DEF Published, UnsupportedAfter, ApplyEvent
  <2>4. CASE Trusts(adapter, message)
    <3>1. event = BookEvent(IF message.type = "snapshot" THEN "Snapshot" ELSE "Update",
                            NextLevels(adapter, message), timestamp)
      BY <2>4 DEF EventOf
    <3>2. event.type = "Update" => store[product].status = "Live"
      <4>1. message.type # "snapshot" => adapter.status = "Live"
        BY <1>2 DEF Ignores
      <4>2. event.type = "Update" => message.type # "snapshot"
        BY <3>1 DEF BookEvent
      <4>3. Agrees(product)
        BY ReadAgrees
      <4>4. QED
        BY <4>1, <4>2, <4>3 DEF Agrees, Live
    <3>3. /\ event.type \in {"Snapshot", "Update"}
          /\ event.book = NextLevels(adapter, message)
          /\ event.timestamp = timestamp
      BY <3>1 DEF BookEvent
    <3>4. ProcessBook(adapter, message, timestamp) =
            [status |-> "Live", book |-> NextLevels(adapter, message), timestamp |-> timestamp]
      BY <1>2, <2>4 DEF ProcessBook
    <3> HIDE DEF event
    <3>5. ApplyTrusted(store[product], event) =
            [status |-> "Live", book |-> NextLevels(adapter, message), timestamp |-> timestamp]
      BY <3>2, <3>3 DEF ApplyTrusted
    <3>6. QED
      BY <2>1, <2>3, <2>4, <3>3, <3>4, <3>5
  <2>5. CASE ~Trusts(adapter, message)
    <3>1. event = BookEvent("Invalidated", NoBook, adapter.timestamp)
      BY <2>5 DEF EventOf
    <3>2. /\ event.type = "Invalidated" /\ event.book = NoBook
          /\ event.timestamp = adapter.timestamp
      BY <3>1 DEF BookEvent
    <3>3. ProcessBook(adapter, message, timestamp) = Invalidation(adapter)
      BY <1>2, <2>5 DEF ProcessBook
    <3> HIDE DEF event
    <3>4. ApplyTrusted(store[product], event) =
            [status |-> "Stale", book |-> NoBook, timestamp |-> adapter.timestamp]
      BY <3>2 DEF ApplyTrusted
    <3>5. QED
      BY <2>1, <2>3, <3>2, <3>3, <3>4
  <2>6. QED
    BY <2>4, <2>5
<1>3. QED
  BY <1>1, <1>2

\* A book that is read keeps the agreement of its product and leaves the others.
LEMMA ReadBookInv ==
  ASSUME IInv, MayRead, TypeOK', NEW product \in Product, product \notin rejected,
         NEW message, message.type \in {"snapshot", "update"},
         NEW timestamp, ReadBook(product, message, timestamp),
         UNCHANGED <<rejected, pending>>
  PROVE  IInv'
<1>1. /\ phase = "reading" /\ pending = <<>> /\ untold = {} /\ TypeOK
      /\ \A other \in Product : Agrees(other)
  BY ReadAgrees DEF IInv
<1>2. UNCHANGED <<sent, phase>>
  BY DEF ReadBook, Published
<1>3. \A other \in Product : ~HasPending(other)'
  BY <1>1 DEF HasPending
<1>4. ASSUME \A other \in Product : Agrees(other)',
             \A other \in Product : store'[other].status = "Unsupported"
                                      <=> store[other].status = "Unsupported",
             UNCHANGED <<unsupported, untold>>
      PROVE  IInv'
  <2>1. SessionAgrees'
    BY <1>1, <1>3, <1>4 DEF SessionAgrees
  <2>2. UnsupportedAgrees'
    BY <1>4 DEF IInv, UnsupportedAgrees
  <2>3. RecoveryAgrees'
    BY <1>1, <1>2, <1>4 DEF RecoveryAgrees
  <2>4. QED
    BY <2>1, <2>2, <2>3 DEF IInv
<1>5. CASE UNCHANGED <<adapters, reconnectRequired, runnerVars, store>>
  <2>1. \A other \in Product : Agrees(other)'
    BY <1>1, <1>5 DEF Agrees, Live
  <2>2. QED
    BY <1>4, <1>5, <2>1 DEF runnerVars
<1>6. ASSUME NEW adapter, NEW entry,
             adapters' = [adapters EXCEPT ![product] = adapter],
             store' = [store EXCEPT ![product] = entry],
             entry.status = "Live" <=> adapter.status = "Live",
             entry.status = "Live" => entry.book = adapter.book,
             entry.status # "Unsupported",
             UNCHANGED <<unsupported, untold>>
      PROVE  IInv'
  <2>1. /\ adapters'[product] = adapter /\ store'[product] = entry
        /\ \A other \in Product \ {product} :
             adapters'[other] = adapters[other] /\ store'[other] = store[other]
    BY <1>1, <1>6 DEF TypeOK
  <2>2. Agrees(product)'
    BY <1>6, <2>1 DEF Agrees, Live
  <2>3. \A other \in Product \ {product} : Agrees(other)'
    BY <1>1, <2>1 DEF Agrees, Live
  <2>4. store[product].status # "Unsupported"
    BY <1>1 DEF Agrees
  <2>5. QED
    BY <1>4, <1>6, <2>1, <2>2, <2>3, <2>4
<1>7. QED
  <2> DEFINE levels == NextLevels(adapters[product], message)
             live   == [status |-> "Live", book |-> levels, timestamp |-> timestamp]
             stale  == [status |-> "Stale", book |-> NoBook,
                        timestamp |-> adapters[product].timestamp]
             broken == Invalidation(adapters[product])
  <2>1. live.status = "Live" /\ live.book = levels /\ stale.status = "Stale"
    OBVIOUS
  <2>2. broken.status = "Stale"
    BY <1>1 DEF Invalidation, TypeOK, Adapter
  <2>3. \/ UNCHANGED <<adapters, reconnectRequired, runnerVars, store>>
        \/ /\ adapters' = [adapters EXCEPT ![product] = live]
           /\ store' = [store EXCEPT ![product] = live]
           /\ UNCHANGED <<unsupported, untold>>
        \/ /\ adapters' = [adapters EXCEPT ![product] = broken]
           /\ store' = [store EXCEPT ![product] = stale]
           /\ UNCHANGED <<unsupported, untold>>
    BY ReadBookShows
  <2> HIDE DEF levels, live, stale, broken
  <2>4. QED
    BY <1>5, <1>6, <2>1, <2>2, <2>3

LEMMA RecoveryInv ==
  ASSUME IInv,
         \/ \E product \in Product : TellDisconnected(product) \/ TellReconnecting(product)
         \/ AllToldDisconnected \/ WakeUp
  PROVE  IInv'
<1>1. TypeOK /\ TypeOK'
  BY RecoveryType DEF IInv
<1>2. ASSUME NEW product \in Product, NEW status \in {"Disconnected", "Reconnecting"},
             phase \in {"disconnected", "reconnecting"}, product \in untold,
             untold' = untold \ {product},
             store' = [store EXCEPT ![product] = SetStatus(store[product], status)],
             UNCHANGED <<venueVars, phase, sessionVars, unsupported, nominal>>
      PROVE  IInv'
  <2>1. store'[product].status = status
        /\ \A other \in Product \ {product} : store'[other] = store[other]
    BY <1>1, <1>2, SetStatusType DEF TypeOK, NonLiveStatus
  <2>2. product \notin unsupported
    BY <1>2 DEF IInv, RecoveryAgrees
  <2>3. UnsupportedAgrees'
    BY <1>2, <2>1, <2>2 DEF IInv, UnsupportedAgrees
  <2>4. RecoveryAgrees'
    <3>1. untold' \cap unsupported' = {}
      BY <1>2 DEF IInv, RecoveryAgrees
    <3>2. \A other \in Product : Live(other)' => Live(other) /\ other # product
      BY <2>1 DEF Live
    <3>3. QED
      BY <1>2, <3>1, <3>2 DEF IInv, RecoveryAgrees, venueVars
  <2>5. SessionAgrees'
    BY <1>2 DEF SessionAgrees
  <2>6. QED
    BY <1>1, <2>3, <2>4, <2>5 DEF IInv
<1>3. ASSUME NEW product \in Product, TellDisconnected(product)
      PROVE  IInv'
  BY <1>2, <1>3 DEF TellDisconnected
<1>4. ASSUME NEW product \in Product, TellReconnecting(product)
      PROVE  IInv'
  BY <1>2, <1>4 DEF TellReconnecting
<1>5. CASE AllToldDisconnected
  <2>1. phase = "disconnected" /\ untold = {} /\ sent' = <<>>
        /\ phase' \in {"stopped", "reconnecting"}
        /\ UNCHANGED <<unsupported, store>>
        /\ (untold' = untold \/ untold' = Product \ unsupported)
        /\ (phase' = "stopped" => untold' = untold)
    BY <1>5 DEF AllToldDisconnected
  <2>2. SessionAgrees'
    BY <2>1 DEF SessionAgrees
  <2>3. \A product \in Product : ~Live(product)'
    BY <2>1 DEF IInv, RecoveryAgrees, Live
  <2>4. UnsupportedAgrees' /\ RecoveryAgrees'
    BY <2>1, <2>3 DEF IInv, UnsupportedAgrees, RecoveryAgrees
  <2>5. QED
    BY <1>1, <2>2, <2>4 DEF IInv
<1>6. CASE WakeUp
  BY <1>1, <1>6 DEF WakeUp, IInv, SessionAgrees, UnsupportedAgrees, RecoveryAgrees, Live,
                    venueVars, runnerVars
<1>7. QED
  BY <1>3, <1>4, <1>5, <1>6

LEMMA InvStep ==
  ASSUME IInv, [Next]_vars
  PROVE  IInv'
<1>1. TypeOK /\ TypeOK'
  BY TypeStep DEF IInv
<1>2. CASE VenueStep
  <2>1. UNCHANGED <<phase, sessionVars, runnerVars, store>> /\ phase = "reading"
    BY <1>2 DEF VenueStep, VenueSnapshot, VenueTrade, SendBook, MayRead
  <2>2. QED
    BY <1>1, <2>1, UnseenInv
<1>3. CASE OpenSession
  BY <1>3, OpenSessionInv
<1>4. CASE ConnectFails \/ ReconnectWhenRequired \/ WireFails
  BY <1>4, SessionFailsInv DEF ConnectFails, ReconnectWhenRequired, WireFails, MayRead
<1>5. CASE \E product \in Product : PublishPending(product)
  BY <1>5, PublishPendingInv
<1>6. CASE \/ \E product \in Product : TellDisconnected(product) \/ TellReconnecting(product)
           \/ AllToldDisconnected \/ WakeUp
  BY <1>6, RecoveryInv
<1>7. ASSUME NEW product \in Product, ReadAcknowledgement(product)
      PROVE  IInv'
  BY <1>7, AcknowledgementInv
<1>8. ASSUME NEW product \in Product, ReadUnsound(product)
      PROVE  IInv'
  <2>1. PICK type \in {"snapshot", "update"} :
          ReadBook(product, [type |-> type, levels |-> <<>>, checksum |-> EmptyBook,
                             sound |-> FALSE], NoTimestamp)
    BY <1>8 DEF ReadUnsound
  <2>2. MayRead /\ product \notin rejected /\ UNCHANGED <<rejected, pending>>
    BY <1>8 DEF ReadUnsound
  <2> DEFINE message == [type |-> type, levels |-> <<>>, checksum |-> EmptyBook,
                         sound |-> FALSE]
  <2>3. message.type \in {"snapshot", "update"}
    OBVIOUS
  <2> HIDE DEF message
  <2>4. QED
    BY <1>1, <2>1, <2>2, <2>3, ReadBookInv DEF message
<1>9. ASSUME NEW sequence \in DOMAIN sent, ReadSent(sequence)
      PROVE  IInv'
  <2>1. sent[sequence] \in Message
    BY <1>1 DEF TypeOK
  <2> DEFINE product == sent[sequence].product
             message == sent[sequence].message
  <2>2. product \in Product /\ message.type \in {"snapshot", "update"}
    BY <2>1 DEF Message, KrakenMessage
  <2>3. CASE product \in rejected
    BY <1>9, <2>3, SessionFailsInv DEF ReadSent, MayRead
  <2>4. CASE product \notin rejected
    <3>1. MayRead /\ ReadBook(product, message, sequence) /\ UNCHANGED <<rejected, pending>>
      BY <1>9, <2>4 DEF ReadSent
    <3> HIDE DEF product, message
    <3>2. QED
      BY <1>1, <2>2, <2>4, <3>1, ReadBookInv
  <2>5. QED
    BY <2>3, <2>4
<1>10. CASE UNCHANGED vars
  BY <1>1, <1>10, UnseenInv DEF vars, venueVars
<1>11. QED
  BY <1>2, <1>3, <1>4, <1>5, <1>6, <1>7, <1>8, <1>9, <1>10 DEF Next, RunnerStep, ReadStep

\* The inductive invariant holds: of every product the store shows what its adapter
\* has, or an event is pending that tells it.
THEOREM IInvHolds == Spec => []IInv
  BY InitInv, InvStep, PTL DEF Spec

\* Whenever the session may block in the wire's read, the store shows of every
\* product what its adapter has, and Unsupported exactly what was rejected.
THEOREM StoreCurrent == Spec => []StoreIsCurrentAtRead
<1>1. IInv => StoreIsCurrentAtRead
  <2> SUFFICES ASSUME IInv, MayRead, NEW product \in Product
               PROVE  /\ store[product].status = "Live" <=> adapters[product].status = "Live"
                      /\ store[product].status = "Live" =>
                           store[product].book = adapters[product].book
                      /\ store[product].status = "Unsupported" <=> product \in rejected
    BY DEF StoreIsCurrentAtRead
  <2>1. QED
    BY ReadAgrees DEF Agrees, Live
<1>2. QED
  BY <1>1, IInvHolds, PTL

\* A product that is not to be had stays Unsupported until its next session's
\* discovery: only an event pending for it tells another status, and it is first
\* of all that it is being connected to.
THEOREM UnsupportedStays == Spec => UnsupportedUntilRediscovered
<1> DEFINE Stays(product) ==
             store[product].status = "Unsupported" /\ store'[product].status # "Unsupported"
               => store'[product].status = "Connecting" /\ phase = "reading"
<1>1. ASSUME IInv, [Next]_vars, NEW product \in Product
      PROVE  Stays(product)
  <2> USE DEF venueVars, sessionVars, runnerVars
  <2>1. TypeOK
    BY <1>1 DEF IInv
  <2>2. CASE store' = store
    BY <2>2
  <2>3. ASSUME NEW other \in Product, PublishPending(other)
        PROVE  Stays(product)
    <3> DEFINE event == Head(pending)[other]
    <3>1. /\ phase = "reading" /\ pending # <<>> /\ pending \in Seq(Events)
          /\ Head(pending) = pending[1] /\ 1 \in DOMAIN pending /\ other \in DOMAIN pending[1]
      BY <2>1, <2>3 DEF PublishPending, TypeOK
    <3>2. event.kind = "status" /\ event.status \in NonLiveStatus
      BY <3>1, EventsAre
    <3>3. PendingAgrees(other)
      BY <1>1, <3>1 DEF HasPending, IInv, SessionAgrees
    <3>4. store' = [store EXCEPT ![other] = SetStatus(store[other], event.status)]
      BY <2>3, <3>2 DEF PublishPending, Published, ApplyEvent
    <3>5. CASE product = other
      <4>1. store'[product].status = event.status
        BY <2>1, <3>2, <3>4, <3>5, SetStatusType DEF TypeOK
      <4>2. event.status \in {"Connecting", "WaitingForSnapshot", "Unsupported"}
            /\ (event.status = "WaitingForSnapshot" => store[other].status # "Unsupported")
        BY <3>1, <3>3 DEF PendingAgrees
      <4>3. QED
        BY <3>1, <3>5, <4>1, <4>2
    <3>6. CASE product # other
      BY <2>1, <3>4, <3>6 DEF TypeOK
    <3>7. QED
      BY <3>5, <3>6
  <2>4. ASSUME MayRead, NEW other \in Product, other \notin rejected,
               NEW entry, store' = [store EXCEPT ![other] = entry]
        PROVE  Stays(product)
    BY <1>1, <2>1, <2>4, ReadAgrees DEF Agrees, TypeOK
  <2>5. ASSUME NEW other \in Product, TellDisconnected(other) \/ TellReconnecting(other)
        PROVE  Stays(product)
    <3>1. store[other].status # "Unsupported"
      BY <1>1, <2>5 DEF TellDisconnected, TellReconnecting, IInv, RecoveryAgrees,
                        UnsupportedAgrees
    <3>2. PICK entry : store' = [store EXCEPT ![other] = entry]
      BY <2>5 DEF TellDisconnected, TellReconnecting
    <3>3. QED
      BY <2>1, <3>1, <3>2 DEF TypeOK
  <2>6. ASSUME NEW other \in Product, ReadUnsound(other)
        PROVE  Stays(product)
    <3>1. MayRead /\ other \notin rejected
      BY <2>6 DEF ReadUnsound
    <3>2. PICK entry : store' = [store EXCEPT ![other] = entry] \/ store' = store
      BY <2>6 DEF ReadUnsound, ReadBook, Published
    <3>3. QED
      BY <2>2, <2>4, <3>1, <3>2
  <2>7. ASSUME NEW sequence \in DOMAIN sent, ReadSent(sequence)
        PROVE  Stays(product)
    <3> DEFINE other == sent[sequence].product
    <3>1. MayRead /\ other \in Product
      <4>1. sent[sequence] \in Message
        BY <2>1, <2>7 DEF TypeOK
      <4>2. QED
        BY <2>7, <4>1 DEF ReadSent, Message
    <3>2. PICK entry : \/ store' = store
                       \/ other \notin rejected /\ store' = [store EXCEPT ![other] = entry]
      BY <2>7 DEF ReadSent, ReadBook, Published, SessionFails
    <3> HIDE DEF other
    <3>3. QED
      BY <2>2, <2>4, <3>1, <3>2
  <2>8. CASE VenueStep \/ OpenSession \/ ConnectFails \/ ReconnectWhenRequired \/ WireFails
              \/ AllToldDisconnected \/ WakeUp \/ UNCHANGED vars
              \/ \E other \in Product : ReadAcknowledgement(other)
    <3>1. store' = store
      BY <2>8 DEF VenueStep, VenueSnapshot, VenueTrade, SendBook, OpenSession, ConnectFails,
                  ReconnectWhenRequired, WireFails, SessionFails, AllToldDisconnected, WakeUp,
                  vars, ReadAcknowledgement, AcceptsSubscription, RejectsSubscription
    <3>2. QED
      BY <2>2, <3>1
  <2>9. QED
    BY <1>1, <2>3, <2>5, <2>6, <2>7, <2>8 DEF Next, RunnerStep, ReadStep
<1>2. IInv /\ [Next]_vars
        => [\A product \in Product : Stays(product)]_vars
  BY <1>1
<1>3. QED
  BY <1>2, IInvHolds, PTL DEF Spec, UnsupportedUntilRediscovered

(***************************************************************************)
(* The refinement.                                                         *)
(***************************************************************************)

\* What is not in the store, the messages sent or the connection is not seen.
LEMMA UnseenStep ==
  ASSUME sent' = sent, store' = store, Trusted' = Trusted
  PROVE  UNCHANGED Markets!vars
  BY DEF Markets!vars, TopsTold, LiveMarkets

LEMMA LosingTrust ==
  ASSUME sent' = sent, store' = store, ~Trusted'
  PROVE  Markets!Break \/ UNCHANGED Markets!vars
<1>1. UNCHANGED <<TopsTold, LiveMarkets>>
  BY DEF TopsTold, LiveMarkets
<1>2. CASE Trusted
  BY <1>1, <1>2 DEF Markets!Break
<1>3. CASE ~Trusted
  BY <1>1, <1>3 DEF Markets!vars, Trusted
<1>4. QED
  BY <1>2, <1>3

\* A market whose entry is not live shows nothing, and no other is touched.
LEMMA EntryTakenDown ==
  ASSUME TypeOK, NEW product \in Product, NEW entry, entry.status # "Live",
         store' = [store EXCEPT ![product] = entry]
  PROVE  Markets!TakenDown(product) \/ LiveMarkets' = LiveMarkets
<1>1. LiveMarkets' = [LiveMarkets EXCEPT ![product] = {}]
  <2>1. LiveMarkets'[product] = {}
    BY DEF LiveMarkets, TypeOK
  <2>2. \A other \in Product \ {product} : LiveMarkets'[other] = LiveMarkets[other]
    BY DEF LiveMarkets, TypeOK
  <2>3. /\ LiveMarkets' = [other \in Product |-> LiveMarkets'[other]]
        /\ LiveMarkets = [other \in Product |-> LiveMarkets[other]]
    BY DEF LiveMarkets
  <2>4. QED
    BY <2>1, <2>2, <2>3
<1>2. CASE LiveMarkets[product] = {}
  <2>1. LiveMarkets = [other \in Product |-> LiveMarkets[other]]
    BY DEF LiveMarkets
  <2>2. QED
    BY <1>1, <1>2, <2>1
<1>3. QED
  BY <1>1, <1>2 DEF Markets!TakenDown

LEMMA TakingDown ==
  ASSUME TypeOK, NEW product \in Product, NEW entry, entry.status # "Live",
         store' = [store EXCEPT ![product] = entry], sent' = sent, Trusted' = Trusted
  PROVE  Markets!TakeDown \/ UNCHANGED Markets!vars
<1>1. TopsTold' = TopsTold
  BY DEF TopsTold
<1>2. QED
  BY <1>1, EntryTakenDown DEF Markets!TakeDown, Markets!vars

\* Nothing is live: neither while connecting nor once all have been told.
LEMMA NothingLive ==
  ASSUME IInv, phase = "connecting" \/ (phase = "disconnected" /\ untold = {})
  PROVE  Markets!NothingIsLive
<1>1. \A product \in Product : ~Live(product)
  BY DEF IInv, RecoveryAgrees
<1>2. QED
  BY <1>1 DEF Markets!NothingIsLive, LiveMarkets, Live

\* A message sent is told.
LEMMA SendTells ==
  ASSUME IInv, MayRead, NEW product \in Product, NEW type, NEW levels, NEW book,
         SendBook(product, type, levels, book)
  PROVE  Markets!Tell
<1>1. /\ Trusted /\ Trusted' = Trusted /\ store' = store
  BY DEF SendBook, MayRead, Trusted, sessionVars
<1>2. PICK message : sent' = Append(sent, message)
  BY DEF SendBook
<1>3. sent \in Seq(Message)
  BY DEF IInv, TypeOK
<1>4. /\ Len(sent') = Len(sent) + 1
      /\ \A i \in DOMAIN sent : sent'[i] = sent[i] /\ i \in DOMAIN sent'
  BY <1>2, <1>3
<1>5. /\ Len(TopsTold) = Len(sent) /\ DOMAIN TopsTold = DOMAIN sent
  BY <1>3 DEF TopsTold
<1>6. DOMAIN TopsTold' = 1 .. Len(sent')
  BY <1>2, <1>3 DEF TopsTold
<1>7. \A i \in DOMAIN TopsTold : TopsTold'[i] = TopsTold[i]
  BY <1>4, <1>5 DEF TopsTold
<1>8. LiveMarkets' = LiveMarkets
  BY <1>1 DEF LiveMarkets
<1>9. /\ Len(sent') \in DOMAIN TopsTold' /\ DOMAIN TopsTold' = 1 .. Len(sent')
      /\ DOMAIN TopsTold = 1 .. Len(sent') - 1
  <2>1. Len(sent) \in Nat /\ DOMAIN sent = 1 .. Len(sent)
    BY <1>3
  <2>2. QED
    BY <1>4, <1>5, <1>6, <2>1
<1>10. QED
  BY <1>1, <1>7, <1>8, <1>9 DEF Markets!Tell

\* A trusted book shows the levels its checksum attests; one that is not breaks
\* the connection and takes its market down.
LEMMA ReadShows ==
  ASSUME IInv, MayRead, NEW product \in Product, product \notin rejected,
         NEW message, message.type \in {"snapshot", "update"},
         NEW timestamp, ReadBook(product, message, timestamp),
         Trusts(adapters[product], message) =>
           /\ timestamp \in DOMAIN sent
           /\ message.checksum \in TopsTold[timestamp][product]
  PROVE  Markets!Next \/ UNCHANGED Markets!vars
<1>1. TypeOK /\ Trusted /\ sent' = sent /\ phase' = phase
  BY DEF IInv, MayRead, Trusted, ReadBook, Published
<1>2. TopsTold' = TopsTold
  BY <1>1 DEF TopsTold
<1>3. CASE UNCHANGED <<adapters, reconnectRequired, runnerVars, store>>
  BY <1>1, <1>3, UnseenStep DEF Trusted
<1> DEFINE levels == NextLevels(adapters[product], message)
           live   == [status |-> "Live", book |-> levels, timestamp |-> timestamp]
           shown  == [at |-> timestamp, top |-> message.checksum]
<1>4. CASE /\ Trusts(adapters[product], message) /\ ~reconnectRequired'
           /\ store' = [store EXCEPT ![product] = live]
  <2>1. Attested(levels) = message.checksum
    BY <1>4 DEF Trusts, Checksum, Attested
  <2> HIDE DEF levels
  <2>2. LiveMarkets' = [LiveMarkets EXCEPT ![product] = {shown}]
    <3>1. LiveMarkets'[product] = {shown}
      BY <1>1, <1>4, <2>1 DEF LiveMarkets, TypeOK
    <3>2. \A other \in Product \ {product} : LiveMarkets'[other] = LiveMarkets[other]
      BY <1>1, <1>4 DEF LiveMarkets, TypeOK
    <3>3. /\ LiveMarkets' = [other \in Product |-> LiveMarkets'[other]]
          /\ LiveMarkets = [other \in Product |-> LiveMarkets[other]]
      BY DEF LiveMarkets
    <3> HIDE DEF shown
    <3>4. QED
      BY <3>1, <3>2, <3>3
  <2>3. Trusted' = Trusted
    BY <1>1, <1>4 DEF Trusted
  <2>4. /\ shown.at \in DOMAIN TopsTold /\ shown.top \in TopsTold[shown.at][product]
    BY <1>4 DEF TopsTold
  <2> HIDE DEF shown
  <2>5. shown \in LiveMarkets'[product]
    BY <2>2 DEF LiveMarkets
  <2>6. Markets!Show(product)
    BY <1>1, <1>2, <2>2, <2>3, <2>4, <2>5 DEF Markets!Show
  <2>7. QED
    BY <2>6 DEF Markets!Next
<1>5. CASE /\ reconnectRequired'
           /\ store' = [store EXCEPT ![product] =
                 [status |-> "Stale", book |-> NoBook, timestamp |-> adapters[product].timestamp]]
  <2>1. Markets!TakenDown(product) \/ LiveMarkets' = LiveMarkets
    BY <1>1, <1>5, EntryTakenDown
  <2>2. Trusted' = FALSE
    BY <1>5 DEF Trusted
  <2>3. Markets!Break
    BY <1>1, <1>2, <2>1, <2>2 DEF Markets!Break
  <2>4. QED
    BY <2>3 DEF Markets!Next
<1>6. QED
  BY <1>3, <1>4, <1>5, ReadBookShows

\* Every step is one of the abstract specification, or unseen in it.
LEMMA StepRefines ==
  ASSUME IInv, [Next]_vars
  PROVE  [Markets!Next]_(Markets!vars)
<1> USE DEF Markets!Next
<1>1. TypeOK
  BY DEF IInv
<1>2. ASSUME NEW product \in Product,
             VenueSnapshot(product) \/ \E batch \in UpdateBatch : VenueTrade(product, batch)
      PROVE  Markets!Next \/ UNCHANGED Markets!vars
  <2>1. CASE store' = store /\ sent' = sent /\ Trusted' = Trusted
    BY <2>1, UnseenStep
  <2>2. ASSUME NEW type, NEW levels, NEW book, MayRead, SendBook(product, type, levels, book)
        PROVE  Markets!Next
    BY <2>2, SendTells
  <2>3. QED
    BY <1>2, <2>1, <2>2 DEF VenueSnapshot, VenueTrade, Trusted, sessionVars
<1>3. CASE OpenSession
  <2>1. Markets!NothingIsLive /\ sent = <<>>
    BY <1>3, NothingLive DEF OpenSession, IInv, RecoveryAgrees
  <2>2. ~Trusted /\ (Trusted' = TRUE \/ Trusted' = FALSE) /\ sent' = sent /\ store' = store
    BY <1>3 DEF OpenSession, Trusted, venueVars
  <2>3. TopsTold = <<>> /\ TopsTold' = TopsTold /\ LiveMarkets' = LiveMarkets
    BY <2>1, <2>2 DEF TopsTold, LiveMarkets
  <2>4. CASE Trusted' = TRUE
    BY <2>1, <2>2, <2>3, <2>4 DEF Markets!Connect
  <2>5. CASE Trusted' = FALSE
    BY <2>2, <2>5, LosingTrust
  <2>6. QED
    BY <2>2, <2>4, <2>5
<1>4. CASE \/ ConnectFails \/ ReconnectWhenRequired \/ WireFails
           \/ \E sequence \in DOMAIN sent : MayRead /\ SessionFails
  <2>1. sent' = sent /\ store' = store /\ ~Trusted'
    BY <1>4 DEF ConnectFails, ReconnectWhenRequired, WireFails, SessionFails, Trusted, venueVars
  <2>2. QED
    BY <2>1, LosingTrust
<1>5. ASSUME NEW product \in Product, PublishPending(product)
      PROVE  Markets!Next \/ UNCHANGED Markets!vars
  <2> DEFINE event == Head(pending)[product]
  <2>1. /\ pending # <<>> /\ pending \in Seq(Events)
        /\ Head(pending) \in Events /\ product \in DOMAIN Head(pending)
    BY <1>1, <1>5 DEF PublishPending, TypeOK
  <2>2. event.kind = "status" /\ event.status \in NonLiveStatus
    BY <2>1, EventsAre
  <2>3. store' = [store EXCEPT ![product] = SetStatus(store[product], event.status)]
        /\ sent' = sent /\ Trusted' = Trusted
    BY <1>5, <2>2 DEF PublishPending, Published, ApplyEvent, Trusted
  <2>4. SetStatus(store[product], event.status).status # "Live"
    BY <2>2 DEF SetStatus, NonLiveStatus
  <2>5. QED
    BY <1>1, <2>3, <2>4, TakingDown
<1>6. ASSUME NEW product \in Product, ReadAcknowledgement(product)
      PROVE  UNCHANGED Markets!vars
  <2>1. sent' = sent /\ store' = store /\ Trusted' = Trusted
    BY <1>6 DEF ReadAcknowledgement, AcceptsSubscription, RejectsSubscription, Trusted, venueVars
  <2>2. QED
    BY <2>1, UnseenStep
<1>7. ASSUME NEW product \in Product, ReadUnsound(product)
      PROVE  Markets!Next \/ UNCHANGED Markets!vars
  <2>1. PICK type \in {"snapshot", "update"} :
          ReadBook(product, [type |-> type, levels |-> <<>>, checksum |-> EmptyBook,
                             sound |-> FALSE], NoTimestamp)
    BY <1>7 DEF ReadUnsound
  <2> DEFINE message == [type |-> type, levels |-> <<>>, checksum |-> EmptyBook,
                         sound |-> FALSE]
  <2>2. message.type \in {"snapshot", "update"} /\ ~Trusts(adapters[product], message)
    BY DEF Trusts
  <2>3. MayRead /\ product \notin rejected
    BY <1>7 DEF ReadUnsound
  <2> HIDE DEF message
  <2>4. QED
    BY <2>1, <2>2, <2>3, ReadShows DEF message
<1>8. ASSUME NEW sequence \in DOMAIN sent, ReadSent(sequence)
      PROVE  Markets!Next \/ UNCHANGED Markets!vars
  <2> DEFINE product == sent[sequence].product
             message == sent[sequence].message
  <2>1. sent[sequence] \in Message
    BY <1>1 DEF TypeOK
  <2>2. /\ product \in Product /\ message.type \in {"snapshot", "update"}
        /\ message.checksum \in Book
    BY <2>1 DEF Message, KrakenMessage
  <2>3. CASE product \in rejected
    BY <1>4, <1>8, <2>3 DEF ReadSent
  <2>4. CASE product \notin rejected
    <3>1. MayRead /\ ReadBook(product, message, sequence)
      BY <1>8, <2>4 DEF ReadSent
    <3>2. message.checksum \in TopsTold[sequence][product]
      BY <2>2 DEF TopsTold
    <3> HIDE DEF product, message
    <3>3. QED
      BY <2>2, <2>4, <3>1, <3>2, ReadShows
  <2>5. QED
    BY <2>3, <2>4
<1>9. CASE WakeUp \/ UNCHANGED vars
  <2>1. sent' = sent /\ store' = store /\ Trusted' = Trusted
    BY <1>9 DEF WakeUp, vars, Trusted, venueVars, sessionVars
  <2>2. QED
    BY <2>1, UnseenStep
<1>10. ASSUME NEW product \in Product, TellDisconnected(product) \/ TellReconnecting(product)
       PROVE  Markets!Next \/ UNCHANGED Markets!vars
  <2>1. PICK status \in {"Disconnected", "Reconnecting"} :
          store' = [store EXCEPT ![product] = SetStatus(store[product], status)]
    BY <1>10 DEF TellDisconnected, TellReconnecting
  <2>2. sent' = sent /\ Trusted' = Trusted
    BY <1>10 DEF TellDisconnected, TellReconnecting, Trusted, venueVars, sessionVars
  <2>3. SetStatus(store[product], status).status # "Live"
    BY DEF SetStatus
  <2>4. QED
    BY <1>1, <2>1, <2>2, <2>3, TakingDown
<1>11. CASE AllToldDisconnected
  <2>1. Markets!NothingIsLive
    BY <1>11, NothingLive DEF AllToldDisconnected
  <2>2. ~Trusted /\ ~Trusted' /\ LiveMarkets' = LiveMarkets
    BY <1>11 DEF AllToldDisconnected, Trusted, LiveMarkets
  <2>3. TopsTold' = <<>>
    BY <1>11 DEF AllToldDisconnected, TopsTold
  <2>4. QED
    BY <2>1, <2>2, <2>3 DEF Markets!Forget, Trusted
<1>12. QED
  BY <1>2, <1>3, <1>4, <1>5, <1>6, <1>7, <1>8, <1>9, <1>10, <1>11, TradedAssumption
     DEF Next, VenueStep, RunnerStep, ReadStep

\* Kraken's session and runner implement what a venue promises the store: a live
\* market's best levels are those the venue attested with the message that stamps
\* it, whatever the wire loses, repeats or reorders, and all are taken down
\* before the next connection.
THEOREM Refinement == Spec => ImplementsTrustedMarkets
<1>1. Init => Markets!Init
  <2> SUFFICES ASSUME Init PROVE Markets!Init
    OBVIOUS
  <2>1. LiveMarkets = [product \in Product |-> {}]
    BY DEF Init, LiveMarkets, InitialEntry
  <2>2. Trusted = FALSE /\ TopsTold = <<>>
    BY DEF Init, Trusted, TopsTold
  <2>3. QED
    BY <2>1, <2>2 DEF Markets!Init, Markets!NothingIsLive
<1>2. IInv /\ [Next]_vars => [Markets!Next]_(Markets!vars)
  BY StepRefines
<1>3. QED
  BY <1>1, <1>2, IInvHolds, PTL DEF Spec, ImplementsTrustedMarkets, Markets!Spec

(***************************************************************************)
(* The best levels of a book.                                              *)
(***************************************************************************)

\* Of the elements better than one, at least as many as there are up to `count' are
\* among the best `count'.
LEMMA BestAreAmongBetter ==
  ASSUME NEW S, IsFiniteSet(S), NEW better \in [S -> SUBSET S],
         \A x \in S : x \notin better[x],
         \A x \in S : \A y \in better[x] : better[y] \subseteq better[x],
         NEW x \in S, NEW count \in Nat, Cardinality(better[x]) >= count,
         NEW best, IsFiniteSet(best),
         \A y \in better[x] : Cardinality(better[y]) < count => y \in best
  PROVE  Cardinality(best) >= count
<1> DEFINE first  == {y \in better[x] : Cardinality(better[y]) < count}
           others == better[x] \ first
           sets   == {better[y] : y \in others}
<1>1. \A y \in S : better[y] \subseteq S /\ IsFiniteSet(better[y]) /\ Cardinality(better[y]) \in Nat
  <2> SUFFICES ASSUME NEW y \in S
               PROVE  better[y] \subseteq S /\ IsFiniteSet(better[y]) /\ Cardinality(better[y]) \in Nat
    OBVIOUS
  <2>1. better[y] \in SUBSET S
    OBVIOUS
  <2>2. QED
    BY <2>1, FS_Subset, FS_CardinalityType
<1>2. first \subseteq better[x] /\ others \subseteq S
  BY <1>1
<1>3. ASSUME others = {}
      PROVE  Cardinality(first) >= count
  <2>1. first = better[x]
    BY <1>2, <1>3
  <2> HIDE DEF first
  <2>2. QED
    BY <2>1 DEF first
<1>4. ASSUME others # {}
      PROVE  Cardinality(first) >= count
  <2>1. sets \subseteq FiniteSubsetsOf(S) /\ sets # {}
    BY <1>1, <1>2, <1>4 DEF FiniteSubsetsOf
  <2>2. IsWellFoundedOn(StrictSubsetOrdering(S), FiniteSubsetsOf(S))
    BY FS_StrictSubsetOrderingWellFounded
  <2> HIDE DEF sets
  <2>3. \E least \in sets : \A set \in sets : <<set, least>> \notin StrictSubsetOrdering(S)
    BY <2>1, <2>2, WFMin
  <2>4. PICK y \in others : \A z \in others : <<better[z], better[y]>> \notin StrictSubsetOrdering(S)
    BY <2>3 DEF sets
  <2>5. y \in S /\ y \in better[x]
    BY <1>2, <2>4
  <2>6. better[y] \subseteq first
    <3> SUFFICES ASSUME NEW z \in better[y], z \notin first
                 PROVE  FALSE
      OBVIOUS
    <3>1. z \in S /\ z \in better[x] /\ z \in others
      BY <1>1, <2>5
    <3>2. better[z] \subseteq better[y] /\ z \notin better[z]
      BY <2>5, <3>1
    <3>3. <<better[z], better[y]>> \in StrictSubsetOrdering(S)
      BY <1>1, <2>5, <3>1, <3>2 DEF StrictSubsetOrdering
    <3>4. QED
      BY <2>4, <3>1, <3>3
  <2>7. IsFiniteSet(first) /\ Cardinality(first) \in Nat
    <3>1. first \in SUBSET S
      BY <1>1, <1>2
    <3> HIDE DEF first
    <3>2. QED
      BY <3>1, FS_Subset, FS_CardinalityType
  <2>8. Cardinality(better[y]) <= Cardinality(first)
    <3> HIDE DEF first
    <3>1. QED
      BY <2>6, <2>7, FS_Subset
  <2>9. ~(Cardinality(better[y]) < count)
    BY <2>4
  <2> HIDE DEF first, others
  <2>10. QED
    BY <1>1, <2>5, <2>7, <2>8, <2>9 DEF first
<1>5. Cardinality(first) >= count
  BY <1>3, <1>4
<1>6. first \subseteq best
  OBVIOUS
<1> HIDE DEF first
<1>7. Cardinality(first) <= Cardinality(best) /\ IsFiniteSet(first)
  BY <1>6, FS_Subset
<1>8. QED
  BY <1>5, <1>7, FS_CardinalityType

\* The prices of a level's side that are better than its own.
Better(book, level) ==
  {price \in Prices(book, level[1]) : IF level[1] = "bid" THEN price > level[2] ELSE price < level[2]}

LEMMA BestLevelsAre ==
  ASSUME NEW book, NEW count
  PROVE  BestLevels(book, count)
           = [level \in Level |-> IF Cardinality(Better(book, level)) < count THEN book[level] ELSE 0]
  BY DEF BestLevels, Better

LEMMA BetterFinite ==
  ASSUME NEW book, NEW level
  PROVE  /\ Better(book, level) \subseteq Price /\ IsFiniteSet(Better(book, level))
         /\ Cardinality(Better(book, level)) \in Nat
<1>1. Better(book, level) \subseteq Price
  BY DEF Better, Prices
<1>2. QED
  BY <1>1, PriceAssumption, FS_Subset, FS_CardinalityType

\* A level that the best `count' of a book push out is pushed out of every book
\* that has those.
LEMMA PushedOut ==
  ASSUME NEW book \in Book, NEW other, NEW count \in Nat, NEW level \in Level,
         \A best \in Level : Cardinality(Better(book, best)) < count /\ book[best] # 0
                               => other[best] = book[best],
         book[level] # 0, Cardinality(Better(book, level)) >= count
  PROVE  Cardinality(Better(other, level)) >= count
<1> DEFINE side    == level[1]
           resting == Prices(book, side)
           better  == [price \in resting |-> Better(book, <<side, price>>)]
           x       == level[2]
<1>1. side \in Side /\ x \in Price /\ level = <<side, x>>
  BY DEF Level
<1>2. x \in resting /\ IsFiniteSet(resting) /\ resting \subseteq Price /\ Price \subseteq Nat
  <2>1. x \in resting /\ resting \subseteq Price
    BY <1>1 DEF Prices
  <2> HIDE DEF resting
  <2>2. QED
    BY <2>1, PriceAssumption, FS_Subset
<1>3. better \in [resting -> SUBSET resting]
  BY DEF Better
<1>4. /\ \A price \in resting : price \notin better[price]
      /\ \A price \in resting : \A nearer \in better[price] : better[nearer] \subseteq better[price]
  <2> SUFFICES ASSUME NEW price \in resting
               PROVE  /\ price \notin better[price]
                      /\ \A nearer \in better[price] : better[nearer] \subseteq better[price]
    OBVIOUS
  <2>1. \A near \in resting : better[near]
          = {nearer \in resting : IF side = "bid" THEN nearer > near ELSE nearer < near}
    BY DEF Better
  <2>2. \A near \in resting : near \in Nat
    BY <1>2
  <2> HIDE DEF side, resting, better
  <2>3. QED
    BY <2>1, <2>2
<1>5. better[x] = Better(book, level)
  BY <1>1, <1>2
<1>6. \A price \in better[x] :
        Cardinality(better[price]) < count => price \in Better(other, level)
  <2> SUFFICES ASSUME NEW price \in better[x], Cardinality(better[price]) < count
               PROVE  price \in Better(other, level)
    OBVIOUS
  <2>1. price \in Better(book, level) /\ price \in resting /\ price \in Price
    BY <1>2, <1>3, <1>5 DEF Better
  <2>2. Cardinality(Better(book, <<side, price>>)) < count
    BY <2>1
  <2>3. <<side, price>> \in Level /\ book[<<side, price>>] # 0
    BY <1>1, <2>1 DEF Level, Prices
  <2>4. other[<<side, price>>] # 0
    BY <2>2, <2>3
  <2>5. QED
    BY <2>1, <2>4 DEF Better, Prices
<1>7. Cardinality(better[x]) >= count /\ count \in Nat
  BY <1>5
<1>8. x \in resting /\ IsFiniteSet(resting) /\ IsFiniteSet(Better(other, level))
  BY <1>2, BetterFinite
<1> HIDE DEF resting, better, x
<1>9. QED
  BY ONLY <1>3, <1>4, <1>6, <1>7, <1>8, BestAreAmongBetter, ZenonT(30)

\* A book that has the best levels of another, and nothing where that has nothing,
\* has the same best levels.
LEMMA SameBest ==
  ASSUME NEW book \in Book, NEW other \in Book, NEW count \in Nat,
         \A level \in Level : Cardinality(Better(book, level)) < count /\ book[level] # 0
                                => other[level] = book[level],
         \A level \in Level : book[level] = 0 => other[level] = 0
  PROVE  BestLevels(other, count) = BestLevels(book, count)
<1> SUFFICES ASSUME NEW level \in Level
             PROVE  (IF Cardinality(Better(other, level)) < count THEN other[level] ELSE 0)
                      = (IF Cardinality(Better(book, level)) < count THEN book[level] ELSE 0)
  BY BestLevelsAre
<1>1. CASE book[level] = 0
  BY <1>1
<1>2. CASE book[level] # 0 /\ Cardinality(Better(book, level)) < count
  <2>1. Better(other, level) \subseteq Better(book, level)
    BY DEF Better, Prices, Level
  <2>2. Cardinality(Better(other, level)) <= Cardinality(Better(book, level))
    BY <2>1, BetterFinite, FS_Subset
  <2>3. QED
    BY <1>2, <2>2, BetterFinite
<1>3. CASE book[level] # 0 /\ ~(Cardinality(Better(book, level)) < count)
  <2>1. Cardinality(Better(book, level)) >= count
    BY <1>3, BetterFinite
  <2>2. Cardinality(Better(other, level)) >= count
    BY <1>3, <2>1, PushedOut
  <2>3. QED
    BY <1>3, <2>2, BetterFinite
<1>4. QED
  BY <1>1, <1>2, <1>3

\* The best of the best levels are the best.
LEMMA BestOfBest ==
  ASSUME NEW book \in Book, NEW depth \in Nat, NEW count \in Nat, count <= depth
  PROVE  BestLevels(BestLevels(book, depth), count) = BestLevels(book, count)
<1> DEFINE other == BestLevels(book, depth)
<1>1. other \in Book
  BY BooksAreBooks
<1>2. \A level \in Level : Cardinality(Better(book, level)) < count /\ book[level] # 0
                             => other[level] = book[level]
  BY BestLevelsAre, BetterFinite
<1>3. \A level \in Level : book[level] = 0 => other[level] = 0
  BY BestLevelsAre
<1> HIDE DEF other
<1>4. QED
  BY <1>1, <1>2, <1>3, SameBest DEF other

LEMMA FollowedIs ==
  ASSUME NEW book \in Book
  PROVE  /\ Followed(book) \in Book
         /\ Truncate(Followed(book)) = Followed(book)
         /\ Attested(book) = Checksum(Followed(book))
<1>1. /\ Depth \in Nat /\ ChecksumDepth \in Nat /\ Depth <= Depth
      /\ ChecksumDepth <= Depth
  BY DepthAssumption
<1>2. QED
  BY <1>1, BestOfBest, BooksAreBooks DEF Followed, Truncate, Attested, Checksum

\* What the venue tells of a change makes the best levels it told the new ones.
LEMMA ChangesLead ==
  ASSUME NEW known \in Book, NEW book \in Book
  PROVE  LET changed == {level \in Level : \/ Followed(book)[level] \notin {0, known[level]}
                                           \/ known[level] # 0 /\ book[level] = 0}
         IN  /\ [level \in changed |-> book[level]] \in Batch
             /\ Truncate(ApplyUpdates(known, [level \in changed |-> book[level]]))
                  = Followed(book)
             /\ changed = {} => Truncate(known) = Followed(book)
<1> DEFINE changed == {level \in Level : \/ Followed(book)[level] \notin {0, known[level]}
                                         \/ known[level] # 0 /\ book[level] = 0}
           update  == [level \in changed |-> book[level]]
           next    == ApplyUpdates(known, update)
<1>1. update \in Batch
  <2>1. update \in [changed -> Quantity \cup {0}] /\ changed \in SUBSET Level
    BY DEF Book
  <2> HIDE DEF changed, update
  <2>2. QED
    BY <2>1 DEF Batch
<1>2. next = [level \in Level |-> IF level \in changed THEN book[level] ELSE known[level]]
  BY DEF ApplyUpdates
<1>3. \A level \in Level : Cardinality(Better(book, level)) < Depth /\ book[level] # 0
                             => next[level] = book[level]
  <2> SUFFICES ASSUME NEW level \in Level, Cardinality(Better(book, level)) < Depth,
                      book[level] # 0
               PROVE  next[level] = book[level]
    OBVIOUS
  <2>1. Followed(book)[level] = book[level]
    BY BestLevelsAre DEF Followed
  <2> HIDE DEF next
  <2>2. QED
    BY <1>2, <2>1
<1>4. \A level \in Level : book[level] = 0 => next[level] = 0
  <2> HIDE DEF next
  <2>1. QED
    BY <1>2
<1>5. next \in Book
  BY <1>1, BooksAreBooks
<1>6. changed = {} => next = known
  <2> SUFFICES ASSUME changed = {} PROVE next = known
    OBVIOUS
  <2> HIDE DEF changed, next
  <2>1. next = [level \in Level |-> known[level]]
    BY <1>2
  <2>2. QED
    BY <2>1 DEF Book
<1> HIDE DEF next
<1>7. Truncate(next) = Followed(book)
  BY <1>3, <1>4, <1>5, DepthAssumption, SameBest DEF Truncate, Followed
<1>8. QED
  BY <1>1, <1>6, <1>7 DEF next

\* A snapshot leads to the book it lists, from any book.
LEMMA SnapshotLeads ==
  ASSUME NEW book \in Book
  PROVE  /\ ApplyUpdates(EmptyBook, LevelsOf(book)) = book
         /\ \A level \in DOMAIN LevelsOf(book) : LevelsOf(book)[level] # 0
         /\ \A side \in Side : (\E level \in DOMAIN LevelsOf(book) : level[1] = side)
                                 <=> Prices(book, side) # {}
<1>1. ApplyUpdates(EmptyBook, LevelsOf(book)) = [level \in Level |-> book[level]]
  BY DEF ApplyUpdates, EmptyBook, LevelsOf
<1>2. book = [level \in Level |-> book[level]]
  BY DEF Book
<1>3. \A level \in DOMAIN LevelsOf(book) : LevelsOf(book)[level] # 0
  BY DEF LevelsOf
<1>4. ASSUME NEW side \in Side
      PROVE  (\E level \in DOMAIN LevelsOf(book) : level[1] = side) <=> Prices(book, side) # {}
  <2>1. DOMAIN LevelsOf(book) = {level \in Level : book[level] # 0}
    BY DEF LevelsOf
  <2>2. ASSUME NEW level \in Level, book[level] # 0, level[1] = side
        PROVE  level[2] \in Prices(book, side)
    BY <2>2 DEF Level, Prices
  <2>3. ASSUME NEW price \in Prices(book, side)
        PROVE  <<side, price>> \in Level /\ book[<<side, price>>] # 0 /\ <<side, price>>[1] = side
    BY DEF Level, Prices
  <2>4. QED
    BY <2>1, <2>2, <2>3
<1>5. QED
  BY <1>1, <1>2, <1>3, <1>4

(***************************************************************************)
(* Over a faithful wire a followed book is the venue's.                    *)
(***************************************************************************)

\* The last of the first `count' messages that is about a product.
LastOf(i, product, count) ==
  /\ i \in 1 .. count /\ sent[i].product = product
  /\ \A j \in 1 .. count : sent[j].product = product => j <= i

\* A snapshot lists the levels of the book it leads to.
SnapshotTells(i) ==
  /\ sent[i].message.levels = LevelsOf(sent[i].book)
  /\ Truncate(sent[i].book) = sent[i].book

\* An update leads from the book of the product's previous message to its own.
UpdateTells(i) ==
  \E j \in 1 .. i - 1 :
    /\ LastOf(j, sent[i].product, i - 1)
    /\ Truncate(ApplyUpdates(sent[j].book, sent[i].message.levels)) = sent[i].book

\* Every message is sound, attests the book it leads to, and leads there.
SentTells ==
  \A i \in 1 .. Len(sent) :
    /\ sent[i].message.sound /\ sent[i].message.checksum = Checksum(sent[i].book)
    /\ sent[i].message.type = "snapshot" => SnapshotTells(i)
    /\ sent[i].message.type = "update"   => UpdateTells(i)

\* What the venue told last of a product is the book of its last message, and the
\* best levels of the product's true book.
ToldIsLast ==
  phase = "reading" =>
    \A product \in Product \ rejected :
      (\E i \in 1 .. Len(sent) : sent[i].product = product) =>
        /\ told[product] = Followed(venueBooks[product])
        /\ \E i \in 1 .. Len(sent) : LastOf(i, product, Len(sent)) /\ sent[i].book = told[product]

\* An adapter that was handed the first `inOrder' messages has what they lead to.
FollowsWire(product) ==
  /\ adapters[product].status = "WaitingForSnapshot" =>
       \A i \in 1 .. inOrder : sent[i].product # product
  /\ adapters[product].status = "Live" =>
       \E i \in 1 .. inOrder : LastOf(i, product, inOrder) /\ adapters[product].book = sent[i].book
  /\ adapters[product].status = "Stale" =>
       \E i \in 1 .. inOrder :
         /\ sent[i].product = product /\ sent[i].message.type = "snapshot"
         /\ \E side \in Side : Prices(sent[i].book, side) = {}

AdaptersFollow ==
  phase = "reading" /\ inOrder # Lost => \A product \in Product \ rejected : FollowsWire(product)

\* Only an open session follows products.
NothingSubscribed == phase # "reading" => subscribed = {}

\* Inductive, together with IInv.  What the property says of adapters does not say
\* that the next update starts from their book.
FaithfulInv == SentTells /\ ToldIsLast /\ AdaptersFollow /\ NothingSubscribed

LEMMA InitFaithful == Init => FaithfulInv
<1> SUFFICES ASSUME Init PROVE FaithfulInv
  OBVIOUS
<1>1. Len(sent) = 0 /\ phase = "connecting" /\ subscribed = {}
  BY DEF Init
<1>2. QED
  BY <1>1 DEF FaithfulInv, SentTells, ToldIsLast, AdaptersFollow, NothingSubscribed

\* Nothing but the messages themselves is spoken of without a session.
LEMMA IdleFaithful ==
  ASSUME SentTells, sent' = sent \/ sent' = <<>>, phase' # "reading", subscribed' = {}
  PROVE  FaithfulInv'
<1>1. SentTells'
  <2>1. CASE sent' = sent
    BY <2>1 DEF SentTells, SnapshotTells, UpdateTells, LastOf
  <2>2. CASE sent' = <<>>
    <3>1. Len(sent') = 0
      BY <2>2
    <3>2. QED
      BY <3>1 DEF SentTells
  <2>3. QED
    BY <2>1, <2>2
<1>2. QED
  BY <1>1 DEF FaithfulInv, ToldIsLast, AdaptersFollow, NothingSubscribed

\* A step that hands the adapters nothing but rejections, or spoils the order.
LEMMA UnreadFaithful ==
  ASSUME FaithfulInv, UNCHANGED <<venueBooks, told, sent, phase, subscribed>>,
         rejected \subseteq rejected',
         \/ inOrder' = Lost
         \/ inOrder' = inOrder /\ \A product \in Product \ rejected' : adapters'[product] = adapters[product]
  PROVE  FaithfulInv'
<1>1. SentTells'
  BY DEF FaithfulInv, SentTells, SnapshotTells, UpdateTells, LastOf
<1>2. ToldIsLast'
  BY DEF FaithfulInv, ToldIsLast, LastOf, Followed
<1>3. AdaptersFollow'
  <2> SUFFICES ASSUME phase = "reading", inOrder' # Lost, NEW product \in Product \ rejected'
               PROVE  FollowsWire(product)'
    BY DEF AdaptersFollow
  <2>1. FollowsWire(product)
    BY DEF FaithfulInv, AdaptersFollow
  <2>2. sent' = sent /\ inOrder' = inOrder /\ adapters'[product] = adapters[product]
    OBVIOUS
  <2>3. QED
    BY <2>1, <2>2 DEF FollowsWire, LastOf
<1>4. QED
  BY <1>1, <1>2, <1>3 DEF FaithfulInv, NothingSubscribed

LEMMA OpenSessionFaithful ==
  ASSUME IInv, FaithfulInv, OpenSession
  PROVE  FaithfulInv'
<1>1. sent = <<>> /\ inOrder \in {0, Lost} /\ sent' = sent /\ inOrder' = inOrder
  BY DEF OpenSession, IInv, TypeOK, RecoveryAgrees, venueVars
<1>2. phase' = "reading" /\ adapters' = [product \in Product |-> NewAdapter]
  BY DEF OpenSession
<1>3. Len(sent') = 0
  BY <1>1
<1>4. AdaptersFollow'
  BY <1>1, <1>2 DEF AdaptersFollow, FollowsWire, NewAdapter
<1>5. SentTells' /\ ToldIsLast' /\ NothingSubscribed'
  BY <1>2, <1>3 DEF SentTells, ToldIsLast, NothingSubscribed
<1>6. QED
  BY <1>4, <1>5 DEF FaithfulInv

\* A message is sent of a product that is not rejected: its book's best levels, told
\* in full or as what changed since the product's last message.
LEMMA SendFaithful ==
  ASSUME IInv, FaithfulInv, MayRead, NEW product \in Product \ rejected, NEW book \in Book,
         NEW type \in {"snapshot", "update"}, NEW levels \in Batch,
         SendBook(product, type, levels, book),
         venueBooks' = [venueBooks EXCEPT ![product] = book],
         type = "snapshot" => levels = LevelsOf(Followed(book)),
         type = "update" =>
           \E j \in 1 .. Len(sent) :
             /\ LastOf(j, product, Len(sent))
             /\ Truncate(ApplyUpdates(sent[j].book, levels)) = Followed(book)
  PROVE  FaithfulInv'
<1> DEFINE entry == [product |-> product, book |-> Followed(book),
                     message |-> [type |-> type, levels |-> levels, sound |-> TRUE,
                                  checksum |-> Attested(book)]]
<1>0. PICK count \in Nat : count = Len(sent)
  BY DEF IInv, TypeOK
<1> DEFINE last == count + 1
<1>1. /\ sent \in Seq(Message) /\ told \in [Product -> Book] /\ venueBooks \in [Product -> Book]
      /\ inOrder \in 0 .. Len(sent) \cup {Lost}
  BY DEF IInv, TypeOK
<1>2. /\ sent' = Append(sent, entry) /\ told' = [told EXCEPT ![product] = Followed(book)]
      /\ UNCHANGED <<inOrder, phase, subscribed, adapters, rejected>> /\ phase = "reading"
  BY DEF SendBook, sessionVars, MayRead
<1>3. entry.product = product /\ entry.book = Followed(book)
      /\ entry.message.type = type /\ entry.message.levels = levels
      /\ entry.message.sound = TRUE /\ entry.message.checksum = Checksum(Followed(book))
  BY FollowedIs
<1> HIDE DEF entry
<1>4. /\ Len(sent) = count /\ Len(sent') = last /\ sent'[last] = entry
      /\ \A i \in 1 .. count : sent'[i] = sent[i]
  BY <1>0, <1>1, <1>2
<1>5. SentTells'
  <2> SUFFICES ASSUME NEW i \in 1 .. last
               PROVE  /\ sent'[i].message.sound
                      /\ sent'[i].message.checksum = Checksum(sent'[i].book)
                      /\ sent'[i].message.type = "snapshot" => SnapshotTells(i)'
                      /\ sent'[i].message.type = "update"   => UpdateTells(i)'
    BY <1>4 DEF SentTells, Checksum
  <2>1. CASE i \in 1 .. count
    <3>1. sent'[i] = sent[i] /\ i \in Nat /\ i - 1 \in 0 .. count
      BY <1>4, <2>1
    <3>2. /\ sent[i].message.sound /\ sent[i].message.checksum = Checksum(sent[i].book)
          /\ sent[i].message.type = "snapshot" => SnapshotTells(i)
          /\ sent[i].message.type = "update"   => UpdateTells(i)
      BY <1>4, <2>1 DEF FaithfulInv, SentTells
    <3>3. SnapshotTells(i) => SnapshotTells(i)'
      BY <3>1 DEF SnapshotTells
    <3>4. UpdateTells(i) => UpdateTells(i)'
      <4> SUFFICES ASSUME UpdateTells(i) PROVE UpdateTells(i)'
        OBVIOUS
      <4>1. PICK j \in 1 .. i - 1 :
              /\ LastOf(j, sent[i].product, i - 1)
              /\ Truncate(ApplyUpdates(sent[j].book, sent[i].message.levels)) = sent[i].book
        BY DEF UpdateTells
      <4>2. \A k \in 1 .. i - 1 : sent'[k] = sent[k]
        BY <1>4, <3>1
      <4>3. LastOf(j, sent[i].product, i - 1)'
        BY <3>1, <4>1, <4>2 DEF LastOf
      <4>4. QED
        BY <3>1, <4>1, <4>2, <4>3 DEF UpdateTells
    <3>5. QED
      BY <3>1, <3>2, <3>3, <3>4
  <2>2. CASE i = last
    <3>1. sent'[i] = entry /\ i - 1 = count
      BY <1>4, <2>2
    <3>2. type = "snapshot" => SnapshotTells(i)'
      BY <1>3, <3>1, FollowedIs DEF SnapshotTells
    <3>3. type = "update" => UpdateTells(i)'
      <4> SUFFICES ASSUME type = "update" PROVE UpdateTells(i)'
        OBVIOUS
      <4>1. PICK j \in 1 .. count :
              /\ LastOf(j, product, count)
              /\ Truncate(ApplyUpdates(sent[j].book, levels)) = Followed(book)
        BY <1>4
      <4>2. LastOf(j, product, count)'
        BY <1>4, <4>1 DEF LastOf
      <4>3. sent'[j] = sent[j] /\ j \in 1 .. i - 1
        BY <1>4, <3>1, <4>1
      <4>4. QED
        BY <1>3, <3>1, <4>1, <4>2, <4>3 DEF UpdateTells
    <3>4. QED
      BY <1>3, <3>1, <3>2, <3>3
  <2>3. QED
    BY <1>4, <2>1, <2>2
<1>6. ToldIsLast'
  <2> SUFFICES ASSUME NEW other \in Product \ rejected,
                      \E i \in 1 .. last : sent'[i].product = other
               PROVE  /\ told'[other] = Followed(venueBooks'[other])
                      /\ \E i \in 1 .. last : LastOf(i, other, last)' /\ sent'[i].book = told'[other]
    BY <1>2, <1>4 DEF ToldIsLast, Followed
  <2>1. CASE other = product
    <3>1. told'[other] = Followed(venueBooks'[other])
      BY <1>1, <1>2, <2>1
    <3>2. LastOf(last, other, last)' /\ sent'[last].book = told'[other]
      BY <1>1, <1>2, <1>3, <1>4, <2>1 DEF LastOf
    <3>3. QED
      BY <1>4, <3>1, <3>2
  <2>2. CASE other # product
    <3>1. \E i \in 1 .. count : sent[i].product = other
      BY <1>3, <1>4, <2>2
    <3>2. /\ told[other] = Followed(venueBooks[other])
          /\ \E i \in 1 .. count : LastOf(i, other, count) /\ sent[i].book = told[other]
      BY <1>2, <1>4, <3>1 DEF FaithfulInv, ToldIsLast
    <3>3. PICK i \in 1 .. count : LastOf(i, other, count) /\ sent[i].book = told[other]
      BY <3>2
    <3>4. told'[other] = told[other] /\ venueBooks'[other] = venueBooks[other]
      BY <1>1, <1>2, <2>2
    <3>5. LastOf(i, other, last)' /\ sent'[i].book = sent[i].book /\ i \in 1 .. last
      BY <1>3, <1>4, <2>2, <3>3 DEF LastOf
    <3>6. QED
      BY <3>2, <3>3, <3>4, <3>5
  <2>3. QED
    BY <2>1, <2>2
<1>7. AdaptersFollow'
  <2> SUFFICES ASSUME inOrder # Lost, NEW other \in Product \ rejected
               PROVE  FollowsWire(other)'
    BY <1>2 DEF AdaptersFollow
  <2>1. FollowsWire(other)
    BY <1>2 DEF FaithfulInv, AdaptersFollow
  <2>2. inOrder' = inOrder /\ inOrder \in 0 .. count /\ adapters' = adapters
    BY <1>1, <1>2, <1>4
  <2>3. \A i \in 1 .. inOrder : sent'[i] = sent[i]
    BY <1>4, <2>2
  <2>4. QED
    BY <2>1, <2>2, <2>3 DEF FollowsWire, LastOf
<1>8. NothingSubscribed'
  BY <1>2 DEF NothingSubscribed
<1>9. QED
  BY <1>5, <1>6, <1>7, <1>8 DEF FaithfulInv

LEMMA VenueSnapshotFaithful ==
  ASSUME IInv, FaithfulInv, NEW product \in Product, VenueSnapshot(product)
  PROVE  FaithfulInv'
<1> DEFINE book   == venueBooks[product]
           levels == LevelsOf(Followed(book))
<1>1. venueBooks \in [Product -> Book] /\ book \in Book /\ Followed(book) \in Book
  BY FollowedIs DEF IInv, TypeOK
<1>2. levels \in Batch
  BY <1>1, LevelsAreABatch
<1>3. /\ MayRead /\ product \in Product \ rejected
      /\ SendBook(product, "snapshot", levels, book)
      /\ venueBooks' = [venueBooks EXCEPT ![product] = book]
  BY <1>1 DEF VenueSnapshot
<1> HIDE DEF book
<1>4. QED
  BY <1>1, <1>2, <1>3, SendFaithful

LEMMA VenueTradeFaithful ==
  ASSUME IInv, FaithfulInv, NEW product \in Product, NEW batch \in UpdateBatch,
         VenueTrade(product, batch)
  PROVE  FaithfulInv'
<1> DEFINE book    == ApplyUpdates(venueBooks[product], batch)
           known   == told[product]
           changed == {level \in Level : \/ Followed(book)[level] \notin {0, known[level]}
                                         \/ known[level] # 0 /\ book[level] = 0}
           update  == [level \in changed |-> book[level]]
<1>1. /\ venueBooks \in [Product -> Book] /\ venueBooks[product] \in Book
      /\ known \in Book /\ book \in Book
  BY BooksAreBooks, UpdateBatchAssumption DEF IInv, TypeOK
<1>2. /\ MayRead /\ phase = "reading"
      /\ \E i \in 1 .. Len(sent) : sent[i].product = product
      /\ venueBooks' = [venueBooks EXCEPT ![product] = book]
  BY DEF VenueTrade, MayRead, IInv, TypeOK
<1>3. IF changed = {} \/ product \in rejected
      THEN UNCHANGED <<told, sent, inOrder, phase, sessionVars, runnerVars, store>>
      ELSE SendBook(product, "update", update, book)
  BY DEF VenueTrade
<1>4. product \notin rejected =>
        /\ known = Followed(venueBooks[product]) /\ Truncate(known) = known
        /\ \E j \in 1 .. Len(sent) : LastOf(j, product, Len(sent)) /\ sent[j].book = known
  BY <1>1, <1>2, FollowedIs DEF FaithfulInv, ToldIsLast
<1>5. /\ update \in Batch
      /\ Truncate(ApplyUpdates(known, update)) = Followed(book)
      /\ changed = {} => Truncate(known) = Followed(book)
  <2> HIDE DEF book, known
  <2>1. QED
    BY <1>1, ChangesLead
<1> HIDE DEF book, known, update, changed
<1>6. CASE changed # {} /\ product \notin rejected
  <2>1. SendBook(product, "update", update, book)
    BY <1>3, <1>6
  <2>2. \E j \in 1 .. Len(sent) :
          /\ LastOf(j, product, Len(sent))
          /\ Truncate(ApplyUpdates(sent[j].book, update)) = Followed(book)
    BY <1>4, <1>5, <1>6
  <2>3. QED
    BY <1>1, <1>2, <1>5, <1>6, <2>1, <2>2, SendFaithful
<1>7. CASE changed = {} \/ product \in rejected
  <2>1. UNCHANGED <<told, sent, inOrder, phase, subscribed, adapters, rejected>>
    BY <1>3, <1>7 DEF sessionVars
  <2>2. SentTells' /\ NothingSubscribed'
    BY <2>1 DEF FaithfulInv, SentTells, SnapshotTells, UpdateTells, LastOf, NothingSubscribed
  <2>3. AdaptersFollow'
    BY <2>1 DEF FaithfulInv, AdaptersFollow, FollowsWire, LastOf
  <2>4. ToldIsLast'
    <3> SUFFICES ASSUME NEW other \in Product \ rejected,
                        \E i \in 1 .. Len(sent) : sent[i].product = other
                 PROVE  /\ told[other] = Followed(venueBooks'[other])
                        /\ \E i \in 1 .. Len(sent) :
                             LastOf(i, other, Len(sent)) /\ sent[i].book = told[other]
      BY <1>2, <2>1 DEF ToldIsLast, LastOf, Followed
    <3>1. /\ told[other] = Followed(venueBooks[other])
          /\ \E i \in 1 .. Len(sent) : LastOf(i, other, Len(sent)) /\ sent[i].book = told[other]
      BY <1>2 DEF FaithfulInv, ToldIsLast
    <3>2. CASE other # product
      BY <1>1, <1>2, <3>1, <3>2
    <3>3. CASE other = product
      <4>1. venueBooks'[other] = book
        BY <1>1, <1>2, <3>3
      <4>2. known = Followed(book)
        BY <1>4, <1>5, <1>7, <3>3
      <4>3. QED
        BY <3>1, <3>3, <4>1, <4>2 DEF known
    <3>4. QED
      BY <3>2, <3>3
  <2>5. QED
    BY <2>2, <2>3, <2>4 DEF FaithfulInv
<1>8. QED
  BY <1>6, <1>7

\* The next message leads an adapter that has what came before to its book, and is
\* only distrusted if it is a snapshot without one side.
LEMMA NextMessageFollows ==
  ASSUME IInv, SentTells, NEW count \in Nat, count = inOrder, count + 1 \in DOMAIN sent,
         NEW product \in Product, product = sent[count + 1].product, FollowsWire(product),
         NEW timestamp
  PROVE  LET entry == sent[count + 1]
             after == IF Ignores(adapters[product], entry.message) THEN adapters[product]
                      ELSE ProcessBook(adapters[product], entry.message, timestamp)
         IN  /\ after.status = "Live" => after.book = entry.book
             /\ after.status # "WaitingForSnapshot"
             /\ after.status = "Stale" =>
                  \E i \in 1 .. count + 1 :
                    /\ sent[i].product = product /\ sent[i].message.type = "snapshot"
                    /\ \E side \in Side : Prices(sent[i].book, side) = {}
<1> DEFINE last    == count + 1
           entry   == sent[last]
           message == entry.message
           adapter == adapters[product]
           book    == entry.book
           Broken  == \E i \in 1 .. last :
                        /\ sent[i].product = product /\ sent[i].message.type = "snapshot"
                        /\ \E side \in Side : Prices(sent[i].book, side) = {}
           after   == IF Ignores(adapter, message) THEN adapter
                      ELSE ProcessBook(adapter, message, timestamp)
<1>1. /\ entry \in Message /\ last \in 1 .. Len(sent) /\ last \in 1 .. last
      /\ adapter \in Adapter
  BY DEF IInv, TypeOK
<1>2. /\ message.type \in {"snapshot", "update"} /\ book \in Book
      /\ adapter.status \in {"WaitingForSnapshot", "Live", "Stale"}
  BY <1>1 DEF Message, KrakenMessage, Adapter
<1>3. /\ message.sound /\ message.checksum = Checksum(book)
      /\ message.type = "snapshot" => SnapshotTells(last)
      /\ message.type = "update"   => UpdateTells(last)
  BY <1>1 DEF SentTells
<1>4. entry.product = product
  OBVIOUS
<1>5. SUFFICES /\ after.status = "Live" => after.book = book
               /\ after.status # "WaitingForSnapshot"
               /\ after.status = "Stale" => Broken
  OBVIOUS
<1>6. ASSUME ~Ignores(adapter, message), Trusts(adapter, message),
             NextLevels(adapter, message) = book
      PROVE  after.status = "Live" /\ after.book = book
  BY <1>6 DEF ProcessBook
<1>7. CASE message.type = "snapshot"
  <2>1. ~Ignores(adapter, message)
    BY <1>7 DEF Ignores
  <2>2. message.levels = LevelsOf(book) /\ Truncate(book) = book
    BY <1>3, <1>7 DEF SnapshotTells
  <2>3. NextLevels(adapter, message) = book
    BY <1>2, <1>7, <2>2, SnapshotLeads DEF NextLevels
  <2>4. CASE \E side \in Side : Prices(book, side) = {}
    <3>1. Broken
      BY <1>1, <1>4, <1>7, <2>4
    <3>2. ~Trusts(adapter, message)
      BY <1>2, <1>7, <2>2, <2>4, SnapshotLeads DEF Trusts
    <3>3. after.status = "Stale"
      BY <1>1, <2>1, <3>2 DEF ProcessBook, Invalidation, Adapter
    <3> HIDE DEF after, Broken
    <3>4. QED
      BY <3>1, <3>3
  <2>5. CASE \A side \in Side : Prices(book, side) # {}
    <3>1. /\ \A level \in DOMAIN message.levels : message.levels[level] # 0
          /\ \A side \in Side : \E level \in DOMAIN message.levels : level[1] = side
      BY <1>2, <2>2, <2>5, SnapshotLeads
    <3>2. Trusts(adapter, message)
      BY <1>3, <2>3, <3>1 DEF Trusts
    <3>3. after.status = "Live" /\ after.book = book
      BY <1>6, <2>1, <2>3, <3>2
    <3> HIDE DEF after
    <3>4. QED
      BY <3>3
  <2>6. QED
    BY <2>4, <2>5
<1>8. CASE message.type = "update"
  <2>1. PICK j \in 1 .. count :
          /\ LastOf(j, product, count)
          /\ Truncate(ApplyUpdates(sent[j].book, message.levels)) = book
    <3>1. last - 1 = count
      OBVIOUS
    <3>2. QED
      BY <1>3, <1>8, <3>1 DEF UpdateTells
  <2>2. adapter.status # "WaitingForSnapshot"
    BY <2>1 DEF FollowsWire, LastOf
  <2>3. CASE adapter.status = "Live"
    <3>1. PICK i \in 1 .. count : LastOf(i, product, count) /\ adapter.book = sent[i].book
      BY <2>3 DEF FollowsWire
    <3>2. i = j
      <4>1. i <= j /\ j <= i /\ i \in Nat /\ j \in Nat
        BY <2>1, <3>1 DEF LastOf
      <4>2. QED
        BY <4>1
    <3>3. NextLevels(adapter, message) = book
      BY <1>8, <2>1, <3>1, <3>2 DEF NextLevels
    <3>4. Trusts(adapter, message) /\ ~Ignores(adapter, message)
      BY <1>3, <1>8, <2>3, <3>3 DEF Trusts, Ignores
    <3>5. after.status = "Live" /\ after.book = book
      BY <1>6, <3>3, <3>4
    <3> HIDE DEF after
    <3>6. QED
      BY <3>5
  <2>4. CASE adapter.status = "Stale"
    <3>1. after = adapter
      BY <1>8, <2>4 DEF Ignores
    <3>2. PICK i \in 1 .. count :
            /\ sent[i].product = product /\ sent[i].message.type = "snapshot"
            /\ \E side \in Side : Prices(sent[i].book, side) = {}
      BY <2>4 DEF FollowsWire
    <3>3. i \in 1 .. last
      BY <3>2
    <3>4. Broken
      BY <3>2, <3>3
    <3> HIDE DEF after, Broken
    <3>5. QED
      BY <2>4, <3>1, <3>4
  <2>5. QED
    BY <1>2, <2>2, <2>3, <2>4
<1>9. QED
  BY <1>2, <1>7, <1>8

\* A book message changes the product's own adapter, if any.
LEMMA ReadBookAdapters ==
  ASSUME IInv, NEW product \in Product, NEW message, NEW timestamp,
         ReadBook(product, message, timestamp)
  PROVE  /\ UNCHANGED <<venueBooks, told, sent, phase>>
         /\ \A other \in Product \ {product} : adapters'[other] = adapters[other]
         /\ adapters'[product] =
              IF Ignores(adapters[product], message) THEN adapters[product]
              ELSE ProcessBook(adapters[product], message, timestamp)
<1>1. adapters \in [Product -> Adapter]
  BY DEF IInv, TypeOK
<1>2. CASE Ignores(adapters[product], message)
  BY <1>2 DEF ReadBook
<1>3. CASE ~Ignores(adapters[product], message)
  <2>1. adapters' = [adapters EXCEPT ![product] =
                       ProcessBook(adapters[product], message, timestamp)]
        /\ UNCHANGED <<venueBooks, told, sent, phase>>
    BY <1>3 DEF ReadBook, Published
  <2>2. QED
    BY <1>1, <1>3, <2>1
<1>4. QED
  BY <1>2, <1>3

LEMMA ReadSentFaithful ==
  ASSUME IInv, FaithfulInv, NEW sequence \in DOMAIN sent, ReadSent(sequence)
  PROVE  FaithfulInv'
<1> DEFINE product == sent[sequence].product
           message == sent[sequence].message
<1>1. product \in Product /\ phase = "reading"
  <2>1. sent[sequence] \in Message
    BY DEF IInv, TypeOK
  <2>2. QED
    BY <2>1 DEF Message, ReadSent, MayRead
<1>2. CASE product \in rejected
  <2>1. SessionFails
    BY <1>2 DEF ReadSent
  <2>2. sent' = sent /\ phase' # "reading" /\ subscribed' = {}
    BY <2>1 DEF SessionFails, NoSession, venueVars
  <2>3. QED
    BY <2>2, IdleFaithful DEF FaithfulInv
<1>3. CASE product \notin rejected
  <2>1. /\ ReadBook(product, message, sequence)
        /\ inOrder' = IF inOrder # Lost /\ sequence = inOrder + 1 THEN sequence ELSE Lost
        /\ UNCHANGED <<subscribed, rejected>>
    BY <1>3 DEF ReadSent
  <2>2. /\ UNCHANGED <<venueBooks, told, sent, phase>>
        /\ \A other \in Product \ {product} : adapters'[other] = adapters[other]
        /\ adapters'[product] = IF Ignores(adapters[product], message) THEN adapters[product]
                                ELSE ProcessBook(adapters[product], message, sequence)
    <3> HIDE DEF product, message
    <3>1. QED
      BY <1>1, <2>1, ReadBookAdapters
  <2>3. CASE inOrder' = Lost
    BY <2>1, <2>2, <2>3, UnreadFaithful
  <2>4. CASE inOrder' # Lost
    <3>1. inOrder # Lost /\ sequence = inOrder + 1 /\ inOrder' = sequence
      BY <2>1, <2>4
    <3>2. PICK count \in Nat : count = inOrder
      BY <3>1 DEF IInv, TypeOK
    <3>3. count + 1 = sequence /\ inOrder' = count + 1 /\ count + 1 \in DOMAIN sent
      BY <3>1, <3>2
    <3>4. AdaptersFollow'
      <4> SUFFICES ASSUME NEW other \in Product \ rejected
                   PROVE  FollowsWire(other)'
        BY <2>1 DEF AdaptersFollow
      <4>1. FollowsWire(other) /\ SentTells
        BY <1>1, <3>1 DEF FaithfulInv, AdaptersFollow
      <4>2. CASE other # product
        <5>1. adapters'[other] = adapters[other] /\ sent' = sent
          BY <2>2, <4>2
        <5>2. sent[count + 1].product # other
          BY <3>3, <4>2
        <5>3. \A i \in 1 .. count + 1 : sent[i].product = other => i \in 1 .. count
          BY <5>2
        <5>4. \A i \in 1 .. count : i \in 1 .. count + 1
          OBVIOUS
        <5>5. \A i \in 1 .. count : LastOf(i, other, count) => LastOf(i, other, count + 1)'
          BY <5>1, <5>3, <5>4 DEF LastOf
        <5>6. FollowsWire(other)' <=>
                /\ adapters[other].status = "WaitingForSnapshot" =>
                     \A i \in 1 .. count + 1 : sent[i].product # other
                /\ adapters[other].status = "Live" =>
                     \E i \in 1 .. count + 1 :
                       LastOf(i, other, count + 1)' /\ adapters[other].book = sent[i].book
                /\ adapters[other].status = "Stale" =>
                     \E i \in 1 .. count + 1 :
                       /\ sent[i].product = other /\ sent[i].message.type = "snapshot"
                       /\ \E side \in Side : Prices(sent[i].book, side) = {}
          BY <3>3, <5>1 DEF FollowsWire, LastOf
        <5>7. FollowsWire(other) <=>
                /\ adapters[other].status = "WaitingForSnapshot" =>
                     \A i \in 1 .. count : sent[i].product # other
                /\ adapters[other].status = "Live" =>
                     \E i \in 1 .. count :
                       LastOf(i, other, count) /\ adapters[other].book = sent[i].book
                /\ adapters[other].status = "Stale" =>
                     \E i \in 1 .. count :
                       /\ sent[i].product = other /\ sent[i].message.type = "snapshot"
                       /\ \E side \in Side : Prices(sent[i].book, side) = {}
          BY <3>2 DEF FollowsWire
        <5>8. QED
          BY ONLY <4>1, <5>3, <5>4, <5>5, <5>6, <5>7
      <4>3. CASE other = product
        <5> DEFINE after == IF Ignores(adapters[product], message) THEN adapters[product]
                            ELSE ProcessBook(adapters[product], message, sequence)
                   Broken == \E i \in 1 .. count + 1 :
                               /\ sent[i].product = product /\ sent[i].message.type = "snapshot"
                               /\ \E side \in Side : Prices(sent[i].book, side) = {}
        <5>1. /\ after.status = "Live" => after.book = sent[count + 1].book
              /\ after.status # "WaitingForSnapshot"
              /\ after.status = "Stale" => Broken
          BY <1>1, <3>2, <3>3, <4>1, <4>3, NextMessageFollows
        <5>2. adapters'[product] = after /\ sent' = sent
          BY <2>2
        <5>3. LastOf(count + 1, product, count + 1)' /\ count + 1 \in 1 .. count + 1
          BY <3>2, <3>3, <5>2 DEF LastOf
        <5> HIDE DEF after
        <5>4. QED
          BY <3>3, <4>3, <5>1, <5>2, <5>3 DEF FollowsWire
      <4>4. QED
        BY <4>2, <4>3
    <3>5. SentTells' /\ ToldIsLast' /\ NothingSubscribed'
      BY <2>1, <2>2 DEF FaithfulInv, SentTells, SnapshotTells, UpdateTells, LastOf, ToldIsLast,
                        Followed, NothingSubscribed
    <3>6. QED
      BY <3>4, <3>5 DEF FaithfulInv
  <2>5. QED
    BY <2>3, <2>4
<1>4. QED
  BY <1>2, <1>3

LEMMA FaithfulStep ==
  ASSUME IInv, FaithfulInv, [Next]_vars
  PROVE  FaithfulInv'
<1> USE DEF venueVars, sessionVars, runnerVars
<1>1. SentTells /\ NothingSubscribed
  BY DEF FaithfulInv
<1>2. CASE UNCHANGED <<venueVars, phase, subscribed, rejected, adapters>>
  BY <1>2, UnreadFaithful
<1>3. ASSUME NEW product \in Product, VenueSnapshot(product)
      PROVE  FaithfulInv'
  BY <1>3, VenueSnapshotFaithful
<1>4. ASSUME NEW product \in Product, NEW batch \in UpdateBatch, VenueTrade(product, batch)
      PROVE  FaithfulInv'
  BY <1>4, VenueTradeFaithful
<1>5. CASE OpenSession
  BY <1>5, OpenSessionFaithful
<1>6. CASE ConnectFails \/ ReconnectWhenRequired \/ WireFails
  BY <1>1, <1>6, IdleFaithful DEF ConnectFails, ReconnectWhenRequired, WireFails, SessionFails,
                                  NoSession
<1>7. ASSUME NEW product \in Product, PublishPending(product)
      PROVE  FaithfulInv'
  BY <1>2, <1>7 DEF PublishPending, Published
<1>8. ASSUME NEW product \in Product, ReadAcknowledgement(product)
      PROVE  FaithfulInv'
  <2>1. CASE AcceptsSubscription(product)
    BY <1>2, <2>1 DEF AcceptsSubscription
  <2>2. CASE RejectsSubscription(product)
    <3>1. /\ UNCHANGED <<venueVars, phase, subscribed>> /\ rejected' = rejected \cup {product}
          /\ adapters' = [adapters EXCEPT ![product] = NewAdapter]
      BY <2>2 DEF RejectsSubscription
    <3>2. \A other \in Product \ rejected' : adapters'[other] = adapters[other]
      BY <3>1 DEF IInv, TypeOK
    <3>3. QED
      BY <3>1, <3>2, UnreadFaithful
  <2>3. QED
    BY <1>8, <2>1, <2>2 DEF ReadAcknowledgement
<1>9. ASSUME NEW product \in Product, ReadUnsound(product)
      PROVE  FaithfulInv'
  <2>1. UNCHANGED <<venueBooks, told, sent, phase>>
    BY <1>9, ReadBookAdapters DEF ReadUnsound
  <2>2. QED
    BY <1>9, <2>1, UnreadFaithful DEF ReadUnsound
<1>10. ASSUME NEW sequence \in DOMAIN sent, ReadSent(sequence)
       PROVE  FaithfulInv'
  BY <1>10, ReadSentFaithful
<1>11. ASSUME NEW product \in Product, TellDisconnected(product) \/ TellReconnecting(product)
       PROVE  FaithfulInv'
  BY <1>2, <1>11 DEF TellDisconnected, TellReconnecting
<1>12. CASE AllToldDisconnected
  <2>1. subscribed' = {} /\ phase' # "reading" /\ sent' = <<>>
    BY <1>1, <1>12 DEF AllToldDisconnected, NothingSubscribed
  <2>2. QED
    BY <1>1, <2>1, IdleFaithful
<1>13. CASE WakeUp
  BY <1>1, <1>13, IdleFaithful DEF WakeUp, NothingSubscribed
<1>14. CASE UNCHANGED vars
  BY <1>2, <1>14 DEF vars
<1>15. QED
  BY <1>3, <1>4, <1>5, <1>6, <1>7, <1>8, <1>9, <1>10, <1>11, <1>12, <1>13, <1>14,
     TradedAssumption
     DEF Next, VenueStep, RunnerStep, ReadStep

\* Over a wire that carried every message in order, a book that is followed is the
\* venue's down to the whole depth, however deep it is followed and however few
\* levels a checksum covers, and only a snapshot without one side is distrusted: the
\* levels that truncate drops are those the venue stops telling.
THEOREM FaithfulBooks == Spec => []FaithfulWireKeepsBook
<1>1. IInv /\ FaithfulInv => FaithfulWireKeepsBook
  <2> SUFFICES ASSUME IInv, FaithfulInv, inOrder # Lost, NEW product \in subscribed \ rejected
               PROVE  LET heard == {i \in 1 .. inOrder : sent[i].product = product}
                      IN  /\ adapters[product].status = "Live" =>
                               adapters[product].book
                                 = sent[CHOOSE i \in heard : \A j \in heard : j <= i].book
                          /\ adapters[product].status = "Stale" =>
                               \E i \in heard :
                                 /\ sent[i].message.type = "snapshot"
                                 /\ \E side \in Side : Prices(sent[i].book, side) = {}
    BY DEF FaithfulWireKeepsBook
  <2> DEFINE heard   == {i \in 1 .. inOrder : sent[i].product = product}
             Last(i) == i \in heard /\ \A j \in heard : j <= i
  <2>1. FollowsWire(product) /\ inOrder \in Nat
    BY DEF FaithfulInv, NothingSubscribed, AdaptersFollow, IInv, TypeOK
  <2>2. adapters[product].status = "Live" =>
          adapters[product].book = sent[CHOOSE i \in heard : \A j \in heard : j <= i].book
    <3> SUFFICES ASSUME adapters[product].status = "Live"
                 PROVE  adapters[product].book
                          = sent[CHOOSE i \in heard : \A j \in heard : j <= i].book
      OBVIOUS
    <3>1. PICK last \in 1 .. inOrder :
            LastOf(last, product, inOrder) /\ adapters[product].book = sent[last].book
      BY <2>1 DEF FollowsWire
    <3>2. Last(last)
      BY <3>1 DEF LastOf
    <3>3. \A i : Last(i) => i = last
      <4> SUFFICES ASSUME NEW i, Last(i) PROVE i = last
        OBVIOUS
      <4>1. i <= last /\ last <= i /\ i \in Int /\ last \in Int
        BY <2>1, <3>2
      <4>2. QED
        BY <4>1
    <3> DEFINE chosen == CHOOSE i \in heard : \A j \in heard : j <= i
    <3>4. Last(chosen)
      <4> HIDE DEF heard
      <4>1. \E i \in heard : \A j \in heard : j <= i
        BY <3>2
      <4>2. QED
        BY <4>1
    <3> HIDE DEF chosen, Last
    <3>5. chosen = last
      BY <3>3, <3>4
    <3>6. QED
      BY <3>1, <3>5 DEF chosen
  <2>3. adapters[product].status = "Stale" =>
          \E i \in heard : /\ sent[i].message.type = "snapshot"
                           /\ \E side \in Side : Prices(sent[i].book, side) = {}
    BY <2>1 DEF FollowsWire
  <2>4. QED
    BY <2>2, <2>3
<1>2. IInv /\ FaithfulInv /\ [Next]_vars => FaithfulInv'
  BY FaithfulStep
<1>3. QED
  BY <1>1, <1>2, InitFaithful, IInvHolds, PTL DEF Spec
==============================================================================
