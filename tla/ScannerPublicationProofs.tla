----------------------- MODULE ScannerPublicationProofs ----------------------
(***************************************************************************)
(* Machine-checked proofs about ConsolidatedQuote and ScannerPublication   *)
(* for every value of their constants: what a quote is of any two venues'  *)
(* entries, and what becomes of quotes on their way to the pages.          *)
(***************************************************************************)
EXTENDS ScannerPublication, SequenceTheorems, FiniteSetTheorems, WellFoundedInduction, TLAPS

(***************************************************************************)
(* What ConsolidatedQuoteEngine::calculate computes, for every pair of     *)
(* entries the market state store may hold.                                *)
(***************************************************************************)

\* A set of natural numbers that is not empty has a least element.
LEMMA LeastNatural ==
  ASSUME NEW S \in SUBSET Nat, S # {}
  PROVE  \E least \in S : \A other \in S : least <= other
<1>1. PICK x \in S : \A y \in S : <<y, x>> \notin OpToRel(<, Nat)
  BY WFMin, NatLessThanWellFounded
<1>2. ASSUME NEW y \in Nat, NEW z \in Nat, y < z
      PROVE  <<y, z>> \in OpToRel(<, Nat)
  BY <1>2 DEF OpToRel
<1>3. \A y \in S : ~ (y < x)
  BY <1>1, <1>2
<1>4. QED
  BY <1>3

\* A side that has a level has a best price.
LEMMA BestPriceExists ==
  ASSUME NEW side \in Side, NEW book \in Book, Prices(book, side) # {}
  PROVE  /\ BestPrice(side, book) \in Prices(book, side)
         /\ \A other \in Prices(book, side) \ {BestPrice(side, book)} :
              BetterPrice(side, BestPrice(side, book), other)
<1> DEFINE prices == Prices(book, side)
           better(price) == {other \in prices : BetterPrice(side, other, price)}
           sizes == {Cardinality(better(price)) : price \in prices}
<1>1. prices \subseteq Nat /\ IsFiniteSet(prices) /\ prices # {}
  BY PriceAssumption, FS_Subset DEF Prices
<1> HIDE DEF prices
<1>2. ASSUME NEW price \in prices
      PROVE  IsFiniteSet(better(price)) /\ Cardinality(better(price)) \in Nat
  BY <1>1, FS_Subset, FS_CardinalityType
<1>3. sizes \in SUBSET Nat /\ sizes # {}
  BY <1>1, <1>2
<1>4. PICK least \in sizes : \A other \in sizes : least <= other
  BY <1>3, LeastNatural
<1>5. PICK best \in prices : least = Cardinality(better(best))
  BY <1>4
<1>6. ASSUME NEW price \in better(best)
      PROVE  FALSE
  <2>1. /\ price \in prices /\ BetterPrice(side, price, best)
        /\ price \in Nat /\ best \in Nat
    BY <1>1
  <2>2. better(price) \subseteq better(best)
    <3> SUFFICES ASSUME NEW other \in better(price) PROVE other \in better(best)
      OBVIOUS
    <3>1. other \in prices /\ other \in Nat /\ BetterPrice(side, other, price)
      BY <1>1
    <3>2. BetterPrice(side, other, best)
      BY <2>1, <3>1 DEF BetterPrice
    <3>3. QED
      BY <3>1, <3>2
  <2>3. price \notin better(price)
    BY <1>1, <2>1 DEF BetterPrice
  <2>4. better(price) # better(best)
    BY <1>6, <2>3
  <2>5. Cardinality(better(price)) <= Cardinality(better(best))
    BY <1>2, <2>2, FS_Subset
  <2>6. Cardinality(better(price)) # Cardinality(better(best))
    BY <1>2, <2>2, <2>4, FS_Subset
  <2>7. Cardinality(better(best)) <= Cardinality(better(price))
    BY <1>4, <1>5, <2>1
  <2>8. QED
    BY <1>2, <2>1, <2>5, <2>6, <2>7
<1>7. \A other \in prices \ {best} : BetterPrice(side, best, other)
  BY <1>1, <1>6 DEF BetterPrice
<1>8. QED
  BY <1>7 DEF BestPrice, prices

\* What one venue quotes is a quote of that venue, and of a live one.
LEMMA TopOfBookType ==
  ASSUME NEW venue \in Venue, NEW entry \in Entry, NEW side \in Side
  PROVE  LET top == TopOfBook(venue, entry, side)
         IN  /\ top \in OptionalQuote
             /\ top # NoQuote => top \in VenueQuote /\ top.venue = venue
                                  /\ entry.status = "Live"
<1>1. CASE /\ entry.status = "Live" /\ entry.book # NoBook
           /\ Prices(entry.book, side) # {}
  <2>1. entry.book \in Book
    BY <1>1 DEF Entry
  <2>2. BestPrice(side, entry.book) \in Prices(entry.book, side)
    BY <1>1, <2>1, BestPriceExists
  <2>3. entry.book[<<side, BestPrice(side, entry.book)>>] \in Quantity
    BY <2>1, <2>2 DEF Prices, Book, Level
  <2>4. QED
    BY <1>1, <2>2, <2>3 DEF TopOfBook, OptionalQuote, VenueQuote, Prices
<1>2. CASE ~(/\ entry.status = "Live" /\ entry.book # NoBook
             /\ Prices(entry.book, side) # {})
  BY <1>2 DEF TopOfBook, OptionalQuote
<1>3. QED
  BY <1>1, <1>2

\* The best quote is one of the venues' quotes, none of them is better, and it
\* is missing only where all of them are.
LEMMA BestQuoteIsBest ==
  ASSUME NEW side \in Side, NEW quotes \in [Venue -> OptionalQuote],
         \A venue \in Venue : quotes[venue] # NoQuote => quotes[venue].venue = venue
  PROVE  LET best == BestQuote(side, quotes)
         IN  /\ best \in OptionalQuote
             /\ best # NoQuote => quotes[best.venue] = best
             /\ \A venue \in Venue : quotes[venue] # NoQuote =>
                  best # NoQuote /\ ~BetterPrice(side, quotes[venue].price, best.price)
<1>1. Venue = {"Coinbase", "Kraken"}
  BY DEF Venue
<1>2. \A venue \in Venue : quotes[venue] # NoQuote =>
        quotes[venue] \in VenueQuote /\ quotes[venue].price \in Nat
  BY PriceAssumption DEF OptionalQuote, VenueQuote
<1> DEFINE coinbase == quotes["Coinbase"]
           kraken   == quotes["Kraken"]
<1>3. BestQuote(side, quotes) =
        IF kraken # NoQuote
             /\ (coinbase = NoQuote \/ IsBetter(side, kraken, coinbase))
        THEN kraken ELSE coinbase
  BY DEF BestQuote, Consider
<1>4. coinbase \in OptionalQuote /\ kraken \in OptionalQuote
  BY <1>1
<1>5. coinbase # NoQuote /\ kraken # NoQuote =>
        /\ IsBetter(side, kraken, coinbase) =>
             ~BetterPrice(side, coinbase.price, kraken.price)
        /\ ~IsBetter(side, kraken, coinbase) =>
             ~BetterPrice(side, kraken.price, coinbase.price)
  BY <1>1, <1>2 DEF IsBetter, BetterPrice
<1>6. \A venue \in Venue : quotes[venue] # NoQuote =>
        ~BetterPrice(side, quotes[venue].price, quotes[venue].price)
  BY <1>2 DEF BetterPrice
<1>7. QED
  BY <1>1, <1>3, <1>4, <1>5, <1>6

\* ConsolidatedQuoteEngine::calculate gives a quote for every pair of entries.
LEMMA CalculateType ==
  ASSUME NEW entries \in [Venue -> Entry]
  PROVE  Calculate(entries) \in Quote
<1> DEFINE bids   == [venue \in Venue |-> TopOfBook(venue, entries[venue], "bid")]
           offers == [venue \in Venue |-> TopOfBook(venue, entries[venue], "offer")]
<1>1. /\ bids \in [Venue -> OptionalQuote] /\ offers \in [Venue -> OptionalQuote]
      /\ \A venue \in Venue : /\ bids[venue] # NoQuote => bids[venue].venue = venue
                              /\ offers[venue] # NoQuote => offers[venue].venue = venue
  BY TopOfBookType DEF Side
<1>2. BestQuote("bid", bids) \in OptionalQuote /\ BestQuote("offer", offers) \in OptionalQuote
  BY <1>1, BestQuoteIsBest DEF Side
<1>3. [venue \in Venue |-> entries[venue].status] \in [Venue -> VenueMarketStatus]
  BY DEF Entry
<1>4. Fragmentation(bids, offers) \in Metrics \cup {NoQuote}
  <2>1. CASE \E venue \in Venue : bids[venue] = NoQuote \/ offers[venue] = NoQuote
    BY <2>1 DEF Fragmentation
  <2>2. CASE \A venue \in Venue : bids[venue] # NoQuote /\ offers[venue] # NoQuote
    <3>1. /\ "Coinbase" \in Venue /\ "Kraken" \in Venue
          /\ \A venue \in Venue : bids[venue].price \in Nat /\ offers[venue].price \in Nat
      BY <1>1, <2>2, PriceAssumption DEF OptionalQuote, VenueQuote, Venue
    <3>2. /\ BestQuote("bid", bids).price \in Nat /\ BestQuote("offer", offers).price \in Nat
      <4>1. BestQuote("bid", bids) # NoQuote /\ BestQuote("offer", offers) # NoQuote
        BY <1>1, <2>2, <3>1, BestQuoteIsBest DEF Side
      <4>2. QED
        BY <1>2, <4>1, PriceAssumption DEF OptionalQuote, VenueQuote
    <3>3. Distance(bids["Coinbase"].price, bids["Kraken"].price) \in Nat
      BY <3>1 DEF Distance
    <3>4. Distance(offers["Coinbase"].price, offers["Kraken"].price) \in Nat
      BY <3>1 DEF Distance
    <3> HIDE DEF bids, offers
    <3>5. QED
      BY <3>2, <3>3, <3>4 DEF Fragmentation, Metrics
  <2>3. QED
    BY <2>1, <2>2
<1> HIDE DEF bids, offers
<1>5. Calculate(entries) =
        [statuses |-> [venue \in Venue |-> entries[venue].status],
         bids |-> bids, offers |-> offers,
         bestBid |-> BestQuote("bid", bids), bestOffer |-> BestQuote("offer", offers),
         fragmentation |-> Fragmentation(bids, offers)]
  BY DEF Calculate, bids, offers
<1>6. QED
  BY <1>1, <1>2, <1>3, <1>4, <1>5 DEF Quote

\* The quote computed from any two entries is consistent: the best bid and offer
\* are quotes of venues it shows live, and no venue in it has a better one.
THEOREM CalculateIsConsistent ==
  ASSUME NEW entries \in [Venue -> Entry]
  PROVE  RowIsConsistent(Calculate(entries))
<1> DEFINE bids   == [venue \in Venue |-> TopOfBook(venue, entries[venue], "bid")]
           offers == [venue \in Venue |-> TopOfBook(venue, entries[venue], "offer")]
           statuses == [venue \in Venue |-> entries[venue].status]
<1>1. /\ bids \in [Venue -> OptionalQuote] /\ offers \in [Venue -> OptionalQuote]
      /\ \A venue \in Venue :
           /\ bids[venue] # NoQuote => bids[venue].venue = venue /\ statuses[venue] = "Live"
           /\ offers[venue] # NoQuote =>
                offers[venue].venue = venue /\ statuses[venue] = "Live"
  BY TopOfBookType DEF Side
<1> HIDE DEF bids, offers, statuses
<1>2. Unbeaten("bid", BestQuote("bid", bids), bids, statuses)
  BY <1>1, BestQuoteIsBest DEF Unbeaten, Side
<1>3. Unbeaten("offer", BestQuote("offer", offers), offers, statuses)
  BY <1>1, BestQuoteIsBest DEF Unbeaten, Side
<1>4. QED
  BY <1>2, <1>3 DEF RowIsConsistent, Calculate, bids, offers, statuses
------------------------------------------------------------------------------
(***************************************************************************)
(* The publication.                                                        *)
(***************************************************************************)

LEMMA EntryTypes ==
  /\ InitialEntry \in Entry
  /\ \A entry \in Entry, event \in MarketEvent : ApplyEvent(entry, event) \in Entry
<1>1. InitialEntry \in Entry
  BY TimestampAssumption DEF InitialEntry, Entry, VenueMarketStatus, NonLiveStatus
<1>2. ASSUME NEW entry \in Entry, NEW event \in MarketEvent
      PROVE  ApplyEvent(entry, event) \in Entry
  <2>1. CASE event \in [kind : {"status"}, status : NonLiveStatus]
    BY <2>1 DEF ApplyEvent, SetStatus, Entry, VenueMarketStatus
  <2>2. CASE event \in [kind : {"book"}, type : {"Snapshot", "Update"}, book : Book,
                        timestamp : Timestamp]
    BY <2>2 DEF ApplyEvent, ApplyTrusted, Entry, VenueMarketStatus
  <2>3. CASE event = InvalidatedEvent
    <3>1. ApplyEvent(entry, event) =
            [status |-> "Stale", book |-> NoBook, timestamp |-> NoTimestamp]
      BY <2>3 DEF ApplyEvent, ApplyTrusted, InvalidatedEvent, BookEvent
    <3>2. QED
      BY <3>1, TimestampAssumption DEF Entry, VenueMarketStatus, NonLiveStatus
  <2>4. QED
    BY <2>1, <2>2, <2>3 DEF MarketEvent
<1>3. QED
  BY <1>1, <1>2

LEMMA UpdateType ==
  ASSUME NEW product \in Product, NEW calculated \in Quote
  PROVE  /\ Update(product, calculated) \in Message /\ Hello \in Message
         /\ Update(product, calculated) # Hello
         /\ Update(product, calculated).type = "scanner_update"
         /\ Update(product, calculated).product = product
         /\ Update(product, calculated).quote = calculated
         /\ Hello.type = "scanner_hello"
  BY DEF Update, Hello, Message

\* A new subscriber's queue is the hello and one update for each product.
LEMMA SnapshotMessagesAre ==
  ASSUME current \in [Product -> Quote]
  PROVE  /\ SnapshotMessages \in Seq(Message)
         /\ DOMAIN SnapshotMessages = 1 .. Len(Universe) + 1
         /\ Len(Universe) \in Nat /\ DOMAIN Universe = 1 .. Len(Universe)
         /\ SnapshotMessages[1] = Hello
         /\ \A i \in DOMAIN Universe :
              SnapshotMessages[i + 1] = Update(Universe[i], current[Universe[i]])
<1> DEFINE updates == [i \in DOMAIN Universe |-> Update(Universe[i], current[Universe[i]])]
<1>1. /\ DOMAIN Universe = 1 .. Len(Universe) /\ Len(Universe) \in Nat
      /\ \A i \in DOMAIN Universe : Universe[i] \in Product
  BY UniverseAssumption
<1>2. \A i \in DOMAIN Universe : updates[i] \in Message
  BY <1>1, UpdateType
<1>3. updates \in Seq(Message) /\ Len(updates) = Len(Universe)
  BY <1>1, <1>2, IsASeq
<1>4. <<Hello>> \in Seq(Message)
  BY DEF Message
<1> HIDE DEF updates
<1>5. /\ SnapshotMessages = <<Hello>> \o updates
      /\ \A i \in DOMAIN Universe : updates[i] = Update(Universe[i], current[Universe[i]])
  BY DEF SnapshotMessages, updates
<1>6. QED
  BY <1>1, <1>3, <1>4, <1>5

(***************************************************************************)
(* Type correctness.                                                       *)
(***************************************************************************)

LEMMA InitTypeOK == Init => TypeOK
<1> SUFFICES ASSUME Init PROVE TypeOK
  OBVIOUS
<1>1. [venue \in Venue |-> InitialEntry] \in [Venue -> Entry]
  BY EntryTypes
<1>2. Calculate([venue \in Venue |-> InitialEntry]) \in Quote
  BY <1>1, CalculateType
<1>3. store \in [Product -> [Venue -> Entry]] /\ current \in [Product -> Quote]
  BY <1>1, <1>2 DEF Init
<1>4. queue \in [Subscriber -> Seq(Message)]
  BY DEF Init
<1>5. view \in [Subscriber -> {NoModel} \cup [Product -> Quote \cup {Nobody}]]
  BY DEF Init
<1>6. given \in 0 .. MaxEvents
  BY MaxEventsAssumption DEF Init
<1>7. /\ at \in [Venue -> {"outside", "stored", "quoted", "telling"}]
      /\ subject \in [Venue -> Product \cup {Nobody}]
      /\ quote \in [Venue -> Quote \cup {Nobody}]
  BY DEF Init
<1>8. QED
  BY <1>3, <1>4, <1>5, <1>6, <1>7 DEF Init, TypeOK

\* What a thread inside apply holds.
ThreadHolds ==
  \A venue \in Venue :
    /\ at[venue] # "outside" => mutex = venue /\ subject[venue] \in Product
    /\ at[venue] \in {"quoted", "telling"} =>
         quote[venue] = Calculate(store[subject[venue]])
    /\ at[venue] = "telling" =>
         hubMutex = venue /\ current[subject[venue]] = quote[venue]

LEMMA LeaveApplyType ==
  ASSUME TypeOK, NEW venue \in Venue, LeaveApply(venue)
  PROVE  /\ at' \in [Venue -> {"outside", "stored", "quoted", "telling"}]
         /\ subject' \in [Venue -> Product \cup {Nobody}]
         /\ quote' \in [Venue -> Quote \cup {Nobody}]
         /\ mutex' \in Venue \cup {Nobody}
  BY DEF LeaveApply, TypeOK

LEMMA NextTypeOK == TypeOK /\ ThreadHolds /\ [Next]_vars => TypeOK'
<1> SUFFICES ASSUME TypeOK, ThreadHolds, [Next]_vars PROVE TypeOK'
  OBVIOUS
<1> USE DEF threadVars, pageVars
<1>1. ASSUME NEW venue \in Venue, NEW product \in Product, NEW event \in FeedEvent,
             Apply(venue, product, event)
      PROVE  TypeOK'
  <2>1. ApplyEvent(store[product][venue], event) \in Entry
    BY EntryTypes, FeedEventAssumption DEF TypeOK
  <2>2. [store[product] EXCEPT ![venue] = ApplyEvent(@, event)] \in [Venue -> Entry]
    BY <2>1 DEF TypeOK
  <2>3. store' = [store EXCEPT ![product] =
                    [store[product] EXCEPT ![venue] = ApplyEvent(@, event)]]
    BY <1>1 DEF Apply
  <2>4. store' \in [Product -> [Venue -> Entry]]
    BY <2>2, <2>3 DEF TypeOK
  <2>5. given' \in 0 .. MaxEvents
    BY <1>1, MaxEventsAssumption DEF Apply, TypeOK
  <2>6. QED
    BY <1>1, <2>4, <2>5 DEF Apply, TypeOK
<1>2. ASSUME NEW venue \in Venue, CalculateQuote(venue)
      PROVE  TypeOK'
  <2>1. Calculate(store[subject[venue]]) \in Quote
    BY <1>2, CalculateType DEF CalculateQuote, ThreadHolds, TypeOK
  <2>2. QED
    BY <1>2, <2>1 DEF CalculateQuote, TypeOK
<1>3. ASSUME NEW venue \in Venue, Publish(venue)
      PROVE  TypeOK'
  <2>1. subject[venue] \in Product /\ quote[venue] \in Quote
    BY <1>3, CalculateType DEF Publish, ThreadHolds, TypeOK
  <2>2. current' \in [Product -> Quote] /\ hubMutex' \in Venue \cup {Nobody}
        /\ recipients' \subseteq Subscriber
    BY <1>3, <2>1 DEF Publish, TypeOK
  <2>3. /\ at' \in [Venue -> {"outside", "stored", "quoted", "telling"}]
        /\ subject' \in [Venue -> Product \cup {Nobody}]
        /\ quote' \in [Venue -> Quote \cup {Nobody}]
        /\ mutex' \in Venue \cup {Nobody}
    BY <1>3, LeaveApplyType DEF Publish, TypeOK
  <2>4. QED
    BY <1>3, <2>2, <2>3 DEF Publish, TypeOK
<1>4. ASSUME NEW venue \in Venue, NEW subscriber \in Subscriber, Enqueue(venue, subscriber)
      PROVE  TypeOK'
  <2>1. subject[venue] \in Product /\ quote[venue] \in Quote
    BY <1>4, CalculateType DEF Enqueue, ThreadHolds, TypeOK
  <2>2. Append(queue[subscriber], Update(subject[venue], quote[venue])) \in Seq(Message)
    BY <2>1, UpdateType DEF TypeOK
  <2>3. queue' \in [Subscriber -> Seq(Message)]
    BY <1>4, <2>2 DEF Enqueue, TypeOK
  <2>4. QED
    BY <1>4, <2>3 DEF Enqueue, TypeOK
<1>5. ASSUME NEW venue \in Venue, AllEnqueued(venue)
      PROVE  TypeOK'
  <2>1. /\ at' \in [Venue -> {"outside", "stored", "quoted", "telling"}]
        /\ subject' \in [Venue -> Product \cup {Nobody}]
        /\ quote' \in [Venue -> Quote \cup {Nobody}]
        /\ mutex' \in Venue \cup {Nobody}
    BY <1>5, LeaveApplyType DEF AllEnqueued
  <2>2. QED
    BY <1>5, <2>1 DEF AllEnqueued, TypeOK
<1>6. ASSUME NEW subscriber \in Subscriber, Subscribe(subscriber)
      PROVE  TypeOK'
  <2>1. queue' \in [Subscriber -> Seq(Message)]
    BY <1>6, SnapshotMessagesAre DEF Subscribe, TypeOK
  <2>2. QED
    BY <1>6, <2>1 DEF Subscribe, TypeOK
<1>7. ASSUME NEW subscriber \in Subscriber, Disconnect(subscriber)
      PROVE  TypeOK'
  <2>1. queue' \in [Subscriber -> Seq(Message)]
    <3>1. <<>> \in Seq(Message)
      OBVIOUS
    <3>2. /\ queue' = [queue EXCEPT ![subscriber] = <<>>]
          /\ queue \in [Subscriber -> Seq(Message)]
      BY <1>7 DEF Disconnect, Closed, TypeOK
    <3>3. QED
      BY <3>1, <3>2
  <2>2. QED
    BY <1>7, <2>1 DEF Disconnect, Closed, TypeOK
<1>8. ASSUME NEW subscriber \in Subscriber, Deliver(subscriber)
      PROVE  TypeOK'
  <2> DEFINE message == Head(queue[subscriber])
  <2>1. message \in Message /\ Tail(queue[subscriber]) \in Seq(Message)
    BY <1>8 DEF Deliver, TypeOK
  <2>2. queue' \in [Subscriber -> Seq(Message)]
    <3>1. /\ queue \in [Subscriber -> Seq(Message)]
          /\ \/ queue' = [queue EXCEPT ![subscriber] = Tail(queue[subscriber])]
             \/ queue' = [queue EXCEPT ![subscriber] = <<>>]
      BY <1>8 DEF Deliver, Closed, TypeOK
    <3>2. <<>> \in Seq(Message)
      OBVIOUS
    <3>3. QED
      BY <2>1, <3>1, <3>2
  <2>3. view' \in [Subscriber -> {NoModel} \cup [Product -> Quote \cup {Nobody}]]
    <3>1. CASE message = Hello
      BY <1>8, <3>1 DEF Deliver, TypeOK, EmptyModel
    <3>2. CASE message # Hello /\ view[subscriber] = NoModel
      BY <1>8, <3>2 DEF Deliver, TypeOK
    <3>3. CASE message # Hello /\ view[subscriber] # NoModel
      <4>1. message.product \in Product /\ message.quote \in Quote
        BY <2>1, <3>3 DEF Message
      <4>2. [view[subscriber] EXCEPT ![message.product] = message.quote]
              \in [Product -> Quote \cup {Nobody}]
        BY <3>3, <4>1 DEF TypeOK
      <4>3. view' = [view EXCEPT ![subscriber] =
                       [view[subscriber] EXCEPT ![message.product] = message.quote]]
        BY <1>8, <3>3 DEF Deliver
      <4>4. QED
        BY <4>2, <4>3 DEF TypeOK
    <3>4. QED
      BY <3>1, <3>2, <3>3
  <2>4. shown' \subseteq connected' /\ connected' \subseteq Subscriber
    BY <1>8 DEF Deliver, Closed, TypeOK
  <2>5. QED
    BY <1>8, <2>2, <2>3, <2>4 DEF Deliver, TypeOK
<1>9. CASE UNCHANGED vars
  BY <1>9 DEF vars, TypeOK
<1>10. QED
  BY <1>1, <1>2, <1>3, <1>4, <1>5, <1>6, <1>7, <1>8, <1>9 DEF Next, PublisherStep

(***************************************************************************)
(* The hub shows the store.                                                *)
(***************************************************************************)

\* One thread at a time is inside apply, and the hub is held for telling only.
MutexesHeld ==
  /\ \A venue \in Venue : mutex = venue => at[venue] # "outside"
  /\ \A venue \in Venue : hubMutex = venue => at[venue] = "telling"
  /\ recipients # {} => hubMutex # Nobody

\* Only the product of an event not yet published differs from the store.
HubLags ==
  \A product \in Product :
    (\A venue \in Venue : at[venue] \in {"stored", "quoted"} => subject[venue] # product)
      => current[product] = Calculate(store[product])

HubInv == TypeOK /\ ThreadHolds /\ MutexesHeld /\ HubLags

LEMMA InitHubInv == Init => HubInv
<1> SUFFICES ASSUME Init PROVE HubInv
  OBVIOUS
<1>1. ThreadHolds /\ MutexesHeld
  BY NobodyAssumption DEF Init, ThreadHolds, MutexesHeld
<1>2. HubLags
  BY DEF Init, HubLags
<1>3. QED
  BY <1>1, <1>2, InitTypeOK DEF HubInv

LEMMA NextHubInv == HubInv /\ [Next]_vars => HubInv'
<1> SUFFICES ASSUME HubInv, [Next]_vars PROVE HubInv'
  OBVIOUS
<1>1. TypeOK /\ TypeOK' /\ ThreadHolds /\ MutexesHeld /\ HubLags
  BY NextTypeOK DEF HubInv
<1>2. \A venue, other \in Venue : venue # other =>
        at[venue] = "outside" \/ at[other] = "outside"
  BY <1>1 DEF ThreadHolds
<1> USE NobodyAssumption DEF threadVars, pageVars
<1>3. ASSUME NEW venue \in Venue, NEW product \in Product, NEW event \in FeedEvent,
             Apply(venue, product, event)
      PROVE  HubInv'
  <2>1. /\ at[venue] = "outside" /\ mutex = Nobody /\ mutex' = venue
        /\ at' = [at EXCEPT ![venue] = "stored"]
        /\ subject' = [subject EXCEPT ![venue] = product]
        /\ \A other \in Product \ {product} : store'[other] = store[other]
        /\ UNCHANGED <<quote, hubMutex, current, recipients>>
    BY <1>1, <1>3 DEF Apply, TypeOK
  <2>2. \A other \in Venue : at[other] = "outside"
    BY <1>1, <2>1 DEF ThreadHolds
  <2>3. \A other \in Venue \ {venue} : at'[other] = "outside"
    BY <1>1, <2>1, <2>2 DEF TypeOK
  <2>4. at'[venue] = "stored" /\ subject'[venue] = product
    BY <1>1, <2>1 DEF TypeOK
  <2>5. ThreadHolds' /\ MutexesHeld'
    BY <1>1, <2>1, <2>2, <2>3, <2>4 DEF ThreadHolds, MutexesHeld
  <2>6. HubLags'
    BY <1>1, <2>1, <2>2, <2>4 DEF HubLags
  <2>7. QED
    BY <1>1, <2>5, <2>6 DEF HubInv
<1>4. ASSUME NEW venue \in Venue, CalculateQuote(venue)
      PROVE  HubInv'
  <2>1. ThreadHolds' /\ MutexesHeld'
    BY <1>1, <1>2, <1>4 DEF CalculateQuote, ThreadHolds, MutexesHeld, TypeOK
  <2>2. HubLags'
    BY <1>1, <1>4 DEF CalculateQuote, HubLags, TypeOK
  <2>3. QED
    BY <1>1, <2>1, <2>2 DEF HubInv
<1>5. ASSUME NEW venue \in Venue, Publish(venue)
      PROVE  HubInv'
  <2>1. /\ at[venue] = "quoted" /\ mutex = venue /\ subject[venue] \in Product
        /\ quote[venue] = Calculate(store[subject[venue]])
        /\ hubMutex = Nobody /\ recipients = {}
        /\ \A other \in Venue \ {venue} : at[other] = "outside"
    BY <1>1, <1>2, <1>5 DEF Publish, ThreadHolds, MutexesHeld
  <2>2. CASE current[subject[venue]] = quote[venue]
    <3>1. /\ LeaveApply(venue)
          /\ UNCHANGED <<store, hubMutex, current, recipients>>
      BY <1>5, <2>2 DEF Publish
    <3>2. \A other \in Venue : at'[other] = "outside"
      BY <1>1, <2>1, <3>1 DEF LeaveApply, TypeOK
    <3>3. ThreadHolds' /\ MutexesHeld'
      BY <2>1, <3>1, <3>2 DEF ThreadHolds, MutexesHeld, LeaveApply
    <3>4. HubLags'
      BY <1>1, <2>1, <2>2, <3>1 DEF HubLags
    <3>5. QED
      BY <1>1, <3>3, <3>4 DEF HubInv
  <2>3. CASE current[subject[venue]] # quote[venue]
    <3>1. /\ current' = [current EXCEPT ![subject[venue]] = quote[venue]]
          /\ recipients' = connected
          /\ hubMutex' = venue
          /\ at' = [at EXCEPT ![venue] = "telling"]
          /\ UNCHANGED <<subject, quote, mutex, store>>
      BY <1>5, <2>3 DEF Publish
    <3>2. /\ at'[venue] = "telling"
          /\ \A other \in Venue \ {venue} : at'[other] = "outside"
          /\ current'[subject[venue]] = quote[venue]
          /\ \A other \in Product \ {subject[venue]} : current'[other] = current[other]
      BY <1>1, <2>1, <3>1 DEF TypeOK
    <3>3. ThreadHolds' /\ MutexesHeld'
      BY <2>1, <3>1, <3>2 DEF ThreadHolds, MutexesHeld
    <3>4. HubLags'
      BY <1>1, <2>1, <3>1, <3>2 DEF HubLags
    <3>5. QED
      BY <1>1, <3>3, <3>4 DEF HubInv
  <2>4. QED
    BY <2>2, <2>3
<1>6. ASSUME NEW venue \in Venue, NEW subscriber \in Subscriber, Enqueue(venue, subscriber)
      PROVE  HubInv'
  <2>1. ThreadHolds' /\ MutexesHeld' /\ HubLags'
    BY <1>1, <1>6 DEF Enqueue, ThreadHolds, MutexesHeld, HubLags
  <2>2. QED
    BY <1>1, <2>1 DEF HubInv
<1>7. ASSUME NEW venue \in Venue, AllEnqueued(venue)
      PROVE  HubInv'
  <2>1. /\ at[venue] = "telling" /\ mutex = venue /\ recipients = {}
        /\ LeaveApply(venue) /\ hubMutex' = Nobody
        /\ \A other \in Venue \ {venue} : at[other] = "outside"
        /\ UNCHANGED <<store, current, recipients>>
    BY <1>1, <1>2, <1>7 DEF AllEnqueued, ThreadHolds
  <2>2. \A other \in Venue : at'[other] = "outside"
    BY <1>1, <2>1 DEF LeaveApply, TypeOK
  <2>3. ThreadHolds' /\ MutexesHeld'
    BY <2>1, <2>2 DEF ThreadHolds, MutexesHeld, LeaveApply
  <2>4. HubLags'
    BY <1>1, <2>1 DEF HubLags
  <2>5. QED
    BY <1>1, <2>3, <2>4 DEF HubInv
<1>8. ASSUME NEW subscriber \in Subscriber,
             Subscribe(subscriber) \/ Disconnect(subscriber) \/ Deliver(subscriber)
      PROVE  HubInv'
  <2>1. UNCHANGED <<store, at, subject, quote, mutex, hubMutex, current, recipients>>
    BY <1>8 DEF Subscribe, Disconnect, Deliver
  <2>2. ThreadHolds' /\ MutexesHeld' /\ HubLags'
    BY <1>1, <2>1 DEF ThreadHolds, MutexesHeld, HubLags
  <2>3. QED
    BY <1>1, <2>2 DEF HubInv
<1>9. CASE UNCHANGED vars
  <2>1. ThreadHolds' /\ MutexesHeld' /\ HubLags'
    BY <1>1, <1>9 DEF vars, ThreadHolds, MutexesHeld, HubLags
  <2>2. QED
    BY <1>1, <2>1 DEF HubInv
<1>10. QED
  BY <1>3, <1>4, <1>5, <1>6, <1>7, <1>8, <1>9 DEF Next, PublisherStep

LEMMA HubInvHolds == Spec => []HubInv
<1>1. QED
  BY InitHubInv, NextHubInv, PTL DEF Spec

\* Entries are entries, queues hold messages of the universe's products, and only
\* open websockets have a page that is shown.
THEOREM TypeCorrect == Spec => []TypeOK
<1>1. HubInv => TypeOK
  BY DEF HubInv
<1>2. QED
  BY <1>1, HubInvHolds, PTL

\* Two venues' threads never leave the hub with a quote older than the store.
THEOREM HubCorrect == Spec => []HubShowsStore
<1>1. HubInv => HubShowsStore
  BY DEF HubInv, HubLags, HubShowsStore
<1>2. QED
  BY <1>1, HubInvHolds, PTL

(***************************************************************************)
(* The pages catch up.                                                     *)
(***************************************************************************)

\* A hello is first in a queue, before an update for each product, and a page
\* that has no model yet still has it to come.
HelloIsFirst ==
  \A subscriber \in connected :
    /\ \A i \in DOMAIN queue[subscriber] : queue[subscriber][i] = Hello =>
         /\ i = 1
         /\ \A product \in Product : UpdatesQueued(subscriber, product) # {}
    /\ view[subscriber] = NoModel =>
         queue[subscriber] # <<>> /\ queue[subscriber][1] = Hello

\* While the hub is telling, a subscriber not yet reached lacks only the update
\* being told.
PagesLag ==
  \A subscriber \in connected, product \in Product :
    \/ CaughtUp(subscriber, product)
    \/ subscriber \in recipients
         /\ \E venue \in Venue : hubMutex = venue /\ subject[venue] = product

PageInv == HubInv /\ HelloIsFirst /\ PagesLag

\* CaughtUp said of a queue and rows that are spelled out.
Queued(messages, product) ==
  {i \in DOMAIN messages :
     messages[i].type = "scanner_update" /\ messages[i].product = product}

Drained(messages, rows, product, latest) ==
  IF Queued(messages, product) = {}
  THEN rows # NoModel /\ rows[product] = latest
  ELSE \E last \in Queued(messages, product) :
         /\ \A i \in Queued(messages, product) : i <= last
         /\ messages[last].quote = latest

LEMMA CaughtUpIsDrained ==
  \A subscriber, product :
    /\ UpdatesQueued(subscriber, product) = Queued(queue[subscriber], product)
    /\ CaughtUp(subscriber, product) <=>
         Drained(queue[subscriber], view[subscriber], product, current[product])
  BY DEF CaughtUp, Drained, UpdatesQueued, Queued

\* One more update at the end settles its product and touches no other.
LEMMA AppendDrains ==
  ASSUME NEW messages \in Seq(Message), NEW rows, NEW product \in Product,
         NEW latest \in Quote
  PROVE  LET longer == Append(messages, Update(product, latest))
         IN  /\ Drained(longer, rows, product, latest)
             /\ \A other \in Product \ {product} : \A newest :
                  Drained(longer, rows, other, newest) <=>
                    Drained(messages, rows, other, newest)
             /\ \A other \in Product :
                  Queued(messages, other) # {} => Queued(longer, other) # {}
             /\ \A i \in DOMAIN longer :
                  longer[i] = Hello => i \in DOMAIN messages /\ messages[i] = Hello
<1> DEFINE longer == Append(messages, Update(product, latest))
<1>1. /\ DOMAIN messages = 1 .. Len(messages) /\ Len(messages) \in Nat
      /\ DOMAIN longer = 1 .. Len(messages) + 1
      /\ longer[Len(messages) + 1] = Update(product, latest)
      /\ \A i \in DOMAIN messages : longer[i] = messages[i]
  BY UpdateType
<1> HIDE DEF longer
<1>2. Queued(longer, product) = Queued(messages, product) \cup {Len(messages) + 1}
  BY <1>1, UpdateType DEF Queued
<1>3. \A other \in Product \ {product} : Queued(longer, other) = Queued(messages, other)
  BY <1>1, UpdateType DEF Queued
<1>4. Drained(longer, rows, product, latest)
  <2>1. \A i \in Queued(longer, product) : i <= Len(messages) + 1
    BY <1>1 DEF Queued
  <2>2. longer[Len(messages) + 1].quote = latest
    BY <1>1, UpdateType
  <2>3. QED
    BY <1>2, <2>1, <2>2 DEF Drained
<1>5. ASSUME NEW other \in Product \ {product}, NEW newest
      PROVE  Drained(longer, rows, other, newest) <=> Drained(messages, rows, other, newest)
  <2>1. \A i \in Queued(messages, other) : longer[i] = messages[i]
    BY <1>1 DEF Queued
  <2>2. QED
    BY <1>3, <2>1 DEF Drained
<1>6. \A i \in DOMAIN longer :
        longer[i] = Hello => i \in DOMAIN messages /\ messages[i] = Hello
  BY <1>1, UpdateType
<1>7. QED
  BY <1>2, <1>3, <1>4, <1>5, <1>6 DEF longer

\* Taking the first message off a queue: what is queued after it stays queued.
LEMMA TailQueued ==
  ASSUME NEW messages \in Seq(Message), messages # <<>>, NEW product
  PROVE  /\ Queued(Tail(messages), product) =
              {i \in 1 .. Len(messages) - 1 : i + 1 \in Queued(messages, product)}
         /\ \A i \in DOMAIN Tail(messages) :
              i + 1 \in DOMAIN messages /\ Tail(messages)[i] = messages[i + 1]
         /\ DOMAIN messages = 1 .. Len(messages) /\ Len(messages) \in Nat \ {0}
         /\ Head(messages) = messages[1]
<1>1. /\ DOMAIN messages = 1 .. Len(messages) /\ Len(messages) \in Nat \ {0}
      /\ DOMAIN Tail(messages) = 1 .. Len(messages) - 1
      /\ \A i \in 1 .. Len(messages) - 1 : Tail(messages)[i] = messages[i + 1]
      /\ Head(messages) = messages[1]
  OBVIOUS
<1>2. QED
  BY <1>1 DEF Queued

\* Showing the first update of a queue leaves every product as near to drained.
LEMMA UpdateDrains ==
  ASSUME NEW messages \in Seq(Message), messages # <<>>,
         NEW rows \in [Product -> Quote \cup {Nobody}], Head(messages) # Hello,
         NEW product \in Product, NEW latest, Drained(messages, rows, product, latest)
  PROVE  Drained(Tail(messages),
                 [rows EXCEPT ![Head(messages).product] = Head(messages).quote],
                 product, latest)
<1> DEFINE first == Head(messages)
           shorter == Tail(messages)
           after == [rows EXCEPT ![first.product] = first.quote]
<1>1. /\ Queued(shorter, product) =
           {i \in 1 .. Len(messages) - 1 : i + 1 \in Queued(messages, product)}
      /\ \A i \in DOMAIN shorter :
           i + 1 \in DOMAIN messages /\ shorter[i] = messages[i + 1]
      /\ DOMAIN messages = 1 .. Len(messages) /\ Len(messages) \in Nat \ {0}
      /\ first = messages[1]
  BY TailQueued
<1>2. first \in Message /\ first.type = "scanner_update" /\ first.product \in Product
  <2>1. first \in Message
    OBVIOUS
  <2>2. QED
    BY <2>1 DEF Message
<1>3. after # NoModel
  BY <1>2 DEF NoModel
<1>4. Queued(messages, product) \subseteq 1 .. Len(messages)
  BY <1>1 DEF Queued
<1> HIDE DEF first, shorter
<1>5. CASE Queued(messages, product) = {}
  <2>1. first.product # product
    BY <1>1, <1>2, <1>5 DEF Queued
  <2>2. Queued(shorter, product) = {}
    BY <1>1, <1>5
  <2>3. after[product] = rows[product]
    BY <2>1
  <2>4. QED
    BY <1>3, <1>5, <2>2, <2>3 DEF Drained, first, shorter
<1>6. CASE Queued(messages, product) # {}
  <2>1. PICK last \in Queued(messages, product) :
          /\ \A i \in Queued(messages, product) : i <= last
          /\ messages[last].quote = latest
    BY <1>6 DEF Drained
  <2>2. CASE last = 1
    <3>1. first.product = product /\ first.quote = latest
      BY <1>1, <2>1, <2>2 DEF Queued
    <3>2. Queued(shorter, product) = {}
      BY <1>1, <1>4, <2>1, <2>2
    <3>3. after[product] = latest
      BY <3>1
    <3>4. QED
      BY <1>3, <3>2, <3>3 DEF Drained, first, shorter
  <2>3. CASE last # 1
    <3>1. last - 1 \in Queued(shorter, product)
      BY <1>1, <1>4, <2>1, <2>3
    <3>2. \A i \in Queued(shorter, product) : i <= last - 1
      BY <1>1, <1>4, <2>1
    <3>3. shorter[last - 1].quote = latest
      BY <1>1, <2>1, <3>1 DEF Queued
    <3>4. QED
      BY <3>1, <3>2, <3>3 DEF Drained, first, shorter
  <2>4. QED
    BY <2>2, <2>3
<1>7. QED
  BY <1>5, <1>6

\* Showing the hello empties the rows, all of which are still queued.
LEMMA HelloDrains ==
  ASSUME NEW messages \in Seq(Message), messages # <<>>, Head(messages) = Hello,
         NEW rows, NEW product \in Product, Queued(messages, product) # {},
         NEW latest, Drained(messages, rows, product, latest)
  PROVE  Drained(Tail(messages), EmptyModel, product, latest)
<1> DEFINE shorter == Tail(messages)
<1>1. /\ Queued(shorter, product) =
           {i \in 1 .. Len(messages) - 1 : i + 1 \in Queued(messages, product)}
      /\ \A i \in DOMAIN shorter :
           i + 1 \in DOMAIN messages /\ shorter[i] = messages[i + 1]
      /\ DOMAIN messages = 1 .. Len(messages) /\ Len(messages) \in Nat \ {0}
      /\ Head(messages) = messages[1]
  BY TailQueued
<1>2. Queued(messages, product) \subseteq 2 .. Len(messages)
  BY <1>1 DEF Queued, Hello
<1> HIDE DEF shorter
<1>3. PICK last \in Queued(messages, product) :
        /\ \A i \in Queued(messages, product) : i <= last
        /\ messages[last].quote = latest
  BY DEF Drained
<1>4. last - 1 \in Queued(shorter, product)
  BY <1>1, <1>2
<1>5. \A i \in Queued(shorter, product) : i <= last - 1
  BY <1>1, <1>2, <1>3
<1>6. shorter[last - 1].quote = latest
  BY <1>1, <1>3, <1>4 DEF Queued
<1>7. QED
  BY <1>4, <1>5, <1>6 DEF Drained, shorter

\* A new subscriber has every product's current quote queued.
LEMMA SnapshotDrains ==
  ASSUME current \in [Product -> Quote], NEW product \in Product, NEW rows
  PROVE  /\ Queued(SnapshotMessages, product) # {}
         /\ Drained(SnapshotMessages, rows, product, current[product])
         /\ \A i \in DOMAIN SnapshotMessages : SnapshotMessages[i] = Hello => i = 1
<1>1. /\ DOMAIN SnapshotMessages = 1 .. Len(Universe) + 1
      /\ Len(Universe) \in Nat /\ DOMAIN Universe = 1 .. Len(Universe)
      /\ SnapshotMessages[1] = Hello
      /\ \A i \in DOMAIN Universe :
           SnapshotMessages[i + 1] = Update(Universe[i], current[Universe[i]])
  BY SnapshotMessagesAre
<1>2. PICK k \in DOMAIN Universe : Universe[k] = product
  BY DEF Product
<1>3. \A i \in DOMAIN Universe : Universe[i] \in Product
  BY DEF Product
<1>4. ASSUME NEW i \in DOMAIN SnapshotMessages
      PROVE  \/ i = 1 /\ SnapshotMessages[i] = Hello
             \/ /\ i - 1 \in DOMAIN Universe
                /\ SnapshotMessages[i] = Update(Universe[i - 1], current[Universe[i - 1]])
  BY <1>1
<1>5. Queued(SnapshotMessages, product) = {k + 1}
  <2>1. k + 1 \in DOMAIN SnapshotMessages
    BY <1>1
  <2>2. k + 1 \in Queued(SnapshotMessages, product)
    BY <1>1, <1>2, <2>1, UpdateType DEF Queued
  <2>3. ASSUME NEW i \in Queued(SnapshotMessages, product)
        PROVE  i = k + 1
    <3>1. /\ i \in DOMAIN SnapshotMessages
          /\ SnapshotMessages[i].type = "scanner_update"
          /\ SnapshotMessages[i].product = product
      BY DEF Queued
    <3>2. /\ i - 1 \in DOMAIN Universe
          /\ SnapshotMessages[i] = Update(Universe[i - 1], current[Universe[i - 1]])
      BY <1>4, <3>1 DEF Hello
    <3>3. Universe[i - 1] = product
      BY <3>1, <3>2 DEF Update
    <3>4. i - 1 = k
      BY <1>2, <3>2, <3>3, UniverseAssumption
    <3>5. QED
      BY <1>1, <3>1, <3>4
  <2>4. QED
    BY <2>2, <2>3
<1>6. SnapshotMessages[k + 1].quote = current[product]
  BY <1>1, <1>2, UpdateType
<1>7. Drained(SnapshotMessages, rows, product, current[product])
  BY <1>1, <1>5, <1>6 DEF Drained
<1>8. \A i \in DOMAIN SnapshotMessages : SnapshotMessages[i] = Hello => i = 1
  BY <1>3, <1>4, UpdateType
<1>9. QED
  BY <1>5, <1>7, <1>8

LEMMA InitPageInv == Init => PageInv
<1> SUFFICES ASSUME Init PROVE PageInv
  OBVIOUS
<1>1. HelloIsFirst /\ PagesLag
  BY DEF Init, HelloIsFirst, PagesLag
<1>2. QED
  BY <1>1, InitHubInv DEF PageInv

\* A change of the hub's current quote is what the subscribers are then to be told.
LEMMA PublishPageInv ==
  ASSUME PageInv, HubInv', NEW venue \in Venue, Publish(venue)
  PROVE  PageInv'
<1>1. TypeOK /\ ThreadHolds /\ MutexesHeld /\ HelloIsFirst /\ PagesLag
  BY DEF PageInv, HubInv
<1>2. UNCHANGED <<queue, connected, view>> /\ hubMutex = Nobody
  BY DEF Publish, pageVars
<1>3. HelloIsFirst'
  BY <1>1, <1>2 DEF HelloIsFirst, UpdatesQueued
<1>4. \A subscriber \in connected, product \in Product : CaughtUp(subscriber, product)
  BY <1>1, <1>2, NobodyAssumption DEF PagesLag
<1>5. PagesLag'
  <2>1. CASE current[subject[venue]] = quote[venue]
    <3>1. UNCHANGED current
      BY <2>1 DEF Publish
    <3>2. QED
      BY <1>2, <1>4, <3>1 DEF PagesLag, CaughtUp, UpdatesQueued
  <2>2. CASE current[subject[venue]] # quote[venue]
    <3>1. /\ current' = [current EXCEPT ![subject[venue]] = quote[venue]]
          /\ recipients' = connected /\ hubMutex' = venue
          /\ UNCHANGED subject
      BY <2>2 DEF Publish
    <3>2. \A product \in Product \ {subject[venue]} : current'[product] = current[product]
      BY <1>1, <3>1 DEF TypeOK
    <3>3. \A subscriber \in connected, product \in Product \ {subject[venue]} :
            CaughtUp(subscriber, product)'
      BY <1>2, <1>4, <3>2 DEF CaughtUp, UpdatesQueued
    <3>4. QED
      BY <1>2, <3>1, <3>3 DEF PagesLag
  <2>3. QED
    BY <2>1, <2>2
<1>6. QED
  BY <1>3, <1>5 DEF PageInv

LEMMA EnqueuePageInv ==
  ASSUME PageInv, HubInv', NEW venue \in Venue, NEW subscriber \in Subscriber,
         Enqueue(venue, subscriber)
  PROVE  PageInv'
<1>1. TypeOK /\ ThreadHolds /\ MutexesHeld /\ HelloIsFirst /\ PagesLag
  BY DEF PageInv, HubInv
<1>2. /\ at[venue] = "telling" /\ hubMutex = venue /\ subscriber \in recipients
      /\ subject[venue] \in Product /\ current[subject[venue]] = quote[venue]
      /\ quote[venue] \in Quote
      /\ recipients' = recipients \ {subscriber}
      /\ UNCHANGED <<current, connected, view, subject, quote, hubMutex>>
  BY <1>1 DEF Enqueue, ThreadHolds, TypeOK, threadVars, pageVars
<1>3. CASE subscriber \notin connected
  <2>1. UNCHANGED queue
    BY <1>3 DEF Enqueue
  <2>2. HelloIsFirst' /\ PagesLag'
    BY <1>1, <1>2, <1>3, <2>1 DEF HelloIsFirst, PagesLag, CaughtUp, UpdatesQueued
  <2>3. QED
    BY <2>2 DEF PageInv
<1>4. CASE subscriber \in connected
  <2> DEFINE messages == queue[subscriber]
             longer == Append(messages, Update(subject[venue], quote[venue]))
  <2>1. /\ queue' = [queue EXCEPT ![subscriber] = longer]
        /\ messages \in Seq(Message)
    BY <1>1, <1>4 DEF Enqueue, TypeOK
  <2>2. /\ queue'[subscriber] = longer
        /\ \A other \in Subscriber \ {subscriber} : queue'[other] = queue[other]
    BY <1>1, <2>1 DEF TypeOK
  <2>3. longer # <<>> /\ (messages # <<>> => longer[1] = messages[1])
    <3>1. Update(subject[venue], quote[venue]) \in Message
      BY <1>2, UpdateType
    <3>2. Len(longer) = Len(messages) + 1
      BY <2>1, <3>1
    <3>3. QED
      BY <2>1, <3>1, <3>2
  <2>4. /\ Drained(longer, view[subscriber], subject[venue], current[subject[venue]])
        /\ \A product \in Product \ {subject[venue]} : \A latest :
             Drained(longer, view[subscriber], product, latest) <=>
               Drained(messages, view[subscriber], product, latest)
        /\ \A product \in Product :
             Queued(messages, product) # {} => Queued(longer, product) # {}
        /\ \A i \in DOMAIN longer :
             longer[i] = Hello => i \in DOMAIN messages /\ messages[i] = Hello
    <3> DEFINE product == subject[venue]
               latest == quote[venue]
    <3>1. product \in Product /\ latest \in Quote /\ messages \in Seq(Message)
      BY <1>2, <2>1
    <3>2. longer = Append(messages, Update(product, latest)) /\ current[product] = latest
      BY <1>2
    <3> HIDE DEF messages, longer, product, latest
    <3>3. /\ Drained(longer, view[subscriber], product, latest)
          /\ \A other \in Product \ {product} : \A newest :
               Drained(longer, view[subscriber], other, newest) <=>
                 Drained(messages, view[subscriber], other, newest)
          /\ \A other \in Product :
               Queued(messages, other) # {} => Queued(longer, other) # {}
          /\ \A i \in DOMAIN longer :
               longer[i] = Hello => i \in DOMAIN messages /\ messages[i] = Hello
      BY <3>1, <3>2, AppendDrains, ZenonT(40)
    <3>4. QED
      BY <3>2, <3>3 DEF product
  <2> HIDE DEF longer
  <2>5. \A product : UpdatesQueued(subscriber, product)' = Queued(longer, product)
    BY <2>2 DEF UpdatesQueued, Queued
  <2>6. \A product : CaughtUp(subscriber, product)' <=>
                       Drained(longer, view[subscriber], product, current[product])
    BY <1>2, <2>2, <2>5 DEF CaughtUp, Drained
  <2>7. \A other \in Subscriber \ {subscriber} : \A product :
          /\ CaughtUp(other, product)' <=> CaughtUp(other, product)
          /\ UpdatesQueued(other, product)' = UpdatesQueued(other, product)
    BY <1>2, <2>2 DEF CaughtUp, UpdatesQueued
  <2>8. \A product \in Product : CaughtUp(subscriber, product)'
    <3>1. ASSUME NEW product \in Product \ {subject[venue]}
          PROVE  CaughtUp(subscriber, product)
      BY <1>1, <1>2, <1>4, NobodyAssumption DEF PagesLag
    <3>2. QED
      BY <2>4, <2>6, <3>1, CaughtUpIsDrained
  <2>9. connected \subseteq Subscriber
    BY <1>1 DEF TypeOK
  <2>10. PagesLag'
    BY <1>1, <1>2, <2>7, <2>8, <2>9 DEF PagesLag
  <2>11. HelloIsFirst'
    <3>1. ASSUME NEW i \in DOMAIN longer, longer[i] = Hello
          PROVE  i = 1 /\ \A product \in Product : UpdatesQueued(subscriber, product)' # {}
      BY <1>1, <1>4, <2>4, <2>5, <3>1, CaughtUpIsDrained DEF HelloIsFirst
    <3>2. view[subscriber] = NoModel => longer[1] = Hello
      BY <1>1, <1>4, <2>3 DEF HelloIsFirst
    <3>3. ASSUME NEW other \in connected \ {subscriber}
          PROVE  /\ \A i \in DOMAIN queue'[other] : queue'[other][i] = Hello =>
                      /\ i = 1
                      /\ \A product \in Product : UpdatesQueued(other, product)' # {}
                 /\ view'[other] = NoModel =>
                      queue'[other] # <<>> /\ queue'[other][1] = Hello
      BY <1>1, <1>2, <2>2, <2>7, <2>9 DEF HelloIsFirst
    <3>4. QED
      BY <1>2, <2>2, <2>3, <3>1, <3>2, <3>3 DEF HelloIsFirst
  <2>12. QED
    BY <2>10, <2>11 DEF PageInv
<1>5. QED
  BY <1>3, <1>4

LEMMA SubscribePageInv ==
  ASSUME PageInv, HubInv', NEW subscriber \in Subscriber, Subscribe(subscriber)
  PROVE  PageInv'
<1>1. TypeOK /\ MutexesHeld /\ HelloIsFirst /\ PagesLag
  BY DEF PageInv, HubInv
<1>2. /\ subscriber \notin connected /\ hubMutex = Nobody
      /\ connected' = connected \cup {subscriber}
      /\ queue' = [queue EXCEPT ![subscriber] = SnapshotMessages]
      /\ UNCHANGED <<current, recipients, view, subject, hubMutex>>
  BY DEF Subscribe, threadVars
<1>3. /\ queue'[subscriber] = SnapshotMessages
      /\ \A other \in Subscriber \ {subscriber} : queue'[other] = queue[other]
      /\ connected \subseteq Subscriber
  BY <1>1, <1>2 DEF TypeOK
<1>4. SnapshotMessages[1] = Hello /\ SnapshotMessages # <<>>
  BY <1>1, SnapshotMessagesAre DEF TypeOK
<1>5. \A product \in Product :
        /\ UpdatesQueued(subscriber, product)' # {}
        /\ CaughtUp(subscriber, product)'
  <2>1. \A product : UpdatesQueued(subscriber, product)' = Queued(SnapshotMessages, product)
    BY <1>3 DEF UpdatesQueued, Queued
  <2>2. \A product : CaughtUp(subscriber, product)' <=>
          Drained(SnapshotMessages, view[subscriber], product, current[product])
    BY <1>2, <1>3, <2>1 DEF CaughtUp, Drained
  <2>3. QED
    BY <1>1, <2>1, <2>2, SnapshotDrains DEF TypeOK
<1>6. \A other \in connected : \A product :
        /\ CaughtUp(other, product)' <=> CaughtUp(other, product)
        /\ UpdatesQueued(other, product)' = UpdatesQueued(other, product)
  BY <1>2, <1>3 DEF CaughtUp, UpdatesQueued
<1>7. PagesLag'
  BY <1>1, <1>2, <1>5, <1>6 DEF PagesLag
<1>8. \A i \in DOMAIN SnapshotMessages : SnapshotMessages[i] = Hello => i = 1
  <2>1. 1 \in DOMAIN Universe
    BY UniverseAssumption
  <2>2. Product # {}
    BY <2>1 DEF Product
  <2>3. QED
    BY <1>1, <2>2, SnapshotDrains DEF TypeOK
<1>9. HelloIsFirst'
  <2>1. ASSUME NEW other \in connected
        PROVE  /\ \A i \in DOMAIN queue'[other] : queue'[other][i] = Hello =>
                    /\ i = 1
                    /\ \A product \in Product : UpdatesQueued(other, product)' # {}
               /\ view'[other] = NoModel => queue'[other] # <<>> /\ queue'[other][1] = Hello
    BY <1>1, <1>2, <1>3, <1>6 DEF HelloIsFirst
  <2>2. QED
    BY <1>2, <1>3, <1>4, <1>5, <1>8, <2>1 DEF HelloIsFirst
<1>10. QED
  BY <1>7, <1>9 DEF PageInv

\* What one page does concerns no other.
LEMMA OtherPages ==
  ASSUME TypeOK, NEW subscriber \in Subscriber, HelloIsFirst, PagesLag,
         connected' \subseteq connected,
         UNCHANGED <<current, recipients, subject, hubMutex>>,
         \A other \in Subscriber \ {subscriber} :
           queue'[other] = queue[other] /\ view'[other] = view[other],
         subscriber \in connected' =>
           /\ \A i \in DOMAIN queue'[subscriber] : queue'[subscriber][i] = Hello =>
                /\ i = 1
                /\ \A product \in Product : UpdatesQueued(subscriber, product)' # {}
           /\ view'[subscriber] = NoModel =>
                queue'[subscriber] # <<>> /\ queue'[subscriber][1] = Hello
           /\ \A product \in Product :
                CaughtUp(subscriber, product) => CaughtUp(subscriber, product)'
  PROVE  HelloIsFirst' /\ PagesLag'
<1>1. connected \subseteq Subscriber
  BY DEF TypeOK
<1>2. \A other \in connected \ {subscriber} : \A product :
        /\ CaughtUp(other, product)' <=> CaughtUp(other, product)
        /\ UpdatesQueued(other, product)' = UpdatesQueued(other, product)
  BY <1>1 DEF CaughtUp, UpdatesQueued
<1>3. PagesLag'
  BY <1>2 DEF PagesLag
<1>4. HelloIsFirst'
  <2>1. ASSUME NEW other \in connected' \ {subscriber}
        PROVE  /\ \A i \in DOMAIN queue'[other] : queue'[other][i] = Hello =>
                    /\ i = 1
                    /\ \A product \in Product : UpdatesQueued(other, product)' # {}
               /\ view'[other] = NoModel => queue'[other] # <<>> /\ queue'[other][1] = Hello
    BY <1>1, <1>2 DEF HelloIsFirst
  <2>2. QED
    BY <2>1 DEF HelloIsFirst
<1>5. QED
  BY <1>3, <1>4

\* A message delivered leaves queue and rows as near to the hub as before.
LEMMA DeliverPageInv ==
  ASSUME PageInv, HubInv', NEW subscriber \in Subscriber, Deliver(subscriber)
  PROVE  PageInv'
<1> DEFINE messages == queue[subscriber]
           message == Head(messages)
           rows == view[subscriber]
<1>1. TypeOK /\ HelloIsFirst /\ PagesLag
  BY DEF PageInv, HubInv
<1>2. /\ subscriber \in connected /\ messages # <<>> /\ messages \in Seq(Message)
      /\ UNCHANGED <<current, recipients, subject, hubMutex>>
  BY <1>1 DEF Deliver, TypeOK, threadVars
<1>3. /\ DOMAIN messages = 1 .. Len(messages) /\ Len(messages) \in Nat \ {0}
      /\ message = messages[1]
      /\ \A i \in DOMAIN Tail(messages) :
           i + 1 \in DOMAIN messages /\ Tail(messages)[i] = messages[i + 1]
      /\ \A i \in DOMAIN Tail(messages) : i \in Nat \ {0}
  BY <1>2
<1>4. \A i \in DOMAIN Tail(messages) : Tail(messages)[i] # Hello
  BY <1>1, <1>2, <1>3 DEF HelloIsFirst
<1>5. rows = NoModel => message = Hello
  BY <1>1, <1>2, <1>3 DEF HelloIsFirst
<1>6. CASE message = Hello
  <2>1. /\ view' = [view EXCEPT ![subscriber] = EmptyModel]
        /\ queue' = [queue EXCEPT ![subscriber] = Tail(messages)]
        /\ UNCHANGED connected
    BY <1>6 DEF Deliver
  <2>2. /\ view'[subscriber] = EmptyModel /\ queue'[subscriber] = Tail(messages)
        /\ \A other \in Subscriber \ {subscriber} :
             queue'[other] = queue[other] /\ view'[other] = view[other]
    BY <1>1, <2>1 DEF TypeOK
  <2>3. \A product \in Product : Queued(messages, product) # {}
    BY <1>1, <1>2, <1>3, <1>6, CaughtUpIsDrained DEF HelloIsFirst
  <2>4. ASSUME NEW product \in Product, CaughtUp(subscriber, product)
        PROVE  CaughtUp(subscriber, product)'
    <3>1. Drained(messages, rows, product, current[product])
      BY <2>4, CaughtUpIsDrained
    <3>2. Drained(Tail(messages), EmptyModel, product, current[product])
      BY <1>2, <1>6, <2>3, <3>1, HelloDrains
    <3>3. UpdatesQueued(subscriber, product)' = Queued(Tail(messages), product)
      BY <2>2 DEF UpdatesQueued, Queued
    <3>4. QED
      BY <1>2, <2>2, <3>2, <3>3 DEF CaughtUp, Drained
  <2>5. Product # {}
    BY UniverseAssumption DEF Product
  <2>6. EmptyModel # NoModel
    BY <2>5 DEF EmptyModel, NoModel
  <2>7. /\ connected' \subseteq connected
        /\ \A i \in DOMAIN queue'[subscriber] : queue'[subscriber][i] # Hello
        /\ view'[subscriber] # NoModel
    BY <1>4, <2>1, <2>2, <2>6
  <2>8. \A product \in Product : CaughtUp(subscriber, product) => CaughtUp(subscriber, product)'
    BY <2>4
  <2>9. HelloIsFirst' /\ PagesLag'
    BY <1>1, <1>2, <2>2, <2>7, <2>8, OtherPages
  <2>10. QED
    BY <2>9 DEF PageInv
<1>7. CASE message # Hello
  <2>1. rows # NoModel /\ rows \in [Product -> Quote \cup {Nobody}]
    BY <1>1, <1>5, <1>7 DEF TypeOK
  <2>2. /\ view' = [view EXCEPT ![subscriber] =
                      [rows EXCEPT ![message.product] = message.quote]]
        /\ queue' = [queue EXCEPT ![subscriber] = Tail(messages)]
        /\ UNCHANGED connected
    BY <1>7, <2>1 DEF Deliver
  <2>3. /\ view'[subscriber] = [rows EXCEPT ![message.product] = message.quote]
        /\ queue'[subscriber] = Tail(messages)
        /\ \A other \in Subscriber \ {subscriber} :
             queue'[other] = queue[other] /\ view'[other] = view[other]
    BY <1>1, <2>2 DEF TypeOK
  <2>4. ASSUME NEW product \in Product, CaughtUp(subscriber, product)
        PROVE  CaughtUp(subscriber, product)'
    <3>1. Drained(messages, rows, product, current[product])
      BY <2>4, CaughtUpIsDrained
    <3>2. Drained(Tail(messages), [rows EXCEPT ![message.product] = message.quote],
                  product, current[product])
      BY <1>2, <1>7, <2>1, <3>1, UpdateDrains
    <3>3. UpdatesQueued(subscriber, product)' = Queued(Tail(messages), product)
      BY <2>3 DEF UpdatesQueued, Queued
    <3>4. QED
      BY <1>2, <2>3, <3>2, <3>3 DEF CaughtUp, Drained
  <2>5. view'[subscriber] # NoModel
    BY <2>1, <2>3 DEF NoModel
  <2>6. /\ connected' \subseteq connected
        /\ \A i \in DOMAIN queue'[subscriber] : queue'[subscriber][i] # Hello
    BY <1>4, <2>2, <2>3
  <2>7. \A product \in Product : CaughtUp(subscriber, product) => CaughtUp(subscriber, product)'
    BY <2>4
  <2>8. HelloIsFirst' /\ PagesLag'
    BY <1>1, <1>2, <2>3, <2>5, <2>6, <2>7, OtherPages
  <2>9. QED
    BY <2>8 DEF PageInv
<1>8. QED
  BY <1>6, <1>7

LEMMA NextPageInv == PageInv /\ [Next]_vars => PageInv'
<1> SUFFICES ASSUME PageInv, [Next]_vars PROVE PageInv'
  OBVIOUS
<1>1. HubInv /\ HubInv'
  BY NextHubInv DEF PageInv
<1>2. TypeOK /\ ThreadHolds /\ MutexesHeld /\ HelloIsFirst /\ PagesLag
  BY <1>1 DEF PageInv, HubInv
<1> USE DEF threadVars, pageVars
<1>3. ASSUME NEW venue \in Venue, NEW product \in Product, NEW event \in FeedEvent,
             Apply(venue, product, event)
      PROVE  PageInv'
  <2>1. recipients = {}
    BY <1>2, <1>3 DEF Apply, ThreadHolds, MutexesHeld, TypeOK
  <2>2. UNCHANGED <<current, recipients, queue, connected, view>>
    BY <1>3 DEF Apply
  <2>3. HelloIsFirst' /\ PagesLag'
    BY <1>2, <2>1, <2>2 DEF HelloIsFirst, PagesLag, CaughtUp, UpdatesQueued
  <2>4. QED
    BY <1>1, <2>3 DEF PageInv
<1>4. ASSUME NEW venue \in Venue, CalculateQuote(venue)
      PROVE  PageInv'
  <2>1. UNCHANGED <<current, recipients, queue, connected, view, hubMutex, subject>>
    BY <1>4 DEF CalculateQuote
  <2>2. HelloIsFirst' /\ PagesLag'
    BY <1>2, <2>1 DEF HelloIsFirst, PagesLag, CaughtUp, UpdatesQueued
  <2>3. QED
    BY <1>1, <2>2 DEF PageInv
<1>5. ASSUME NEW venue \in Venue, Publish(venue) PROVE PageInv'
  BY <1>1, <1>5, PublishPageInv
<1>6. ASSUME NEW venue \in Venue, NEW subscriber \in Subscriber, Enqueue(venue, subscriber)
      PROVE  PageInv'
  BY <1>1, <1>6, EnqueuePageInv
<1>7. ASSUME NEW venue \in Venue, AllEnqueued(venue)
      PROVE  PageInv'
  <2>1. recipients = {} /\ UNCHANGED <<current, recipients, queue, connected, view>>
    BY <1>7 DEF AllEnqueued
  <2>2. HelloIsFirst' /\ PagesLag'
    BY <1>2, <2>1 DEF HelloIsFirst, PagesLag, CaughtUp, UpdatesQueued
  <2>3. QED
    BY <1>1, <2>2 DEF PageInv
<1>8. ASSUME NEW subscriber \in Subscriber, Subscribe(subscriber) PROVE PageInv'
  BY <1>1, <1>8, SubscribePageInv
<1>9. ASSUME NEW subscriber \in Subscriber, Disconnect(subscriber)
      PROVE  PageInv'
  <2>1. /\ connected' = connected \ {subscriber}
        /\ queue' = [queue EXCEPT ![subscriber] = <<>>]
        /\ UNCHANGED <<current, recipients, subject, hubMutex, view>>
    BY <1>9 DEF Disconnect, Closed
  <2>2. \A other \in Subscriber \ {subscriber} : queue'[other] = queue[other]
    BY <1>2, <2>1 DEF TypeOK
  <2>3. HelloIsFirst' /\ PagesLag'
    BY <1>2, <2>1, <2>2, OtherPages
  <2>4. QED
    BY <1>1, <2>3 DEF PageInv
<1>10. ASSUME NEW subscriber \in Subscriber, Deliver(subscriber) PROVE PageInv'
  BY <1>1, <1>10, DeliverPageInv
<1>11. CASE UNCHANGED vars
  <2>1. HelloIsFirst' /\ PagesLag'
    BY <1>2, <1>11 DEF vars, HelloIsFirst, PagesLag, CaughtUp, UpdatesQueued
  <2>2. QED
    BY <1>1, <2>1 DEF PageInv
<1>12. QED
  BY <1>3, <1>4, <1>5, <1>6, <1>7, <1>8, <1>9, <1>10, <1>11 DEF Next, PublisherStep

\* Whatever the interleaving of publications, subscriptions, deliveries and closings,
\* no page is left short of a change or stuck with an old one.
THEOREM PagesCorrect == Spec => []PagesCatchUp
<1>1. PageInv => PagesCatchUp
  BY DEF PageInv, PagesLag, PagesCatchUp
<1>2. QED
  BY <1>1, InitPageInv, NextPageInv, PTL DEF Spec

(***************************************************************************)
(* The pages' rows are consistent.                                         *)
(***************************************************************************)

RowsHeld ==
  /\ \A product \in Product : RowIsConsistent(current[product])
  /\ \A subscriber \in Subscriber : \A i \in DOMAIN queue[subscriber] :
       queue[subscriber][i] # Hello => RowIsConsistent(queue[subscriber][i].quote)
  /\ \A subscriber \in Subscriber : view[subscriber] # NoModel =>
       \A product \in Product :
         view[subscriber][product] # Nobody => RowIsConsistent(view[subscriber][product])

\* A page that is shown has had its hello.
ShownHaveModel == \A subscriber \in shown : view[subscriber] # NoModel

RowInv == HubInv /\ RowsHeld /\ ShownHaveModel

LEMMA EmptyModelIsModel == EmptyModel # NoModel
<1>1. Product # {}
  BY UniverseAssumption DEF Product
<1>2. DOMAIN EmptyModel = Product /\ DOMAIN NoModel = {}
  BY DEF EmptyModel, NoModel
<1>3. QED
  BY <1>1, <1>2

LEMMA InitRowInv == Init => RowInv
<1> SUFFICES ASSUME Init PROVE RowInv
  OBVIOUS
<1>1. HubInv
  BY InitHubInv
<1>2. [venue \in Venue |-> InitialEntry] \in [Venue -> Entry]
  BY EntryTypes
<1>3. \A product \in Product : RowIsConsistent(current[product])
  BY <1>2, CalculateIsConsistent DEF Init
<1>4. /\ \A subscriber \in Subscriber : queue[subscriber] = <<>> /\ view[subscriber] = NoModel
      /\ shown = {}
  BY DEF Init
<1>5. QED
  BY <1>1, <1>3, <1>4 DEF RowInv, RowsHeld, ShownHaveModel

LEMMA NextRowInv == RowInv /\ [Next]_vars => RowInv'
<1> SUFFICES ASSUME RowInv, [Next]_vars PROVE RowInv'
  OBVIOUS
<1>1. /\ HubInv /\ HubInv' /\ TypeOK /\ ThreadHolds
      /\ RowsHeld /\ ShownHaveModel
  BY NextHubInv DEF RowInv, HubInv
<1>2. \A venue \in Venue : at[venue] \in {"quoted", "telling"} =>
        /\ subject[venue] \in Product
        /\ quote[venue] \in Quote /\ RowIsConsistent(quote[venue])
  <2> SUFFICES ASSUME NEW venue \in Venue, at[venue] \in {"quoted", "telling"}
               PROVE  /\ subject[venue] \in Product
                      /\ quote[venue] \in Quote /\ RowIsConsistent(quote[venue])
    OBVIOUS
  <2>1. subject[venue] \in Product /\ quote[venue] = Calculate(store[subject[venue]])
    BY <1>1 DEF ThreadHolds
  <2>2. store[subject[venue]] \in [Venue -> Entry]
    BY <1>1, <2>1 DEF TypeOK
  <2>3. QED
    BY <2>1, <2>2, CalculateIsConsistent, CalculateType
<1> USE DEF threadVars, pageVars
<1>3. ASSUME NEW venue \in Venue, NEW product \in Product, NEW event \in FeedEvent,
             Apply(venue, product, event)
      PROVE  RowInv'
  BY <1>1, <1>3 DEF Apply, RowInv, RowsHeld, ShownHaveModel
<1>4. ASSUME NEW venue \in Venue, CalculateQuote(venue) \/ AllEnqueued(venue)
      PROVE  RowInv'
  BY <1>1, <1>4 DEF CalculateQuote, AllEnqueued, RowInv, RowsHeld, ShownHaveModel
<1>5. ASSUME NEW venue \in Venue, Publish(venue)
      PROVE  RowInv'
  <2>1. /\ at[venue] = "quoted" /\ UNCHANGED <<queue, shown, view>>
        /\ \A product \in Product : current'[product] \in {current[product], quote[venue]}
    BY <1>1, <1>5 DEF Publish, TypeOK
  <2>2. RowsHeld' /\ ShownHaveModel'
    BY <1>1, <1>2, <2>1 DEF RowsHeld, ShownHaveModel
  <2>3. QED
    BY <1>1, <2>2 DEF RowInv
<1>6. ASSUME NEW venue \in Venue, NEW subscriber \in Subscriber, Enqueue(venue, subscriber)
      PROVE  RowInv'
  <2>1. /\ at[venue] = "telling" /\ UNCHANGED <<current, shown, view>>
        /\ \A other \in Subscriber \ {subscriber} : queue'[other] = queue[other]
        /\ queue'[subscriber] \in {queue[subscriber],
             Append(queue[subscriber], Update(subject[venue], quote[venue]))}
    BY <1>1, <1>6 DEF Enqueue, TypeOK
  <2>2. /\ queue[subscriber] \in Seq(Message)
        /\ Update(subject[venue], quote[venue]) \in Message
        /\ Update(subject[venue], quote[venue]).quote = quote[venue]
    BY <1>1, <1>2, <2>1, UpdateType DEF TypeOK
  <2>3. \A i \in DOMAIN queue'[subscriber] :
          \/ i \in DOMAIN queue[subscriber] /\ queue'[subscriber][i] = queue[subscriber][i]
          \/ queue'[subscriber][i] = Update(subject[venue], quote[venue])
    <3>1. \A messages \in Seq(Message), message \in Message :
            \A i \in DOMAIN Append(messages, message) :
              \/ i \in DOMAIN messages /\ Append(messages, message)[i] = messages[i]
              \/ Append(messages, message)[i] = message
      OBVIOUS
    <3>2. QED
      BY <2>1, <2>2, <3>1
  <2>4. \A i \in DOMAIN queue'[subscriber] :
          queue'[subscriber][i] # Hello => RowIsConsistent(queue'[subscriber][i].quote)
    BY <1>1, <1>2, <2>1, <2>2, <2>3 DEF RowsHeld
  <2>5. RowsHeld' /\ ShownHaveModel'
    BY <1>1, <2>1, <2>4 DEF RowsHeld, ShownHaveModel
  <2>6. QED
    BY <1>1, <2>5 DEF RowInv
<1>7. ASSUME NEW subscriber \in Subscriber, Subscribe(subscriber)
      PROVE  RowInv'
  <2>1. /\ UNCHANGED <<current, shown, view>>
        /\ \A other \in Subscriber \ {subscriber} : queue'[other] = queue[other]
        /\ queue'[subscriber] = SnapshotMessages
    BY <1>1, <1>7 DEF Subscribe, TypeOK
  <2>2. \A i \in DOMAIN SnapshotMessages :
          SnapshotMessages[i] # Hello => RowIsConsistent(SnapshotMessages[i].quote)
    <3> SUFFICES ASSUME NEW i \in DOMAIN SnapshotMessages, SnapshotMessages[i] # Hello
                 PROVE  RowIsConsistent(SnapshotMessages[i].quote)
      OBVIOUS
    <3>1. /\ current \in [Product -> Quote]
          /\ i - 1 \in DOMAIN Universe
          /\ SnapshotMessages[i] = Update(Universe[i - 1], current[Universe[i - 1]])
      BY <1>1, SnapshotMessagesAre DEF TypeOK
    <3>2. Universe[i - 1] \in Product
      BY <3>1 DEF Product
    <3>3. SnapshotMessages[i].quote = current[Universe[i - 1]]
      BY <3>1, <3>2, UpdateType
    <3>4. QED
      BY <1>1, <3>2, <3>3 DEF RowsHeld
  <2>3. RowsHeld' /\ ShownHaveModel'
    BY <1>1, <2>1, <2>2 DEF RowsHeld, ShownHaveModel
  <2>4. QED
    BY <1>1, <2>3 DEF RowInv
<1>8. ASSUME NEW subscriber \in Subscriber, UNCHANGED <<current, view>>, Closed(subscriber)
      PROVE  RowsHeld' /\ ShownHaveModel'
  BY <1>1, <1>8 DEF Closed, RowsHeld, ShownHaveModel, TypeOK
<1>9. ASSUME NEW subscriber \in Subscriber, Disconnect(subscriber)
      PROVE  RowInv'
  BY <1>1, <1>8, <1>9 DEF Disconnect, RowInv
<1>10. ASSUME NEW subscriber \in Subscriber, Deliver(subscriber)
       PROVE  RowInv'
  <2> DEFINE message == Head(queue[subscriber])
  <2>1. /\ queue[subscriber] \in Seq(Message) /\ queue[subscriber] # <<>>
        /\ current' = current
    BY <1>1, <1>10 DEF Deliver, TypeOK
  <2>2. /\ message \in Message
        /\ message # Hello => message.product \in Product /\ RowIsConsistent(message.quote)
    <3>1. 1 \in DOMAIN queue[subscriber] /\ message = queue[subscriber][1]
      BY <2>1
    <3>2. message \in Message
      BY <2>1
    <3>3. QED
      BY <1>1, <3>1, <3>2 DEF RowsHeld, Message
  <2>3. \A i \in DOMAIN Tail(queue[subscriber]) :
          /\ i + 1 \in DOMAIN queue[subscriber]
          /\ Tail(queue[subscriber])[i] = queue[subscriber][i + 1]
    BY <2>1
  <2> HIDE DEF message
  <2>4. CASE message = Hello
    <3>1. /\ view' = [view EXCEPT ![subscriber] = EmptyModel]
          /\ shown' = shown \cup {subscriber}
          /\ queue' = [queue EXCEPT ![subscriber] = Tail(@)]
      BY <1>10, <2>4 DEF Deliver, message
    <3>2. RowsHeld'
      BY <1>1, <2>1, <2>3, <3>1 DEF RowsHeld, EmptyModel, TypeOK
    <3>3. ShownHaveModel'
      BY <1>1, <3>1, EmptyModelIsModel DEF ShownHaveModel, TypeOK
    <3>4. QED
      BY <1>1, <3>2, <3>3 DEF RowInv
  <2>5. CASE message # Hello /\ view[subscriber] = NoModel
    <3>1. Closed(subscriber) /\ UNCHANGED view
      BY <1>10, <2>5 DEF Deliver, message
    <3>2. QED
      BY <1>1, <1>8, <2>1, <3>1 DEF RowInv
  <2>6. CASE message # Hello /\ view[subscriber] # NoModel
    <3>1. /\ view' = [view EXCEPT ![subscriber] =
                        [view[subscriber] EXCEPT ![message.product] = message.quote]]
          /\ queue' = [queue EXCEPT ![subscriber] = Tail(@)]
          /\ shown' = shown
      BY <1>10, <2>6 DEF Deliver, message
    <3>2. view[subscriber] \in [Product -> Quote \cup {Nobody}]
      BY <1>1, <2>6 DEF TypeOK
    <3>3. /\ \A product \in Product :
               view'[subscriber][product] \in {view[subscriber][product], message.quote}
          /\ view'[subscriber][message.product] = message.quote
          /\ \A product \in Product \ {message.product} :
               view'[subscriber][product] = view[subscriber][product]
          /\ \A other \in Subscriber \ {subscriber} : view'[other] = view[other]
          /\ DOMAIN view'[subscriber] = Product
      BY <1>1, <2>2, <2>6, <3>1, <3>2 DEF TypeOK
    <3>4. view'[subscriber] # NoModel
      <4>1. DOMAIN NoModel = {} /\ Product # {}
        BY UniverseAssumption DEF NoModel, Product
      <4>2. QED
        BY <3>3, <4>1
    <3>5. \A other \in Subscriber : \A i \in DOMAIN queue'[other] :
            queue'[other][i] # Hello => RowIsConsistent(queue'[other][i].quote)
      BY <1>1, <2>1, <2>3, <3>1 DEF RowsHeld, TypeOK
    <3>6. \A other \in Subscriber : view'[other] # NoModel =>
            \A product \in Product :
              view'[other][product] # Nobody => RowIsConsistent(view'[other][product])
      BY <1>1, <2>2, <2>6, <3>3 DEF RowsHeld
    <3>7. RowsHeld'
      BY <1>1, <2>1, <3>5, <3>6 DEF RowsHeld
    <3>8. ShownHaveModel'
      BY <1>1, <3>1, <3>3, <3>4 DEF ShownHaveModel, TypeOK
    <3>9. QED
      BY <1>1, <3>7, <3>8 DEF RowInv
  <2>7. QED
    BY <2>4, <2>5, <2>6
<1>11. CASE UNCHANGED vars
  BY <1>1, <1>11 DEF vars, RowInv, RowsHeld, ShownHaveModel
<1>12. QED
  BY <1>3, <1>4, <1>5, <1>6, <1>7, <1>9, <1>10, <1>11 DEF Next, PublisherStep

\* Every row a page shows is a quote the engine computed: no better venue quote
\* in it than its best, no best of a venue it shows untrusted.
THEOREM PagesConsistent == Spec => []PagesAreConsistent
<1>1. RowInv => PagesAreConsistent
  BY DEF RowInv, HubInv, TypeOK, RowsHeld, ShownHaveModel, PagesAreConsistent
<1>2. QED
  BY <1>1, InitRowInv, NextRowInv, PTL DEF Spec
==============================================================================
