-------------------------- MODULE ScannerPublication -------------------------
(***************************************************************************)
(* From the venues' threads to the browsers' scanner tables.               *)
(*                                                                         *)
(* Each venue's runner hands its events to ScannerStatePublisher::apply    *)
(* (src/scanner_state.cpp), which under its mutex changes the market state *)
(* store, computes the product's consolidated quote and publishes it to    *)
(* the stream hub (src/scanner_stream.cpp).  Under its own mutex the hub   *)
(* keeps the current quote of each product and puts each change in every   *)
(* subscriber's queue, from which a websocket's thread takes it            *)
(* (src/heatmap_viewer.cpp) to the page's model (web/scanner_model.js).    *)
(*                                                                         *)
(* The runners are the environment: CoinbaseUniverse says which events one *)
(* of them gives.  What is on the wire to a page is still in its queue.    *)
(***************************************************************************)
EXTENDS ConsolidatedQuote, Sequences

CONSTANTS
  Universe,       \* the configured products, in order
  Subscriber,     \* the websockets that may be open: bounds the model
  FeedEvent,      \* the events the runners may give: bounds the model
  MaxEvents,      \* how many they give in all: bounds the model
  Nobody          \* no thread holds a mutex; a row is not filled yet

Product == {Universe[i] : i \in DOMAIN Universe}

\* MarketUniverse's constructor throws on an empty list and on a repetition.
ASSUME UniverseAssumption ==
  /\ Universe \in Seq(Product) /\ Universe # <<>>
  /\ \A i, j \in DOMAIN Universe : Universe[i] = Universe[j] => i = j
ASSUME FeedEventAssumption == FeedEvent \subseteq MarketEvent
ASSUME MaxEventsAssumption == MaxEvents \in Nat
ASSUME NobodyAssumption    == Nobody \notin Venue

VARIABLES
  store,          \* the MarketStateStore
  at,             \* where in apply each venue's thread is
  subject,        \* the product of the event it applies
  quote,          \* the quote it has computed
  mutex,          \* the thread in ScannerStatePublisher::mutex_
  hubMutex,       \* the thread in ScannerStreamHub::mutex_
  current,        \* the hub's current_updates_
  recipients,     \* the subscribers enqueue_to_all has still to reach
  queue,          \* the messages_ of each subscriber
  connected,      \* the open websockets
  shown,          \* the pages whose scannerConnected is set
  view,           \* what each page's ScannerModel holds
  given           \* how many events were given

threadVars == <<at, subject, quote, mutex, hubMutex>>
pageVars   == <<connected, shown, view>>
vars       == <<store, threadVars, current, recipients, queue, pageVars, given>>

Hello == [type |-> "scanner_hello"]
Update(product, calculated) ==
  [type |-> "scanner_update", product |-> product, quote |-> calculated]
Message == {Hello} \cup [type : {"scanner_update"}, product : Product, quote : Quote]

\* A page's model before its first hello; afterwards it has a row for each
\* product, Nobody while the product's first update has not come.
NoModel    == [product \in {} |-> Nobody]
EmptyModel == [product \in Product |-> Nobody]

TypeOK ==
  /\ store \in [Product -> [Venue -> Entry]]
  /\ at \in [Venue -> {"outside", "stored", "quoted", "telling"}]
  /\ subject \in [Venue -> Product \cup {Nobody}]
  /\ quote \in [Venue -> Quote \cup {Nobody}]
  /\ mutex \in Venue \cup {Nobody}
  /\ hubMutex \in Venue \cup {Nobody}
  /\ current \in [Product -> Quote]
  /\ recipients \subseteq Subscriber
  /\ queue \in [Subscriber -> Seq(Message)]
  /\ connected \subseteq Subscriber
  /\ shown \subseteq connected
  /\ view \in [Subscriber -> {NoModel} \cup [Product -> Quote \cup {Nobody}]]
  /\ given \in 0 .. MaxEvents
------------------------------------------------------------------------------
(***************************************************************************)
(* ScannerStatePublisher::apply, on the thread of one venue's runner.      *)
(***************************************************************************)

\* A mutant: events are applied without the publisher's mutex.
ApplyUnlocked(venue, product, event) ==
  /\ at[venue] = "outside" /\ given < MaxEvents
  /\ store' = [store EXCEPT ![product][venue] = ApplyEvent(@, event)]
  /\ at' = [at EXCEPT ![venue] = "stored"]
  /\ subject' = [subject EXCEPT ![venue] = product]
  /\ given' = given + 1
  /\ UNCHANGED <<quote, mutex, hubMutex, current, recipients, queue, pageVars>>

\* The runner gives an event; once its thread has the mutex the store changes.
Apply(venue, product, event) ==
  /\ at[venue] = "outside" /\ given < MaxEvents
  /\ mutex = Nobody
  /\ mutex' = venue
  /\ store' = [store EXCEPT ![product][venue] = ApplyEvent(@, event)]
  /\ at' = [at EXCEPT ![venue] = "stored"]
  /\ subject' = [subject EXCEPT ![venue] = product]
  /\ given' = given + 1
  /\ UNCHANGED <<quote, hubMutex, current, recipients, queue, pageVars>>

\* product_states is read under the store's own mutex, and the quote computed.
CalculateQuote(venue) ==
  /\ at[venue] = "stored"
  /\ quote' = [quote EXCEPT ![venue] = Calculate(store[subject[venue]])]
  /\ at' = [at EXCEPT ![venue] = "quoted"]
  /\ UNCHANGED <<store, subject, mutex, hubMutex, current, recipients, queue, pageVars,
                 given>>

\* What both of apply's ways out leave.
LeaveApply(venue) ==
  /\ at' = [at EXCEPT ![venue] = "outside"]
  /\ subject' = [subject EXCEPT ![venue] = Nobody]
  /\ quote' = [quote EXCEPT ![venue] = Nobody]
  /\ mutex' = Nobody

\* Mutants: a change is news only if it changes the best prices; a change is
\* kept for later subscribers, but told to none.
PublishBestOnly(venue) ==
  /\ at[venue] = "quoted" /\ hubMutex = Nobody
  /\ LET product == subject[venue]
     IN  IF /\ current[product].bestBid = quote[venue].bestBid
            /\ current[product].bestOffer = quote[venue].bestOffer
         THEN /\ LeaveApply(venue)
              /\ current' = [current EXCEPT ![product] = quote[venue]]
              /\ UNCHANGED <<hubMutex, recipients>>
         ELSE /\ current' = [current EXCEPT ![product] = quote[venue]]
              /\ recipients' = connected
              /\ hubMutex' = venue
              /\ at' = [at EXCEPT ![venue] = "telling"]
              /\ UNCHANGED <<subject, quote, mutex>>
  /\ UNCHANGED <<store, queue, pageVars, given>>
PublishToNobody(venue) ==
  /\ at[venue] = "quoted" /\ hubMutex = Nobody
  /\ current' = [current EXCEPT ![subject[venue]] = quote[venue]]
  /\ LeaveApply(venue)
  /\ UNCHANGED <<store, hubMutex, recipients, queue, pageVars, given>>

\* ScannerStreamHub::publish takes the hub's mutex; the same message again is
\* not published.
Publish(venue) ==
  /\ at[venue] = "quoted" /\ hubMutex = Nobody
  /\ LET product == subject[venue]
     IN  IF current[product] = quote[venue]
         THEN LeaveApply(venue) /\ UNCHANGED <<hubMutex, current, recipients>>
         ELSE /\ current' = [current EXCEPT ![product] = quote[venue]]
              /\ recipients' = connected
              /\ hubMutex' = venue
              /\ at' = [at EXCEPT ![venue] = "telling"]
              /\ UNCHANGED <<subject, quote, mutex>>
  /\ UNCHANGED <<store, queue, pageVars, given>>

\* enqueue_to_all, one subscriber at a time; one whose websocket is gone has
\* expired and is passed over.
Enqueue(venue, subscriber) ==
  /\ at[venue] = "telling" /\ subscriber \in recipients
  /\ recipients' = recipients \ {subscriber}
  /\ queue' = IF subscriber \in connected
              THEN [queue EXCEPT ![subscriber] =
                      Append(@, Update(subject[venue], quote[venue]))]
              ELSE queue
  /\ UNCHANGED <<store, threadVars, current, pageVars, given>>

AllEnqueued(venue) ==
  /\ at[venue] = "telling" /\ recipients = {}
  /\ hubMutex' = Nobody
  /\ LeaveApply(venue)
  /\ UNCHANGED <<store, current, recipients, queue, pageVars, given>>
------------------------------------------------------------------------------
(***************************************************************************)
(* The websockets and the pages behind them.                               *)
(***************************************************************************)

\* A new subscriber's queue: the hello and the current quote of each product.
SnapshotMessages ==
  <<Hello>> \o [i \in DOMAIN Universe |-> Update(Universe[i], current[Universe[i]])]

Subscribe(subscriber) ==
  /\ subscriber \notin connected /\ hubMutex = Nobody
  /\ connected' = connected \cup {subscriber}
  /\ queue' = [queue EXCEPT ![subscriber] = SnapshotMessages]
  /\ UNCHANGED <<store, threadVars, current, recipients, shown, view, given>>

\* A mutant: the close handler forgets scannerConnected.
ClosedStillShown(subscriber) ==
  /\ connected' = connected \ {subscriber}
  /\ queue' = [queue EXCEPT ![subscriber] = <<>>]
  /\ UNCHANGED shown

\* What the page's close handler and the end of the websocket's thread leave.
Closed(subscriber) ==
  /\ connected' = connected \ {subscriber}
  /\ shown' = shown \ {subscriber}
  /\ queue' = [queue EXCEPT ![subscriber] = <<>>]

\* The network may fail at any time.
Disconnect(subscriber) ==
  /\ subscriber \in connected
  /\ Closed(subscriber)
  /\ UNCHANGED <<store, threadVars, current, recipients, view, given>>

\* wait_for_message, the write, and the page's handleStreamMessage.  A page that
\* has no model yet refuses an update and closes.
Deliver(subscriber) ==
  /\ subscriber \in connected /\ queue[subscriber] # <<>>
  /\ LET message == Head(queue[subscriber])
     IN  IF message = Hello
         THEN /\ view' = [view EXCEPT ![subscriber] = EmptyModel]
              /\ shown' = shown \cup {subscriber}
              /\ queue' = [queue EXCEPT ![subscriber] = Tail(@)]
              /\ UNCHANGED connected
         ELSE IF view[subscriber] = NoModel
         THEN Closed(subscriber) /\ UNCHANGED view
         ELSE /\ view' = [view EXCEPT ![subscriber][message.product] = message.quote]
              /\ queue' = [queue EXCEPT ![subscriber] = Tail(@)]
              /\ UNCHANGED <<connected, shown>>
  /\ UNCHANGED <<store, threadVars, current, recipients, given>>
------------------------------------------------------------------------------
Init ==
  /\ store = [product \in Product |-> [venue \in Venue |-> InitialEntry]]
  /\ at = [venue \in Venue |-> "outside"]
  /\ subject = [venue \in Venue |-> Nobody]
  /\ quote = [venue \in Venue |-> Nobody]
  /\ mutex = Nobody
  /\ hubMutex = Nobody
  /\ current = [product \in Product |-> Calculate([venue \in Venue |-> InitialEntry])]
  /\ recipients = {}
  /\ queue = [subscriber \in Subscriber |-> <<>>]
  /\ connected = {}
  /\ shown = {}
  /\ view = [subscriber \in Subscriber |-> NoModel]
  /\ given = 0

PublisherStep(venue) ==
  \/ CalculateQuote(venue)
  \/ Publish(venue)
  \/ \E subscriber \in Subscriber : Enqueue(venue, subscriber)
  \/ AllEnqueued(venue)

Next ==
  \/ \E venue \in Venue, product \in Product, event \in FeedEvent :
       Apply(venue, product, event)
  \/ \E venue \in Venue : PublisherStep(venue)
  \/ \E subscriber \in Subscriber :
       Subscribe(subscriber) \/ Disconnect(subscriber) \/ Deliver(subscriber)

Spec == Init /\ [][Next]_vars

\* The threads are scheduled, and what is queued for an open websocket is
\* written to it sooner or later, unless it closes.
Fairness ==
  /\ \A venue \in Venue : WF_vars(PublisherStep(venue))
  /\ \A subscriber \in Subscriber : WF_vars(Deliver(subscriber))

FairSpec == Spec /\ Fairness
------------------------------------------------------------------------------
(***************************************************************************)
(* Correctness.                                                            *)
(***************************************************************************)

\* Whenever no thread is inside apply, what the hub holds of each product is the
\* quote of the store's entries: of two venues that publish about one product
\* the later quote stays.
HubShowsStore ==
  (\A venue \in Venue : at[venue] = "outside")
    => \A product \in Product : current[product] = Calculate(store[product])

\* The rows a subscriber has been told, or will have once its queue is drained.
UpdatesQueued(subscriber, product) ==
  {i \in DOMAIN queue[subscriber] :
     /\ queue[subscriber][i].type = "scanner_update"
     /\ queue[subscriber][i].product = product}

CaughtUp(subscriber, product) ==
  LET queued == UpdatesQueued(subscriber, product)
  IN  IF queued = {}
      THEN view[subscriber] # NoModel /\ view[subscriber][product] = current[product]
      ELSE \E last \in queued : /\ \A i \in queued : i <= last
                                /\ queue[subscriber][last].quote = current[product]

\* A page that reads on will show what the hub holds: no change is lost between
\* the snapshot a websocket starts with and the updates that follow, nor does an
\* older quote come after a newer one.
PagesCatchUp ==
  \A subscriber \in connected \ recipients, product \in Product :
    CaughtUp(subscriber, product)

\* Every row a page shows is a consistent quote of one moment.
PagesAreConsistent ==
  \A subscriber \in shown, product \in Product :
    view[subscriber][product] # Nobody => RowIsConsistent(view[subscriber][product])

\* A page that shows a venue live after the store no longer trusts it stops doing
\* so, unless it closes or the venue is live again.
ShownLive(subscriber, product, venue) ==
  /\ subscriber \in shown /\ view[subscriber][product] # Nobody
  /\ view[subscriber][product].statuses[venue] = "Live"

DistrustReachesPages ==
  \A subscriber \in Subscriber, product \in Product, venue \in Venue :
    (store[product][venue].status # "Live" /\ ShownLive(subscriber, product, venue))
      ~> (store[product][venue].status = "Live" \/ ~ShownLive(subscriber, product, venue))
==============================================================================
