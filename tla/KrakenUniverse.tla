---------------------------- MODULE KrakenUniverse ----------------------------
(***************************************************************************)
(* Kraken's part of the scanner: one websocket connection that discovers   *)
(* which products of the universe are listed and carries the books of      *)
(* those, the session that reads it, and the runner that replaces a failed *)
(* session (src/kraken_universe_session.cpp), publishing into the market   *)
(* state store.                                                            *)
(*                                                                         *)
(* The venue is the environment: it lists products, trades, acknowledges   *)
(* or rejects each subscription, and sends what changes in the best levels *)
(* of each book.  The wire hands the session any message of the connection *)
(* at any time, so that messages are lost, repeated and reordered;         *)
(* `inOrder' records whether it did, or carried them faithfully.           *)
(***************************************************************************)
EXTENDS KrakenAdapter, ReconnectBackoff, Sequences

CONSTANTS
  Product,         \* MarketUniverse of the runner
  OpeningBook,     \* the venue's books when it is connected to: bounds the model
  UpdateBatch,     \* what the venue's books change by: bounds the model
  MaxMessages,     \* the messages of one connection: bounds the model
  Traded,          \* the products whose books change: bounds the model
  Lost             \* null for a connection that lost or reordered a message

ASSUME OpeningBookAssumption == OpeningBook \subseteq Book
ASSUME UpdateBatchAssumption == UpdateBatch \subseteq Batch
ASSUME TradedAssumption == Traded \subseteq Product
ASSUME MessagesAreTimestamped == MaxMessages \in Nat /\ 0 .. MaxMessages \subseteq Timestamp

VARIABLES
  venueBooks,         \* the true book of each product, at the venue
  told,               \* each product's best levels as the venue last told them
  sent,               \* the book messages of this connection
  inOrder,            \* how many of them were read in their order, or Lost
  phase,              \* where KrakenUniverseRunner::run is
  subscribed,         \* the products of product_by_native_ and adapters_
  adapters,           \* the session's adapters_
  rejected,           \* the session's unsupported_
  acknowledged,       \* the session's acknowledged_
  pending,            \* the session's pending_ events
  reconnectRequired,  \* the session's reconnect_required_
  unsupported,        \* the runner's unsupported_
  nominal,            \* the runner's backoff_
  untold,             \* products publish_recovery_status has still to reach
  store               \* the Kraken entries of the MarketStateStore

venueVars   == <<venueBooks, told, sent, inOrder>>
sessionVars == <<subscribed, adapters, rejected, acknowledged, pending, reconnectRequired>>
runnerVars  == <<unsupported, nominal, untold>>
vars        == <<venueVars, phase, sessionVars, runnerVars, store>>

\* `books' is not in a message: it records the best levels it leads to.
Message == [product : Product, message : KrakenMessage, book : Book]

\* pending_, which only ever has statuses, as a sequence of batches with at most
\* one event per product; the order of the products inside a batch is left open.
Events ==
  UNION {[named -> {StatusEvent(status) : status \in NonLiveStatus}] : named \in SUBSET Product}

TypeOK ==
  /\ venueBooks \in [Product -> Book]
  /\ told \in [Product -> Book]
  /\ sent \in Seq(Message) /\ Len(sent) <= MaxMessages
  /\ inOrder \in 0 .. Len(sent) \cup {Lost}
  /\ phase \in {"connecting", "reading", "disconnected", "reconnecting", "stopped"}
  /\ subscribed \subseteq Product
  /\ adapters \in [Product -> Adapter]
  /\ rejected \subseteq Product
  /\ acknowledged \subseteq subscribed
  /\ pending \in Seq(Events)
  /\ reconnectRequired \in BOOLEAN
  /\ unsupported \subseteq Product
  /\ nominal \in NominalDelay
  /\ untold \subseteq Product
  /\ store \in [Product -> Entry]
------------------------------------------------------------------------------
(***************************************************************************)
(* The venue, which is external: Kraken's book channel as the session      *)
(* relies on it.                                                           *)
(***************************************************************************)

\* read_event reads the wire only with nothing pending and no invalidation.
MayRead == phase = "reading" /\ pending = <<>> /\ ~reconnectRequired

Followed(book) == BestLevels(book, Depth)
Attested(book) == BestLevels(book, ChecksumDepth)

SendBook(product, type, levels, book) ==
  /\ Len(sent) < MaxMessages
  /\ sent' = Append(sent, [product |-> product, book |-> Followed(book),
                           message |-> [type |-> type, levels |-> levels, sound |-> TRUE,
                                        checksum |-> Attested(book)]])
  /\ told' = [told EXCEPT ![product] = Followed(book)]
  /\ UNCHANGED <<inOrder, phase, sessionVars, runnerVars, store>>

\* A subscription's books begin with a snapshot of the best levels.
VenueSnapshot(product) ==
  /\ MayRead /\ product \in subscribed \ rejected
  /\ SendBook(product, "snapshot", LevelsOf(Followed(venueBooks[product])),
              venueBooks[product])
  /\ UNCHANGED venueBooks

\* A change of the book is told if it changes the best levels, with the levels
\* that come up from below; levels pushed out below are not told.  What a product
\* trades before its first snapshot only makes for another opening book.
VenueTrade(product, batch) ==
  /\ MayRead
  /\ LET book    == ApplyUpdates(venueBooks[product], batch)
         levels  == Followed(book)
         begun   == \E i \in DOMAIN sent : sent[i].product = product
         changed == {level \in Level : \/ levels[level] \notin {0, told[product][level]}
                                       \/ told[product][level] # 0 /\ book[level] = 0}
     IN  /\ begun /\ book # venueBooks[product]
         /\ venueBooks' = [venueBooks EXCEPT ![product] = book]
         /\ IF changed = {} \/ product \in rejected
            THEN UNCHANGED <<told, sent, inOrder, phase, sessionVars, runnerVars, store>>
            ELSE SendBook(product, "update", [level \in changed |-> book[level]], book)
------------------------------------------------------------------------------
(***************************************************************************)
(* The runner and its session.                                             *)
(***************************************************************************)

StatusForAll(products, status) ==
  IF products = {} THEN <<>> ELSE <<[product \in products |-> StatusEvent(status)]>>

\* make_session and the session's constructor: discovery says which products are
\* online, only those are subscribed to, and without one the session fails once
\* its pending events were read.
OpenSession ==
  /\ phase = "connecting"
  /\ phase' = "reading"
  /\ \E online \in SUBSET Product :
       /\ subscribed' = online
       /\ rejected' = Product \ online
       /\ pending' = StatusForAll(Product, "Connecting")
                       \o StatusForAll(Product \ online, "Unsupported")
       /\ reconnectRequired' = (online = {})
  /\ adapters' = [product \in Product |-> NewAdapter]
  /\ acknowledged' = {}
  /\ UNCHANGED <<venueVars, runnerVars, store>>

\* What is left of a session, and of its pending events, that is destroyed.
NoSession ==
  /\ subscribed' = {}
  /\ adapters' = [product \in Product |-> NewAdapter]
  /\ rejected' = {}
  /\ acknowledged' = {}
  /\ pending' = <<>>
  /\ reconnectRequired' = FALSE

\* The catch of KrakenUniverseRunner::run: every supported product is to be told.
SessionFails ==
  /\ phase' = "disconnected"
  /\ untold' = Product \ unsupported
  /\ NoSession
  /\ UNCHANGED <<venueVars, unsupported, nominal, store>>

\* The wire cannot be opened or written to, discovery is malformed or refused,
\* or two products have one native symbol.
ConnectFails == phase = "connecting" /\ SessionFails

\* unsupported_ once the runner has read an event.
UnsupportedAfter(product, event) ==
  IF event.kind # "status"             THEN unsupported
  ELSE IF event.status = "Unsupported" THEN unsupported \cup {product}
  ELSE IF event.status = "Connecting"  THEN unsupported \ {product}
  ELSE unsupported

\* What the runner does with an event: the store takes it, and a trusted snapshot
\* ends the backoff.
Published(product, event) ==
  /\ unsupported' = UnsupportedAfter(product, event)
  /\ store' = [store EXCEPT ![product] = ApplyEvent(@, event)]
  /\ nominal' = IF event.kind = "book" /\ event.type = "Snapshot" THEN InitialDelay
                                                                 ELSE nominal
  /\ UNCHANGED <<venueBooks, told, sent, phase, untold>>

Remaining(product) ==
  LET batch == [other \in DOMAIN Head(pending) \ {product} |-> Head(pending)[other]]
  IN  IF DOMAIN batch = {} THEN Tail(pending) ELSE <<batch>> \o Tail(pending)

\* read_event pops a pending event.
PublishPending(product) ==
  /\ phase = "reading" /\ pending # <<>> /\ product \in DOMAIN Head(pending)
  /\ pending' = Remaining(product)
  /\ Published(product, Head(pending)[product])
  /\ UNCHANGED <<inOrder, subscribed, adapters, rejected, acknowledged, reconnectRequired>>

\* read_event's exception behind an invalidation, or with nothing to subscribe to.
ReconnectWhenRequired ==
  /\ phase = "reading" /\ pending = <<>> /\ reconnectRequired
  /\ SessionFails

\* The wire closes, or what it returns names no subscribed product or is none of
\* the messages below.
WireFails == MayRead /\ SessionFails

\* A mutant: whatever the adapter has, the product waits for a snapshot.
AcceptsSubscriptionAlways(product) ==
  /\ acknowledged' = acknowledged \cup {product}
  /\ pending' = IF product \notin acknowledged
                THEN StatusForAll({product}, "WaitingForSnapshot") ELSE <<>>
  /\ UNCHANGED <<venueVars, phase, subscribed, adapters, rejected, reconnectRequired,
                 runnerVars, store>>

\* process_acknowledgement of a success: the product waits for its snapshot, unless
\* that was faster or the acknowledgement is repeated.
AcceptsSubscription(product) ==
  /\ acknowledged' = acknowledged \cup {product}
  /\ pending' = IF product \notin acknowledged /\ adapters[product].status # "Live"
                THEN StatusForAll({product}, "WaitingForSnapshot") ELSE <<>>
  /\ UNCHANGED <<venueVars, phase, subscribed, adapters, rejected, reconnectRequired,
                 runnerVars, store>>

\* A mutant: the rejection is not told.
RejectsQuietly(product) ==
  /\ rejected' = rejected \cup {product}
  /\ adapters' = [adapters EXCEPT ![product] = NewAdapter]
  /\ UNCHANGED <<venueVars, phase, subscribed, acknowledged, pending, reconnectRequired,
                 runnerVars, store>>

\* process_acknowledgement of a permanent rejection; any other is an exception.
\* The product stays in product_by_native_.
RejectsSubscription(product) ==
  /\ rejected' = rejected \cup {product}
  /\ adapters' = [adapters EXCEPT ![product] = NewAdapter]
  /\ pending' = StatusForAll({product}, "Unsupported")
  /\ UNCHANGED <<venueVars, phase, subscribed, acknowledged, reconnectRequired, runnerVars,
                 store>>

\* Kraken answers a subscription one way, though perhaps more than once, and
\* perhaps after the product's first book.
ReadAcknowledgement(product) ==
  /\ MayRead /\ product \in subscribed \ rejected
  /\ \/ AcceptsSubscription(product)
     \/ product \notin acknowledged /\ RejectsSubscription(product)

\* read_event on a book message of a product the session follows: the adapter's
\* event goes straight to the runner.
ReadBook(product, message, timestamp) ==
  IF Ignores(adapters[product], message)
  THEN UNCHANGED <<venueBooks, told, sent, phase, adapters, reconnectRequired, runnerVars,
                   store>>
  ELSE LET event == EventOf(adapters[product], message, timestamp)
       IN  /\ adapters' = [adapters EXCEPT ![product] = ProcessBook(@, message, timestamp)]
           /\ reconnectRequired' = (event.type = "Invalidated")
           /\ Published(product, event)

\* Any message of the connection is read; one of a rejected product is an
\* exception.
ReadSent(sequence) ==
  /\ MayRead
  /\ LET product == sent[sequence].product
     IN  IF product \in rejected THEN SessionFails
         ELSE /\ ReadBook(product, sent[sequence].message, sequence)
              /\ inOrder' = IF inOrder # Lost /\ sequence = inOrder + 1 THEN sequence ELSE Lost
              /\ UNCHANGED <<subscribed, rejected, acknowledged, pending>>

\* A book message with a subscribed symbol that does not parse otherwise.
ReadUnsound(product) ==
  /\ MayRead /\ product \in subscribed \ rejected
  /\ \E type \in {"snapshot", "update"} :
       ReadBook(product, [type |-> type, levels |-> <<>>, checksum |-> EmptyBook,
                          sound |-> FALSE], NoTimestamp)
  /\ inOrder' = Lost
  /\ UNCHANGED <<subscribed, rejected, acknowledged, pending>>

\* A mutant: the rejected products are told, too.
TellAllDisconnected(product) ==
  /\ phase = "disconnected"
  /\ untold' = untold \ {product}
  /\ store' = [store EXCEPT ![product] = SetStatus(@, "Disconnected")]
  /\ UNCHANGED <<venueVars, phase, sessionVars, unsupported, nominal>>

\* publish_recovery_status, one product at a time, first Disconnected and then
\* Reconnecting.
TellDisconnected(product) ==
  /\ phase = "disconnected" /\ product \in untold
  /\ untold' = untold \ {product}
  /\ store' = [store EXCEPT ![product] = SetStatus(@, "Disconnected")]
  /\ UNCHANGED <<venueVars, phase, sessionVars, unsupported, nominal>>

\* A mutant: the runner gives up with the first unsupported product.
AllToldGivingUpEarly ==
  /\ phase = "disconnected" /\ untold = {}
  /\ IF unsupported # {}
     THEN phase' = "stopped" /\ UNCHANGED <<untold, nominal>>
     ELSE /\ phase' = "reconnecting"
          /\ untold' = Product \ unsupported
          /\ nominal' = Lengthened(nominal)
  /\ venueBooks' \in [Product -> OpeningBook]
  /\ told' = [product \in Product |-> EmptyBook]
  /\ sent' = <<>> /\ inOrder' = 0
  /\ UNCHANGED <<sessionVars, unsupported, store>>

\* run returns once every product is unsupported.  Otherwise the next delay is
\* drawn and the backoff lengthened.  Meanwhile the venue trades on, and the
\* messages of the closed connection are gone.
AllToldDisconnected ==
  /\ phase = "disconnected" /\ untold = {}
  /\ IF unsupported = Product
     THEN phase' = "stopped" /\ UNCHANGED <<untold, nominal>>
     ELSE /\ phase' = "reconnecting"
          /\ untold' = Product \ unsupported
          /\ nominal' = Lengthened(nominal)
  /\ venueBooks' \in [Product -> OpeningBook]
  /\ told' = [product \in Product |-> EmptyBook]
  /\ sent' = <<>> /\ inOrder' = 0
  /\ UNCHANGED <<sessionVars, unsupported, store>>

TellReconnecting(product) ==
  /\ phase = "reconnecting" /\ product \in untold
  /\ untold' = untold \ {product}
  /\ store' = [store EXCEPT ![product] = SetStatus(@, "Reconnecting")]
  /\ UNCHANGED <<venueVars, phase, sessionVars, unsupported, nominal>>

\* sleeper_(delay) returns and run goes round.
WakeUp ==
  /\ phase = "reconnecting" /\ untold = {}
  /\ phase' = "connecting"
  /\ UNCHANGED <<venueVars, sessionVars, runnerVars, store>>
------------------------------------------------------------------------------
Init ==
  /\ venueBooks \in [Product -> OpeningBook]
  /\ told = [product \in Product |-> EmptyBook]
  /\ sent = <<>>
  /\ inOrder = 0
  /\ phase = "connecting"
  /\ subscribed = {}
  /\ adapters = [product \in Product |-> NewAdapter]
  /\ rejected = {}
  /\ acknowledged = {}
  /\ pending = <<>>
  /\ reconnectRequired = FALSE
  /\ unsupported = {}
  /\ nominal = InitialDelay
  /\ untold = {}
  /\ store = [product \in Product |-> InitialEntry]

VenueStep ==
  \/ \E product \in Product : VenueSnapshot(product)
  \/ \E product \in Traded, batch \in UpdateBatch : VenueTrade(product, batch)

\* What the runner does by itself, without the venue's or the wire's help.
RunnerStep ==
  \/ \E product \in Product : PublishPending(product)
  \/ ReconnectWhenRequired
  \/ \E product \in Product : TellDisconnected(product)
  \/ AllToldDisconnected
  \/ \E product \in Product : TellReconnecting(product)
  \/ WakeUp

ReadStep ==
  \/ \E product \in Product : ReadAcknowledgement(product) \/ ReadUnsound(product)
  \/ \E sequence \in DOMAIN sent : ReadSent(sequence)
  \/ WireFails

Next ==
  \/ VenueStep
  \/ OpenSession
  \/ ConnectFails
  \/ RunnerStep
  \/ ReadStep

Spec == Init /\ [][Next]_vars

\* The runner's thread is scheduled, and no venue is unreachable forever.
Fairness == WF_vars(RunnerStep) /\ SF_vars(OpenSession)

FairSpec == Spec /\ Fairness
------------------------------------------------------------------------------
(***************************************************************************)
(* Correctness.                                                            *)
(***************************************************************************)

\* Over a wire that carried every message in order, a book that is followed is
\* the venue's, down to the whole depth, and no checksum ever fails: what was
\* truncated here and what the venue no longer tells are the same
\* (KrakenBookAdapter::process and truncate).
FaithfulWireKeepsBook ==
  inOrder # Lost =>
    \A product \in subscribed \ rejected :
      LET heard == {i \in 1 .. inOrder : sent[i].product = product}
      IN  /\ adapters[product].status = "Live" =>
               adapters[product].book = sent[CHOOSE i \in heard : \A j \in heard : j <= i].book
          /\ adapters[product].status = "Stale" =>
               \E i \in heard : sent[i].message.type = "snapshot"
                                  /\ \E side \in Side : Prices(sent[i].book, side) = {}

\* Whenever the runner is about to block in the wire's read, the store agrees
\* with the session, whatever the order of acknowledgements, books and rejections.
StoreIsCurrentAtRead ==
  MayRead =>
    \A product \in Product :
      /\ store[product].status = "Live" <=> adapters[product].status = "Live"
      /\ store[product].status = "Live" => store[product].book = adapters[product].book
      /\ store[product].status = "Unsupported" <=> product \in rejected

\* What the abstract specification of both venues speaks of: a connection is
\* trusted until an invalidation, and a live market shows its best levels, which
\* are what the venue attested with the message that stamps it.
Trusted == phase = "reading" /\ ~reconnectRequired
TopsTold ==
  [i \in DOMAIN sent |->
     [product \in Product |->
        IF product = sent[i].product THEN {sent[i].message.checksum} ELSE {}]]
LiveMarkets ==
  [product \in Product |->
     IF store[product].status = "Live"
     THEN {[at |-> store[product].timestamp, top |-> Attested(store[product].book)]} ELSE {}]

Markets == INSTANCE TrustedMarkets WITH
  Forward <- FALSE,
  trusted <- Trusted, told <- TopsTold, market <- LiveMarkets

\* The session and its runner implement what a venue promises the store: however
\* messages are lost, repeated or reordered, a live market's best levels are
\* those the venue had at the message that stamps it, since the checksum is of
\* the levels as they are kept; and a session that ends leaves nothing live.
ImplementsTrustedMarkets == Markets!Spec

\* A product that is not to be had stays Unsupported through the failure of its
\* session, until the next session begins discovery anew.
UnsupportedUntilRediscovered ==
  [][\A product \in Product :
       store[product].status = "Unsupported" /\ store'[product].status # "Unsupported"
         => store'[product].status = "Connecting" /\ phase = "reading"]_vars

\* A market shown live whose adapter lost its trust does not stay live.
DistrustIsShown ==
  \A product \in Product :
    (store[product].status = "Live" /\ adapters[product].status # "Live")
      ~> (store[product].status # "Live")

\* The runner opens a new session after every failure while one product is not
\* unsupported, and on it every product is looked for again.
ProductsAreRediscovered ==
  (phase = "disconnected" /\ unsupported # Product)
    ~> (phase = "reading" /\ pending # <<>> /\ DOMAIN Head(pending) = Product)
==============================================================================
