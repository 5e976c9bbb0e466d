-------------------------- MODULE CoinbaseUniverse ---------------------------
(***************************************************************************)
(* One websocket connection carrying every Coinbase product of the scanner *)
(* universe, the session that reads it, and the runner that replaces a     *)
(* failed session (src/coinbase_universe_session.cpp), publishing into the *)
(* market state store.                                                     *)
(*                                                                         *)
(* One sequence number covers the frames of all products of a connection.  *)
(* The venue is the environment: it trades, numbers and sends frames, and  *)
(* the wire hands the session any frame ever sent on the connection, so    *)
(* that frames are lost, repeated and reordered in every way.              *)
(***************************************************************************)
EXTENDS BookReconstructor, SequenceTracker, MarketStateStore, ReconnectBackoff,
        Sequences

CONSTANTS
  Product,        \* MarketUniverse of the runner
  OpeningBook,    \* the venue's books when it is reconnected to: bounds the model
  UpdateBatch,    \* the batches the venue's updates carry: bounds the model
  FrameLength,    \* how many messages a frame may carry: bounds the model
  Traffic         \* how many frames and messages, counted together, a connection
                  \* may carry: bounds the model

ASSUME OpeningBookAssumption == OpeningBook \subseteq Book
ASSUME UpdateBatchAssumption == UpdateBatch \subseteq Batch
ASSUME FrameLengthAssumption == FrameLength \in Nat
ASSUME FramesAreTimestamped  == 0 .. MaxSequence \subseteq Timestamp

VARIABLES
  venueBooks,         \* the true book of each product, at the venue
  sent,               \* the frames sent on this connection, by sequence number
  first,              \* history: the frame the session's reading of it began with
  phase,              \* where CoinbaseUniverseRunner::run is
  universe,           \* the session's own universe
  last,               \* the session's sequence tracker
  reconstructors,     \* the session's books_
  rejected,           \* the session's unsupported_
  pending,            \* the session's pending_ events
  reconnectRequired,  \* the session's reconnect_required_
  unsupported,        \* the runner's unsupported_
  nominal,            \* the runner's backoff_
  untold,             \* products publish_recovery_status has still to reach
  store               \* the Coinbase entries of the MarketStateStore

venueVars   == <<venueBooks, sent, first>>
sessionVars == <<universe, last, reconstructors, rejected, pending, reconnectRequired>>
runnerVars  == <<unsupported, nominal, untold>>
vars        == <<venueVars, phase, sessionVars, runnerVars, store>>

Phase == {"connecting", "reading", "disconnected", "reconnecting", "stopped"}

\* A frame carries messages, several about one product among them, and none when
\* it is a heartbeat or a subscription notice.  `books' is not in the frame: it
\* records the venue's books before its messages and behind each of them.
Message == [product : Product, type : {"snapshot", "update"}, levels : Batch]
Frame   == [messages : Seq(Message),
            books    : UNION {[0 .. length -> [Product -> Book]] : length \in 0 .. FrameLength}]

\* pending_ as a sequence of batches of events, at most one event per product
\* in each: the order of products inside a batch is that of the universe's
\* vector, which nothing depends on, and is left open.
Events == UNION {[named -> MarketEvent] : named \in SUBSET Product}

TypeOK ==
  /\ venueBooks \in [Product -> Book]
  /\ sent \in Seq(Frame) /\ Len(sent) <= MaxSequence
  /\ \A i \in DOMAIN sent : DOMAIN sent[i].books = 0 .. Len(sent[i].messages)
  /\ first \in TrackerState
  /\ phase \in Phase
  /\ universe \subseteq Product
  /\ last \in TrackerState
  /\ reconstructors \in [Product -> Reconstructor]
  /\ rejected \subseteq universe
  /\ pending \in Seq(Events)
  /\ reconnectRequired \in BOOLEAN
  /\ unsupported \subseteq Product
  /\ nominal \in NominalDelay
  /\ untold \subseteq Product
  /\ store \in [Product -> Entry]
------------------------------------------------------------------------------
(***************************************************************************)
(* The venue.                                                              *)
(***************************************************************************)

\* What the venue may say of a product: one change of its book, or the whole book.
NoChange == [level \in {} |-> 0]
Saying == [product : Product, type : {"snapshot"}, levels : {NoChange}]
            \cup [product : Product, type : {"update"}, levels : UpdateBatch]

\* The venue's books before it says something and behind each thing it says.
BooksBehind(sayings) ==
  LET books[i \in 0 .. Len(sayings)] ==
        IF i = 0 THEN venueBooks
        ELSE [books[i - 1] EXCEPT ![sayings[i].product] = ApplyUpdates(@, sayings[i].levels)]
  IN  books

\* A snapshot lists the whole book of its place in the frame.
FrameOf(sayings, books) ==
  [messages |-> [i \in DOMAIN sayings |->
                   IF sayings[i].type = "update" THEN sayings[i]
                   ELSE [sayings[i] EXCEPT !.levels = LevelsOf(books[i][sayings[i].product])]],
   books    |-> books]

\* read_event reads the wire only with nothing pending and no gap behind it.
MayRead == phase = "reading" /\ pending = <<>> /\ ~reconnectRequired

\* The places of the messages sent on this connection.
Places == UNION {{frame} \X DOMAIN sent[frame].messages : frame \in DOMAIN sent}

\* The venue sends the next frame of the connection.  It may do so at any time,
\* but nothing sees a frame before the session reads: sending in the states where
\* the session may read loses no behaviour.
VenueSend ==
  /\ MayRead /\ Len(sent) < MaxSequence
  /\ \E length \in 0 .. FrameLength : \E sayings \in [1 .. length -> Saying] :
       /\ Len(sent) + Cardinality(Places) + 1 + length <= Traffic
       /\ LET books == BooksBehind(sayings)
          IN  /\ venueBooks' = books[length]
              /\ sent' = Append(sent, FrameOf(sayings, books))
  /\ UNCHANGED <<first, phase, sessionVars, runnerVars, store>>
------------------------------------------------------------------------------
(***************************************************************************)
(* The runner and its session.                                             *)
(***************************************************************************)

StatusForAll(products, status) == [product \in products |-> StatusEvent(status)]

\* make_session leaves the rejected products out of the new session.
SupportedProducts == Product \ unsupported

\* A mutant: a new session subscribes to the rejected products, too.
OpenSessionForAll ==
  /\ phase = "connecting"
  /\ SupportedProducts # {}
  /\ phase' = "reading"
  /\ universe' = Product
  /\ last' = NoSequence
  /\ reconstructors' = [product \in Product |-> NewReconstructor]
  /\ rejected' = {}
  /\ pending' = <<StatusForAll(Product, "Connecting"),
                  StatusForAll(Product, "WaitingForSnapshot")>>
  /\ reconnectRequired' = FALSE
  /\ UNCHANGED <<venueVars, runnerVars, store>>

\* make_session and the session's constructor: subscribe, and tell every
\* product first that it is connecting and then that it waits.
OpenSession ==
  /\ phase = "connecting"
  /\ SupportedProducts # {}
  /\ phase' = "reading"
  /\ universe' = SupportedProducts
  /\ last' = NoSequence
  /\ reconstructors' = [product \in Product |-> NewReconstructor]
  /\ rejected' = {}
  /\ pending' = <<StatusForAll(SupportedProducts, "Connecting"),
                  StatusForAll(SupportedProducts, "WaitingForSnapshot")>>
  /\ reconnectRequired' = FALSE
  /\ UNCHANGED <<venueVars, runnerVars, store>>

\* A mutant: only the products of the session, by then destroyed, are told.
SessionFailsQuietly ==
  /\ phase' = "disconnected"
  /\ untold' = {}
  /\ universe' = {}
  /\ last' = NoSequence
  /\ reconstructors' = [product \in Product |-> NewReconstructor]
  /\ rejected' = {}
  /\ pending' = <<>>
  /\ reconnectRequired' = FALSE
  /\ UNCHANGED <<venueVars, unsupported, nominal, store>>

\* The catch of CoinbaseUniverseRunner::run: the session and its pending events
\* are destroyed, and every supported product is to be told.
SessionFails ==
  /\ phase' = "disconnected"
  /\ untold' = SupportedProducts
  /\ universe' = {}
  /\ last' = NoSequence
  /\ reconstructors' = [product \in Product |-> NewReconstructor]
  /\ rejected' = {}
  /\ pending' = <<>>
  /\ reconnectRequired' = FALSE
  /\ UNCHANGED <<venueVars, unsupported, nominal, store>>

\* The wire cannot be opened or a subscription cannot be written.
ConnectFails == phase = "connecting" /\ SessionFails

\* Hand one product's pending event to the runner, which passes it on to the
\* store: all but news of a product it knows to be rejected.
Published(product, event) ==
  IF event.kind = "status" /\ event.status # "Unsupported" /\ product \in unsupported
  THEN store
  ELSE [store EXCEPT ![product] = ApplyEvent(@, event)]

Remaining(product) ==
  LET batch == [other \in DOMAIN Head(pending) \ {product} |-> Head(pending)[other]]
  IN  IF DOMAIN batch = {} THEN Tail(pending) ELSE <<batch>> \o Tail(pending)

\* A mutant: the backoff is never reset.
BackoffAfterAny(event) == nominal

\* A trusted snapshot, once published, ends the backoff.
BackoffAfter(event) ==
  IF event.kind = "book" /\ event.type = "Snapshot" THEN InitialDelay ELSE nominal

\* read_event pops a pending event and the runner publishes it.  A book of a
\* rejected product would be an exception.
PublishPending(product) ==
  /\ phase = "reading" /\ pending # <<>> /\ product \in DOMAIN Head(pending)
  /\ LET event == Head(pending)[product]
     IN  IF event.kind = "book" /\ product \in unsupported
         THEN SessionFails
         ELSE /\ pending' = Remaining(product)
              /\ unsupported' = IF event.kind = "status" /\ event.status = "Unsupported"
                                THEN unsupported \cup {product} ELSE unsupported
              /\ nominal' = BackoffAfter(event)
              /\ store' = Published(product, event)
              /\ UNCHANGED <<venueVars, phase, universe, last, reconstructors,
                             rejected, reconnectRequired, untold>>

\* A mutant: the session reads on behind a gap, and takes the next snapshot.
ReadsOnAfterGap ==
  /\ phase = "reading" /\ pending = <<>> /\ reconnectRequired
  /\ last' = NoSequence
  /\ reconnectRequired' = FALSE
  /\ UNCHANGED <<venueVars, phase, universe, reconstructors, rejected, pending, runnerVars,
                 store>>

\* read_event's exception once the events of a gap are all published.
ReconnectAfterGap ==
  /\ phase = "reading" /\ pending = <<>> /\ reconnectRequired
  /\ SessionFails

\* The wire closes, or what it returns is malformed or an error that cannot be
\* attributed to a configured product.
WireFails == MayRead /\ SessionFails

\* An error frame that permanently rejects one product of the session.
ReadRejection(product) ==
  /\ MayRead /\ product \in universe
  /\ rejected' = rejected \cup {product}
  /\ reconstructors' = [reconstructors EXCEPT ![product] = MarkDesynchronized(@)]
  /\ pending' = <<StatusForAll({product}, "Unsupported")>>
  /\ UNCHANGED <<venueVars, phase, universe, last, reconnectRequired, runnerVars,
                 store>>

\* A mutant: a gap desynchronizes the books but tells nobody.
InvalidateQuietly ==
  /\ reconstructors' = [product \in Product |->
                          MarkDesynchronized(reconstructors[product])]
  /\ UNCHANGED <<venueVars, phase, universe, last, rejected, pending,
                 reconnectRequired, runnerVars, store>>

\* invalidate_all and reconnect_required_: no product survives a gap, not even
\* with the snapshot this frame may carry.
InvalidateAll ==
  /\ reconstructors' = [product \in Product |->
                          IF product \in universe \ rejected
                          THEN MarkDesynchronized(reconstructors[product])
                          ELSE reconstructors[product]]
  /\ pending' = IF universe \ rejected = {} THEN <<>>
                ELSE <<[product \in universe \ rejected |-> InvalidatedEvent]>>
  /\ reconnectRequired' = TRUE
  /\ UNCHANGED <<venueVars, phase, universe, last, rejected, runnerVars, store>>

\* A mutant: no event is added for a product that has one pending.
AfterMessageToldOnce(done, message, sequence, verdict) ==
  LET product == message.product
      rebuilt == Process(done.books[product], message, verdict)
      event   == BookEvent(IF message.type = "snapshot" THEN "Snapshot" ELSE "Update",
                           rebuilt.book, sequence)
  IN  [books  |-> [done.books EXCEPT ![product] = rebuilt],
       events |-> IF /\ Applies(done.books[product], message, verdict)
                     /\ \A i \in DOMAIN done.events : product \notin DOMAIN done.events[i]
                  THEN Append(done.events, [named \in {product} |-> event])
                  ELSE done.events]

\* One round of the loop of process_frame: a message that is applied leaves an
\* event with the whole book of then, whatever the rounds behind it make of it.
AfterMessage(done, message, sequence, verdict) ==
  LET product == message.product
      rebuilt == Process(done.books[product], message, verdict)
      event   == BookEvent(IF message.type = "snapshot" THEN "Snapshot" ELSE "Update",
                           rebuilt.book, sequence)
  IN  [books  |-> [done.books EXCEPT ![product] = rebuilt],
       events |-> IF Applies(done.books[product], message, verdict)
                  THEN Append(done.events, [named \in {product} |-> event])
                  ELSE done.events]

\* The loop over a frame's book messages, all under the frame's one verdict: a
\* first frame's updates are dropped, even those behind a snapshot of theirs.
AfterMessages(messages, sequence, verdict) ==
  LET done[i \in 0 .. Len(messages)] ==
        IF i = 0 THEN [books |-> reconstructors, events |-> pending]
        ELSE AfterMessage(done[i - 1], messages[i], sequence, verdict)
  IN  done[Len(messages)]

\* What process_frame leaves when each message names a product the session still
\* follows.
ReconstructBooks(frame, sequence, verdict) ==
  LET done == AfterMessages(frame.messages, sequence, verdict)
  IN  /\ reconstructors' = done.books
      /\ pending' = done.events
      /\ last' = Observe(last, sequence)
      /\ first' = IF verdict = "First" THEN sequence ELSE first
      /\ UNCHANGED <<venueBooks, sent, phase, universe, rejected, reconnectRequired,
                     runnerVars, store>>

\* process_frame on a data frame.  The verdict on its sequence number comes
\* before any look at its messages.
ReadFrame(sequence) ==
  /\ MayRead
  /\ LET frame   == sent[sequence]
         verdict == Verdict(last, sequence)
     IN  IF verdict = "Gap" THEN InvalidateAll
         ELSE IF \A i \in DOMAIN frame.messages :
                   frame.messages[i].product \in universe \ rejected
         THEN ReconstructBooks(frame, sequence, verdict)
         ELSE SessionFails

\* publish_recovery_status, one product at a time, first Disconnected and then
\* Reconnecting.
TellDisconnected(product) ==
  /\ phase = "disconnected" /\ product \in untold
  /\ untold' = untold \ {product}
  /\ store' = [store EXCEPT ![product] = SetStatus(@, "Disconnected")]
  /\ UNCHANGED <<venueVars, phase, sessionVars, unsupported, nominal>>

\* A mutant: the runner gives up with the first rejected product.
AllToldGivingUpEarly ==
  /\ phase = "disconnected" /\ untold = {}
  /\ IF unsupported # {}
     THEN phase' = "stopped" /\ UNCHANGED <<untold, nominal>>
     ELSE /\ phase' = "reconnecting"
          /\ untold' = SupportedProducts
          /\ nominal' = Lengthened(nominal)
  /\ venueBooks' \in [Product -> OpeningBook]
  /\ sent' = <<>>
  /\ first' = NoSequence
  /\ UNCHANGED <<sessionVars, unsupported, store>>

\* Nothing is left to reconnect once every product was rejected: run returns.
\* Otherwise the next delay is drawn and the backoff lengthened.  Meanwhile the
\* venue trades on, and the frames of the closed connection are gone.
AllToldDisconnected ==
  /\ phase = "disconnected" /\ untold = {}
  /\ IF unsupported = Product
     THEN phase' = "stopped" /\ UNCHANGED <<untold, nominal>>
     ELSE /\ phase' = "reconnecting"
          /\ untold' = SupportedProducts
          /\ nominal' = Lengthened(nominal)
  /\ venueBooks' \in [Product -> OpeningBook]
  /\ sent' = <<>>
  /\ first' = NoSequence
  /\ UNCHANGED <<sessionVars, unsupported, store>>

TellReconnecting(product) ==
  /\ phase = "reconnecting" /\ product \in untold
  /\ untold' = untold \ {product}
  /\ store' = [store EXCEPT ![product] = SetStatus(@, "Reconnecting")]
  /\ UNCHANGED <<venueVars, phase, sessionVars, unsupported, nominal>>

\* sleeper_(delay) returns and run goes round.
WakeUp ==
  /\ phase = "reconnecting" /\ untold = {}
  /\ phase' = "connecting"
  /\ UNCHANGED <<venueVars, sessionVars, runnerVars, store>>
------------------------------------------------------------------------------
Init ==
  /\ venueBooks \in [Product -> OpeningBook]
  /\ sent = <<>>
  /\ first = NoSequence
  /\ phase = "connecting"
  /\ universe = {}
  /\ last = NoSequence
  /\ reconstructors = [product \in Product |-> NewReconstructor]
  /\ rejected = {}
  /\ pending = <<>>
  /\ reconnectRequired = FALSE
  /\ unsupported = {}
  /\ nominal = InitialDelay
  /\ untold = {}
  /\ store = [product \in Product |-> InitialEntry]

\* What the runner does by itself, without the venue's or the wire's help.
RunnerStep ==
  \/ \E product \in Product : PublishPending(product)
  \/ ReconnectAfterGap
  \/ \E product \in Product : TellDisconnected(product)
  \/ AllToldDisconnected
  \/ \E product \in Product : TellReconnecting(product)
  \/ WakeUp

ReadStep ==
  \/ \E sequence \in DOMAIN sent : ReadFrame(sequence)
  \/ \E product \in Product : ReadRejection(product)
  \/ WireFails

Next ==
  \/ VenueSend
  \/ OpenSession
  \/ ConnectFails
  \/ RunnerStep
  \/ ReadStep

Spec == Init /\ [][Next]_vars

\* The runner's thread is scheduled, and no venue is unreachable forever.  Nothing
\* makes the wire deliver: a read may block for good.
Fairness == WF_vars(RunnerStep) /\ SF_vars(OpenSession)

FairSpec == Spec /\ Fairness
------------------------------------------------------------------------------
(***************************************************************************)
(* Correctness.                                                            *)
(***************************************************************************)

\* A message tells a level of a product when a reader of it knows the level after.
SnapshotOf(message, product) == message.product = product /\ message.type = "snapshot"
Tells(message, product, level) ==
  message.product = product /\ (message.type = "snapshot" \/ level \in DOMAIN message.levels)

\* The levels that of the first `count' messages one tells behind the last snapshot
\* of the product: what a session drops that begins with them.
Dropped(messages, product, count) ==
  {level \in Level : \E i \in 1 .. count :
     /\ Tells(messages[i], product, level)
     /\ \E before \in 1 .. i - 1 : SnapshotOf(messages[before], product)
     /\ \A after \in i .. count : ~SnapshotOf(messages[after], product)}

ToldIn(at, product, level, count) ==
  \E i \in 1 .. count : Tells(sent[at].messages[i], product, level)

\* The levels of a product that a session which began with frame `start' dropped
\* and was not told again up to message `count' of frame `at'.
Missed(product, start, at, count) ==
  IF at = start THEN Dropped(sent[start].messages, product, count)
  ELSE {level \in Dropped(sent[start].messages, product, Len(sent[start].messages)) :
          /\ ~ToldIn(at, product, level, count)
          /\ \A between \in start + 1 .. at - 1 :
               ~ToldIn(between, product, level, Len(sent[between].messages))}

\* The venue's book behind that message, but for the levels missed.
IsBookAt(book, product, start, at, count) ==
  \A level \in Level \ Missed(product, start, at, count) :
    book[level] = sent[at].books[count][product][level]

\* The venue's book of the product behind the last frame the session accepted, but
\* for the levels it missed.
IsVenueBook(book, product) ==
  /\ first \in DOMAIN sent /\ last \in DOMAIN sent
  /\ IsBookAt(book, product, first, last, Len(sent[last].messages))

\* The books that frame `at' tells of a product, message by message, to a session
\* that began with frame `start'.
BooksOf(product, start, at) ==
  {book \in Book : \E i \in DOMAIN sent[at].messages :
     sent[at].messages[i].product = product /\ IsBookAt(book, product, start, at, i)}

\* A reconstructor that believes itself synchronized holds the venue's book as of
\* the last frame the session accepted, whatever was lost, repeated or reordered
\* on the way.  It is wrong at most where an update of the session's first frame
\* came behind a snapshot, and only until the level is told again
\* (BookReconstructor::process under the shared sequence of process_frame).
SynchronizedBookIsVenueBook ==
  \A product \in Product :
    reconstructors[product].synchronized =>
      IsVenueBook(reconstructors[product].book, product)

\* A market is live only with a book the venue really had, behind a message about
\* it in the frame that stamps it, but for what the first frame lost: even while
\* later events of the product are still pending and while the runner is telling
\* products of a dead session.
LiveBookIsVenueBook ==
  \A product \in Product :
    store[product].status = "Live" =>
      /\ store[product].timestamp \in DOMAIN sent
      /\ first \in 1 .. store[product].timestamp
      /\ store[product].book \in BooksOf(product, first, store[product].timestamp)

\* Whenever the runner is about to block in the wire's read, the store agrees with
\* the session: the live markets are the synchronized ones, and none still shows a
\* book from within the last accepted frame instead of the one behind it.
StoreIsCurrentAtRead ==
  MayRead =>
    \A product \in Product :
      /\ store[product].status = "Live" <=> reconstructors[product].synchronized
      /\ store[product].status = "Live" => IsVenueBook(store[product].book, product)

\* No market is live without a session that follows it: none once a gap has been
\* reported, none by the time the runner reconnects, waits or has returned.
NothingLiveWithoutSession ==
  \/ phase = "reading" /\ ~(reconnectRequired /\ pending = <<>>)
  \/ phase = "disconnected"
       /\ \A product \in Product : store[product].status = "Live" => product \in untold
  \/ \A product \in Product : store[product].status # "Live"

\* What the abstract specification of both venues speaks of: a connection is
\* trusted until a gap, the session was told the frames it accepted, and a live
\* market is at the one that stamps it.
Trusted == phase = "reading" /\ ~reconnectRequired
BooksTold ==
  IF last = NoSequence THEN <<>>
  ELSE [n \in 1 .. last - first + 1 |->
          [product \in Product |-> BooksOf(product, first, first + n - 1)]]
LiveMarkets ==
  [product \in Product |->
     IF store[product].status = "Live"
     THEN {[at |-> store[product].timestamp - first + 1, top |-> store[product].book]} ELSE {}]

Markets == INSTANCE TrustedMarkets WITH
  Forward <- TRUE,
  trusted <- Trusted, told <- BooksTold, market <- LiveMarkets

\* The session and its runner implement what a venue promises the store: only a
\* connection without a gap shows anything, it shows the books the venue told,
\* each market only forward, and the next one begins when nothing is live.
ImplementsTrustedMarkets == Markets!Spec

\* The backoff is at its start while a followed market is live, so that the
\* first failure after recovery is retried at once.
LiveSessionHasNoBackoff ==
  phase = "reading" /\ (\E product \in Product : store[product].status = "Live")
    => nominal = InitialDelay

\* While a market stays live its book only moves forward in the venue's order:
\* a late or repeated frame never rolls it back.
LiveBookNeverRollsBack ==
  [][\A product \in Product :
       store[product].status = "Live" /\ store'[product].status = "Live"
         => store'[product].timestamp >= store[product].timestamp]_vars

\* A market shown live whose book is no longer synchronized does not stay live:
\* the runner's own steps, without another frame, take the status away.
DistrustIsShown ==
  \A product \in Product :
    (store[product].status = "Live" /\ ~reconstructors[product].synchronized)
      ~> (store[product].status # "Live")

\* The runner opens a new session after every failure while one product is not
\* rejected: a rejection never takes the other products down with it.
SupportedProductsAreRetried ==
  (phase = "disconnected" /\ unsupported # Product) ~> (phase = "reading")

\* A product the venue rejected for good stays Unsupported through every later
\* failure, recovery announcement and session, and is no product of a session that
\* begins after the rejection was shown: it is not subscribed to again.
RejectionIsPermanent ==
  [][\A product \in Product :
       store[product].status = "Unsupported" =>
         /\ store'[product].status = "Unsupported"
         /\ product \in universe' => product \in universe]_vars
==============================================================================
