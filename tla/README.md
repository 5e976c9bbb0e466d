# Formal models of the order book viewer

This directory holds TLA+ models of the program in `src/`: the path a market's
order book takes from the sockets of Coinbase and Kraken, through the sessions
that decide whether it can be trusted, to the heatmap and the scanner table in
the browser. TLC checks the models on small instances; TLAPS proves the theorems
for every value of the constants. Paths below are relative to `src/`, the
repository's root.

Check one model, or one module's proofs, from this directory:

    tlc -workers 2 -config MCCoinbaseUniverse.cfg MCCoinbaseUniverse.tla
    tlapm CoinbaseUniverseProofs.tla

`PROJECT.json` lists every run, every theorem, the source lines each definition
stands for, the hazards the properties are for, and for each property a *mutant*:
a plausible bug in a definition (kept beside it and commented as a mutant) under
which the property fails.

## The system

The program shows one question's answer in many forms: *what does the market's
book look like, and may we believe it?* A book is believed from a snapshot on,
for as long as nothing was missed; every component either keeps that status or
passes it on.

    Coinbase socket -> CoinbaseUniverseRunner --+
                                                +-> ScannerStatePublisher -> ScannerStreamHub -> pages
    Kraken socket  --> KrakenUniverseRunner ----+      (MarketStateStore, ConsolidatedQuoteEngine)

    one socket ------> LiveSourceRunner (LiveHeatmapEngine, HeatmapHistory) -> LiveStreamHub -> pages
                            ^                                                     ^
                            +------------------ LiveMarketService ----------------+  <- pages' controls

### Inventory

| Component (source) | State | Operations | What makes it correct |
|---|---|---|---|
| Order book, reconstruction (`src/order_book.cpp`, `src/book_reconstructor.cpp`) | price levels of both sides; synchronized flag | `clear`, `apply_update`, `process`, `mark_desynchronized` | a synchronized book is the venue's, but for what the first frame said behind a snapshot; a late snapshot does not roll it back |
| Sequence tracker (`src/sequence_tracker.cpp`) | last accepted number | `observe`, `reset` | a lost frame is never taken for an in-order one; only in-order numbers advance it |
| Reconnect backoff (`src/reconnect_backoff.cpp`) | nominal delay | `next_delay`, `reset` | bounded; reset when trust is back |
| Coinbase universe session, runner (`src/coinbase_universe_session.cpp`) | one tracker, a reconstructor per product, pending events, rejected products; the runner's backoff and rejected products | construct, `read_event`, `process_frame`, `invalidate_all`, `run`, `publish_recovery_status` | a live book is one the frame that stamps it told, and at rest the last one; nothing live without a session; rejections are permanent; supported products are retried |
| Kraken adapter (`src/kraken_adapter.cpp`) | exact levels to a fixed depth, status | `process`, `truncate`, checksum, `invalidation`, `reset` | what passes the checksum has the venue's best levels; a faithful wire never fails it |
| Kraken universe session, runner (`src/kraken_universe_session.cpp`) | discovery result, adapters, acknowledged and rejected products, pending events | construct (discovery), `read_event`, `process_acknowledgement`, `run` | as for Coinbase, but a rejected product is looked for again by the next session |
| Market state store (`src/market_state_store.cpp`) | status, book and timestamp of each market | `apply`, `set_status`, reads | an update needs a live market; a book is there exactly when it is live |
| Consolidated quote (`src/consolidated_quote.cpp`) | none | `calculate` | no live venue has a better price than the best bid and offer |
| Scanner publisher and hub (`src/scanner_state.cpp`, `src/scanner_stream.cpp`) | two mutexes; current update of each product; a queue per subscriber | `apply`, `publish`, `subscribe`, `read` | the hub shows the store, pages show the hub, whatever the interleaving |
| Scanner page (`web/scanner_model.js`) | rows | `accept` | rows only ever show consistent quotes |
| Heatmap history (`src/heatmap_history.cpp`) | window of columns, last observation, carry flag | `sample`, `mark_discontinuity` | the window shows what was seen, nothing across a break |
| Live heatmap engine (`src/live_heatmap_engine.cpp`) | tracker, reconstructor, history, status, column numbers | `process` (raw and trusted), `begin_recovery` | a chart is drawn from trusted books only; its updates rebuild its window |
| Live stream hub (`src/live_stream.cpp`) | session, columns, statuses, a queue per page | `begin_product_session`, `publish`, `publish_source_status`, `publish_error`, `subscribe` | an old session's publications are dropped; every page gets a valid stream |
| Live source runner, market service (`src/live_source.cpp`) | the selection; the runner's engine | both `run`s, `switch_product` | every selection is served; a loss is shown |
| Heatmap page (`web/app.js`) | chart, status, connection | stream handlers, reconnection | shows the selected product, valid columns only |
| Kraken single-product stream (`src/kraken_level2_stream.cpp`) | one adapter, the socket | `initialize`, `read_event` | the chart ends with an attested book of the present connection; a switch ends the stream of a market that trades |
| Coinbase single-product stream, parser, wire (`src/coinbase_level2_stream.cpp`, `src/coinbase_parser.cpp`, `src/coinbase_wire.cpp`, `src/live_message_source.cpp`) | sockets | connect, read, parse | inputs of the models; see *Not modelled* |
| Replay stream (`src/replay_stream.cpp`) | status, position, speed of each browser session | `apply_control`, `take_next_column_message`, the websocket loop | the page shows what was played, and always has a valid stream; what plays comes to its end |
| Command-line replay (`src/replay.cpp`) | a tracker, a reconstructor and a history of its own | the loop over a capture's lines | as for the live engine: the window shows what was recorded, nothing across a gap |
| Recorder (`src/main.cpp`), server (`src/heatmap_viewer.cpp`), configuration and JSON | files, sockets | | see *Not modelled* |

### How they interact, and what is hard

* **Calls from two venue threads.** Each runner calls the publisher's `apply`
  on its own thread; the publisher's mutex orders store change, quote and
  publication, and the hub's mutex is taken inside it. Pages subscribe on threads
  of their own, in between.
* **A shared connection.** All products of a venue share a socket, and Coinbase's
  share one sequence number: one product's lost frame distrusts all the others.
* **Several messages in a frame.** A Coinbase frame may carry any number of events,
  several of one product too, all under one sequence number and one verdict: each is
  published with the book of its place, and what comes behind a snapshot in the first
  frame of a connection is dropped.
* **Pending events.** A frame may cause several events which the session hands out
  one per `read_event`; a failure in the middle of a frame destroys the session
  together with those that nobody has read. What takes the markets down then is the
  runner.
* **Selections.** A page's control switches the product while the runner of the
  old one may be anywhere: opening, reading, processing, publishing, sleeping.
* **Queues.** A page is told a snapshot and then increments; they must fit, for
  late pages, pages that come back, and across a switch.
* **Failure.** Messages are lost, repeated or reordered, sockets close, venues
  reject products, clocks step back; the answer is always a new session after a
  delay, and a fresh snapshot.

`PROJECT.json` lists these as `hazards`, each at its line, with the properties
that cover it or the reason why none does.

## The modules

| Module | Models | Extends |
|---|---|---|
| `OrderBook` | `order_book.cpp`: a book is a function from levels to quantities, 0 for absent | |
| `BookReconstructor` | `book_reconstructor.cpp` | `OrderBook` |
| `SequenceTracker` | `sequence_tracker.cpp` | |
| `ReconnectBackoff` | the nominal delay of `reconnect_backoff.cpp` | |
| `MarketStateStore` | `market_state_store.cpp` and the venue events | `OrderBook` |
| `TrustedMarkets` | nothing of its own: the abstract promise of either venue's session and runner | |
| `CoinbaseUniverse` | the session, its runner and Coinbase, which is the environment | all of the above but `TrustedMarkets`, of which it has an instance |
| `KrakenAdapter` | `KrakenBookAdapter` | `MarketStateStore` |
| `KrakenUniverse` | the session, its runner and Kraken, which is the environment | `KrakenAdapter`, `ReconnectBackoff`; an instance of `TrustedMarkets` |
| `ConsolidatedQuote` | `consolidated_quote.cpp` | `MarketStateStore` |
| `ScannerPublication` | publisher, hub, websockets, pages of the scanner | `ConsolidatedQuote` |
| `HeatmapHistory` | `heatmap_history.cpp` | `OrderBook` |
| `LiveHeatmapEngine` | `live_heatmap_engine.cpp` | `HeatmapHistory`, `BookReconstructor`, `SequenceTracker` |
| `LiveStreamHub` | what the hub keeps of updates and what it tells | `LiveHeatmapEngine` |
| `CaptureReplay` | the loop of `replay.cpp`, whose state is part of an engine's | `LiveHeatmapEngine` |
| `HeatmapFeed` | one engine, or one replay of a capture, under every sequence of messages and breaks | `LiveStreamHub`, `CaptureReplay` |
| `KrakenStream` | `kraken_level2_stream.cpp` under the trusted branch of `LiveSourceRunner::run` | `KrakenAdapter`, `LiveHeatmapEngine` |
| `LiveMarket` | service, runner, hub and pages as threads | `LiveStreamHub` |
| `ReplayPlayback` | a recording's playback, its websocket loop and page | |
| `MC*` | constants for TLC | |
| `CoinbaseUniverseProofs`, `KrakenUniverseProofs`, `KrakenStreamProofs`, `ScannerPublicationProofs`, `LiveStreamHubProofs`, `HeatmapFeedProofs`, `LiveMarketProofs`, `ReplayPlaybackProofs` | proofs | the module they name; `KrakenStreamProofs`, `HeatmapFeedProofs` and `LiveMarketProofs` also `LiveStreamHubProofs` |

Components without a thread of their own are records and operators (a
reconstructor, an engine, an adapter is a record, `Process(record, message)` is
the record afterwards); the modules with VARIABLES are the compositions in which
threads, venues and pages move.

### TrustedMarkets

What the scanner may rely on, whichever venue an event comes from: there is at
most one connection at a time that is trusted; only while it is does a market
become or stay live by it, with what the venue told of that market on it; trust
that is lost does not come back; and before there is another connection every
market is taken down. A session that hands out events one at a time and dies with
those nobody read, and a runner that cleans up behind it one product at a time,
must look like this from the store. The two venues map to it differently:

| | `CoinbaseUniverse` | `KrakenUniverse` |
|---|---|---|
| `trusted` | reading, no gap found yet | reading, no invalidation yet |
| `told` | of each accepted frame, the whole books behind its messages about the product, but for what the first frame dropped | the attested best levels, of the message's product |
| `market` | a live entry's stamp and its book | a live entry's stamp and its attested levels |
| `Forward` | TRUE: a late snapshot does not roll a market back | FALSE: nothing numbers Kraken's messages, so an earlier one with a right checksum is taken |

Reading, losing trust, taking down and forgetting a connection's messages are
steps of the specification; discovery, acknowledgements, backoff and pending
events are stutters of it.

### CoinbaseUniverse

`venueBooks` and `sent` are the venue: what it says is a sequence of messages, each
the change of some levels of one product or its whole book, and a frame carries any
such sequence, with any number of messages about the same product (the parser keeps
each as a message of its own: `src/coinbase_parser.cpp:243`, and the test
`FrameKeepsSameProductEventsSeparate`). A frame is recorded together with the true
books before its messages and behind each of them (`books`). `ReadFrame(n)` hands the
session *any* frame ever sent on the connection, so loss, repetition and reordering
are all there, as the sequence numbers are there to find out.
`phase` is where `run` is. `universe`, `last`, `reconstructors`, `rejected`,
`pending`, `reconnectRequired` are the session's members; `unsupported`,
`nominal` the runner's; `untold` is what remains of the loop in
`publish_recovery_status`; `store` the store. `first` is a history variable: the frame
the session's reading of the connection began with.

One `read_event` is one or more steps: the read of a frame with all of
`process_frame`, then each event popped and published. `AfterMessages` is the loop of
`process_frame` and `AfterMessage` one round of it: the messages are processed in order
under the frame's one verdict, and each that is applied leaves an event with the book
of its place. `pending` is a sequence of batches, one event per product at most in
each, whose inner order is left open; a book event is a batch of its own.

Two things follow from the loop that the properties have to say, as the code does them:

* **A dropped update.** A connection's first number is accepted whatever it is, and
  under `First` a snapshot is applied but an update is not
  (`src/book_reconstructor.cpp:30`). An update behind a snapshot of its product in the
  first frame is lost, and the book is synchronized and shown live without it.
  `Dropped` are the levels that such updates of the first frame change and `Missed`
  those of them that nothing has told again since, by an update of the level or a
  snapshot of the product. `IsVenueBook` claims every other level; the missed ones may
  have any quantity. Where no frame has an update behind a snapshot nothing is ever
  missed, and the books are the venue's in all levels.
* **Books from within a frame.** Two messages of a product in a frame are two events,
  and the market is live with the book between them until the second is published. A
  live market's book is therefore one of those its frame told (`BooksOf`), and
  `StoreIsCurrentAtRead` says that before the next read it is the last of them.

### KrakenUniverse

The same shape, with what differs at Kraken: discovery inside the constructor
(`OpenSession` chooses the products that are online), acknowledgements that may
be late, repeated or rejections, books with a checksum in place of sequence
numbers. The venue follows the documented protocol as the adapter relies on it:
after the snapshot it tells each change of the best `Depth` levels, with the
levels that come up from below, and not the ones pushed out, which the adapter
cuts off itself. `inOrder` records whether the wire was faithful so far. A
checksum is the set of levels it is computed from: CRC collisions are abstracted.
`Traded` names the products whose books change: two products that are told, of
which one trades, give every order of two products' books and acknowledgements.

### ScannerPublication

The steps of `apply` are those another thread can tell apart: the store changed,
the quote computed, published, each subscriber told. Both mutexes are variables.
A websocket's queue stands for all that is on its way to the page, and `Deliver`
for the thread, the network and the page's handler.

### KrakenStream

One product's chart from Kraken. Its stream reads in two loops of its own, one
until the catalogue comes and one until the adapter makes an event, and passes
over what is neither: the runner sees its selection only between two events.
`Discovery` and `Following` say what either loop makes of each kind of frame, as
the two differ: a frame of an unknown channel is an error before the
subscription and ignored after it; text that is no object is an error before and
an invalidation after. The stream dies with its connection, the engine with the
selection. Sequence numbers are absent, so the book messages that may come are
any of a set with any checksum: what is trusted must be what the checksum says.

### HeatmapFeed and LiveMarket

`HeatmapFeed` gives one engine every sequence of messages, and records what was
observed in order to say what the window should show. The replay of a capture is
the third kind of feed: it has the same three parts, but acts on a gap with any
line, not with book lines only, never recovers by reconnecting, and may sample a
book after which `sample` throws. `LiveMarket` puts the
engine on the service's thread: `at` is the program counter of
`LiveMarketService::run` and `LiveSourceRunner::run`, between whose steps a
switch may come. Every hub operation holds the hub's mutex and is one step;
`switch_product` holds the service's and the hub's.

### ReplayPlayback

One browser session of a recording: `playback` is the server's, `page` what the
browser has, `toPage` and `arriving` the socket in both directions. `readAhead` is
what the websocket took from the socket together with an earlier control: the loop
asks the socket, not the websocket, whether there is something to read, so that
such a control waits until another one arrives. `due` is `next_column_at` having
been set to now; otherwise a column becomes due at any time. The websocket library
is external and modelled from its use: a read returns one message and may take
more than one from the socket.
The live stream's loop asks the socket in the same way
(`src/heatmap_viewer.cpp:571`); `LiveMarket` has a switch at any time.

## What is checked

| Run | Module, bounds | Shows |
|---|---|---|
| `coinbase_safety` | two products, two update batches (a bid goes, an offer comes), up to two messages in a frame, three frames on a connection and five frames and messages together, delays 1..2, any number of connections; 635 thousand states | a synchronized book is the venue's behind the last accepted frame and a live one that behind a message of the frame that stamps it, but for what the first frame dropped; the store agrees with the session before each read; the session implements `TrustedMarkets`; nothing live without a session; a rejected product stays so and enters no later session; the backoff is reset with trust |
| `coinbase_liveness` | fair; one message in a frame, one batch, three frames with as many messages; 273 thousand states | a distrusted market leaves the display; supported products are retried |
| `kraken_universe` | fair; two products, of which one trades; four price levels, depth 2, one attested level; three messages per connection; 84 thousand states | a faithful wire keeps the whole followed book right and never fails a checksum for anything but a one-sided snapshot; on any wire the session implements `TrustedMarkets` for the attested levels; the store agrees with the session before each read, through late acknowledgements and rejections; unsupported products stay so until the next discovery; distrust is shown; products are looked for again |
| `kraken_stream` | fair; the book of `kraken_universe`, every kind of frame, three timestamps, window of two columns; 3.7 thousand states | the chart of a live engine ends with the adapter's book, attested by the last message; a switch ends the stream of a market that trades |
| `scanner_publication` | one product, two venues, two pages, four events | the hub shows the store; a page that reads on shows the hub; each row is consistent |
| `scanner_liveness` | two products, one page, three events | a venue no longer trusted leaves open pages |
| `heatmap_feed` | three kinds of feed, five times, buckets of two ticks, window of three columns, sequence numbers 0..4, five observations; 94 thousand states | the window shows the latest known buckets with the last book seen; the hub's columns are the window; nothing untrusted is drawn |
| `heatmap_gap` | the same | **violated**: a gap seen with a heartbeat does not mark the chart stale |
| `live_market` | two products, two selections, one page, three messages, two failures, window of two columns; 810 thousand states | the hub shows the selected product's runner only; pages catch up; no page gets an invalid stream |
| `live_market_liveness` | fair, Coinbase | each selection gets its runner; a loss reaches pages |
| `live_market_reconnect` | as `live_market` | **violated**: a page that reconnects around a switch keeps the old product's chart |
| `replay_playback` | fair; three columns, two speeds, two controls and four messages under way | the page never refuses the stream, has exactly the columns played once it has read everything, loses columns only to a rewind; what plays is shown to its end |

Why the bounds are enough for what they ask:

* Two products are needed for one's loss to distrust the other, and a rejection
  to concern one only; nothing relates three.
* Three frames are the shortest connection with a snapshot, a lost frame and one
  behind it; two batches that change different levels make the book behind a loss
  differ from the venue's (with one batch it would be right by accident).
  Reconnection is unbounded.
* Two messages in a frame (`FrameLength`) are the shortest frame in which an update
  comes behind a snapshot, or a second book of a product behind a first, or an
  unexpected product behind an expected one. `Traffic` bounds the frames and the
  messages of a connection together: five are two frames with three messages, so that
  a level the first frame dropped is told again or not, or three frames with two.
  The liveness run asks of losses and rejections only, for which one message in a
  frame will do. The theorems hold for every value of both.
* Kraken's four levels, of which two are followed and one attested, have the
  three cases a depth limit has: a level pushed out by a better one, one that
  comes back from below, and a change below what a checksum sees.
* The heatmap's times fall into the same bucket, the next, one within the window
  and one beyond it, so that the four branches of `sample` and the eviction
  happen; live_market's snapshot and update are two buckets apart, so that its
  window of two overflows.
* Two selections give an old runner a session it must lose. One page suffices as
  pages do not interact; two in the scanner show that one's absence does not lose
  the other's message.
* A recording of three columns has a first, a middle and a last one; two controls
  are what it takes for one to be read ahead of, and four messages let a reset, a
  state and a last column with its state be under way together.
* Counters (`MaxEvents`, `MaxMessages`, `MaxReceived`, `MaxFailures`,
  `MaxSessions`, `MaxObservations`) are bounds in guards and only stop the
  environment.

`CHECK_DEADLOCK FALSE` is set where the program may stop: a universe runner
returns when every product is rejected, and a live runner whose product was
rejected waits for a switch. Where it is not set, the runs have no deadlock.
Symmetry is used in safety runs only.

### Fairness

* The runner's own steps (publishing a pending event, recovering, waking up) are
  weakly fair: they wait for nobody. `sleeper_` returns.
* Opening a session is strongly fair: an attempt may fail any number of times,
  but no venue is unreachable for good. Without it no retry can be said to help.
* Reads are **not** fair in the universe models, as a socket may be silent for
  good: `DistrustIsShown` follows from the runner's own steps. In `LiveMarket`
  something is read on an open connection, because Coinbase's heartbeats are
  subscribed to and returned by `read`, so that its liveness run is for Coinbase.
* Kraken's stream loops over heartbeats inside `read_event`
  (`src/kraken_level2_stream.cpp:359`): they do not make it return. In
  `KrakenStream` a catalogue and a snapshot are answered and the market trades,
  which is more than the code can promise of a quiet one; without the last,
  `SwitchEndsStream` fails. That is the hazard, stated as what a switch waits for.
* What is queued for an open websocket is delivered, unless it closes.
* The replay loop goes round and every interval between two columns ends
  (`interval_to_next` is finite). A control that has arrived is read only once the
  loop's due column is sent, which is why a stream of controls cannot keep a
  playing recording from its end.

## Findings

1. `heatmap_gap`: `README.md:83-85` says that when a sequence gap is detected the
   chart is marked stale and the viewer reconnects. `LiveHeatmapEngine::process`
   observes every message's sequence number but returns before it looks at the
   verdict when the message is not about the book
   (`src/live_heatmap_engine.cpp:32`). The tracker does not advance on a gap, so
   the next book message is behind the gap as well and that one marks the chart;
   until then the chart stays live with an update missing.
2. `live_market_reconnect`: `README.md:77-80` says that a switch clears the
   previous product's columns in all connected tabs. A tab whose connection broke
   around the switch, and which comes back before the new product's first column,
   is sent `pending_messages`: the state, without a reset
   (`src/live_stream.cpp:182`). It shows the old chart until that column comes,
   for good if the product is unsupported.

## What is proved

Every safety property that a run checks, the action properties and both venues'
refinements are proved; TLC alone decides the liveness properties. All theorems
hold for every universe, every set of prices and quantities, any number of pages,
messages and frames, any window, bucket width and depth. They rest on the named
assumptions of the modules, which TLC evaluates:

* of the data: prices and quantities are natural numbers (quantities positive) and
  the prices a finite set; `NoBook`, `NoQuote`, `NoData` and `Nobody` are no
  values of what they stand in for; frame numbers are timestamps;
* of the configuration, as the constructors check it or the code fixes it: delays
  are ordered and positive, bucket width and window are at least one, the depth is
  at least what a checksum covers, the universe is a list without repetitions, a
  recording has a column, and 1 is among the speeds;
* of the bounds: they are natural numbers, and there is room for a first session
  (`MaxSessions`) and for a column with its state (`Window`).

**CoinbaseUniverseProofs.** `TypeCorrect`, then `IInvHolds`: the inductive
invariant `IInv`, from which the rest follows. The properties alone are not
inductive. What they need is the agreement between three copies of the truth:
the session's books, the events that are pending, and the store.

* `FramesRecordBooks`: each frame's recorded books follow from the previous
  frame's, message by message, so that a session that accepted frame *n* - 1 and then
  *n* has frame *n*'s books (`SynchronizedCorrect`). `ReadingBegan`: what it accepted
  are all the frames from `first` to `last`.
* `PendingAgrees`: a status still pending says what the session knows *now*, and a
  book is one that the last accepted frame told. It holds because nothing is read
  while anything is pending. `LastPendingIsCurrent`: the last one pending of a product
  is the session's book. `UpdatesFindLive`: an update is published only on a live
  market, or behind another book of the product; the store would ignore it otherwise.
* `SettledAgrees`: a market with nothing pending is shown with the session's book.
  Together these give `StoreCurrent` and `LiveCorrect`.
* `LiveIsFollowed` bounds a live market's stamp by the tracker's number, from
  which `LiveMovesForward` (no rollback) follows.
* `GapIsPending`: behind a gap, a market still live has its invalidation pending;
  `NoSessionNoState` and `UntoldAreSupported`: after a failure, it is among those
  the runner still has to tell. Together `NothingLiveOutside`.
* `RejectionIsPending` and `UnsupportedIsShown` tie the session's rejections, the
  runner's and the store's, and so does what `OpenSession` subscribes to:
  `RejectionStays`.

Each step of `Next` has its own lemma or step that shows it keeps `IInv`. For the loop
of `process_frame` there is a lemma for one round and one for all of them: what a round
makes of the book (`RoundKeepsBook`) and of the events (`RoundAddsEvent`), and that any
number of rounds keeps the books the venue's but for what is missed (`LoopBooks`) and
the events in step with them (`LoopEvents`). What is missed grows by one message in two
ways only (`MissedFirst`, `MissedLater`) and is carried from frame to frame by
`MissedBetween`. The recursive functions of the loop and of the venue's books are
unrolled by `LoopStates`, whose induction is over a bounded set of numbers.

`Refinement`: `Spec => ImplementsTrustedMarkets`. Each step under `IInv` is a step
of `TrustedMarkets` or changes nothing it speaks of. The hard case is publishing a
pending book: `PendingAgrees` makes it one of those the tracker's frame told, which are
in `told` since the frame was accepted, and `LiveIsFollowed` makes it no older than
what is shown.

**KrakenUniverseProofs.** `TypeCorrect`, then `IInvHolds`, whose parts are

* `SessionAgrees`: of a product with nothing pending, the store shows what its
  adapter has (`Agrees`); of one with a pending event, that event is the last word
  (`PendingAgrees`): there are at most two batches, and what the second says is
  always that the product is unsupported;
* `UnsupportedAgrees`: the runner's own set of unsupported products is the
  store's;
* `RecoveryAgrees`: nothing stays live behind a session, and the runner never
  tells an unsupported product that it is reconnecting.

From it follow `StoreCurrent`, `UnsupportedStays` and `Refinement`. In the
refinement a trusted book shows what the venue attested because the adapter
compared the checksum of the very levels it keeps (`ReadBookShows`).

`FaithfulBooks`: a wire that carries every message in order keeps every followed
book the venue's, and no checksum of it ever fails. Two things make it so, and both
are needed.

* A fact about books, for every depth and any prices (`SameBest`): a book that has
  the best levels of another, and nothing where that has nothing, has the same best
  levels. What is cut off here and what the venue no longer tells need not be the
  same levels, but the best ones cannot differ (`ChangesLead`). It rests on
  `BestAreAmongBetter`: of the levels better than one that is cut off, as many as
  the depth are kept. Ranks are counted, not computed, so that the proof is by
  well-foundedness and not by recursion over the book.
* The invariant `FaithfulInv`, about the venue as much as about the session: every
  message leads from the book of the product's previous message to its own
  (`SentTells`), what was told last is the best of the true book (`ToldIsLast`), and
  an adapter has what the messages it was handed lead to (`AdaptersFollow`), until a
  snapshot that lacks one side.

**KrakenStreamProofs.** `ChartAttested`, from the inductive `ChartInv`: the engine
outlives its streams, so its status and its last column must agree with an adapter
that is new after each failure. It rests on `SampledHistory`, and on a fact about
depth: of finitely many prices one is the best (`BestPrice`), so that cutting to
the best levels never empties a side and a trusted snapshot is always sampled.
`TypeCorrect`, from `StreamInv`, adds that the engine has published what it has and
that no adapter keeps more levels than its depth.

**LiveStreamHubProofs.** What the others need of the window. `SampledHistory`: for
any window, bucket width, time and book, sampling keeps the columns typed and their
number bounded, and the last one is the book sampled; the lemmas say so of the
backfill's branches. `Consistent` is what an engine is between two messages: its
window in the order of time, no longer than it may be, with a number for each of
its columns. Every message and every break keeps it, and the updates that come out
of it (`Tells`), stored one by one as the hub does, make the window before it the
window after it: a replaced column, new ones, and those that were pushed out.

**HeatmapFeedProofs.** `ObservationsTrusted`: neither an engine, from either kind
of source, nor a replay samples a book between a break and the next snapshot. The
record of observations is not inductive; `TrustInv` adds what would let the next
update be sampled: a synchronized reconstructor, or an engine that is not waiting,
is trusted. `HubStoresHistory`, from `FeedInv`: the hub's columns are the engine's.
It takes that the engine has published all it has, and that no time before the last
observation comes, as a backfill from the wrong place would not fit what is stored.

`WindowShowsRecord`: the window is what was observed, no more and no less. The
property says nothing of what the next book is carried from, so the invariant
`ShowsRecord` says how the two *end*: both with the last book seen, or the record
with a break, exactly when nothing may be carried forward (`EndsLike`). With the
window in the order of time, each column shows the last book known in its bucket
(`ShowsLatest`), and a known bucket without a column is older than a full window
(`ShowsAll`). Each branch of `sample` has its lemma: the same bucket, one that
follows, a backfill of what lies between, and a backfill longer than the window.

**LiveMarketProofs.** `HubIsMirror`, from `RunnerInv`: between the steps of the
runner, hub and engine agree (`Mirrors`); while an outcome waits to be published,
the hub is what the engine was before it, and the updates lead from one to the other
(`AwaitsPublication`). Both are of a runner whose session is the hub's: one that a
switch has overtaken may say what it likes, and nothing of it is taken.

`StreamValid` and `PagesShowHub`, from `PagesInv`: of each connected page, what is
queued leads it through valid states (`Leads`, a walk of page states with one step
per message) to the hub's columns and its status. A queue's end must be known and
not only its next message, as the page may read at any time; a page that comes back
is the case in which the walk begins with what the page still has.

**ReplayPlaybackProofs.** `StreamValid`, `PageShowsPlayback` and `OnlyRewinds`, from
`IInv`. `CatchesUp` is such a walk again, from the page through what is under way to
the playback. A control takes effect when the server reads it, with the columns sent
before still under way, so that the page's own view is not inductive.

**ScannerPublicationProofs.** `CalculateIsConsistent`: for every assignment of
statuses and books to venues, no live venue's top of book beats the best bid or
offer, and both come from live venues. `TypeCorrect`; `HubCorrect` from `HubInv`,
which says where each mutex is held and by how much the hub lags behind the store: at
most by the product of the one thread inside `apply`; `PagesCorrect` from
`PageInv`: a page's queue begins with a hello or the page has a model, and its
last update of a product is the hub's, except for pages the publishing thread
has still to tell. `PagesConsistent` carries `CalculateIsConsistent` to the page:
by `RowInv` every quote that a thread computed, the hub keeps, a queue holds or a
page shows is one that `Calculate` returned, and every such quote is a consistent
row.

**Only model-checked**: the liveness properties (`DistrustIsShown` and
`SupportedProductsAreRetried` of Coinbase, `DistrustIsShown` and
`ProductsAreRediscovered` of Kraken, `SwitchEndsStream`, `DistrustReachesPages`,
`SwitchIsServed`, `LossReachesPages`, `PlayingIsShown`), as fairness and ENABLED are
out of the prover's reach, and the two findings, which are counterexamples.

There are no RECURSIVE operators. What a page has after reading its queue is a
recursive function over the queue (`ChartRead`, `StatusRead` in `LiveMarket`); the
proofs do not unroll it but show that every walk through the queue ends alike
(`EndAlike`): there is no first position at which two of them differ.

## Not modelled

* Text: JSON parsing and printing, decimal formatting, the CRC. Models start from
  what a message says; malformed ones are the failures of the read.
* Sockets, TLS, HTTP, the accept loop: their outcomes are nondeterministic.
* `src/main.cpp`, the recorder, keeps no state beyond a sequence tracker and a
  file. Of `src/replay.cpp`, the options, the statistics and the exported JSON.
* Jitter of the backoff, and time as such: no property is about durations.
* Configuration parsing, which ends before anything runs.
* Drawing, zooming and sorting in the browser.
* The stop requests: a viewer runs until its process ends.
* A websocket's thread that waits in a read while it should write
  (`src/heatmap_viewer.cpp:675`), as the socket layer's.

## Plan

Done in this order, the most important behaviour first: trust in a venue's books
(`CoinbaseUniverse` with its proofs), their publication (`ScannerPublication` with
its proofs), the heatmap's window and stream (`HeatmapFeed`), switching
(`LiveMarket`), Kraken (`KrakenUniverse`), a recording's playback
(`ReplayPlayback`); then the abstract specification of both venues
(`TrustedMarkets`, implemented by both, checked and proved), Kraken's stream and
its heartbeat loop (`KrakenStream`), the replay of a capture (`CaptureReplay`),
and the proofs about Kraken, the heatmap, the live market and the playback. No
safety property of a run is left without its theorem.

Properties that `ImplementsTrustedMarkets` made superfluous are no longer run:
`LiveTopIsVenueTop`, `NothingLiveWithoutSession` of Kraken and
`LiveBookNeverRollsBack`, which is still proved (`LiveMovesForward`).

Next:

1. `AtomicScanner`, the abstract hub in which a venue's event changes store, quote
   and hub in one step, refined by `ScannerPublication`, and its proof: `HubInv`
   already says by how much the hub lags.
2. The Coinbase stream in place of `LiveMarket`'s `Open` and `ReceiveRaw`, as
   `KrakenStream` is for the trusted branch.
3. What a *lost* message does to a Kraken adapter: which losses a checksum of fewer
   levels than the depth can hide, as `FaithfulBooks` says what a faithful wire does.
