----------------------------- MODULE KrakenStream ----------------------------
(***************************************************************************)
(* One product's heatmap from Kraken: the stream that discovers the market *)
(* and follows its book on one connection (src/kraken_level2_stream.cpp),  *)
(* under the runner that feeds an engine from it (the trusted branch of    *)
(* LiveSourceRunner::run, src/live_source.cpp).                            *)
(*                                                                         *)
(* A read blocks until the venue sends something, and what it sends is the *)
(* environment's choice.  The stream reads in loops of its own, so that    *)
(* the runner looks at its selection only between two events of the book;  *)
(* a page may select another product at any time.  A stream lives as long  *)
(* as its connection, the engine as long as the selection.  What the hub   *)
(* is told is LiveMarket's part.                                           *)
(***************************************************************************)
EXTENDS KrakenAdapter, LiveHeatmapEngine

CONSTANTS
  BookMessageSent,    \* the book messages that may come: bounds the model
  NoStream            \* null where there is no connection

ASSUME KrakenStreamAssumption ==
  /\ BookMessageSent \subseteq KrakenMessage
  /\ Timestamp \subseteq Nat
  /\ NoStream \notin Adapter

VARIABLES
  at,          \* where the runner's thread is
  adapter,     \* the stream's adapter_, none before the market is discovered
  engine,      \* the runner's engine_
  wanted,      \* whether the runner's product is the selected one
  attested     \* the checksum of the last book message read, if it was sound

vars == <<at, adapter, engine, wanted, attested>>

\* The frames that are not book messages: status and heartbeat frames; frames of
\* any other channel; objects with a channel that is no text; text that is no
\* object; acknowledgements, which may name no channel; and what a catalogue
\* frame says of the product.
Quiet      == [type |-> "quiet"]
Other      == [type |-> "other"]
Malformed  == [type |-> "malformed"]
Unparsable == [type |-> "unparsable"]
Acknowledgement ==
  [type : {"ack"}, channel : {"instrument", "book", "none"},
   result : {"success", "refused", "permanent", "malformed"}]
Catalogue ==
  [type : {"catalogue"}, listing : {"online", "offline", "unlisted", "invalid"}]
ControlFrame ==
  {Quiet, Other, Malformed, Unparsable} \cup Acknowledgement \cup Catalogue

Place == {"checking", "connecting", "discovering", "looping", "reading", "failed",
          "sleeping", "finished"}

TypeOK ==
  /\ at \in Place
  /\ adapter \in Adapter \cup {NoStream}
  /\ adapter # NoStream => \A side \in Side : Cardinality(Prices(adapter.book, side)) <= Depth
  /\ engine \in Engine
  /\ wanted \in BOOLEAN
  /\ attested \in Book
------------------------------------------------------------------------------
(***************************************************************************)
(* What the stream makes of a frame: "on" where it reads the next one,     *)
(* else the exception it throws.                                           *)
(***************************************************************************)

\* validate_subscription_acknowledgement: one of another channel is not looked
\* at, not even at whether it is malformed.
Validated(ack, expected) ==
  IF ack.channel \notin {expected, "none"} \/ ack.result = "success" THEN "on"
  ELSE IF ack.result = "permanent" /\ expected = "book" THEN "unsupported"
  ELSE "error"

\* KrakenInstrumentCatalog's parse and native_symbol: the symbol of an online
\* market, if the whole catalogue is sound and unambiguous.
NativeSymbol(listing) ==
  CASE listing = "online"                  -> "listed"
    [] listing \in {"offline", "unlisted"} -> "unsupported"
    [] listing = "invalid"                 -> "error"

\* initialize expects nothing but the catalogue.
Discovery(frame) ==
  CASE frame = Quiet            -> "on"
    [] frame.type = "ack"       -> Validated(frame, "instrument")
    [] frame.type = "catalogue" -> NativeSymbol(frame.listing)
    [] OTHER                    -> "error"

\* read_event passes over what is not about the book.
Following(frame) ==
  CASE frame = Malformed   -> "error"
    [] frame.type = "ack"  -> Validated(frame, "book")
    [] OTHER               -> "on"
------------------------------------------------------------------------------
(***************************************************************************)
(* The runner's thread.                                                    *)
(***************************************************************************)

\* The checks of should_stop that nothing but the selection decides.
CheckAt(from, to) ==
  /\ at = from /\ at' = IF wanted THEN to ELSE "finished"
  /\ adapter' = IF wanted THEN adapter ELSE NoStream
  /\ UNCHANGED <<engine, wanted, attested>>

Check ==
  \/ CheckAt("checking", "connecting")
  \/ CheckAt("looping", "reading")
  \/ CheckAt("sleeping", "checking")

\* The stream connects and asks for the catalogue.
Connect ==
  /\ at = "connecting" /\ at' = "discovering"
  /\ UNCHANGED <<adapter, engine, wanted, attested>>

\* An exception destroys the stream; that of an unsupported market ends run.
Throws(exception) ==
  /\ at' = IF exception = "unsupported" THEN "finished" ELSE "failed"
  /\ adapter' = NoStream
  /\ UNCHANGED <<engine, wanted, attested>>

\* Whatever connects, reads or writes may throw.
ConnectionFails == at \in {"connecting", "discovering", "reading"} /\ Throws("error")

\* A turn of initialize: a listed market's book is subscribed to.
Discover(frame) ==
  /\ at = "discovering"
  /\ \/ /\ Discovery(frame) = "listed"
        /\ at' = "looping"
        /\ adapter' = NewAdapter
        /\ UNCHANGED <<engine, wanted, attested>>
     \/ Discovery(frame) = "on" /\ UNCHANGED vars
     \/ Discovery(frame) \in {"unsupported", "error"} /\ Throws(Discovery(frame))

\* A mutant: an invalidation is not the end of the connection.
SurvivesInvalidation(event, next) ==
  IF ~wanted THEN at' = "finished" /\ adapter' = NoStream /\ UNCHANGED engine
  ELSE IF Refuses(engine, event)
  THEN at' = "failed" /\ adapter' = NoStream /\ UNCHANGED engine
  ELSE IF event.type = "Invalidated"
  THEN at' = "looping" /\ adapter' = next /\ UNCHANGED engine
  ELSE /\ engine' = ProcessTrusted(engine, event).engine
       /\ at' = "looping" /\ adapter' = next

\* What run does with an event, unless the selection has changed: one the engine
\* refuses is an exception at once, an invalidation once it is processed.
Handle(event, next) ==
  IF ~wanted THEN at' = "finished" /\ adapter' = NoStream /\ UNCHANGED engine
  ELSE IF Refuses(engine, event)
  THEN at' = "failed" /\ adapter' = NoStream /\ UNCHANGED engine
  ELSE /\ engine' = ProcessTrusted(engine, event).engine
       /\ IF event.type = "Invalidated"
          THEN at' = "failed" /\ adapter' = NoStream
          ELSE at' = "looping" /\ adapter' = next

\* A turn of read_event on anything but a book message.  Text that is no object
\* goes to the adapter, which takes it for a broken book message.
ReadControl(frame) ==
  /\ at = "reading"
  /\ IF frame = Unparsable
     THEN /\ Handle([type |-> "Invalidated"], Invalidation(adapter))
          /\ UNCHANGED <<wanted, attested>>
     ELSE IF Following(frame) = "on" THEN UNCHANGED vars
     ELSE Throws(Following(frame))

\* The adapter's event as the engine takes it.
EventFor(message, time) ==
  LET event == EventOf(adapter, message, time)
  IN  IF event.type = "Invalidated" THEN [type |-> "Invalidated"]
      ELSE [type |-> event.type, time |-> event.timestamp, book |-> event.book]

\* A mutant: an update is not handed to the runner until the next snapshot.
ReadBookHoldingUpdates(message, time) ==
  /\ at = "reading"
  /\ attested' = message.checksum
  /\ IF message.type = "update"
     THEN adapter' = ProcessBook(adapter, message, time) /\ UNCHANGED <<at, engine>>
     ELSE Handle(EventFor(message, time), ProcessBook(adapter, message, time))
  /\ UNCHANGED wanted

\* A turn of read_event on a book message.
ReadBook(message, time) ==
  /\ at = "reading"
  /\ attested' = message.checksum
  /\ IF Ignores(adapter, message) THEN UNCHANGED <<at, adapter, engine>>
     ELSE Handle(EventFor(message, time), ProcessBook(adapter, message, time))
  /\ UNCHANGED wanted

\* The catch of run: the engine recovers and the runner sleeps, unless the
\* selection has changed.
Recover ==
  /\ at = "failed"
  /\ IF wanted THEN at' = "sleeping" /\ engine' = BeginRecovery(engine)
               ELSE at' = "finished" /\ UNCHANGED engine
  /\ UNCHANGED <<adapter, wanted, attested>>

\* LiveMarketService::run makes a runner for the next selection.
NextRunner ==
  /\ at = "finished" /\ ~wanted
  /\ at' = "checking"
  /\ engine' = NewEngine
  /\ wanted' = TRUE
  /\ UNCHANGED <<adapter, attested>>

\* switch_product, on another thread.
SwitchProduct == wanted /\ wanted' = FALSE /\ UNCHANGED <<at, adapter, engine, attested>>
------------------------------------------------------------------------------
Init ==
  /\ at = "checking"
  /\ adapter = NoStream
  /\ engine = NewEngine
  /\ wanted = TRUE
  /\ attested = EmptyBook

Next ==
  \/ Check \/ Connect \/ ConnectionFails \/ Recover \/ NextRunner \/ SwitchProduct
  \/ \E frame \in ControlFrame : Discover(frame) \/ ReadControl(frame)
  \/ \E message \in BookMessageSent, time \in Timestamp : ReadBook(message, time)

Spec == Init /\ [][Next]_vars

\* Whether the adapter has a book.
Followed == adapter # NoStream /\ adapter.status = "Live"

BookComes(type) ==
  \E message \in BookMessageSent, time \in Timestamp :
    message.type = type /\ ReadBook(message, time)

\* The runner's thread is scheduled, and its sleep and a connection attempt end.
\* Kraken answers a subscription with its catalogue or its snapshot, if not with
\* a failure, and the market trades: heartbeats alone do not make read_event
\* return.
Fairness ==
  /\ WF_vars(Check \/ Recover \/ NextRunner)
  /\ WF_vars(Connect)
  /\ WF_vars(\E frame \in Catalogue : Discover(frame))
  /\ WF_vars(~Followed /\ BookComes("snapshot"))
  /\ WF_vars(Followed /\ BookComes("update"))

FairSpec == Spec /\ Fairness
------------------------------------------------------------------------------
(***************************************************************************)
(* Correctness.                                                            *)
(***************************************************************************)

\* But in the moment between an exception and its catch, the engine is live
\* exactly when the stream of the present connection has a book, and the chart
\* ends with that book, whose best levels the venue attested with its last
\* message: through invalidations, broken connections and reconnections, each
\* with a new stream, under one engine (read_event, process, begin_recovery).
ChartIsAttested ==
  at \notin {"failed", "finished"} =>
    /\ engine.status = "Live" <=> Followed
    /\ Followed /\ TwoSided(adapter.book) =>
         /\ LastOf(engine.history.columns).book = adapter.book
         /\ Checksum(adapter.book) = attested

\* The runner of a product that is no longer selected comes to its end while the
\* market trades, whatever its stream was doing, so that the selected product
\* gets its own.
SwitchEndsStream == ~wanted ~> wanted
==============================================================================
