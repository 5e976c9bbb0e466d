--------------------------- MODULE MarketStateStore --------------------------
(***************************************************************************)
(* What the rest of the program may believe about one market, a product at *)
(* a venue (src/market_state_store.cpp), and the events the venue sessions *)
(* change it with (include/venue_session.hpp, include/venue_adapter.hpp).  *)
(*                                                                         *)
(* A market's entry is a record of its status, its book (NoBook unless the *)
(* market is live) and the exchange's timestamp of the last trusted event. *)
(* A timestamp is the number of the venue's frame it stamps.               *)
(***************************************************************************)
EXTENDS OrderBook

CONSTANT Timestamp    \* the exchange's timestamps

NoTimestamp == 0      \* a value-initialized MarketTimestamp

ASSUME TimestampAssumption == NoTimestamp \in Timestamp

\* The statuses set_status accepts: it throws on Live, which only a trusted
\* snapshot may confer.
NonLiveStatus ==
  {"Unsupported", "Connecting", "WaitingForSnapshot", "Stale", "Disconnected",
   "Reconnecting"}
VenueMarketStatus == NonLiveStatus \cup {"Live"}

Entry == [status : VenueMarketStatus, book : Book \cup {NoBook}, timestamp : Timestamp]

\* VenueMarketStatusEvent and the three kinds of TrustedBookEvent.
StatusEvent(status) == [kind |-> "status", status |-> status]
BookEvent(type, book, timestamp) ==
  [kind |-> "book", type |-> type, book |-> book, timestamp |-> timestamp]
InvalidatedEvent == BookEvent("Invalidated", NoBook, NoTimestamp)

MarketEvent ==
  [kind : {"status"}, status : NonLiveStatus]
    \cup [kind : {"book"}, type : {"Snapshot", "Update"}, book : Book, timestamp : Timestamp]
    \cup {InvalidatedEvent}

\* The entry the scanner publisher creates for each configured market.
InitialEntry == [status |-> "Connecting", book |-> NoBook, timestamp |-> NoTimestamp]

\* MarketStateStore::set_status keeps the timestamp and drops the book.
SetStatus(entry, status) ==
  [status |-> status, book |-> NoBook, timestamp |-> entry.timestamp]

\* MarketStateStore::apply: a snapshot makes the market live, an update is for
\* a live market only, an invalidation makes it stale.
ApplyTrusted(entry, event) ==
  IF event.type = "Update" /\ entry.status # "Live" THEN entry
  ELSE [status    |-> IF event.type = "Invalidated" THEN "Stale" ELSE "Live",
        book      |-> event.book,
        timestamp |-> event.timestamp]

\* The visit in ScannerStatePublisher::apply that picks one of the two.
ApplyEvent(entry, event) ==
  IF event.kind = "book" THEN ApplyTrusted(entry, event)
                         ELSE SetStatus(entry, event.status)
==============================================================================
