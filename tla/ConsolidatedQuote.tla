-------------------------- MODULE ConsolidatedQuote --------------------------
(***************************************************************************)
(* The best bid and offer over the venues of one product, and how far      *)
(* apart the venues are (src/consolidated_quote.cpp): a pure function of   *)
(* the product's entries in the market state store, one for each venue.    *)
(***************************************************************************)
EXTENDS MarketStateStore

CONSTANT NoQuote     \* std::nullopt where a quote or a metric is optional

\* In the order of the enumeration, which breaks the last tie.
Venue == {"Coinbase", "Kraken"}
Precedes(venue, other) == venue = "Coinbase" /\ other = "Kraken"

VenueQuote == [venue : Venue, price : Price, quantity : Quantity]

OptionalQuote == VenueQuote \cup {NoQuote}
Metrics       == [bid : Nat, ask : Nat, twiceMidpoint : Nat]

ASSUME NoQuoteAssumption == NoQuote \notin VenueQuote \cup Metrics

Quote == [statuses : [Venue -> VenueMarketStatus],
          bids : [Venue -> OptionalQuote], offers : [Venue -> OptionalQuote],
          bestBid : OptionalQuote, bestOffer : OptionalQuote,
          fragmentation : Metrics \cup {NoQuote}]

\* Bids are better when higher, offers when lower.
BetterPrice(side, price, other) ==
  IF side = "bid" THEN price > other ELSE price < other

\* OrderBook::best_bid and best_ask: the last key of one map, the first of the
\* other.
BestPrice(side, book) ==
  CHOOSE price \in Prices(book, side) :
    \A other \in Prices(book, side) \ {price} : BetterPrice(side, price, other)

\* What a venue quotes on one side: nothing unless it is live with that side.
TopOfBook(venue, entry, side) ==
  IF entry.status = "Live" /\ entry.book # NoBook /\ Prices(entry.book, side) # {}
  THEN [venue    |-> venue,
        price    |-> BestPrice(side, entry.book),
        quantity |-> entry.book[<<side, BestPrice(side, entry.book)>>]]
  ELSE NoQuote

\* A mutant: offers are compared as bids are.
IsBetterBid(side, candidate, current) ==
  IF candidate.price # current.price THEN candidate.price > current.price
  ELSE IF candidate.quantity # current.quantity
  THEN candidate.quantity > current.quantity
  ELSE Precedes(candidate.venue, current.venue)

\* is_better_bid and is_better_ask: by price, then by the larger quantity, then
\* by the venues' order.
IsBetter(side, candidate, current) ==
  IF candidate.price # current.price
  THEN BetterPrice(side, candidate.price, current.price)
  ELSE IF candidate.quantity # current.quantity
  THEN candidate.quantity > current.quantity
  ELSE Precedes(candidate.venue, current.venue)

Consider(side, best, candidate) ==
  IF candidate # NoQuote /\ (best = NoQuote \/ IsBetter(side, candidate, best))
  THEN candidate ELSE best

\* The loop over the states, which the store lists in the venues' order.
BestQuote(side, quotes) ==
  Consider(side, Consider(side, NoQuote, quotes["Coinbase"]), quotes["Kraken"])

Distance(price, other) == IF price < other THEN other - price ELSE price - other

\* The venues' differences and twice the midpoint they are relative to, where
\* both venues quote both sides.
Fragmentation(bids, offers) ==
  LET twiceMidpoint == BestQuote("bid", bids).price + BestQuote("offer", offers).price
  IN  IF (\E venue \in Venue : bids[venue] = NoQuote \/ offers[venue] = NoQuote)
           \/ twiceMidpoint <= 0
      THEN NoQuote
      ELSE [bid           |-> Distance(bids["Coinbase"].price, bids["Kraken"].price),
            ask           |-> Distance(offers["Coinbase"].price, offers["Kraken"].price),
            twiceMidpoint |-> twiceMidpoint]

\* ConsolidatedQuoteEngine::calculate on a product's entries.
Calculate(entries) ==
  LET bids   == [venue \in Venue |-> TopOfBook(venue, entries[venue], "bid")]
      offers == [venue \in Venue |-> TopOfBook(venue, entries[venue], "offer")]
  IN  [statuses      |-> [venue \in Venue |-> entries[venue].status],
       bids          |-> bids,
       offers        |-> offers,
       bestBid       |-> BestQuote("bid", bids),
       bestOffer     |-> BestQuote("offer", offers),
       fragmentation |-> Fragmentation(bids, offers)]

\* A quote is consistent where its best bid and offer are of venues it shows live
\* and no venue in it quotes a better one.
Unbeaten(side, best, quotes, statuses) ==
  \A venue \in Venue :
    /\ quotes[venue] # NoQuote => statuses[venue] = "Live" /\ best # NoQuote
    /\ quotes[venue] # NoQuote => ~BetterPrice(side, quotes[venue].price, best.price)
    /\ best # NoQuote => quotes[best.venue] = best

RowIsConsistent(row) ==
  /\ Unbeaten("bid", row.bestBid, row.bids, row.statuses)
  /\ Unbeaten("offer", row.bestOffer, row.offers, row.statuses)
==============================================================================
