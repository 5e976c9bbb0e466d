SPECIFICATION Spec
CONSTANTS
  btc = btc
  eth = eth
  NoBook = NoBook
  NoQuote = NoQuote
  Nobody = Nobody
  Universe <- MCOneProduct
  Subscriber = {page1, page2}
  Price = {1, 2, 3}
  Quantity = {1}
  Timestamp <- MCTimestamp
  FeedEvent <- MCFeedEvent
  MaxEvents = 4
SYMMETRY MCSymmetry
INVARIANTS
  TypeOK
  HubShowsStore
  PagesCatchUp
  PagesAreConsistent
