SPECIFICATION Spec
CONSTANTS
  btc = btc
  eth = eth
  NoBook = NoBook
  NoData = NoData
  Product <- MCProduct
  Page = {tab}
  Price <- MCPrice
  Quantity = {1, 2}
  TimeBucket = 1
  MaxColumns = 2
  MaxSequence = 2
  FeedKind = {"coinbase"}
  FeedMessage <- MCFeedMessage
  FeedEvent <- MCFeedEvent
  MaxSessions = 2
  MaxReceived = 3
  MaxFailures = 2
SYMMETRY MCSymmetry
CHECK_DEADLOCK FALSE
INVARIANTS
  ConnectedPagesShowSelection
