SPECIFICATION FairSpec
CONSTANTS
  btc = btc
  eth = eth
  NoBook = NoBook
  NoData = NoData
  Product <- MCProduct
  Page = {tab}
  Price <- MCPrice
  Quantity = {1, 2}
  TimeBucket = 1
  MaxColumns = 2
  MaxSequence = 2
  FeedKind = {"coinbase"}
  FeedMessage <- MCFeedMessage
  FeedEvent <- MCFeedEvent
  MaxSessions = 2
  MaxReceived = 2
  MaxFailures = 1
CHECK_DEADLOCK FALSE
PROPERTIES
  SwitchIsServed
  LossReachesPages
