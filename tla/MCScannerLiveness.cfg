SPECIFICATION FairSpec
CONSTANTS
  btc = btc
  eth = eth
  NoBook = NoBook
  NoQuote = NoQuote
  Nobody = Nobody
  Universe <- MCTwoProducts
  Subscriber = {page1}
  Price = {1, 2, 3}
  Quantity = {1}
  Timestamp <- MCTimestamp
  FeedEvent <- MCFeedEvent
  MaxEvents = 3
PROPERTIES
  DistrustReachesPages
