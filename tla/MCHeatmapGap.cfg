SPECIFICATION Spec
CONSTANTS
  NoBook = NoBook
  Price <- MCPrice
  Quantity <- MCQuantity
  TimeBucket = 2
  MaxColumns = 3
  MaxSequence = 4
  FeedKind = {"coinbase"}
  FeedMessage <- MCFeedMessage
  FeedEvent <- MCFeedEvent
  MaxObservations = 5
INVARIANT GapMarksChartStale
