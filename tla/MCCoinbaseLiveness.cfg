SPECIFICATION FairSpec
CONSTANTS
  btc = btc
  eth = eth
  NoBook = NoBook
  Product <- MCProduct
  Price <- MCPrice
  Quantity <- MCQuantity
  OpeningBook <- MCOpeningBook
  UpdateBatch <- MCMoveBatch
  Timestamp <- MCTimestamp
  FrameLength = 1
  Traffic = 6
  MaxSequence = 3
  InitialDelay = 1
  MaximumDelay = 1
PROPERTIES
  DistrustIsShown
  SupportedProductsAreRetried
CHECK_DEADLOCK FALSE
