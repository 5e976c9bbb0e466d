SPECIFICATION Spec
CONSTANTS
  btc = btc
  eth = eth
  NoBook = NoBook
  Product <- MCProduct
  Price <- MCPrice
  Quantity <- MCQuantity
  OpeningBook <- MCOpeningBook
  UpdateBatch <- MCUpdateBatch
  Timestamp <- MCTimestamp
  FrameLength = 2
  Traffic = 5
  MaxSequence = 3
  InitialDelay = 1
  MaximumDelay = 2
SYMMETRY MCSymmetry
INVARIANTS
  TypeOK
  SynchronizedBookIsVenueBook
  LiveBookIsVenueBook
  StoreIsCurrentAtRead
  NothingLiveWithoutSession
  LiveSessionHasNoBackoff
PROPERTIES
  ImplementsTrustedMarkets
  RejectionIsPermanent
CHECK_DEADLOCK FALSE
