SPECIFICATION FairSpec
CONSTANTS
  btc = btc
  eth = eth
  NoBook = NoBook
  Lost = Lost
  Product <- MCProduct
  Traded <- MCTraded
  Price <- MCPrice
  Quantity = {1}
  OpeningBook <- MCOpeningBook
  UpdateBatch <- MCUpdateBatch
  Timestamp <- MCTimestamp
  Depth = 2
  ChecksumDepth = 1
  MaxMessages = 3
  InitialDelay = 1
  MaximumDelay = 1
INVARIANTS
  TypeOK
  FaithfulWireKeepsBook
  StoreIsCurrentAtRead
PROPERTIES
  ImplementsTrustedMarkets
  UnsupportedUntilRediscovered
  DistrustIsShown
  ProductsAreRediscovered
CHECK_DEADLOCK FALSE
