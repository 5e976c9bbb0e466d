SPECIFICATION FairSpec
CONSTANTS
  NoBook = NoBook
  NoStream = NoStream
  Price <- MCPrice
  Quantity = {1}
  Timestamp <- MCTimestamp
  Depth = 2
  ChecksumDepth = 1
  TimeBucket = 1
  MaxColumns = 2
  MaxSequence = 0
  BookMessageSent <- MCBookMessageSent
INVARIANTS
  TypeOK
  ChartIsAttested
PROPERTIES
  SwitchEndsStream
