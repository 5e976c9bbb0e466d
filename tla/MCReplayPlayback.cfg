SPECIFICATION FairSpec
CONSTANTS
  Total = 3
  Speed <- MCSpeed
  MaxControls = 2
  Window = 4
INVARIANTS
  TypeOK
  StreamIsValid
  PageCatchesUp
PROPERTIES
  OnlyRewindDropsColumns
  PlayingIsShown
