SPECIFICATION FairSpec
CONSTANTS
  Goods = {1, 2, 3, 4}
  Category <- FirstTwoAlike
  MaxReads = 2
  MaxChanges = 3
  MaxFaults = 2
INVARIANTS
  TypeOK
  EveryGoodsHasOneRow
  RowOpensWhatItShows
PROPERTY
  ListCatchesUp
CHECK_DEADLOCK FALSE
