\* A purchase of yesterday, an item still on the list; nothing fails.
SPECIFICATION BuyLogSpec
CONSTANTS
  Items = {i1, i2}
  NoItem = NoItem
  Absent = Absent
  GoodsData = GoodsData
  MaxDay = 2
  MaxFaults = 0
  MaxOpens = 3
  MaxPending = 2
  MaxRestarts = 0
  ViewWidth = 375
  ListedBefore = {i2}
  BoughtBefore <- RestBoughtOnDayOne
  FirstDay = 2
INVARIANTS
  Conserved
  DayCountWithin
  HistoryFresh
  PagerFollows
PROPERTY
  IndexKept
CHECK_DEADLOCK FALSE
