\* Purchases on twelve days; the user scrolls back one.
SPECIFICATION BuyLogSpec
CONSTANTS
  Items = {1, 2, 3, 4, 5, 6, 7, 8, 9, 10, 11, 12}
  NoItem = NoItem
  Absent = Absent
  GoodsData = GoodsData
  MaxDay = 12
  MaxFaults = 0
  MaxOpens = 1
  MaxPending = 2
  MaxRestarts = 0
  ViewWidth = 375
  ListedBefore = {}
  BoughtBefore <- ItemPerDay
  FirstDay = 12
INVARIANT PagerFollows
CHECK_DEADLOCK FALSE
