\* One purchase; two requests fail and the application is killed once.
SPECIFICATION BuyLogSpec
CONSTANTS
  Items = {i1}
  NoItem = NoItem
  Absent = Absent
  GoodsData = GoodsData
  MaxDay = 1
  MaxFaults = 2
  MaxOpens = 2
  MaxPending = 2
  MaxRestarts = 1
  ViewWidth = 375
  ListedBefore = {}
  BoughtBefore <- RestBoughtOnDayOne
  FirstDay = 1
PROPERTY ImplementsLogLifecycle
INVARIANTS BuyLogTypeOK OverlayExplained
CHECK_DEADLOCK FALSE
