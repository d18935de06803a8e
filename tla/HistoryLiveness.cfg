\* What must happen in the end, under the fairness of FairBuyLog.
SPECIFICATION FairBuyLog
CONSTANTS
  Items = {i1}
  NoItem = NoItem
  Absent = Absent
  GoodsData = GoodsData
  MaxDay = 1
  MaxFaults = 1
  MaxOpens = 2
  MaxPending = 2
  MaxRestarts = 0
  ViewWidth = 375
  ListedBefore = {}
  BoughtBefore <- RestBoughtOnDayOne
  FirstDay = 1
PROPERTIES SubmissionEnds HistoryCatchesUp
CHECK_DEADLOCK FALSE
