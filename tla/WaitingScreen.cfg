\* A screen submits while a snapshot is on its way to Home; nothing fails.
SPECIFICATION Spec
CONSTANTS
  Items = {i1}
  NoItem = NoItem
  Absent = Absent
  GoodsData = GoodsData
  MaxDay = 1
  MaxFaults = 0
  MaxOpens = 2
  MaxPending = 2
  MaxRestarts = 0
INVARIANT WaitingScreenIsCovered
CHECK_DEADLOCK FALSE
