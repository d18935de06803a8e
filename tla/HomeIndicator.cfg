\* A load of Home that fails.
SPECIFICATION Spec
CONSTANTS
  Items = {i1}
  NoItem = NoItem
  Absent = Absent
  GoodsData = GoodsData
  MaxDay = 1
  MaxFaults = 1
  MaxOpens = 2
  MaxPending = 2
  MaxRestarts = 0
INVARIANT HomeIndicatorOnlyWhenLoading
CHECK_DEADLOCK FALSE
