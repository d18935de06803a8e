\* One item; two requests fail and the application is killed once.
SPECIFICATION Spec
CONSTANTS
  Items = {i1}
  NoItem = NoItem
  Absent = Absent
  GoodsData = GoodsData
  MaxDay = 1
  MaxFaults = 2
  MaxOpens = 3
  MaxPending = 2
  MaxRestarts = 1
PROPERTIES NoLoss ImplementsLifecycle
INVARIANTS TypeOK CountBounded HomeCoherent OverlayJustified
CHECK_DEADLOCK FALSE
